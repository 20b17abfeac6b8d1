----------------------------- MODULE Experiences -----------------------------
(* What worked and what did not, judged by the owner's signals (learnings/   *)
(* experience-harvester.ts, experience-synthesis.ts, and the store,          *)
(* memory/experience-store.ts), and by merges of the program's own code.     *)
(*                                                                           *)
(* A text is a shape of task, or a commit, with the verdict on it.  Texts of *)
(* one shape and verdict lie within the distance of a duplicate.  So may any *)
(* others with the same verdict: those of two merges are near-identical.     *)
(* Those with the other verdict may lie in the band of contradiction, or     *)
(* closer, in none.                                                          *)
EXTENDS Integers, FiniteSets, Sequences

CONSTANTS
    Shapes,    \* of tasks
    Commits,   \* merges
    Window,    \* signals a cycle looks at
    Distrust,  \* a batch of that size, all kept, is distrusted
    MaxNew,    \* new experiences of one cycle
    MaxLog,    \* bound: signals, and merges and rollbacks recorded
    Near,      \* nodes the search for a duplicate looks at: 3
    MaxReplays \* bound: writes whose marker was not written

VARIABLES
    log,     \* the signals: verdict, and whether it was given explicitly
    mark,    \* last-experience-harvest.json
    nodes,   \* the Experience nodes, by id
    cycle,   \* the heartbeat's cycle
    credit,  \* deploy.json, deploy-failed.json: the node a merge is to be known by, or 0
    told,    \* history: merges and rollbacks recorded
    replays, \* history: writes whose marker was not written
    passed   \* history: signals that had to give way to older ones

vars == <<log, mark, nodes, cycle, credit, told, replays, passed>>

Signals == [up : BOOLEAN, explicit : BOOLEAN]
Strength(i) == IF log[i].explicit THEN 2 ELSE 1
Idle == [pc |-> "idle", newest |-> 0, cands |-> {}, left |-> {}, heard |-> FALSE, new |-> 0]

TypeOK ==
    /\ log \in Seq(Signals) /\ mark \in 0..Len(log)
    /\ \A i \in DOMAIN nodes :
          /\ nodes[i].text \in (Shapes \cup Commits) \X BOOLEAN
          /\ nodes[i].ev \in Nat \ {0} /\ nodes[i].live \in BOOLEAN
    /\ cycle.pc \in {"idle", "synth", "save"} /\ cycle.cands \subseteq 1..Len(log)
    /\ cycle.left \subseteq cycle.cands \X Shapes 
    /\ credit \in [Commits -> {0} \cup DOMAIN nodes] /\ told \in 0..MaxLog

Init ==
    /\ log = <<>> /\ mark = 0 /\ nodes = <<>> /\ cycle = Idle
    /\ credit = [c \in Commits |-> 0] /\ told = 0 /\ replays = 0 /\ passed = {}

Signal(s) == /\ Len(log) + told < MaxLog /\ log' = Append(log, s)
             /\ UNCHANGED <<mark, nodes, cycle, credit, told, replays, passed>>
-----------------------------------------------------------------------------
(* The store *)

Live == {i \in DOMAIN nodes : nodes[i].live}

Alike(text) == {i \in Live : nodes[i].text[2] = text[2]}
Others(text) == {i \in DOMAIN nodes : i \notin Alike(text)}

New(text, ev) == [text |-> text, ev |-> ev, live |-> TRUE]

(* Mutant: what is reinforced is made anew, too. *)
ReinforcedToo(text, ev, id) ==
    /\ id = Len(nodes) + 1
    /\ nodes' = Append([i \in DOMAIN nodes |->
                 [nodes[i] EXCEPT !.ev = IF i \in Live /\ nodes[i].text = text THEN @ + ev ELSE @]],
                 New(text, ev))

(* save: a live node id near the text is reinforced; or the node id is made, *)
(* and supersedes one that says the opposite.  The search looks at the Near  *)
(* nearest of all nodes: when so many of them do not count, a live one that  *)
(* says the same may be missed.                                              *)
Saved(text, ev, id) ==
    \/ id \in Alike(text) /\ nodes' = [nodes EXCEPT ![id].ev = @ + ev]
    \/ /\ (\A i \in Live : nodes[i].text # text) \/ Cardinality(Others(text)) >= Near
       /\ id = Len(nodes) + 1
       /\ \E over \in {0} \cup (Live \ Alike(text)) :
             nodes' = Append([i \in DOMAIN nodes |-> [nodes[i] EXCEPT !.live = @ /\ i # over]],
                             New(text, ev))

(* The commit has a node. *)
Known(c) == {i \in DOMAIN nodes : nodes[i].text[1] = c}

(* The merge of a commit is recorded, or the write fails, and the deploy     *)
(* marker keeps the node's id, when there is one.  After a crash, once more. *)
Merge(c) ==
    /\ \/ /\ \E id \in {0} \cup Known(c) : credit' = [credit EXCEPT ![c] = id]
          /\ UNCHANGED <<nodes, told, replays>>
       \/ /\ Known(c) = {} /\ Len(log) + told < MaxLog /\ told' = told + 1
          /\ \E id \in 1..(Len(nodes) + 1) :
                /\ Saved(<<c, TRUE>>, 1, id)
                /\ \/ (\E n \in {0, id} : credit' = [credit EXCEPT ![c] = n]) /\ UNCHANGED replays
                   \/ replays < MaxReplays /\ replays' = replays + 1 /\ UNCHANGED credit
    /\ UNCHANGED <<log, mark, cycle, passed>>

(* supersedeById: the merge was rolled back; after a crash, once more. *)
Rollback(c) ==
    /\ credit[c] # 0 /\ Len(log) + told < MaxLog /\ told' = told + 1
    /\ nodes' = Append([nodes EXCEPT ![credit[c]].live = FALSE], New(<<c, FALSE>>, 1))
    /\ UNCHANGED <<log, mark, cycle, credit, replays, passed>>

(* !experiences drop *)
Archive(i) ==
    /\ i \in Live /\ nodes[i].text[1] \in Shapes /\ nodes' = [nodes EXCEPT ![i].live = FALSE]
    /\ UNCHANGED <<log, mark, cycle, credit, told, replays, passed>>
-----------------------------------------------------------------------------
(* The heartbeat's cycle *)

Newest(new) == {i \in new : Cardinality({j \in new : j > i}) < Window}

Harvest ==
    /\ cycle.pc = "idle" /\ mark < Len(log)
    /\ LET new == (mark + 1)..Len(log) taken == Newest(new)
       IN /\ cycle' = [Idle EXCEPT !.pc = "synth", !.newest = Len(log), !.cands = taken]
          /\ passed' = passed \cup {i \in new \ taken : \E j \in taken : j < i}
    /\ UNCHANGED <<log, mark, nodes, credit, told, replays>>

(* The model gives a shape and whether it is worth keeping, or fails; what   *)
(* was said explicitly is kept all the same.                                 *)
Judged(says) == {i \in DOMAIN says : says[i].is # "failed"}
Kept(says) == {i \in Judged(says) : log[i].explicit \/ says[i].is = "worth"}
Distrusted(says) == Cardinality(Judged(says)) >= Distrust /\ Kept(says) = Judged(says)

(* Where the marker goes: nowhere, when every call failed. *)
Reached == IF cycle.heard THEN cycle.newest ELSE mark

Synthesize ==
    /\ cycle.pc = "synth"
    /\ \E says \in [cycle.cands -> [shape : Shapes, is : {"failed", "worth", "worthless"}]] :
          IF Distrusted(says)
          THEN /\ mark' = cycle.newest /\ cycle' = Idle
          ELSE /\ cycle' = [cycle EXCEPT !.pc = "save", !.heard = Judged(says) # {},
                                !.left = {<<i, says[i].shape>> : i \in Kept(says)}]
               /\ UNCHANGED mark
    /\ UNCHANGED <<log, nodes, credit, told, replays, passed>>

(* The newest keeper is saved; the database may be down (nothing is saved,   *)
(* the next one is tried), or be lost on the way (the cycle ends).           *)
Keep ==
    /\ cycle.pc = "save" /\ cycle.left # {} /\ cycle.new < MaxNew
    /\ \E k \in cycle.left :
          LET text == <<k[2], log[k[1]].up>>
              Saves == \E id \in 1..(Len(nodes) + 1) : Saved(text, Strength(k[1]), id)
          IN /\ \A l \in cycle.left : l[1] <= k[1]
             /\ \/ /\ Saves
                   /\ cycle' = [cycle EXCEPT !.left = @ \ {k},
                                             !.new = @ + Len(nodes') - Len(nodes)]
                   /\ UNCHANGED replays
                \/ cycle' = [cycle EXCEPT !.left = @ \ {k}] /\ UNCHANGED <<nodes, replays>>
                \/ Saves /\ replays < MaxReplays /\ replays' = replays + 1 /\ cycle' = Idle
    /\ UNCHANGED <<log, mark, credit, told, passed>>

Done ==
    /\ cycle.pc = "save" /\ (cycle.left = {} \/ cycle.new = MaxNew)
    /\ mark' = Reached /\ cycle' = Idle
    /\ UNCHANGED <<log, nodes, credit, told, replays, passed>>

(* The process ends within a cycle. *)
Crash ==
    /\ cycle.pc # "idle" /\ replays < MaxReplays /\ replays' = replays + 1
    /\ cycle' = Idle /\ UNCHANGED <<log, mark, nodes, credit, told, passed>>

Next ==
    \/ \E s \in Signals : Signal(s)
    \/ \E c \in Commits : Merge(c) \/ Rollback(c)
    \/ \E i \in DOMAIN nodes : Archive(i)
    \/ Harvest \/ Synthesize \/ Keep \/ Done \/ Crash

Spec == Init /\ [][Next]_vars
-----------------------------------------------------------------------------
(* Properties *)

(* The sum of f over S, in units. *)
Sum(S, f(_)) == Cardinality(UNION {{x} \X (1..f(x)) : x \in S})
Evidence(i) == nodes[i].ev

(* All evidence together is no more than what the owner's signals and the    *)
(* deployments gave: none counts twice, however often the heartbeat reads.   *)
(* Only a cycle that ended before its marker was written counts again.       *)
EvidenceIsSignals == replays = 0 =>
    Sum(DOMAIN nodes, Evidence) <=
        told + Sum(1..(IF cycle.pc = "save" THEN cycle.newest ELSE mark), Strength)

(* No two live experiences say the same of a kind of task, as long as fewer  *)
(* than Near nodes are superseded or say the opposite.                       *)
LiveOnce == \A i, j \in Live :
    nodes[i].text[1] \in Shapes /\ nodes[i].text = nodes[j].text =>
        i = j \/ Cardinality(Others(nodes[i].text)) >= Near

(* A commit has one experience that says it worked, however often its merge  *)
(* is recorded; and once a rollback was recorded, that one does not live.    *)
CommitOnce == \A i, j \in DOMAIN nodes : nodes[i].text[1] \in Commits /\ nodes[i].text[2] =>
    /\ nodes[i].text = nodes[j].text => i = j
    /\ replays = 0 /\ nodes[j].text = <<nodes[i].text[1], FALSE>> => ~nodes[i].live

(* "recent signals must never lose to historic backlog" *)
RecentFirst == passed = {}

=============================================================================
