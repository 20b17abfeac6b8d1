-------------------------------- MODULE Review --------------------------------
(* The heartbeat's question to the owner (services/heartbeat-service.ts):    *)
(* facts it would like confirmed and facts a model holds for outdated are    *)
(* written to one pending file and shown with numbers in a report that goes  *)
(* out minutes later; !heartbeat yes, no N and no (commands/builtin.ts) act  *)
(* on the file as it is when the command comes.  A model or graph call is an *)
(* await, so commands and a restart come in between; and once the question   *)
(* is written, the heartbeat has the memory cleaned up, which merges facts   *)
(* away (tools/memory-cleanup.ts).  The facts that it writes are left out.   *)
(*                                                                           *)
(* Dates are left out: a review may be due at any heartbeat (the marker),    *)
(* any fact may have been proposed lately (the ledger), and as the file is   *)
(* ordered by age, what has expired is a first part of it - never of a batch *)
(* this heartbeat has just written.  Facts are told apart by their text.     *)
EXTENDS Integers, Sequences, FiniteSets

CONSTANTS
    Facts,
    Commands,     \* !heartbeat no messages that may overlap
    ReviewCount,  \* selectReviewCandidates(senderId, 3)
    MaxStale,     \* MAX_STALE_PROPOSALS
    Distrust,     \* STALE_BATCH_DISTRUST_THRESHOLD
    MaxPending,   \* MAX_PENDING_REVIEW_FACTS
    None

VARIABLES
    facts,      \* the facts stored
    file,       \* the facts of the pending file, or None
    beat,       \* the heartbeat that runs: what it will ask, under which number,
                \* and, as history, whether the owner answered and which facts
                \* were merged away meanwhile
    screen,     \* what the owner looks at: <<number, fact>>
    cmd,        \* the commands that await the graph, with their copy of the file
    answered,   \* history: facts answered and not asked about since
    crossed     \* history: a command wrote a file that was no longer its copy

vars == <<facts, file, beat, screen, cmd, answered, crossed>>

Lists == UNION {[1..n -> Facts] : n \in 0..Cardinality(Facts)}
InList(s) == {s[i] : i \in DOMAIN s}

(* What is left of a list without those facts. *)
Without(s, out) ==
    LET left[n \in 0..Len(s)] ==
            IF n = 0 THEN <<>>
            ELSE IF s[n] \in out THEN left[n - 1] ELSE Append(left[n - 1], s[n])
    IN left[Len(s)]

Distinct(s) == \A i, j \in DOMAIN s : s[i] = s[j] => i = j
Orders(S) == {s \in Lists : Distinct(s) /\ InList(s) \subseteq S}

Pending == IF file = None THEN <<>> ELSE file
Numbered(s) == {<<i, s[i]>> : i \in DOMAIN s}

Quiet == [pc |-> "idle", asks |-> {}, touched |-> FALSE, merged |-> {}]
Idle == [pc |-> "idle", copy |-> <<>>, todo |-> <<>>]

TypeOK ==
    /\ facts \subseteq Facts /\ file \in Lists \cup {None}
    /\ beat.pc \in {"idle", "cleaning", "thinking", "reporting"}
    /\ beat.touched \in BOOLEAN /\ beat.merged \subseteq Facts
    /\ \A p \in beat.asks \cup screen : p[1] \in 1..MaxPending /\ p[2] \in Facts
    /\ \A c \in Commands : /\ cmd[c].pc \in {"idle", "one", "all"}
                           /\ {cmd[c].copy, cmd[c].todo} \subseteq Lists
    /\ crossed \in BOOLEAN /\ answered \subseteq Facts

Init == /\ facts = Facts /\ file = None /\ beat = Quiet /\ screen = {}
        /\ cmd = [c \in Commands |-> Idle] /\ answered = {} /\ crossed = FALSE
-----------------------------------------------------------------------------
(* The heartbeat *)

(* Facts are chosen for review unless a batch waits for its answer.          *)
BeatStarts ==
    /\ beat.pc = "idle"
    /\ \E s \in Orders(facts) :
          /\ Len(s) <= ReviewCount
          /\ s # <<>> => file = None
          /\ file' = IF s = <<>> THEN file ELSE s
          /\ answered' = answered \ InList(s)
          /\ beat' = [Quiet EXCEPT !.pc = "cleaning", !.asks = Numbered(s)]
    /\ UNCHANGED <<facts, screen, cmd, crossed>>

MergesAway(gone) ==
    /\ gone \subseteq facts /\ facts' = facts \ gone
    /\ UNCHANGED <<file, screen, cmd, answered, crossed>>

(* The memory_cleanup of the heartbeat merges facts away: at once those that *)
(* are parts or rewordings of others, and those that a model judges the same *)
(* after awaits.  What it took out, the pending file keeps.  When it is over *)
(* the model is asked about all facts.                                       *)
Cleans(gone, over) ==
    /\ beat.pc = "cleaning" /\ MergesAway(gone)
    /\ beat' = [beat EXCEPT !.merged = @ \cup gone, !.pc = IF over THEN "thinking" ELSE @]

(* !cleanup does the same at any time (commands/builtin.ts).                 *)
CleanUp(gone) ==
    /\ gone # {} /\ MergesAway(gone)
    /\ beat' = IF beat.pc = "idle" THEN beat ELSE [beat EXCEPT !.merged = @ \cup gone]

(* What is not yet on the list is added at its end while there is room. *)
Merged(kept, matched) ==
    LET news == Without(matched, InList(kept))
        room == MaxPending - Len(kept)
    IN kept \o SubSeq(news, 1, IF Len(news) < room THEN Len(news) ELSE room)

(* What is left of the file when its oldest entries have expired. *)
Unexpired ==
    IF beat.asks # {} THEN {Pending}
    ELSE {SubSeq(Pending, n, Len(Pending)) : n \in 1..Len(Pending) + 1}

(* proposeStaleFactsForReview, for the facts the model names: too many are   *)
(* not believed, those proposed lately are left out.                         *)
Nominates(named) ==
    /\ beat.pc = "thinking" /\ named \subseteq facts
    /\ \E matched \in Orders(named) :
          /\ Len(matched) <= MaxStale
          /\ Cardinality(named) > Distrust => matched = <<>>
          /\ IF matched = <<>>
             THEN /\ beat' = [beat EXCEPT !.pc = "reporting"]
                  /\ UNCHANGED <<file, answered>>
             ELSE \E kept \in Unexpired :
                  LET merged == Merged(kept, matched)
                      proposed == {p \in Numbered(merged) : p[2] \in InList(matched)}
                  IN /\ file' = merged
                     /\ answered' = answered \ {p[2] : p \in proposed}
                     /\ beat' = [beat EXCEPT !.pc = "reporting", !.asks = @ \cup proposed]
    /\ UNCHANGED <<facts, screen, cmd, crossed>>

(* After tasks, behaviour and inbox the report goes out, or the send fails.  *)
Reported(sent) ==
    /\ beat.pc = "reporting" /\ beat' = Quiet
    /\ screen' = IF sent /\ beat.asks # {} THEN beat.asks ELSE screen
    /\ UNCHANGED <<facts, file, cmd, answered, crossed>>
-----------------------------------------------------------------------------
(* !heartbeat.  The owner answers what is on the screen. *)

Touched == beat' = [beat EXCEPT !.touched = TRUE]

(* yes: all are confirmed, the file goes. *)
Yes ==
    /\ screen # {} /\ file # None
    /\ answered' = answered \cup InList(file) /\ file' = None /\ screen' = {}
    /\ Touched /\ UNCHANGED <<facts, cmd, crossed>>

(* !heartbeat: the file with its numbers; so does a number it does not have. *)
List == /\ file # None /\ screen' = Numbered(file)
        /\ UNCHANGED <<facts, file, beat, cmd, answered, crossed>>

(* A fact leaves the store; then the graph is awaited. *)
Removes(f) == facts' = facts \ {f} /\ answered' = answered \cup {f}

(* no N: the N-th of the file. *)
No(c, n) ==
    /\ cmd[c].pc = "idle" /\ \E f \in Facts : <<n, f>> \in screen
    /\ file # None /\ n \in DOMAIN file
    /\ Removes(file[n])
    /\ cmd' = [cmd EXCEPT ![c] = [pc |-> "one", copy |-> file, todo |-> <<file[n]>>]]
    /\ Touched /\ UNCHANGED <<file, screen, crossed>>

(* no: all of the file, one after the other (MaxPending keeps it short       *)
(* enough for a bare "no").                                                  *)
NoAll(c) ==
    /\ cmd[c].pc = "idle" /\ screen # {} /\ file # None
    /\ Removes(file[1])
    /\ cmd' = [cmd EXCEPT ![c] = [pc |-> "all", copy |-> file, todo |-> file]]
    /\ Touched /\ UNCHANGED <<file, screen, crossed>>

(* The graph has removed one of several. *)
NextRemoved(c) ==
    /\ Len(cmd[c].todo) > 1
    /\ Removes(cmd[c].todo[2])
    /\ cmd' = [cmd EXCEPT ![c].todo = Tail(@)]
    /\ Touched /\ UNCHANGED <<file, screen, crossed>>

(* What is left of the copy; no file when it was all of it. *)
Rest(c) ==
    LET left == Without(cmd[c].copy, {cmd[c].todo[1]})
    IN IF cmd[c].pc = "all" \/ left = <<>> THEN None ELSE left

(* The file is written from the copy, or unlinked: the numbers shift and the *)
(* reply shows them.                                                         *)
LastRemoved(c) ==
    /\ Len(cmd[c].todo) = 1
    /\ crossed' = (crossed \/ file # cmd[c].copy)
    /\ LET rest == Rest(c)
       IN file' = rest /\ screen' = IF rest = None THEN {} ELSE Numbered(rest)
    /\ cmd' = [cmd EXCEPT ![c] = Idle]
    /\ Touched /\ UNCHANGED <<facts, answered>>
-----------------------------------------------------------------------------
(* Files and the screen stay. *)
Restart ==
    /\ beat # Quiet \/ \E c \in Commands : cmd[c] # Idle
    /\ beat' = Quiet /\ cmd' = [c \in Commands |-> Idle]
    /\ crossed' = (crossed \/ \E c \in Commands : cmd[c] # Idle)
    /\ UNCHANGED <<facts, file, screen, answered>>

Next ==
    \/ BeatStarts
    \/ \E gone \in SUBSET Facts : CleanUp(gone) \/ \E over \in BOOLEAN : Cleans(gone, over)
    \/ (\E named \in SUBSET Facts : Nominates(named))
    \/ (\E sent \in BOOLEAN : Reported(sent))
    \/ Yes \/ List \/ Restart
    \/ \E c \in Commands :
          \/ \E n \in 1..MaxPending : No(c, n)
          \/ NoAll(c) \/ NextRemoved(c) \/ LastRemoved(c)

Spec == Init /\ [][Next]_vars
-----------------------------------------------------------------------------
(* Properties *)

(* The pending file holds a batch that can be read at a glance and names     *)
(* nothing twice, however reviews, proposals and answers mix; a file that    *)
(* exists is never empty (heartbeat-service.ts:57, July 30 incident).        *)
ListIsShort == file # None => Len(file) \in 1..MaxPending /\ Distinct(file)

(* The numbers of a report are those of the file when it goes out minutes    *)
(* later, both of the facts to confirm and of the outdated ones, unless the  *)
(* owner answered meanwhile (heartbeat-service.ts:79).  The facts are those  *)
(* stored, but what a cleanup merged away since they were chosen: that one   *)
(* asks about all the same (heartbeat-service.ts:389 and 400).               *)
NumbersAreTrue ==
    beat.pc = "reporting" /\ ~beat.touched =>
        /\ beat.asks \subseteq Numbered(Pending)
        /\ {p[2] : p \in beat.asks} \subseteq facts \cup beat.merged

(* What the owner answered is not asked again, until a heartbeat asks anew;  *)
(* except after commands that overlapped with another writer of the file.    *)
AnsweredIsGone ==
    ~crossed /\ (\A c \in Commands : cmd[c] = Idle) => answered \cap InList(Pending) = {}

=============================================================================
