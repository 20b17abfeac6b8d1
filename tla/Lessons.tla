------------------------------- MODULE Lessons -------------------------------
(* What failures teach: each heartbeat reads the failures logged since its   *)
(* marker, has a model put each in a lesson, and keeps what passes the       *)
(* guards (learnings/lesson-harvester.ts, lesson-synthesis.ts and            *)
(* lesson-store.ts).  A lesson steers dispatches once it has evidence twice. *)
(* The process may end at any await; the owner may archive a lesson.         *)
EXTENDS Integers, FiniteSets, Sequences

CONSTANTS
    Slugs,     \* names the model gives a lesson
    Often,     \* failures of one tool that make a candidate
    MaxCands,  \* candidates of one cycle
    Distrust,  \* a batch of that size, all kept, is distrusted
    MaxNew,    \* new lessons of one cycle
    MaxLog,    \* bound: failures logged, the heartbeat's own not counted
    MaxReplays \* bound: cycles that end before the marker is written

VARIABLES
    log,      \* metrics.jsonl: the kinds of the failures; a place is a time
    mark,     \* last-harvest.json
    lessons,  \* evidence of each lesson; 0: no file
    cycle,    \* the heartbeat's cycle
    seen,     \* history: the markers at which a lesson was given evidence
    replays,  \* history: cycles whose marker was not written
    silenced  \* history: candidates that a guard against noise dropped

vars == <<log, mark, lessons, cycle, seen, replays, silenced>>

Kinds == {"tool", "rejected", "dead"}
Idle == [pc |-> "idle", newest |-> 0, cands |-> {}, left |-> {},
         heard |-> FALSE, touched |-> {}, fresh |-> {}]

TypeOK ==
    /\ log \in Seq(Kinds) /\ mark \in 0..Len(log)
    /\ lessons \in [Slugs -> 0..Len(log) + MaxReplays]
    /\ cycle.pc \in {"idle", "synth", "save"} /\ cycle.newest \in 0..Len(log)
    /\ cycle.left \subseteq cycle.cands \X Slugs /\ cycle.touched \cup cycle.fresh \subseteq Slugs
    /\ Cardinality(cycle.cands) <= MaxCands /\ Cardinality(cycle.fresh) <= MaxNew
    /\ \A s \in Slugs : seen[s] \subseteq 0..Len(log)

Init ==
    /\ log = <<>> /\ mark = 0 /\ lessons = [s \in Slugs |-> 0] /\ cycle = Idle
    /\ seen = [s \in Slugs |-> {}] /\ replays = 0 /\ silenced = {}
-----------------------------------------------------------------------------
Fails(k) == /\ Len(log) < MaxLog /\ log' = Append(log, k)
            /\ UNCHANGED <<mark, lessons, cycle, seen, replays, silenced>>

(* A candidate is a set of places of the log.  A rejected action or failed   *)
(* session outranks a dead letter, and that what counts by its number.       *)
Kind(c) == log[CHOOSE i \in c : TRUE]
Authority(c) == Kind(c) = "rejected"

Severity(c) == CASE Authority(c) -> 3 [] Kind(c) = "dead" -> 2 [] OTHER -> 1

(* The failures of a tool together, when there are enough; else one by one.  *)
Found ==
    LET new == (mark + 1)..Len(log)
        tools == {i \in new : log[i] = "tool"}
    IN {{i} : i \in new \ tools} \cup (IF Cardinality(tools) >= Often THEN {tools} ELSE {})

(* Mutant: the candidates are not cut. *)
TakenAll(found) == {found}

(* No more than MaxCands, the severest. *)
Taken(found) ==
    {taken \in SUBSET found :
        /\ (Cardinality(taken) = MaxCands) \/ (taken = found /\ Cardinality(found) < MaxCands)
        /\ \A c \in taken, d \in found \ taken : Severity(c) >= Severity(d)}

Harvest ==
    /\ cycle.pc = "idle"
    /\ IF Found = {} THEN mark' = Len(log) /\ UNCHANGED <<cycle, silenced>>
       ELSE \E taken \in Taken(Found) :
               /\ cycle' = [Idle EXCEPT !.pc = "synth", !.newest = Len(log), !.cands = taken]
               /\ silenced' = silenced \cup
                     {c \in Found \ taken : \E d \in taken : Authority(c) /\ ~Authority(d)}
               /\ UNCHANGED mark
    /\ UNCHANGED <<log, lessons, seen, replays>>

Judged(says) == {c \in DOMAIN says : says[c] # "fails"}
Worth(says) == {c \in DOMAIN says : says[c] \in Slugs}
Distrusted(says) == Cardinality(Judged(says)) >= Distrust /\ Worth(says) = Judged(says)

Keepers(says) == {c \in Worth(says) : Distrusted(says) => Authority(c)}

(* The model speaks of every candidate: it fails, it is not worth keeping,   *)
(* or it is the lesson of that name.  Distrust is itself logged, as a        *)
(* failure of an autonomous action.                                          *)
Synthesize ==
    /\ cycle.pc = "synth"
    /\ \E says \in [cycle.cands -> Slugs \cup {"fails", "worthless"}] :
          /\ cycle' = [cycle EXCEPT !.pc = "save", !.heard = Judged(says) # {},
                           !.left = {<<c, says[c]>> : c \in Keepers(says)}]
          /\ log' = IF Distrusted(says) THEN Append(log, "rejected") ELSE log
          /\ silenced' = silenced \cup {c \in Worth(says) \ Keepers(says) : Authority(c)}
    /\ UNCHANGED <<mark, lessons, seen, replays>>

Touched(s) == s \in cycle.touched

(* The next keeper: evidence for a lesson there is (by name or by meaning),  *)
(* once a cycle, or a new lesson.                                            *)
Keep(c, s) ==
    /\ cycle.pc = "save" /\ Cardinality(cycle.fresh) < MaxNew
    /\ \A d \in cycle.left : Severity(c) >= Severity(d[1])
    /\ cycle' = [cycle EXCEPT !.left = @ \ {<<c, s>>}, !.touched = @ \cup {s},
                              !.fresh = IF lessons[s] = 0 THEN @ \cup {s} ELSE @]
    /\ IF lessons[s] > 0 /\ Touched(s) THEN UNCHANGED <<lessons, seen>>
       ELSE /\ lessons' = [lessons EXCEPT ![s] = @ + 1]
            /\ seen' = [seen EXCEPT ![s] = @ \cup {mark}]
    /\ UNCHANGED <<log, mark, replays, silenced>>

(* All kept, or as many as a cycle may add.  The file may not be written.    *)
Done(written) ==
    /\ cycle.pc = "save" /\ (cycle.left = {} \/ Cardinality(cycle.fresh) = MaxNew)
    /\ written \/ replays < MaxReplays
    /\ mark' = IF written THEN cycle.newest ELSE mark
    /\ replays' = IF written THEN replays ELSE replays + 1
    /\ cycle' = Idle /\ UNCHANGED <<log, lessons, seen, silenced>>

(* The process ends within a cycle. *)
Crash ==
    /\ cycle.pc # "idle" /\ replays < MaxReplays /\ replays' = replays + 1
    /\ cycle' = Idle /\ UNCHANGED <<log, mark, lessons, seen, silenced>>

(* !lessons archive *)
Archive(s) ==
    /\ lessons[s] > 0 /\ lessons' = [lessons EXCEPT ![s] = 0]
    /\ seen' = [seen EXCEPT ![s] = {}]
    /\ UNCHANGED <<log, mark, cycle, replays, silenced>>

Next ==
    \/ \E k \in Kinds : Fails(k)
    \/ Harvest \/ Synthesize \/ Crash
    \/ \E k \in cycle.left : Keep(k[1], k[2])
    \/ \E written \in BOOLEAN : Done(written)
    \/ \E s \in Slugs : Archive(s)

Spec == Init /\ [][Next]_vars
-----------------------------------------------------------------------------
(* Properties *)

(* A lesson that steers was taught by failures of that many cycles: two      *)
(* lines of one incident, or one line read twice, do not make a recurrence.  *)
(* Only a cycle that ended before its marker was written counts again.       *)
LiveMeansRecurred == \A s \in Slugs : lessons[s] <= Cardinality(seen[s]) + replays

(* What a person refused is not dropped by the guards against noise: it is   *)
(* among the candidates before all else, and survives a batch distrusted.    *)
AuthorityIsHeard == silenced = {}

=============================================================================
