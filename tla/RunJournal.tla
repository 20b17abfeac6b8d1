------------------------------ MODULE RunJournal ------------------------------
(* services/run-journal.ts: the journal a tool loop keeps on disk while it   *)
(* runs, and the sweep at boot that turns what a dead process left behind    *)
(* into a note in the session's transcript.                                  *)
(*                                                                           *)
(* The process may die at any moment.  Journals and transcripts survive it;  *)
(* the runs do not, nobody resumes them.                                     *)
EXTENDS Integers, FiniteSets

CONSTANTS
    Runs,        \* dispatches whose message reaches a tool loop
    MaxCrashes   \* bound: process deaths in a behaviour

ASSUME JournalAssumption == MaxCrashes \in Nat

VARIABLES
    process,   \* "up", "down", or "sweeping" (booting)
    run,       \* [Runs -> how far its dispatch is]
    journal,   \* [Runs -> "none", "torn" (no readable start record), "kept"]
    todo,      \* journals the sweep has read from the directory
    handled,   \* the one of them the loop of the sweep is about to remove
    notes,     \* [Runs -> notes of an interrupted run in the transcript]
    silent,    \* history: dead runs with no readable journal, or a refused note
    crashes

vars == <<process, run, journal, todo, handled, notes, silent, crashes>>

Dead   == {"killed_looping", "killed_looped"}
Phases == {"idle", "looping", "looped", "recorded", "failed"} \cup Dead

(* The shape of the state. *)
TypeOK ==
    /\ process \in {"up", "down", "sweeping"}
    /\ run \in [Runs -> Phases]
    /\ journal \in [Runs -> {"none", "torn", "kept"}]
    /\ todo \in SUBSET Runs
    /\ handled \in SUBSET todo
    /\ notes \in [Runs -> Nat]
    /\ silent \in SUBSET Runs
    /\ crashes \in 0..MaxCrashes

Init ==
    /\ process = "up"
    /\ run = [r \in Runs |-> "idle"]
    /\ journal = [r \in Runs |-> "none"]
    /\ todo = {} /\ handled = {}
    /\ notes = [r \in Runs |-> 0]
    /\ silent = {} /\ crashes = 0

sweepVars == <<todo, handled, notes, silent, crashes>>
-----------------------------------------------------------------------------
(* The tool loop of a dispatch opens its journal.  When the directory cannot *)
(* be written the run goes on without one.                                   *)
OpenJournal(r) ==
    /\ run' = [run EXCEPT ![r] = "looping"]
    /\ \E made \in {"kept", "none"} : journal' = [journal EXCEPT ![r] = made]
    /\ UNCHANGED <<process, sweepVars>>

StartLoop(r) == process = "up" /\ run[r] = "idle" /\ OpenJournal(r)

(* Scoring, handoff or review sends the task to another specialist's loop.   *)
Reroute(r) == process = "up" /\ run[r] = "looped" /\ OpenJournal(r)

(* Mutant: the journal is closed by the normal return only. *)
LoopEndsKeeping(r) ==
    /\ process = "up" /\ run[r] = "looping"
    /\ \/ /\ run' = [run EXCEPT ![r] = "looped"]
          /\ journal' = [journal EXCEPT ![r] = "none"]
       \/ /\ run' = [run EXCEPT ![r] = "failed"]
          /\ UNCHANGED journal
    /\ UNCHANGED <<process, sweepVars>>

(* The loop returns or throws: the finally block deletes the journal.        *)
LoopEnds(r) ==
    /\ process = "up" /\ run[r] = "looping"
    /\ \E end \in {"looped", "failed"} : run' = [run EXCEPT ![r] = end]
    /\ journal' = [journal EXCEPT ![r] = "none"]
    /\ UNCHANGED <<process, sweepVars>>

(* The dispatch, done with its awaits, appends the exchange to the transcript, *)
(* or one of them throws and the user is told so.                              *)
Record(r) ==
    /\ process = "up" /\ run[r] = "looped"
    /\ \E end \in {"recorded", "failed"} : run' = [run EXCEPT ![r] = end]
    /\ UNCHANGED <<process, journal, sweepVars>>

(* The process dies.  A journal whose start record is being written is torn.  *)
Crash ==
    /\ process # "down" /\ crashes < MaxCrashes
    /\ crashes' = crashes + 1
    /\ process' = "down"
    /\ run' = [r \in Runs |-> CASE run[r] = "looping" -> "killed_looping"
                                [] run[r] = "looped"  -> "killed_looped"
                                [] OTHER              -> run[r]]
    /\ \E torn \in SUBSET {r \in Runs : run[r] = "looping" /\ journal[r] = "kept"} :
          journal' = [r \in Runs |-> IF r \in torn THEN "torn" ELSE journal[r]]
    /\ silent' = silent \cup {r \in Runs : run[r] = "looping" /\ journal'[r] # "kept"}
    /\ todo' = {} /\ handled' = {}
    /\ UNCHANGED notes

(* The sweep of the next boot reads the directory, before any channel starts. *)
Boot ==
    /\ process = "down"
    /\ process' = "sweeping"
    /\ todo' = {r \in Runs : journal[r] # "none"} /\ handled' = {}
    /\ UNCHANGED <<run, journal, notes, silent, crashes>>

(* The next file: a note is appended to the transcript of its session.  One  *)
(* that cannot be read, or whose note cannot be written, is only warned of.  *)
Note(r) ==
    /\ process = "sweeping" /\ handled = {} /\ r \in todo
    /\ handled' = {r}
    /\ \/ journal[r] = "kept" /\ notes' = [notes EXCEPT ![r] = @ + 1] /\ UNCHANGED silent
       \/ journal[r] = "kept" /\ silent' = silent \cup {r} /\ UNCHANGED notes
       \/ journal[r] = "torn" /\ UNCHANGED <<notes, silent>>
    /\ UNCHANGED <<process, run, journal, todo, crashes>>

(* Mutant: an unreadable journal stays in the directory. *)
RemoveReadable(r) ==
    /\ process = "sweeping" /\ r \in handled
    /\ journal' = [journal EXCEPT ![r] = IF @ = "torn" THEN @ ELSE "none"]
    /\ todo' = todo \ {r} /\ handled' = {}
    /\ UNCHANGED <<process, run, notes, silent, crashes>>

(* Mutant: the cursor of the loop stays on the removed file. *)
RemoveKeepsCursor(r) ==
    /\ process = "sweeping" /\ r \in handled
    /\ journal' = [journal EXCEPT ![r] = "none"]
    /\ todo' = todo \ {r}
    /\ UNCHANGED <<process, run, handled, notes, silent, crashes>>

(* It is removed afterwards, noted or not, readable or not. *)
Remove(r) ==
    /\ process = "sweeping" /\ r \in handled
    /\ journal' = [journal EXCEPT ![r] = "none"]
    /\ todo' = todo \ {r} /\ handled' = {}
    /\ UNCHANGED <<process, run, notes, silent, crashes>>

SweepDone ==
    /\ process = "sweeping" /\ todo = {}
    /\ process' = "up"
    /\ UNCHANGED <<run, journal, sweepVars>>

Recover == Boot \/ SweepDone \/ \E r \in Runs : Note(r) \/ Remove(r)

Next ==
    \/ \E r \in Runs : StartLoop(r) \/ Reroute(r) \/ LoopEnds(r) \/ Record(r)
    \/ Crash
    \/ Recover

(* The supervisor restarts the process and a boot goes on to its end; how    *)
(* long a model or a tool takes is nobody's promise.                         *)
Spec == Init /\ [][Next]_vars /\ WF_vars(Recover)
-----------------------------------------------------------------------------
(* A note says "was interrupted by a restart ... It did NOT complete": no run *)
(* that was answered, that failed in front of the user, or that still runs    *)
(* carries one, however many crashes and sweeps it has lived through.         *)
NotesAreTrue == \A r \in Runs : notes[r] > 0 => run[r] = "killed_looping"

(* Once a boot has accepted traffic no journal of a dead run is left, where a  *)
(* later boot would announce the same interruption again, and every run that   *)
(* died in its loop was announced, unless its journal could not be written or  *)
(* read, or its transcript refused the note.                                   *)
SweepIsComplete == process = "up" => \A r \in Runs :
    /\ journal[r] # "none" => run[r] = "looping"
    /\ run[r] = "killed_looping" => notes[r] > 0 \/ r \in silent

=============================================================================
