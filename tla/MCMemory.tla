-------------------------------- MODULE MCMemory --------------------------------
(* What is remembered, side by side in one check: the memory of a session    *)
(* between its dispatches, the capture of facts with its review gate, and    *)
(* the flat store and the graph they are written to.  Each is modelled for   *)
(* itself, so a behaviour is one of them: side says which, and the others    *)
(* stay in their initial state.                                              *)
EXTENDS SessionMemory, TLC

CONSTANTS Chats, EveryTurns, OverlapTurns, MaxSaid, MaxClears,
          Known, Wordings, Writers, Mergers, MaxEntries, MaxForgets,
          GraphTexts, Others, Lasting, Adds, Queries, MaxId

VARIABLES side,
          said, start, quiet, due, marker, capture, reset, pending, save, prov,
          read, missed, foreign, slipped, clears,
          index, last, view, removals, batch, stale, misread, forgets,
          nodes, newer, top, add, forgetting, forgotten, raced, excused

captureVars == <<said, start, quiet, due, marker, capture, reset, pending, save,
                 prov, read, missed, foreign, slipped, clears>>
storeVars == <<index, last, view, removals, batch, stale, misread, forgets>>
graphVars == <<nodes, newer, top, add, forgetting, forgotten, raced, excused>>
all == <<side, vars, captureVars, storeVars, graphVars>>

C == INSTANCE FactCapture WITH Sessions <- Chats, MaxEntries <- MaxSaid
F == INSTANCE FactStore
G == INSTANCE GraphMemory WITH Texts <- GraphTexts

(* None is none of the values it stands beside. *)
ASSUME StoreAssumption ==
    {MaxEntries, MaxForgets} \subseteq Nat /\ None \notin F!Texts \cup F!Batch
ASSUME CaptureAssumption ==
    /\ IsFiniteSet(Chats) /\ EveryTurns \in Nat \ {0} /\ OverlapTurns \in Nat
    /\ MaxSaid \in Nat /\ MaxClears \in Nat
    /\ None \notin [pc : {"cleared"}, base : Nat, len : Nat, tail : {{}},
                     facts : {{}}, captured : {{}}]
(* A query is found in any case where it is found as written, and its words  *)
(* where it is found.                                                        *)
ASSUME GraphAssumption ==
    /\ MaxId \in Nat /\ None \notin GraphTexts
    /\ \A q \in Queries :
          /\ q.exact \subseteq q.hits /\ q.hits \subseteq q.words
          /\ q.words \subseteq GraphTexts /\ q.long \in BOOLEAN

AllInit ==
    /\ side \in {"session", "capture", "store", "graph"}
    /\ Init /\ C!Init /\ F!Init /\ G!Init

Session ==
    side = "session" /\ Next
    /\ UNCHANGED <<side, captureVars, storeVars, graphVars>>
Capture ==
    side = "capture" /\ C!Next
    /\ UNCHANGED <<side, vars, storeVars, graphVars>>
Store ==
    side = "store" /\ F!Next
    /\ UNCHANGED <<side, vars, captureVars, graphVars>>
Graph ==
    side = "graph" /\ G!Next
    /\ UNCHANGED <<side, vars, captureVars, storeVars>>
AllNext == Session \/ Capture \/ Store \/ Graph

AllSpec == AllInit /\ [][AllNext]_all

(* Two wordings of one fact, and another fact. *)
MCGraphTexts == {<<"f", 1>>, <<"f", 2>>, <<"g", 1>>}

(* A query that is in one text as it is written and in another one in        *)
(* another case, and whose words are in both.                                *)
MCQueries ==
    {[exact |-> {<<"f", 1>>}, hits |-> {<<"f", 1>>, <<"f", 2>>},
      words |-> {<<"f", 1>>, <<"f", 2>>}, long |-> TRUE]}

(* Another person has the fact, in one of the wordings. *)
MCOthers == {<<"f", 1>>}

(* Bound: what follows a reset that cut into running work is not explored;   *)
(* of the memory of a session nothing is promised there.                     *)
Undisturbed == ~dirty

Symmetry == Permutations(Dispatches) \cup Permutations(Chats) \cup Permutations(Adds)
-----------------------------------------------------------------------------
(* Every part keeps its types (stated in its module). *)
AllTypeOK == CASE side = "session" -> TypeOK
               [] side = "capture" -> C!TypeOK
               [] side = "store" -> F!TypeOK
               [] side = "graph" -> G!TypeOK

(* The notes kept beside a conversation are about it: its state is of the    *)
(* session that runs, and the marker of the capture covers what was read and *)
(* no more, whatever resets and the captures of another session do.          *)
NotesAreCurrent ==
    CASE side = "session" -> StateFresh
      [] side = "capture" -> /\ C!MarkerCoversRead /\ C!NothingMissed /\ C!GapIsQuiet
                             /\ C!CapturedIsStored /\ C!MarkerIsLive
      [] OTHER -> TRUE

(* A fact is held once, by the flat store as by the graph, but for a write   *)
(* that was overtaken or ran beside another one; the view of the store is    *)
(* its index; the graph holds nothing that was forgotten, and its history    *)
(* can be walked.                                                            *)
StoresAreSound ==
    CASE side = "store" -> F!HeldOnce /\ F!ViewIsIndex
      [] side = "graph" -> G!StoredOnce /\ G!ForgottenIsGone /\ G!HistoryIsWalkable
      [] OTHER -> TRUE

(* No step undoes what another one did: what was forgotten is not written    *)
(* again, what the owner said is not dropped, and a late extraction does not *)
(* turn the state of a session back.                                         *)
NothingIsUndone == F!ForgottenStaysGone /\ F!StatedIsKept /\ ExtractionKeepsTurns
=============================================================================
