------------------------------ MODULE FactCapture ------------------------------
(* How a thing said becomes a remembered fact: the incremental capture of     *)
(* services/memory-capture.ts and the review gate of commands/builtin.ts      *)
(* (!reset lists, !save confirms, !discard drops), for one person with        *)
(* several sessions of one agent.                                             *)
(*                                                                            *)
(* Time is cut at the awaits.  A transcript entry stands for one exchange or  *)
(* one assistant note; a fact is named by the session and entry it came from, *)
(* and what the stores refuse as duplicate or forgotten is not among them.    *)
EXTENDS Integers, FiniteSets

CONSTANTS
    Sessions,
    EveryTurns,    \* capture.everyTurns, in entries
    OverlapTurns,  \* capture.overlapTurns, in entries
    MaxEntries,    \* bound: entries said in all sessions together
    MaxClears,     \* bound: times a session is cleared
    None

VARIABLES
    said,     \* [Sessions -> entries ever appended]
    start,    \* [Sessions -> entries cleared away]; the rest is the transcript
    quiet,    \* entries without a user turn
    due,      \* sessions whose last exchange still has to schedule a capture
    marker,   \* capture-state.json: [Sessions -> processed and captured]
    capture,  \* [Sessions -> the capture in flight, or None]
    reset,    \* [Sessions -> the !reset in progress, or None]
    pending,  \* pending.json of the person, or None
    save,     \* what the !save in progress has read, or None
    prov,     \* the fact stores: [Facts -> provenance]
    read,     \* history: entries extracted from, or consumed for lack of content
    missed,   \* history: sessions that lost an entry unread at a !reset
    foreign,  \* history: sessions cleared by the console or the command line
    slipped,  \* history: sessions whose capture began between the clear of a
              \* !reset and its take
    clears

vars == <<said, start, quiet, due, marker, capture, reset, pending, save,
          prov, read, missed, foreign, slipped, clears>>
talk   == <<said, start, quiet, due, foreign, slipped, clears>>
review == <<pending, save>>

Entries == Sessions \X (1..MaxEntries)
Facts   == Entries
NoMarker == [processed |-> 0, captured |-> {}]

Length(s) == said[s] - start[s]

(* transcript.slice(i) of a transcript of length n that begins after base. *)
From(s, base, i, n) == {<<s, base + k>> : k \in (i + 1)..n}

Max0(i) == IF i < 0 THEN 0 ELSE i

Init ==
    /\ said = [s \in Sessions |-> 0] /\ start = [s \in Sessions |-> 0]
    /\ quiet = {} /\ due = {}
    /\ marker = [s \in Sessions |-> NoMarker]
    /\ capture = [s \in Sessions |-> None]
    /\ reset = [s \in Sessions |-> None]
    /\ pending = None /\ save = None
    /\ prov = [f \in Facts |-> "none"]
    /\ read = {} /\ missed = {} /\ foreign = {} /\ slipped = {} /\ clears = 0
-----------------------------------------------------------------------------
(* The conversation *)

Total == Cardinality({e \in Entries : e[2] <= said[e[1]]})

InGap(s) == reset[s] # None /\ reset[s].pc = "cleared"

(* A !reset awaits the import of a module that is loaded already: the run in  *)
(* flight may end in that gap, a new one does not.                            *)
Append(s) ==
    /\ Total < MaxEntries
    /\ InGap(s) => Length(s) = 0
    /\ said' = [said EXCEPT ![s] = @ + 1]
    /\ UNCHANGED <<start, marker, capture, reset, prov, read, missed,
                   foreign, slipped, clears, review>>

(* A message is answered; its finally block will schedule a capture.  Another *)
(* message of the session waits in the steering queue until then.             *)
Exchange(s) == s \notin due /\ Append(s) /\ due' = due \cup {s} /\ UNCHANGED quiet

(* Briefings, notes of interrupted runs: assistant turns nobody schedules for. *)
Note(s) == Append(s) /\ quiet' = quiet \cup {<<s, said[s] + 1>>} /\ UNCHANGED due

(* The console or the command line clears the session's files, no more. *)
ForeignClear(s) ==
    /\ clears < MaxClears /\ clears' = clears + 1
    /\ start' = [start EXCEPT ![s] = said[s]]
    /\ foreign' = foreign \cup {s}
    /\ UNCHANGED <<said, quiet, due, marker, capture, reset, prov, read,
                   missed, slipped, review>>
-----------------------------------------------------------------------------
(* Incremental capture *)

(* Provenance only grows: an extraction never overwrites the person's word.  *)
Written(facts, p) ==
    [f \in Facts |-> IF f \in facts /\ prov[f] # "stated" THEN p ELSE prov[f]]

Window(s) ==
    From(s, start[s], Max0(marker[s].processed - OverlapTurns), Length(s))

WorthReading(window) == Cardinality(window \ quiet) >= 2

(* maybeCapture up to its first await: one capture per session, a rewind when *)
(* the transcript was cleared, nothing below the threshold, and a window with *)
(* little of the user is consumed unread.                                     *)
Schedule(s) ==
    /\ s \in due
    /\ due' = due \ {s}
    /\ \/ /\ capture[s] # None
          /\ UNCHANGED <<marker, capture, read, slipped>>
       \/ /\ capture[s] = None /\ Length(s) < marker[s].processed
          /\ marker' = [marker EXCEPT ![s] =
                          [processed |-> Length(s), captured |-> {}]]
          /\ UNCHANGED <<capture, read, slipped>>
       \/ /\ capture[s] = None
          /\ Length(s) - marker[s].processed \in 0..(EveryTurns - 1)
          /\ UNCHANGED <<marker, capture, read, slipped>>
       \/ /\ capture[s] = None /\ Length(s) - marker[s].processed >= EveryTurns
          /\ slipped' = IF InGap(s) THEN slipped \cup {s} ELSE slipped
          /\ IF ~WorthReading(Window(s))
             THEN /\ marker' = [marker EXCEPT ![s].processed = Length(s)]
                  /\ read' = read \cup Window(s)
                  /\ UNCHANGED capture
             ELSE /\ capture' = [capture EXCEPT ![s] =
                       [pc |-> "extracting", window |-> Window(s), found |-> {},
                        upto |-> Length(s), state |-> marker, old |-> FALSE]]
                  /\ UNCHANGED <<marker, read>>
    /\ UNCHANGED <<said, start, quiet, foreign, clears, reset, prov, missed,
                   review>>

(* What an extraction may find in what it is given: nothing in too little. *)
Finds(window) ==
    {{}} \cup (IF WorthReading(window) THEN {{e} : e \in window \ quiet} ELSE {})

(* The extraction answers.  After a !reset its result is dropped. *)
Extracted(s, facts) ==
    /\ capture[s] # None /\ capture[s].pc = "extracting"
    /\ IF capture[s].old
       THEN capture' = [capture EXCEPT ![s] = None]
       ELSE capture' = [capture EXCEPT ![s].pc = "writing", ![s].found = facts]
    /\ UNCHANGED <<talk, review, marker, reset, prov, read, missed>>

(* It throws or times out, or a store throws: the next message tries again.  *)
CaptureFails(s) ==
    /\ capture[s] # None
    /\ capture' = [capture EXCEPT ![s] = None]
    /\ prov' \in IF capture[s].pc = "writing"
                 THEN {prov, Written(capture[s].found, "observed")} ELSE {prov}
    /\ UNCHANGED <<talk, review, marker, reset, read, missed>>

Captured(s) == capture[s].state[s].captured \cup capture[s].found

(* Mutant: the file is written from the snapshot taken before the awaits. *)
StoredStale(s) ==
    /\ capture[s] # None /\ capture[s].pc = "writing"
    /\ prov' = Written(capture[s].found, "observed")
    /\ marker' = IF capture[s].old THEN marker ELSE
                 [capture[s].state EXCEPT ![s] =
                    [processed |-> capture[s].upto, captured |-> Captured(s)]]
    /\ capture' = [capture EXCEPT ![s] = None]
    /\ read' = read \cup capture[s].window
    /\ UNCHANGED <<talk, review, reset, missed>>

(* The facts are in the stores; the marker is merged into a fresh read of the *)
(* file, unless a !reset came first.                                          *)
Stored(s) ==
    /\ capture[s] # None /\ capture[s].pc = "writing"
    /\ prov' = Written(capture[s].found, "observed")
    /\ marker' = IF capture[s].old THEN marker ELSE
                 [marker EXCEPT ![s] =
                    [processed |-> capture[s].upto, captured |-> Captured(s)]]
    /\ capture' = [capture EXCEPT ![s] = None]
    /\ read' = read \cup capture[s].window
    /\ UNCHANGED <<talk, review, reset, missed>>
-----------------------------------------------------------------------------
(* The review gate *)

(* !reset loads the transcript, clears the session and awaits an import. *)
ResetClear(s) ==
    /\ reset[s] = None /\ clears < MaxClears /\ clears' = clears + 1
    /\ reset' = [reset EXCEPT ![s] =
                   [pc |-> "cleared", base |-> start[s], len |-> Length(s),
                    tail |-> {}, facts |-> {}, captured |-> {}]]
    /\ start' = [start EXCEPT ![s] = said[s]]
    /\ UNCHANGED <<said, quiet, due, foreign, slipped, marker, capture, prov,
                   read, missed, review>>

Least(i, j) == IF i < j THEN i ELSE j

(* Where the tail starts: the overlap before the marker, or before the end of *)
(* a transcript shorter than it.                                              *)
TailFrom(s) == Max0(Least(marker[s].processed, reset[s].len) - OverlapTurns)

(* takeSessionTail: the generation is bumped, the marker deleted; the tail    *)
(* goes to the extraction.                                                    *)
ResetTake(s) ==
    /\ InGap(s)
    /\ LET tail == From(s, reset[s].base, TailFrom(s), reset[s].len)
           all  == From(s, reset[s].base, 0, reset[s].len)
       IN /\ reset' = [reset EXCEPT ![s].pc = "extracting", ![s].tail = tail,
                                    ![s].captured = marker[s].captured]
          /\ missed' = IF all \subseteq tail \cup read \cup quiet
                       THEN missed ELSE missed \cup {s}
    /\ marker' = [marker EXCEPT ![s] = NoMarker]
    /\ capture' = [capture EXCEPT ![s] = IF @ = None THEN None
                                         ELSE [@ EXCEPT !.old = TRUE]]
    /\ UNCHANGED <<talk, review, prov, read>>

(* Facts found, or captured during the session, become the person's pending   *)
(* list; a failed extraction leaves the bare reply.                           *)
ResetExtracted(s, facts) ==
    /\ reset[s] # None /\ reset[s].pc = "extracting"
    /\ \/ /\ facts \cup reset[s].captured # {}
          /\ pending' = [facts |-> facts, captured |-> reset[s].captured]
          /\ reset' = [reset EXCEPT ![s].pc = "listing", ![s].facts = facts]
          /\ read' = read \cup reset[s].tail
       \/ /\ facts \cup reset[s].captured = {}
          /\ reset' = [reset EXCEPT ![s] = None]
          /\ read' = read \cup reset[s].tail /\ UNCHANGED pending
       \/ /\ reset' = [reset EXCEPT ![s] = None]
          /\ UNCHANGED <<pending, read>>
    /\ UNCHANGED <<talk, save, marker, capture, prov, missed>>

(* The list reaches the person, or the send fails and is only logged. *)
ResetReply(s) ==
    /\ reset[s] # None /\ reset[s].pc = "listing"
    /\ reset' = [reset EXCEPT ![s] = None]
    /\ UNCHANGED <<talk, pending, save, marker, capture, prov, read, missed>>

(* !save reads the list, awaits the stores, deletes the file.  What fails in  *)
(* between leaves the file.  A listed fact that the store holds in the same   *)
(* words is not written again and keeps its provenance; a captured one is     *)
(* promoted.                                                                  *)
SaveBegin ==
    /\ save = None /\ pending # None
    /\ save' = pending
    /\ UNCHANGED <<talk, pending, marker, capture, reset, prov, read, missed>>

SaveEnd(ok) ==
    /\ save # None
    /\ \E same \in SUBSET {f \in save.facts : prov[f] = "observed"} :
          LET new == save.facts \ same
          IN prov' \in IF ok THEN {Written(new \cup save.captured, "stated")}
                             ELSE {prov, Written(new, "stated")}
    /\ pending' = IF ok THEN None ELSE pending
    /\ save' = None
    /\ UNCHANGED <<talk, marker, capture, reset, read, missed>>

Discard ==
    /\ pending # None /\ pending' = None
    /\ UNCHANGED <<talk, save, marker, capture, reset, prov, read, missed>>

Next ==
    \/ \E s \in Sessions :
          \/ Exchange(s) \/ Note(s) \/ ForeignClear(s) \/ Schedule(s)
          \/ \E facts \in Finds(IF capture[s] = None THEN {} ELSE capture[s].window) :
                Extracted(s, facts)
          \/ CaptureFails(s) \/ Stored(s)
          \/ ResetClear(s) \/ ResetTake(s) \/ ResetReply(s)
          \/ \E facts \in Finds(IF reset[s] = None THEN {} ELSE reset[s].tail) :
                ResetExtracted(s, facts)
    \/ SaveBegin \/ Discard
    \/ \E ok \in BOOLEAN : SaveEnd(ok)

Spec == Init /\ [][Next]_vars
-----------------------------------------------------------------------------
(* Properties *)

(* The shape of the state. *)
TypeOK ==
    /\ said \in [Sessions -> 0..MaxEntries]
    /\ start \in [Sessions -> 0..MaxEntries]
    /\ quiet \subseteq Entries /\ read \subseteq Entries
    /\ due \subseteq Sessions /\ missed \subseteq Sessions
    /\ foreign \cup slipped \subseteq Sessions
    /\ \A s \in Sessions :
          /\ marker[s].processed \in 0..MaxEntries /\ marker[s].captured \subseteq Facts
          /\ capture[s] # None =>
                /\ capture[s].pc \in {"extracting", "writing"}
                /\ capture[s].window \subseteq Entries
                /\ capture[s].found \subseteq capture[s].window
                /\ Cardinality(capture[s].window \ quiet) > 1
                /\ capture[s].upto \in 1..MaxEntries
          /\ reset[s] # None =>
                /\ reset[s].pc \in {"cleared", "extracting", "listing"}
                /\ reset[s].base + reset[s].len <= start[s]
                /\ reset[s].facts \subseteq reset[s].tail
                /\ reset[s].tail \subseteq Entries
    /\ prov \in [Facts -> {"none", "observed", "stated"}]
    /\ clears \in 0..MaxClears

(* Between its clear and its take a !reset leaves the marker of the session,  *)
(* and a capture that begins there is of the conversation before.             *)
Settled(s) == s \notin foreign \cup slipped /\ ~InGap(s)

(* What is said in a session that only !reset clears is read: by a capture,   *)
(* or in the tail of the reset, whatever captures were in flight, failed or   *)
(* were dropped, unless one began between the clear and the take of a reset.  *)
(* (takeSessionTail: "the turns capture has not yet extracted from")          *)
NothingMissed == missed \subseteq foreign \cup slipped

(* That takes a capture for every entry: the one message that may end there   *)
(* is too little for any other setting (config/schema.ts:326).                *)
GapIsQuiet == EveryTurns > 1 => slipped = {}

(* memory-capture.ts:228, "the captured list is never ahead of the stores".   *)
CapturedIsStored ==
    \A s \in Sessions : \A f \in marker[s].captured : prov[f] # "none"

(* A capture that a !reset overtook does not bring its marker back: the       *)
(* marker counts and lists only what the present conversation holds.          *)
MarkerIsLive ==
    \A s \in Sessions : Settled(s) =>
        /\ marker[s].processed <= Length(s)
        /\ \A f \in marker[s].captured : f[1] = s /\ f[2] > start[s]

(* The captures of two sessions share a file and do not undo each other: what *)
(* was read stays behind the marker and is not sent to the model again.       *)
MarkerCoversRead ==
    \A s \in Sessions : Settled(s) =>
        \A e \in read : e[1] = s => e[2] <= start[s] + marker[s].processed

=============================================================================
