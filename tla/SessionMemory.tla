---------------------------- MODULE SessionMemory ----------------------------
(* What one session remembers between dispatches: the transcript, the        *)
(* compaction summary and the state file of sessions/store.ts, and the       *)
(* compaction cache of dispatch.ts, as dispatchMessage, the detached prewarm *)
(* and semantic extraction, and a reset read and write them.                 *)
(*                                                                           *)
(* A step ends where the code awaits: the summariser, the classifier and the *)
(* specialist, the extraction model.  Dispatches of one session may overlap  *)
(* (channel, console, continuation).  The two turns an exchange appends are  *)
(* one element of the transcript: nothing runs between the two appends.      *)
EXTENDS Integers, Sequences, FiniteSets

CONSTANTS
    Dispatches,     \* dispatches that may overlap
    Keep,           \* config.session.recentTurnsToKeep, in exchanges
    Interval,       \* SEMANTIC_INTERVAL
    MaxExchanges,   \* bound: exchanges in a behaviour
    MaxResets,      \* bound: !reset in a behaviour
    None            \* a file or an entry that is not there

ASSUME MemoryAssumption == /\ Keep \in Nat /\ Interval \in Nat \ {0}
                           /\ MaxExchanges \in Nat /\ MaxResets \in Nat

VARIABLES
    session,      \* number of resets so far
    transcript,   \* <key>.json
    summary,      \* <key>.summary.json
    state,        \* <key>.state.json
    cache,        \* compactionCache
    run,          \* [Dispatches -> what a dispatch holds]
    prewarm,      \* the background compaction of pendingCompactions
    extraction,   \* the extraction of semanticInFlight
    written,      \* exchanges appended so far
    dirty         \* history: a reset found something in flight

vars == <<session, transcript, summary, state, cache, run, prewarm, extraction,
          written, dirty>>

Sessions == 0..MaxResets
Exchange == [of : Sessions, n : 1..MaxExchanges]
Summary == [covers : Nat, text : SUBSET Exchange]
(* whole: neither a failed summary nor the budget left exchanges out. *)
History == [shown : SUBSET Exchange, whole : BOOLEAN]
State == [from : SUBSET Sessions, turns : Nat, semantic : Nat]
(* of: the session a compaction read its transcript in (history only). *)
Compaction == [of : Sessions, turns : Seq(Exchange), summary : Summary \cup {None}]
Maybe(S) == S \cup {None}

Idle == [pc |-> "idle"]
Run == {Idle}
       \cup [pc : {"compacting"}, of : Sessions, job : Compaction]
       \cup [pc : {"classified"}, of : Sessions, seen : History, past : Seq(Exchange)]
       \cup [pc : {"answering"}, of : Sessions, seen : History,
             past : Seq(Exchange), state : Maybe(State)]

TypeOK ==
    /\ session \in Sessions
    /\ transcript \in Seq(Exchange)
    /\ summary \in Maybe(Summary)
    /\ state \in Maybe(State)
    /\ cache \in Maybe([of : Sessions, count : Nat, messages : History])
    /\ run \in [Dispatches -> Run]
    /\ prewarm \in Maybe(Compaction)
    /\ extraction \in Maybe([of : Sessions, state : State])
    /\ written \in 0..MaxExchanges
    /\ dirty \in BOOLEAN

Init ==
    /\ session = 0 /\ transcript = <<>> /\ written = 0 /\ dirty = FALSE
    /\ summary = None /\ state = None /\ cache = None
    /\ run = [d \in Dispatches |-> Idle]
    /\ prewarm = None /\ extraction = None
-----------------------------------------------------------------------------
(* buildCompactedHistory *)

Elements(s) == {s[k] : k \in 1..Len(s)}
Everything(turns) == [shown |-> Elements(turns), whole |-> TRUE]

(* How many exchanges are no longer recent; how many the summary covers. *)
RecentStart(turns) == IF Len(turns) > Keep THEN Len(turns) - Keep ELSE 0
Covered(sum) == IF sum = None THEN 0 ELSE sum.covers
Text(sum) == IF sum = None THEN {} ELSE sum.text

Recent(turns) == {turns[k] : k \in (RecentStart(turns) + 1)..Len(turns)}
Archive(turns, sum) ==
    {turns[k] : k \in (Covered(sum) + 1)..RecentStart(turns)}

(* Without the summariser: everything fits, or the summary on disk already   *)
(* covers what is not recent.                                                *)
Direct(turns, sum, large) ==
    IF ~large \/ turns = <<>> THEN Everything(turns)
    ELSE [shown |-> Text(sum) \cup Recent(turns), whole |-> TRUE]

NeedsModel(turns, sum, large) == large /\ Archive(turns, sum) # {}

(* Mutant: the summary claims the first recent exchange as well. *)
NewSummaryCoversMore(job) ==
    [covers |-> RecentStart(job.turns) + 1,
     text |-> Text(job.summary) \cup Archive(job.turns, job.summary)]

(* Mutant: the index of the last archived turn is taken one too low, twice. *)
NewSummaryCoversLess(job) ==
    [covers |-> RecentStart(job.turns) - 2,
     text |-> Text(job.summary) \cup Archive(job.turns, job.summary)]

NewSummary(job) ==
    [covers |-> RecentStart(job.turns),
     text |-> Text(job.summary) \cup Archive(job.turns, job.summary)]

(* What the model is shown, and what happens to the summary file: written    *)
(* over whatever is there now, or left alone when the summariser failed.     *)
Outcomes == {"fits", "trimmed", "failed"}
Compacted(job, outcome) ==
    CASE outcome = "fits" ->
           [shown |-> NewSummary(job).text \cup Recent(job.turns), whole |-> TRUE]
      [] outcome = "trimmed" ->
           [shown |-> NewSummary(job).text, whole |-> FALSE]
      [] outcome = "failed" ->
           [shown |-> Recent(job.turns), whole |-> FALSE]

SaveSummary(job, outcome) ==
    summary' = IF outcome = "failed" THEN summary ELSE NewSummary(job)
-----------------------------------------------------------------------------
(* dispatchMessage *)

Cached(of, turns, messages) ==
    [of |-> of, count |-> Len(turns), messages |-> messages]

(* Mutant: the turn count of the entry is not looked at. *)
CacheValidAlways == cache # None

CacheValid == cache # None /\ cache.count = Len(transcript)

Classifying(messages, turns) ==
    [pc |-> "classified", of |-> session, seen |-> messages, past |-> turns]

(* Up to the first await: the history comes from the cache, or is built now. *)
Begin(d, large) ==
    /\ run[d] = Idle
    /\ IF CacheValid
       THEN /\ run' = [run EXCEPT ![d] = Classifying(cache.messages, transcript)]
            /\ UNCHANGED cache
       ELSE IF NeedsModel(transcript, summary, large)
       THEN /\ run' = [run EXCEPT ![d] =
                 [pc |-> "compacting", of |-> session,
                  job |-> [of |-> session, turns |-> transcript,
                           summary |-> summary]]]
            /\ UNCHANGED cache
       ELSE LET messages == Direct(transcript, summary, large)
            IN  /\ run' = [run EXCEPT ![d] = Classifying(messages, transcript)]
                /\ cache' = Cached(session, transcript, messages)
    /\ UNCHANGED <<session, transcript, summary, state, prewarm, extraction,
                   written, dirty>>

(* The summariser answered the dispatch that waited for it. *)
CompactionDone(d, outcome) ==
    /\ run[d].pc = "compacting"
    /\ LET job == run[d].job
       IN  /\ SaveSummary(job, outcome)
           /\ cache' = Cached(job.of, job.turns, Compacted(job, outcome))
           /\ run' = [run EXCEPT ![d] =
                 [pc |-> "classified", of |-> @.of, past |-> job.turns,
                  seen |-> Compacted(job, outcome)]]
    /\ UNCHANGED <<session, transcript, state, prewarm, extraction, written,
                   dirty>>

(* The classifier answered: the state is read before the specialist runs. *)
LoadState(d) ==
    /\ run[d].pc = "classified"
    /\ run' = [run EXCEPT ![d] =
                  [pc |-> "answering", of |-> @.of, seen |-> @.seen,
                   past |-> @.past, state |-> state]]
    /\ UNCHANGED <<session, transcript, summary, state, cache, prewarm,
                   extraction, written, dirty>>

(* updateMechanicalState, on the state read before the specialist ran. *)
Mechanical(r) ==
    IF r.state = None
    THEN [from |-> {r.of}, turns |-> 1, semantic |-> 0]
    ELSE [r.state EXCEPT !.turns = @ + 1, !.from = @ \cup {r.of}]

(* The reply is there.  In one go: the state is saved, an extraction starts  *)
(* when one is due, the exchange is appended and its compaction prewarmed    *)
(* unless one is under way.                                                  *)
Answer(d, large) ==
    /\ run[d].pc = "answering"
    /\ written < MaxExchanges
    /\ written' = written + 1
    /\ LET s == Mechanical(run[d])
           turns == Append(transcript, [of |-> run[d].of, n |-> written + 1])
           wait == NeedsModel(turns, summary, large)
       IN  /\ state' = s
           /\ transcript' = turns
           /\ extraction' = IF s.turns - s.semantic >= Interval /\ extraction = None
                            THEN [of |-> run[d].of, state |-> s]
                            ELSE extraction
           /\ prewarm' = IF prewarm = None /\ wait
                         THEN [of |-> session, turns |-> turns, summary |-> summary]
                         ELSE prewarm
           /\ cache' = IF prewarm = None /\ ~wait
                       THEN Cached(session, turns, Direct(turns, summary, large))
                       ELSE cache
    /\ run' = [run EXCEPT ![d] = Idle]
    /\ UNCHANGED <<session, summary, dirty>>

(* The dispatch throws: nothing is saved. *)
Fail(d) ==
    /\ run[d].pc \in {"classified", "answering"}
    /\ run' = [run EXCEPT ![d] = Idle]
    /\ UNCHANGED <<session, transcript, summary, state, cache, prewarm,
                   extraction, written, dirty>>

PrewarmDone(outcome) ==
    /\ prewarm # None
    /\ SaveSummary(prewarm, outcome)
    /\ cache' = Cached(prewarm.of, prewarm.turns,
                     Compacted(prewarm, outcome))
    /\ prewarm' = None
    /\ UNCHANGED <<session, transcript, state, run, extraction, written, dirty>>

(* The delta is applied to the state as it is now, or, when there is none,   *)
(* to the one of the dispatch that asked.  A failed call is an empty delta.  *)
ExtractionDone(ok) ==
    /\ extraction # None
    /\ LET latest == IF state = None THEN extraction.state ELSE state
       IN  state' = IF ok THEN [latest EXCEPT !.semantic = latest.turns,
                                              !.from = @ \cup {extraction.of}]
                          ELSE [latest EXCEPT !.semantic = latest.turns]
    /\ extraction' = None
    /\ UNCHANGED <<session, transcript, summary, cache, run, prewarm, written,
                   dirty>>

(* COMPACTION_CACHE_TTL_MS *)
CacheExpires ==
    /\ cache # None
    /\ cache' = None
    /\ UNCHANGED <<session, transcript, summary, state, run, prewarm,
                   extraction, written, dirty>>

InFlight == \/ \E d \in Dispatches : run[d] # Idle
            \/ prewarm # None \/ extraction # None

(* clearSession; !reset on a channel also drops the cache entry, the reset   *)
(* of the console and of the command line does not.                          *)
Reset(dropCache) ==
    /\ session < MaxResets
    /\ session' = session + 1
    /\ transcript' = <<>> /\ summary' = None /\ state' = None
    /\ cache' = IF dropCache THEN None ELSE cache
    /\ dirty' = (dirty \/ InFlight)
    /\ UNCHANGED <<run, prewarm, extraction, written>>

Next ==
    \/ \E d \in Dispatches :
          \/ \E large \in BOOLEAN : Begin(d, large) \/ Answer(d, large)
          \/ \E outcome \in Outcomes : CompactionDone(d, outcome)
          \/ LoadState(d) \/ Fail(d)
    \/ \E outcome \in Outcomes : PrewarmDone(outcome)
    \/ \E ok \in BOOLEAN : ExtractionDone(ok)
    \/ CacheExpires
    \/ \E dropCache \in BOOLEAN : Reset(dropCache)

Spec == Init /\ [][Next]_vars
-----------------------------------------------------------------------------
(* Properties *)

(* Unless a reset cut into running work, what a dispatch shows its model is  *)
(* exactly the session: every exchange so far, verbatim or summarised, from  *)
(* the cache or built anew, and nothing else (dispatch.ts:522, "the entry is *)
(* EXACT for this turn count").                                              *)
HistoryExact ==
    \A d \in Dispatches :
        ~dirty /\ run[d].pc \in {"classified", "answering"} /\ run[d].seen.whole
            => run[d].seen.shown = Elements(run[d].past)

(* The summary file covers the exchanges it says it covers: a prefix of the  *)
(* transcript, so that summary and recent turns leave no gap.                *)
SummaryExact ==
    ~dirty /\ summary # None =>
        /\ summary.covers <= Len(transcript)
        /\ summary.text = {transcript[k] : k \in 1..summary.covers}

(* After a reset with nothing in flight the state file is of the new session.*)
StateFresh == ~dirty /\ state # None => state.from = {session}

(* An extraction that ends while other dispatches saved the state does not   *)
(* undo a turn (dispatch.ts:1016, "never clobbers a turn that landed         *)
(* meanwhile").                                                              *)
ExtractionKeepsTurns ==
    [][extraction # None /\ extraction' = None /\ state # None
          => state'.turns >= state.turns]_vars

(* What store.ts:69 says of the summary: it is cleared because "stale        *)
(* summaries after !new would inject old context into the fresh session".    *)
NoStaleSummary == summary # None => summary.text \subseteq Elements(transcript)
=============================================================================
