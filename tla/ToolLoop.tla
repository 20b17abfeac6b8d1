------------------------------- MODULE ToolLoop -------------------------------
(* The ReAct loop of tool-loop/engine.ts: one model call per iteration, the  *)
(* tool calls it asks for, the one-shot repairs that send an answer back,    *)
(* the final-answer checkpoint, cancellation and steering, and the synthesis *)
(* when the budget is used up.                                               *)
(*                                                                           *)
(* A step ends where the loop awaits (the model, a tool, the checkpoint); in *)
(* between the user may press !stop or send another message.  What a message *)
(* says is abstracted to what the loop branches on: is the answer empty,     *)
(* does it claim or announce an action, does it hedge.                       *)
EXTENDS Integers, Sequences, FiniteSets

CONSTANTS
    Calls,          \* a tool with its parameters
    Tools,
    ToolOf,         \* [Calls -> Tools]
    Invalid,        \* calls validateToolParams rejects
    NoCall,
    MaxIterations,  \* config.maxIterations
    GrantMax,       \* the most iterations one checkpoint rejection grants
    MaxChecks,      \* 3 in the source
    DriftFrom,      \* drift is looked at from this iteration on: 3
    StreakLimit,    \* DriftTracker.STREAK_LIMIT: 5
    SkipDrift,      \* config.skipDriftDetection
    ShortFollowUp,  \* a short message inside a conversation (or
                    \*   prematureAnswerRepair off): no refusal repair
    MaxBatch        \* bound: tool calls in one model response

ASSUME LoopAssumption ==
    /\ ToolOf \in [Calls -> Tools]
    /\ Invalid \subseteq Calls
    /\ NoCall \notin Calls
    /\ MaxIterations \in Nat /\ GrantMax \in Nat /\ MaxChecks \in Nat
    /\ DriftFrom \in Nat /\ StreakLimit \in Nat \ {0} /\ MaxBatch \in Nat
    /\ SkipDrift \in BOOLEAN /\ ShortFollowUp \in BOOLEAN

VARIABLES
    pc,           \* where the loop awaits
    i,            \* iteration
    extra,        \* extraIterations
    repairs,      \* the one-shot repairs already used
    checks,       \* finalAnswerChecks
    overflowed,   \* overflowRepaired
    batch,        \* calls of the current response not yet run
    acted,        \* steps.length > 0
    last,         \* lastActionHash and actionRepeatCount
    drift,        \* DriftTracker: last signature and same-tool streak
    remembered,   \* lastRejectedAnswer is not empty
    result,       \* what runToolLoop returned
    stopped,      \* isCancelled()
    row           \* history: the last executed call, how often without a break

vars == <<pc, i, extra, repairs, checks, overflowed, batch, acted, last, drift,
          remembered, result, stopped, row>>

(* In the order the loop looks for them. *)
RepairOrder == <<"drift", "empty", "hallucination", "refusal", "intent">>
Repairs == {RepairOrder[k] : k \in 1..5}
Results == {"none", "answer", "empty", "cancelled", "synthesis",
            "fallback", "fallback_empty", "error"}

(* A model response: calls, or text.  claims: claimsActionWithoutToolCall;   *)
(* announces: announcesToolIntent; wanders: hedging or growing drift.        *)
Asking == [calls : UNION {[1..n -> Calls] : n \in 1..MaxBatch}, text : {FALSE},
           claims : {FALSE}, announces : {FALSE}, wanders : BOOLEAN]
Telling == {r \in [calls : {<<>>}, text : BOOLEAN, claims : BOOLEAN,
                   announces : BOOLEAN, wanders : BOOLEAN] :
               r.claims \/ r.announces => r.text}
Response == Asking \cup Telling

Occurrence == [call : Calls \cup {NoCall}, n : Nat]

TypeOK ==
    /\ pc \in {"top", "model", "tools", "running", "synthesis", "done"}
    /\ i \in Nat /\ extra \in Nat /\ checks \in 0..MaxChecks
    /\ repairs \in SUBSET Repairs
    /\ batch \in Seq(Calls)
    /\ last \in Occurrence /\ drift \in Occurrence /\ row \in Occurrence
    /\ overflowed \in BOOLEAN /\ acted \in BOOLEAN /\ remembered \in BOOLEAN
    /\ stopped \in BOOLEAN
    /\ result \in Results

Nothing == [call |-> NoCall, n |-> 0]

Init ==
    /\ pc = "top" /\ i = 0 /\ extra = 0 /\ checks = 0
    /\ repairs = {} /\ batch = <<>>
    /\ last = Nothing /\ drift = Nothing /\ row = Nothing
    /\ overflowed = FALSE /\ acted = FALSE /\ remembered = FALSE
    /\ stopped = FALSE
    /\ result = "none"

Finish(r) == pc' = "done" /\ result' = r
-----------------------------------------------------------------------------
(* Iteration boundary: the budget, then the cancellation flag.  Steering     *)
(* messages are appended to the conversation here and change nothing else.   *)
Boundary ==
    /\ pc = "top"
    /\ \/ /\ i >= MaxIterations + extra
          /\ pc' = "synthesis" /\ UNCHANGED result
       \/ /\ i < MaxIterations + extra /\ stopped
          /\ Finish("cancelled")
       \/ /\ i < MaxIterations + extra /\ ~stopped
          /\ pc' = "model" /\ UNCHANGED result
    /\ UNCHANGED <<i, extra, repairs, checks, overflowed, batch, acted, last,
                   drift, remembered, stopped, row>>

(* The model call fails: a context overflow is compacted and retried once,   *)
(* anything else ends the loop with an exception.                            *)
ModelFails(overflow) ==
    /\ pc = "model"
    /\ IF overflow /\ ~overflowed
       THEN overflowed' = TRUE /\ UNCHANGED <<pc, result>>
       ELSE Finish("error") /\ UNCHANGED overflowed
    /\ UNCHANGED <<i, extra, repairs, checks, batch, acted, last, drift,
                   remembered, stopped, row>>

(* DriftTracker: consulted until a drift repair was made.  A call equal to   *)
(* the last one is "repeating"; StreakLimit calls of one tool, a "streak".   *)
Watching == "drift" \notin repairs /\ i >= DriftFrom

Streak(c) == IF drift.call # NoCall /\ ToolOf[c] = ToolOf[drift.call]
             THEN drift.n + 1 ELSE 1

Drifts(r) ==
    \/ r.calls # <<>> /\ \/ r.calls[1] = drift.call
                         \/ Streak(r.calls[1]) >= StreakLimit
    \/ r.wanders /\ ~SkipDrift

Tracked(r) == IF Watching /\ r.calls # <<>>
              THEN [call |-> r.calls[1], n |-> Streak(r.calls[1])]
              ELSE drift

(* Mutant: a repair's flag is not looked at before it is made again. *)
CallsForAgain(r) ==
    {k \in Repairs :
        \/ k = "drift" /\ Watching /\ Drifts(r)
        \/ /\ r.calls = <<>>
           /\ \/ k = "empty" /\ ~r.text
              \/ k = "hallucination" /\ r.claims}

(* Which repairs a response calls for; each is made at most once. *)
CallsFor(r) ==
    {k \in Repairs \ repairs :
        \/ k = "drift" /\ Watching /\ Drifts(r)
        \/ /\ r.calls = <<>>
           /\ \/ k = "empty" /\ ~r.text
              \/ k = "hallucination" /\ r.claims
              \/ k = "refusal" /\ ~acted /\ ~ShortFollowUp
              \/ k = "intent" /\ ~acted /\ "refusal" \in repairs /\ r.announces}

FirstOf(ks) ==
    CHOOSE k \in ks : \E m \in 1..5 : /\ RepairOrder[m] = k
                                      /\ \A l \in 1..(m-1) : RepairOrder[l] \notin ks

(* The response is sent back with one more iteration granted.  Hallucination,*)
(* refusal and intent remember the answer they reject; drift does not.       *)
Repair(r) ==
    /\ pc = "model"
    /\ CallsFor(r) # {}
    /\ LET k == FirstOf(CallsFor(r))
       IN  /\ repairs' = repairs \cup {k}
           /\ remembered' = (remembered \/ (r.text /\ k # "drift"))
    /\ extra' = extra + 1
    /\ i' = i + 1
    /\ drift' = Tracked(r)
    /\ pc' = "top"
    /\ UNCHANGED <<checks, overflowed, batch, acted, last, result, stopped, row>>

(* The response asks for tools. *)
StartTools(r) ==
    /\ pc = "model"
    /\ CallsFor(r) = {}
    /\ r.calls # <<>>
    /\ batch' = r.calls
    /\ drift' = Tracked(r)
    /\ pc' = "tools"
    /\ UNCHANGED <<i, extra, repairs, checks, overflowed, acted, last,
                   remembered, result, stopped, row>>

(* The end of a call's turn: the next call of the batch, or the next         *)
(* iteration.                                                                *)
NextCall ==
    /\ batch' = Tail(batch)
    /\ acted' = TRUE
    /\ IF Len(batch) = 1 THEN pc' = "top" /\ i' = i + 1
                         ELSE pc' = "tools" /\ UNCHANGED i
    /\ UNCHANGED <<extra, repairs, checks, overflowed, drift, remembered,
                   result, stopped>>

Repeats(c) == IF c = last.call THEN last.n + 1 ELSE 0

(* Mutant: an invalid call in between forgets the repeated one. *)
RejectCallForgets ==
    /\ pc = "tools"
    /\ Head(batch) \in Invalid
    /\ last' = Nothing
    /\ NextCall
    /\ UNCHANGED row

(* Parameters the schema refuses are answered without running anything. *)
RejectCall ==
    /\ pc = "tools"
    /\ Head(batch) \in Invalid
    /\ NextCall
    /\ UNCHANGED <<last, row>>

(* Action dedup: the third identical call in a row is blocked, once. *)
BlockCall ==
    /\ pc = "tools"
    /\ Head(batch) \notin Invalid
    /\ Repeats(Head(batch)) >= 2
    /\ last' = Nothing
    /\ row' = Nothing
    /\ NextCall

(* The tool starts. *)
RunCall ==
    /\ pc = "tools"
    /\ LET c == Head(batch)
       IN  /\ c \notin Invalid
           /\ Repeats(c) < 2
           /\ last' = [call |-> c, n |-> Repeats(c)]
           /\ row' = [call |-> c, n |-> IF c = row.call THEN row.n + 1 ELSE 1]
    /\ pc' = "running"
    /\ UNCHANGED <<i, extra, repairs, checks, overflowed, batch, acted, drift,
                   remembered, result, stopped>>

(* What the tool answers, or that it throws, is an observation. *)
Observe ==
    /\ pc = "running"
    /\ NextCall
    /\ UNCHANGED <<last, row>>

(* Mutant: the number of checkpoints is not looked at. *)
CheckpointRejectsAlways(r, grant) ==
    /\ pc = "model"
    /\ CallsFor(r) = {} /\ r.calls = <<>>
    /\ checks' = checks + 1
    /\ extra' = extra + grant
    /\ i' = i + 1
    /\ drift' = Tracked(r)
    /\ pc' = "top"
    /\ UNCHANGED <<repairs, overflowed, batch, acted, last, remembered, result,
                   stopped, row>>

(* The checkpoint rejects a natural stop and grants iterations. *)
CheckpointRejects(r, grant) ==
    /\ pc = "model"
    /\ CallsFor(r) = {} /\ r.calls = <<>>
    /\ checks < MaxChecks
    /\ checks' = checks + 1
    /\ extra' = extra + grant
    /\ i' = i + 1
    /\ drift' = Tracked(r)
    /\ pc' = "top"
    /\ UNCHANGED <<repairs, overflowed, batch, acted, last, remembered, result,
                   stopped, row>>

(* A natural stop: an empty answer is replaced by the remembered one. *)
Accept(r) ==
    /\ pc = "model"
    /\ CallsFor(r) = {} /\ r.calls = <<>>
    /\ checks' = IF checks < MaxChecks THEN checks + 1 ELSE checks
    /\ Finish(IF r.text \/ remembered THEN "answer" ELSE "empty")
    /\ UNCHANGED <<i, extra, repairs, overflowed, batch, acted, last, drift,
                   remembered, stopped, row>>

(* The budget is used up: one call without tools, which always leaves some   *)
(* text; when it fails, the last observation - possibly empty - is returned. *)
Synthesise(ok, blank) ==
    /\ pc = "synthesis"
    /\ Finish(IF ok THEN "synthesis"
              ELSE IF acted /\ blank THEN "fallback_empty" ELSE "fallback")
    /\ UNCHANGED <<i, extra, repairs, checks, overflowed, batch, acted, last,
                   drift, remembered, stopped, row>>

(* The user's !stop, while the loop awaits the model or a tool. *)
Stop ==
    /\ pc \in {"model", "running", "synthesis"} /\ ~stopped
    /\ stopped' = TRUE
    /\ UNCHANGED <<pc, i, extra, repairs, checks, overflowed, batch, acted,
                   last, drift, remembered, result, row>>

Answer(r) ==
    \/ Repair(r)
    \/ StartTools(r)
    \/ \E g \in 0..GrantMax : CheckpointRejects(r, g)
    \/ Accept(r)

Loop ==
    \/ Boundary
    \/ \E overflow \in BOOLEAN : ModelFails(overflow)
    \/ \E r \in Response : Answer(r)
    \/ RejectCall \/ BlockCall \/ RunCall \/ Observe
    \/ \E ok, blank \in BOOLEAN : Synthesise(ok, blank)

Done == pc = "done" /\ UNCHANGED vars

Next == Loop \/ Stop \/ Done

(* Model and tool calls return or time out (ollama client, per-tool limits). *)
Spec == Init /\ [][Next]_vars /\ WF_vars(Loop)
-----------------------------------------------------------------------------
(* Properties *)

(* Repairs and checkpoints never turn into an endless loop: however they mix *)
(* with tool calls, the iterations stay within maxIterations, one more per   *)
(* kind of repair and GrantMax per checkpoint (engine.ts:569: "bounded: each *)
(* flag fires at most once").                                                *)
IterationsBounded == i <= MaxIterations + 5 + MaxChecks * GrantMax

(* No tool runs three times in a row with the same parameters without the    *)
(* model having been told to stop, not even across iterations.               *)
NoThirdRun == row.n <= 2
=============================================================================
