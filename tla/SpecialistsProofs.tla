-------------------------- MODULE SpecialistsProofs --------------------------
(* Proofs about the ways a request is worked on (MCSpecialists): the tool    *)
(* loop, the plan and multi run, the pipelines that act for the user, and    *)
(* the research pipeline, each with the invariant it keeps; at the end they  *)
(* are joined, as a request takes one of them.                               *)
EXTENDS MCSpecialists, FiniteSetTheorems, WellFoundedInduction, TLAPS

-----------------------------------------------------------------------------
(* The loop is bounded and never runs a call three times in a row, for any   *)
(* tools, budgets, checkpoints and drift settings.                           *)

(* Each granted iteration is paid for by a repair flag or a checkpoint. *)
Granted == /\ IsFiniteSet(repairs)
           /\ extra <= Cardinality(repairs) + checks * GrantMax

(* The loop is inside an iteration only while its budget lasts. *)
InBudget == /\ i <= MaxIterations + extra
            /\ pc \in {"model", "tools", "running"} => i < MaxIterations + extra

(* A response waits to be run only while it has calls left. *)
BatchWaits == pc \in {"tools", "running"} => batch # <<>>

(* The dedup counter counts the executions it means to limit. *)
RowMatchesDedup == /\ row.call = last.call
                   /\ row.call # NoCall => row.n = last.n + 1 /\ last.n <= 1
                   /\ row.call = NoCall => row.n = 0

IInv == TypeOK /\ Granted /\ InBudget /\ BatchWaits /\ RowMatchesDedup

USE LoopAssumption

LEMMA InitIInv == Init => IInv
  <1> SUFFICES ASSUME Init PROVE IInv
    OBVIOUS
  <1>1. IsFiniteSet(repairs) /\ Cardinality(repairs) = 0
    BY FS_EmptySet DEF Init
  <1>2. Granted
    BY <1>1 DEF Init, Granted
  <1>3. TypeOK
    <2>1. Nothing \in Occurrence
      BY DEF Occurrence, Nothing
    <2>2. batch \in Seq(Calls)
      BY DEF Init
    <2>3. checks \in 0..MaxChecks
      BY DEF Init, LoopAssumption
    <2> QED
      BY <2>1, <2>2, <2>3 DEF Init, TypeOK, Results
  <1> QED
    BY <1>2, <1>3 DEF Init, IInv, InBudget, BatchWaits, RowMatchesDedup, Nothing

(* What a response is made of. *)
LEMMA ResponseType ==
  ASSUME NEW r \in Response
  PROVE  r.calls \in Seq(Calls) /\ r.text \in BOOLEAN
  <1>1. CASE r \in Asking
    <2>1. r.calls \in UNION {[1..n -> Calls] : n \in 1..MaxBatch} /\ r.text = FALSE
      BY <1>1 DEF Asking
    <2>2. PICK n \in 1..MaxBatch : r.calls \in [1..n -> Calls]
      BY <2>1
    <2>3. n \in Nat
      BY <2>2
    <2>4. r.calls \in Seq(Calls)
      BY <2>2, <2>3
    <2> QED
      BY <2>1, <2>4
  <1>2. CASE r \in Telling
    <2>1. r \in [calls : {<<>>}, text : BOOLEAN, claims : BOOLEAN,
                 announces : BOOLEAN, wanders : BOOLEAN]
      BY <1>2 DEF Telling
    <2>2. r.calls = <<>> /\ r.text \in BOOLEAN
      BY <2>1
    <2> QED
      BY <2>2
  <1> QED
    BY <1>1, <1>2 DEF Response

LEMMA TrackedType ==
  ASSUME TypeOK, NEW r \in Response
  PROVE  Tracked(r) \in Occurrence
  <1>1. CASE Watching /\ r.calls # <<>>
    <2>1. r.calls[1] \in Calls
      BY <1>1, ResponseType
    <2>2. Streak(r.calls[1]) \in Nat
      BY DEF Streak, TypeOK, Occurrence
    <2> QED
      BY <1>1, <2>1, <2>2 DEF Tracked, Occurrence
  <1>2. CASE ~(Watching /\ r.calls # <<>>)
    BY <1>2 DEF Tracked, TypeOK
  <1> QED
    BY <1>1, <1>2

LEMMA BoundaryIInv == IInv /\ Boundary => IInv'
  BY DEF IInv, TypeOK, Granted, InBudget, BatchWaits, RowMatchesDedup, Boundary,
         Finish, Results

LEMMA ModelFailsIInv ==
  ASSUME IInv, NEW overflow \in BOOLEAN, ModelFails(overflow)
  PROVE  IInv'
  BY DEF IInv, TypeOK, Granted, InBudget, BatchWaits, RowMatchesDedup,
         ModelFails, Finish, Results

(* A repair grants one iteration and uses up one flag that was not used. *)
LEMMA RepairIInv ==
  ASSUME IInv, NEW r \in Response, Repair(r)
  PROVE  IInv'
  <1> DEFINE k == FirstOf(CallsFor(r))
  <1>1. CallsFor(r) \subseteq Repairs \ repairs /\ CallsFor(r) # {}
    BY DEF Repair, CallsFor
  <1>2. k \in CallsFor(r)
    <2>1. PICK q \in CallsFor(r) : TRUE
      BY <1>1
    <2>2. \E q2 \in CallsFor(r) : \E m \in 1..5 :
             /\ RepairOrder[m] = q2
             /\ \A l \in 1..(m-1) : RepairOrder[l] \notin CallsFor(r)
      <3>1. PICK n \in 1..5 : RepairOrder[n] \in CallsFor(r)
        BY <1>1, <2>1 DEF Repairs
      <3>2. CASE RepairOrder[1] \in CallsFor(r)
        BY <3>2
      <3>3. CASE /\ RepairOrder[1] \notin CallsFor(r)
                 /\ RepairOrder[2] \in CallsFor(r)
        BY <3>3
      <3>4. CASE /\ \A l \in 1..2 : RepairOrder[l] \notin CallsFor(r)
                 /\ RepairOrder[3] \in CallsFor(r)
        BY <3>4
      <3>5. CASE /\ \A l \in 1..3 : RepairOrder[l] \notin CallsFor(r)
                 /\ RepairOrder[4] \in CallsFor(r)
        BY <3>5
      <3>6. CASE /\ \A l \in 1..4 : RepairOrder[l] \notin CallsFor(r)
                 /\ RepairOrder[5] \in CallsFor(r)
        BY <3>6
      <3> QED
        BY <3>1, <3>2, <3>3, <3>4, <3>5, <3>6
    <2> QED
      BY <2>2 DEF FirstOf
  <1>3. k \in Repairs /\ k \notin repairs
    BY <1>1, <1>2
  <1>4. /\ repairs' = repairs \cup {k}
        /\ extra' = extra + 1
        /\ UNCHANGED checks
    BY DEF Repair
  <1>5. /\ IsFiniteSet(repairs')
        /\ Cardinality(repairs') = Cardinality(repairs) + 1
    BY <1>3, <1>4, FS_AddElement DEF IInv, Granted
  <1>6. Cardinality(repairs) \in Nat /\ checks * GrantMax \in Int /\ extra \in Nat
    BY FS_CardinalityType DEF IInv, Granted, TypeOK
  <1>7. Granted'
    BY <1>4, <1>5, <1>6 DEF IInv, Granted
  <1>8. TypeOK'
    <2>1. repairs' \in SUBSET Repairs
      BY <1>3, <1>4 DEF IInv, TypeOK
    <2>2. remembered' \in BOOLEAN
      BY ResponseType DEF Repair, IInv, TypeOK
    <2>3. drift' \in Occurrence
      BY TrackedType DEF Repair, IInv
    <2> QED
      BY <2>1, <2>2, <2>3 DEF Repair, IInv, TypeOK
  <1> QED
    BY <1>7, <1>8
       DEF Repair, IInv, TypeOK, InBudget, BatchWaits, RowMatchesDedup

LEMMA StartToolsIInv ==
  ASSUME IInv, NEW r \in Response, StartTools(r)
  PROVE  IInv'
  <1>1. drift' \in Occurrence /\ batch' \in Seq(Calls)
    BY TrackedType, ResponseType DEF StartTools, IInv
  <1> QED
    BY <1>1 DEF StartTools, IInv, TypeOK, Granted, InBudget, BatchWaits,
                RowMatchesDedup

(* The end of a call's turn keeps everything but the dedup state. *)
LEMMA NextCallKeeps ==
  ASSUME IInv, NextCall, pc \in {"tools", "running"},
         last' \in Occurrence, row' \in Occurrence
  PROVE  (TypeOK /\ Granted /\ InBudget /\ BatchWaits)'
  <1>1. batch # <<>> /\ batch \in Seq(Calls)
    BY DEF IInv, BatchWaits, TypeOK
  <1>2. batch' \in Seq(Calls) /\ Len(batch') = Len(batch) - 1
    BY <1>1 DEF NextCall
  <1>3. CASE Len(batch) = 1
    BY <1>2, <1>3 DEF NextCall, IInv, TypeOK, Granted, InBudget, BatchWaits
  <1>4. CASE Len(batch) # 1
    <2>1. batch' # <<>>
      BY <1>1, <1>2, <1>4
    <2> QED
      BY <1>2, <1>4, <2>1
         DEF NextCall, IInv, TypeOK, Granted, InBudget, BatchWaits
  <1> QED
    BY <1>3, <1>4

LEMMA RejectCallIInv == IInv /\ RejectCall => IInv'
  BY NextCallKeeps DEF RejectCall, IInv, TypeOK, RowMatchesDedup

LEMMA BlockCallIInv == IInv /\ BlockCall => IInv'
  <1> SUFFICES ASSUME IInv, BlockCall PROVE IInv'
    OBVIOUS
  <1>1. last' = Nothing /\ row' = Nothing /\ Nothing \in Occurrence
    BY DEF BlockCall, Nothing, Occurrence
  <1>2. RowMatchesDedup'
    BY <1>1 DEF RowMatchesDedup, Nothing
  <1> QED
    BY <1>1, <1>2, NextCallKeeps DEF BlockCall, IInv

LEMMA RunCallIInv == IInv /\ RunCall => IInv'
  <1> SUFFICES ASSUME IInv, RunCall PROVE IInv'
    OBVIOUS
  <1> DEFINE c == Head(batch)
  <1>1. c \in Calls /\ c # NoCall
    BY DEF IInv, TypeOK, BatchWaits, RunCall
  <1>2. last \in Occurrence /\ row \in Occurrence /\ Repeats(c) \in Nat
    BY DEF IInv, TypeOK, Occurrence, Repeats
  <1>3. /\ last' = [call |-> c, n |-> Repeats(c)]
        /\ row' = [call |-> c, n |-> IF c = row.call THEN row.n + 1 ELSE 1]
        /\ Repeats(c) < 2
    BY DEF RunCall
  <1>4. last' \in Occurrence /\ row' \in Occurrence
    BY <1>1, <1>2, <1>3 DEF Occurrence
  <1>5. RowMatchesDedup'
    BY <1>1, <1>2, <1>3 DEF IInv, RowMatchesDedup, Repeats, Occurrence
  <1> QED
    BY <1>4, <1>5
       DEF RunCall, IInv, TypeOK, Granted, InBudget, BatchWaits

LEMMA ObserveIInv == IInv /\ Observe => IInv'
  BY NextCallKeeps DEF Observe, IInv, TypeOK, RowMatchesDedup

(* A checkpoint rejection grants at most GrantMax and counts once. *)
LEMMA CheckpointIInv ==
  ASSUME IInv, NEW r \in Response, NEW g \in 0..GrantMax,
         CheckpointRejects(r, g)
  PROVE  IInv'
  <1>1. /\ extra' = extra + g /\ checks' = checks + 1 /\ i' = i + 1
        /\ checks < MaxChecks /\ pc = "model" /\ pc' = "top"
        /\ UNCHANGED repairs
    BY DEF CheckpointRejects
  <1>2. (checks + 1) * GrantMax = checks * GrantMax + GrantMax
    BY DEF IInv, TypeOK
  <1>3. Cardinality(repairs) \in Nat /\ checks * GrantMax \in Int /\ extra \in Nat
    BY FS_CardinalityType DEF IInv, Granted, TypeOK
  <1>4. Granted'
    BY <1>1, <1>2, <1>3 DEF IInv, Granted
  <1>5. drift' \in Occurrence
    BY TrackedType DEF CheckpointRejects, IInv
  <1>6. TypeOK'
    BY <1>1, <1>5 DEF CheckpointRejects, IInv, TypeOK
  <1>7. InBudget'
    BY <1>1 DEF IInv, InBudget, TypeOK
  <1> QED
    BY <1>4, <1>6, <1>7
       DEF CheckpointRejects, IInv, BatchWaits, RowMatchesDedup

LEMMA AcceptIInv ==
  ASSUME IInv, NEW r \in Response, Accept(r)
  PROVE  IInv'
  <1>1. Granted'
    <2>1. Cardinality(repairs) \in Nat /\ checks \in Nat
      BY FS_CardinalityType DEF IInv, Granted, TypeOK
    <2>2. (checks + 1) * GrantMax = checks * GrantMax + GrantMax
      BY <2>1
    <2>3. checks' = checks \/ checks' = checks + 1
      BY DEF Accept
    <2> QED
      BY <2>1, <2>2, <2>3 DEF Accept, IInv, Granted, TypeOK
  <1> QED
    BY <1>1 DEF Accept, Finish, Results, IInv, TypeOK, InBudget, BatchWaits,
                RowMatchesDedup

LEMMA SynthesiseIInv ==
  ASSUME IInv, NEW ok \in BOOLEAN, NEW blank \in BOOLEAN, Synthesise(ok, blank)
  PROVE  IInv'
  BY DEF IInv, TypeOK, Granted, InBudget, BatchWaits, RowMatchesDedup,
         Synthesise, Finish, Results

LEMMA StopIInv == IInv /\ (Stop \/ UNCHANGED vars) => IInv'
  BY DEF IInv, TypeOK, Granted, InBudget, BatchWaits, RowMatchesDedup, Stop,
         vars

LEMMA NextIInv == IInv /\ [Next]_vars => IInv'
  BY BoundaryIInv, ModelFailsIInv, RepairIInv, StartToolsIInv, RejectCallIInv,
     BlockCallIInv, RunCallIInv, ObserveIInv, CheckpointIInv, AcceptIInv,
     SynthesiseIInv, StopIInv
  DEF Next, Loop, Answer, Done

(* One more element makes a set larger by at most one. *)
LEMMA OneMore ==
  ASSUME NEW S, NEW x, NEW n \in Nat, NEW m \in Nat, m = n + 1,
         IsFiniteSet(S), Cardinality(S) <= n
  PROVE  IsFiniteSet(S \cup {x}) /\ Cardinality(S \cup {x}) <= m
  <1>1. Cardinality(S) \in Nat
    BY FS_CardinalityType
  <1>2. CASE x \in S
    <2>1. S \cup {x} = S
      BY <1>2
    <2> QED
      BY <1>1, <2>1
  <1>3. CASE x \notin S
    <2>1. /\ IsFiniteSet(S \cup {x})
          /\ Cardinality(S \cup {x}) = Cardinality(S) + 1
      BY <1>3, FS_AddElement
    <2> QED
      BY <1>1, <2>1
  <1> QED
    BY <1>2, <1>3

(* At most five repairs can ever be paid for. *)
LEMMA FiveRepairs ==
  ASSUME repairs \in SUBSET Repairs
  PROVE  Cardinality(repairs) <= 5
  <1> DEFINE A == {} \cup {"drift"}
             B == A \cup {"empty"}
             C == B \cup {"hallucination"}
             D == C \cup {"refusal"}
             E == D \cup {"intent"}
  <1>1. E = Repairs
    BY DEF Repairs, RepairOrder
  <1>2. IsFiniteSet({}) /\ Cardinality({}) <= 0
    BY FS_EmptySet
  <1>0. /\ 1 = 0 + 1 /\ 2 = 1 + 1 /\ 3 = 2 + 1 /\ 4 = 3 + 1 /\ 5 = 4 + 1
        /\ 0 \in Nat /\ 1 \in Nat /\ 2 \in Nat /\ 3 \in Nat /\ 4 \in Nat /\ 5 \in Nat
    OBVIOUS
  <1> HIDE DEF A, B, C, D, E
  <1>3. IsFiniteSet(A) /\ Cardinality(A) <= 1
    BY <1>2, <1>0, OneMore DEF A
  <1>4. IsFiniteSet(B) /\ Cardinality(B) <= 2
    BY <1>3, <1>0, OneMore DEF B
  <1>5. IsFiniteSet(C) /\ Cardinality(C) <= 3
    BY <1>4, <1>0, OneMore DEF C
  <1>6. IsFiniteSet(D) /\ Cardinality(D) <= 4
    BY <1>5, <1>0, OneMore DEF D
  <1>7. IsFiniteSet(E) /\ Cardinality(E) <= 5
    BY <1>6, <1>0, OneMore DEF E
  <1>8. Cardinality(repairs) <= Cardinality(E) /\ IsFiniteSet(repairs)
    BY <1>1, <1>7, FS_Subset
  <1> QED
    BY <1>7, <1>8, FS_CardinalityType

(* Repairs and checkpoints cannot keep the loop going beyond its bound. *)
LEMMA LoopBound == IInv => IterationsBounded
  <1> SUFFICES ASSUME IInv PROVE IterationsBounded
    OBVIOUS
  <1>1. Cardinality(repairs) <= 5 /\ Cardinality(repairs) \in Nat
    BY FiveRepairs, FS_CardinalityType DEF IInv, TypeOK, Granted
  <1>2. /\ checks * GrantMax <= MaxChecks * GrantMax
        /\ checks * GrantMax \in Nat /\ MaxChecks * GrantMax \in Nat
    BY DEF IInv, TypeOK
  <1> QED
    BY <1>1, <1>2 DEF IInv, TypeOK, InBudget, Granted, IterationsBounded

(* No call is executed a third time in a row unless the loop blocked it once.*)
LEMMA ThirdRun == IInv => NoThirdRun
  BY DEF IInv, RowMatchesDedup, NoThirdRun, TypeOK, Occurrence

HIDE LoopAssumption

-----------------------------------------------------------------------------
(* The plan and the multi run.  An adjusted step is put in after a failure   *)
(* and not again before a success, so every second step that was taken pays  *)
(* for one; those still to be taken keep the whole below twice the plan.     *)

RunRec == [pc : O!Stages \cup {"ended", "failed"}, plan : Seq(O!Steps), first : Nat,
           index : Nat, iter : Nat, fails : Nat, ok : BOOLEAN, finished : BOOLEAN,
           results : Seq(O!Outcomes), answer : O!Answers]

Turns == {"own", "note"}

PlanShape ==
    /\ run \in RunRec /\ stop \in BOOLEAN
    /\ transcript \in Seq(Turns)
    /\ files \in [O!Positions -> {"mine", "other", None}]

PlanBounds ==
    /\ run.index <= Len(run.plan) /\ Len(run.results) = run.index
    /\ Len(run.plan) <= 2 * MaxSteps /\ run.first <= MaxSteps
    /\ run.iter <= MaxIter /\ run.fails <= run.iter

Unstarted == run.index = 0 /\ run.iter = 0 /\ run.first = 0

(* Where a stage finds the run. *)
PlanStage ==
    /\ run.pc \in {"generate", "parse", "reflect", "decompose", "direct"} => Unstarted
    /\ run.pc = "reflect" => Len(run.plan) \in 1..MaxSteps
    /\ run.pc = "loop" => Len(run.plan) > 0 /\ (run.iter = 0 => run.index = 0)
    /\ run.pc \in {"step", "sub", "check"} => run.iter < MaxIter
    /\ run.pc \in {"step", "sub"} => run.index < Len(run.plan)
    /\ run.pc = "check" => run.index > 0
    /\ run.pc \in {"summarize", "attach"} =>
          run.index = Len(run.plan) \/ run.finished \/ run.iter = MaxIter
    /\ run.pc \in {"attach"} => run.answer = "summary"
    /\ run.pc = "synthesize" => run.index = Len(run.plan)

InsertsPaid ==
    LET inserted == Len(run.plan) - run.first
        owed == IF run.fails > 0 THEN 1 ELSE 0
    IN /\ run.pc \in {"loop", "step", "sub"} => 2 * inserted <= run.index + owed
       /\ run.pc = "check" => 2 * inserted < run.index + owed
       /\ run.pc \in {"loop", "step", "sub", "check"} => run.first > 0

PlanInv == /\ PlanShape /\ PlanBounds /\ PlanStage /\ InsertsPaid
           /\ O!ReplansBounded /\ O!NothingDropped /\ O!HonestAnswer

LEMMA PlansAre ==
  ASSUME NEW p \in O!Plans
  PROVE  p \in Seq(O!Steps) /\ Len(p) \in 1..MaxSteps
  <1>1. PICK n \in 1..MaxSteps : p \in [1..n -> {"planned"}]
    BY DEF O!Plans
  <1>2. n \in Nat /\ p \in Seq({"planned"}) /\ Len(p) = n
    BY <1>1, BoundAssumption
  <1> QED
    BY <1>1, <1>2 DEF O!Steps

LEMMA ShortList ==
  ASSUME NEW S, NEW s \in Seq(S), NEW m \in Nat, Len(s) <= m
  PROVE  s \in UNION {[1..n -> S] : n \in 0..m}
  <1>1. Len(s) \in 0..m /\ s \in [1..Len(s) -> S]
    OBVIOUS
  <1> QED
    BY <1>1

LEMMA PlanInit == O!Init => PlanInv
  <1> SUFFICES ASSUME O!Init PROVE PlanInv
    OBVIOUS
  <1>1. PICK s \in {"generate", "decompose"} :
          run = [pc |-> s, plan |-> <<>>, first |-> 0, index |-> 0, iter |-> 0,
                 fails |-> 0, ok |-> TRUE, finished |-> FALSE, results |-> <<>>,
                 answer |-> None]
    BY DEF O!Init
  <1>2. run \in RunRec
    BY <1>1 DEF RunRec, O!Stages, O!Answers
  <1>4. files \in [O!Positions -> {"mine", "other", None}]
    <2>1. PICK f \in {"other", None} : files = [p \in O!Positions |-> f]
      BY DEF O!Init
    <2> QED
      BY <2>1
  <1>5. transcript \in Seq(Turns) /\ stop \in BOOLEAN
    <2>1. transcript = <<>> /\ stop = FALSE
      BY DEF O!Init
    <2>2. <<>> \in Seq(Turns)
      OBVIOUS
    <2> QED
      BY <2>1, <2>2
  <1>3. PlanShape
    BY <1>2, <1>4, <1>5 DEF PlanShape
  <1> QED
    BY <1>1, <1>3, BoundAssumption DEF PlanInv, PlanBounds, PlanStage, InsertsPaid, Unstarted,
       O!ReplansBounded, O!NothingDropped, O!HonestAnswer

(* What one step does to the run; the rest is the same for all. *)
LEMMA PlanTypes == PlanInv => O!TypeOK
  <1> SUFFICES ASSUME PlanInv PROVE O!TypeOK
    OBVIOUS
  <1> USE BoundAssumption
  <1>1. /\ run \in RunRec /\ PlanBounds /\ stop \in BOOLEAN
        /\ files \in [O!Positions -> {"mine", "other", None}]
    BY DEF PlanInv, PlanShape
  <1>2. /\ run.plan \in Seq(O!Steps) /\ run.results \in Seq(O!Outcomes)
        /\ Len(run.plan) <= 2 * MaxSteps /\ Len(run.results) <= 2 * MaxSteps
        /\ run.index \in Nat /\ run.index <= 2 * MaxSteps /\ 2 * MaxSteps \in Nat
    BY <1>1 DEF RunRec, PlanBounds
  <1>3. /\ run.plan \in UNION {[1..n -> O!Steps] : n \in 0..2 * MaxSteps}
        /\ run.results \in UNION {[1..n -> O!Outcomes] : n \in 0..2 * MaxSteps}
    BY <1>2, ShortList
  <1>4. \A n \in DOMAIN transcript : transcript[n] \in {"own", "note"}
    <2>1. transcript \in Seq(Turns)
      BY DEF PlanInv, PlanShape
    <2> QED
      BY <2>1 DEF Turns
  <1>5. /\ run.pc \in O!Stages \cup {"ended", "failed"}
        /\ run.index \in 0..2 * MaxSteps /\ run.iter \in 0..MaxIter
        /\ run.fails \in 0..MaxIter /\ {run.ok, run.finished} \subseteq BOOLEAN
        /\ run.first \in 0..MaxSteps /\ run.answer \in O!Answers
    BY <1>1 DEF RunRec, PlanBounds
  <1> QED
    BY <1>1, <1>3, <1>4, <1>5 DEF O!TypeOK

(* Only the answer and where the run is change. *)
LEMMA EndsKeep ==
  ASSUME PlanInv, NEW a \in O!Answers, O!Ends(a), UNCHANGED <<files, stop>>,
         run.pc \in O!Stages, a \in {"stopped", "summary", "direct"},
         a = "stopped" => stop,
         a = "summary" => run.index = Len(run.plan) \/ run.finished \/ run.iter = MaxIter
  PROVE  PlanInv'
  <1>1. run \in RunRec /\ run' = [run EXCEPT !.pc = "ended", !.answer = a]
    BY DEF PlanInv, PlanShape, O!Ends
  <1>2. /\ run' \in RunRec /\ run'.pc = "ended" /\ run'.answer = a
        /\ run'.plan = run.plan /\ run'.first = run.first /\ run'.index = run.index
        /\ run'.iter = run.iter /\ run'.fails = run.fails
        /\ run'.finished = run.finished /\ run'.results = run.results
    BY <1>1 DEF RunRec
  <1>3. transcript' \in Seq(Turns)
    BY DEF O!Ends, PlanInv, PlanShape, Turns
  <1>4. PlanShape' /\ PlanBounds'
    BY <1>2, <1>3 DEF PlanInv, PlanShape, PlanBounds
  <1>5. PlanStage' /\ InsertsPaid'
    BY <1>2 DEF PlanStage, InsertsPaid
  <1>6. O!ReplansBounded' /\ O!NothingDropped' /\ O!HonestAnswer'
    BY <1>2 DEF PlanInv, O!ReplansBounded, O!NothingDropped, O!HonestAnswer
  <1> QED
    BY <1>4, <1>5, <1>6 DEF PlanInv

LEMMA StoppedKeeps == PlanInv /\ O!Stopped => PlanInv'
  <1> SUFFICES ASSUME PlanInv, O!Stopped PROVE PlanInv'
    OBVIOUS
  <1>1. /\ "stopped" \in O!Answers /\ O!Ends("stopped") /\ UNCHANGED <<files, stop>>
        /\ run.pc \in O!Stages /\ stop
    BY DEF O!Stopped, O!Answers, O!PlanStages, O!Stages
  <1> QED
    BY <1>1, EndsKeep

LEMMA AttachKeeps == PlanInv /\ O!AttachFiles => PlanInv'
  <1> SUFFICES ASSUME PlanInv, O!AttachFiles PROVE PlanInv'
    OBVIOUS
  <1>1. /\ run.answer = "summary"
        /\ run.index = Len(run.plan) \/ run.finished \/ run.iter = MaxIter
    BY DEF PlanInv, PlanStage, O!AttachFiles, O!In
  <1>2. /\ "summary" \in O!Answers /\ O!Ends("summary") /\ UNCHANGED <<files, stop>>
        /\ run.pc \in O!Stages
    BY <1>1 DEF O!AttachFiles, O!In, O!Answers, O!Stages
  <1> QED
    BY <1>1, <1>2, EndsKeep

LEMMA SynthesizeKeeps == PlanInv /\ O!Synthesize => PlanInv'
  <1> SUFFICES ASSUME PlanInv, O!Synthesize PROVE PlanInv'
    OBVIOUS
  <1>1. run.index = Len(run.plan)
    BY DEF PlanInv, PlanStage, O!Synthesize, O!In
  <1>2. /\ "summary" \in O!Answers /\ O!Ends("summary") /\ UNCHANGED <<files, stop>>
        /\ run.pc \in O!Stages
    BY <1>1 DEF O!Synthesize, O!In, O!Answers, O!Stages
  <1> QED
    BY <1>1, <1>2, EndsKeep

LEMMA DirectKeeps == PlanInv /\ O!Direct => PlanInv'
  <1> SUFFICES ASSUME PlanInv, O!Direct PROVE PlanInv'
    OBVIOUS
  <1>2. /\ "direct" \in O!Answers /\ O!Ends("direct") /\ UNCHANGED <<files, stop>>
        /\ run.pc \in O!Stages
    BY DEF O!Direct, O!In, O!Answers, O!Stages
  <1> QED
    BY <1>2, EndsKeep

(* The stages that only go on, and the two ways to fail. *)
LEMMA GoingOnKeeps ==
  ASSUME PlanInv, UNCHANGED stop,
         transcript' \in Seq(Turns),
         files' \in [O!Positions -> {"mine", "other", None}],
         NEW next \in O!Stages \cup {"failed"}, NEW a \in O!Answers,
         run' = [run EXCEPT !.pc = next, !.answer = a],
         \/ next = "failed"
         \/ run.pc = "generate" /\ next = "parse"
         \/ run.pc = "loop" /\ next = "step" /\ run.iter < MaxIter
               /\ run.index < Len(run.plan)
         \/ /\ run.pc = "loop" /\ next = "summarize"
            /\ run.index = Len(run.plan) \/ run.finished \/ run.iter = MaxIter
         \/ run.pc = "step" /\ next = "sub"
         \/ run.pc = "summarize" /\ next = "attach" /\ a = "summary"
         \/ run.pc = "decompose" /\ next = "direct"
         \/ run.pc = "tasks" /\ next = "synthesize" /\ run.index = Len(run.plan)
  PROVE  PlanInv'
  <1>1. run \in RunRec
    BY DEF PlanInv, PlanShape
  <1>2. /\ run' \in RunRec /\ run'.pc = next /\ run'.answer = a
        /\ run'.plan = run.plan /\ run'.first = run.first /\ run'.index = run.index
        /\ run'.iter = run.iter /\ run'.fails = run.fails
        /\ run'.finished = run.finished /\ run'.results = run.results
    BY <1>1 DEF RunRec
  <1>3. next # "ended"
    BY DEF O!Stages
  <1>4. PlanShape' /\ PlanBounds'
    BY <1>2 DEF PlanInv, PlanShape, PlanBounds
  <1>5. PlanStage' /\ InsertsPaid'
    BY <1>2 DEF PlanInv, PlanStage, InsertsPaid, Unstarted
  <1>6. O!ReplansBounded' /\ O!NothingDropped' /\ O!HonestAnswer'
    BY <1>2, <1>3 DEF PlanInv, O!ReplansBounded, O!NothingDropped, O!HonestAnswer
  <1> QED
    BY <1>4, <1>5, <1>6 DEF PlanInv

LEMMA SimpleStagesKeep ==
  ASSUME PlanInv,
         \/ O!Throws \/ O!Generate \/ O!Loop \/ O!RunStep \/ O!Summarize
         \/ (O!In("decompose") /\ O!Quiet /\ run' = [run EXCEPT !.pc = "direct"])
         \/ O!AllTasks
  PROVE  PlanInv'
  <1>1. /\ run \in RunRec /\ transcript \in Seq(Turns)
        /\ files \in [O!Positions -> {"mine", "other", None}]
        /\ run.answer \in O!Answers
    BY DEF PlanInv, PlanShape, RunRec
  <1>2. \A s : [run EXCEPT !.pc = s] = [run EXCEPT !.pc = s, !.answer = run.answer]
    BY <1>1 DEF RunRec
  <1>3. /\ {"parse", "step", "summarize", "sub", "attach", "direct", "synthesize", "failed"}
               \subseteq O!Stages \cup {"failed"}
        /\ {"raw", "summary"} \subseteq O!Answers
    BY DEF O!Stages, O!Answers
  <1>4. CASE O!Throws
    <2>1. run' = [run EXCEPT !.pc = "failed", !.answer = run.answer] /\ O!Quiet
      BY <1>4, <1>2 DEF O!Throws
    <2> QED
      BY <1>1, <1>3, <2>1, GoingOnKeeps DEF O!Quiet
  <1>5. CASE O!Generate
    BY <1>1, <1>3, <1>5, GoingOnKeeps DEF O!Generate, O!Quiet, O!In
  <1>6. CASE O!Loop
    <2>1. /\ run.pc = "loop" /\ Len(run.plan) > 0 /\ (run.iter = 0 => run.index = 0)
          /\ run.index <= Len(run.plan) /\ run.iter <= MaxIter
          /\ run.index \in Nat /\ run.iter \in Nat /\ Len(run.plan) \in Nat
      BY <1>6, <1>1 DEF O!Loop, PlanInv, PlanStage, PlanBounds, RunRec
    <2>2. CASE run.iter < MaxIter /\ (run.iter = 0 \/ O!Continue)
      <3>1. run' = [run EXCEPT !.pc = "step", !.answer = run.answer] /\ O!Quiet
        BY <1>2, <1>6, <2>2 DEF O!Loop
      <3> QED
        BY <1>1, <1>3, <2>1, <2>2, <3>1, GoingOnKeeps DEF O!Quiet, O!Continue
    <2>3. CASE ~(run.iter < MaxIter /\ (run.iter = 0 \/ O!Continue))
      <3>1. run' = [run EXCEPT !.pc = "summarize", !.answer = run.answer] /\ O!Quiet
        BY <1>2, <1>6, <2>3 DEF O!Loop
      <3>2. run.index = Len(run.plan) \/ run.finished \/ run.iter = MaxIter
        BY <2>1, <2>3, BoundAssumption DEF O!Continue
      <3> QED
        BY <1>1, <1>3, <2>1, <3>1, <3>2, GoingOnKeeps DEF O!Quiet
    <2> QED
      BY <2>2, <2>3
  <1>7. CASE O!RunStep
    <2>1. run' = [run EXCEPT !.pc = "sub", !.answer = run.answer] /\ O!Quiet
      BY <1>7, <1>2 DEF O!RunStep
    <2> QED
      BY <1>1, <1>3, <1>7, <2>1, GoingOnKeeps DEF O!Quiet, O!RunStep, O!In
  <1>8. CASE O!Summarize
    BY <1>1, <1>3, <1>8, GoingOnKeeps DEF O!Summarize, O!Quiet, O!In
  <1>9. CASE O!In("decompose") /\ O!Quiet /\ run' = [run EXCEPT !.pc = "direct"]
    <2>1. run' = [run EXCEPT !.pc = "direct", !.answer = run.answer]
      BY <1>9, <1>2
    <2> QED
      BY <1>1, <1>3, <1>9, <2>1, GoingOnKeeps DEF O!Quiet, O!In
  <1>10. CASE O!AllTasks
    <2>1. run' = [run EXCEPT !.pc = "synthesize", !.answer = run.answer] /\ O!Quiet
      BY <1>10, <1>2 DEF O!AllTasks
    <2> QED
      BY <1>1, <1>3, <1>10, <2>1, GoingOnKeeps DEF O!Quiet, O!AllTasks
  <1> QED
    BY <1>4, <1>5, <1>6, <1>7, <1>8, <1>9, <1>10

LEMMA ParseKeeps == PlanInv /\ O!Parse => PlanInv'
  <1> SUFFICES ASSUME PlanInv, O!Parse PROVE PlanInv'
    OBVIOUS
  <1>1. PICK p \in O!Plans : run' = [run EXCEPT !.pc = "reflect", !.plan = p]
    BY DEF O!Parse
  <1>2. p \in Seq(O!Steps) /\ Len(p) \in 1..MaxSteps
    BY PlansAre
  <1>3. /\ run \in RunRec /\ run.pc = "parse" /\ Unstarted /\ Len(run.results) = 0
        /\ run.fails <= run.iter
    BY DEF PlanInv, PlanShape, PlanStage, PlanBounds, O!Parse, O!In, Unstarted
  <1>4. /\ run' \in RunRec /\ run'.pc = "reflect" /\ run'.answer = run.answer
        /\ run'.plan = p /\ run'.first = run.first /\ run'.index = run.index
        /\ run'.iter = run.iter /\ run'.fails = run.fails
        /\ run'.finished = run.finished /\ run'.results = run.results
    BY <1>1, <1>2, <1>3 DEF RunRec, O!Stages
  <1>5. PlanShape'
    BY <1>4 DEF PlanInv, PlanShape, O!Parse
  <1>6. PlanBounds' /\ PlanStage' /\ InsertsPaid' /\ Unstarted'
    BY <1>2, <1>3, <1>4, BoundAssumption DEF RunRec, PlanBounds, PlanStage, InsertsPaid, Unstarted
  <1>7. O!ReplansBounded' /\ O!NothingDropped' /\ O!HonestAnswer'
    BY <1>4, <1>6 DEF O!ReplansBounded, O!NothingDropped, O!HonestAnswer, Unstarted
  <1> QED
    BY <1>5, <1>6, <1>7 DEF PlanInv

(* The plan is taken up, by the loop or by the tasks. *)
LEMMA TakenUpKeeps ==
  ASSUME PlanInv, UNCHANGED <<transcript, files, stop>>,
         run.pc \in {"reflect", "decompose"}, NEW next \in {"loop", "tasks"},
         NEW p \in Seq(O!Steps), Len(p) \in 1..MaxSteps,
         run' = [run EXCEPT !.pc = next, !.plan = p, !.first = Len(p)]
  PROVE  PlanInv'
  <1>3. /\ run \in RunRec /\ Unstarted /\ Len(run.results) = 0
        /\ run.fails <= run.iter
    BY DEF PlanInv, PlanShape, PlanStage, PlanBounds, Unstarted
  <1>4. /\ run' \in RunRec /\ run'.pc \in {"loop", "tasks"} /\ run'.answer = run.answer
        /\ run'.plan = p /\ run'.first = Len(p) /\ run'.index = run.index
        /\ run'.iter = run.iter /\ run'.fails = run.fails
        /\ run'.finished = run.finished /\ run'.results = run.results
    <2>1. next \in O!Stages
      BY DEF O!Stages
    <2>2. Len(p) \in Nat
      OBVIOUS
    <2>3. run' = [pc |-> next, plan |-> p, first |-> Len(p), index |-> run.index,
                  iter |-> run.iter, fails |-> run.fails, ok |-> run.ok,
                  finished |-> run.finished, results |-> run.results, answer |-> run.answer]
      BY <1>3 DEF RunRec
    <2> QED
      BY <1>3, <2>1, <2>2, <2>3 DEF RunRec
  <1>5. PlanShape'
    BY <1>4 DEF PlanInv, PlanShape
  <1>6. PlanBounds' /\ PlanStage' /\ InsertsPaid'
    BY <1>3, <1>4, BoundAssumption DEF RunRec, PlanBounds, PlanStage, InsertsPaid, Unstarted
  <1>7. O!ReplansBounded' /\ O!NothingDropped' /\ O!HonestAnswer'
    BY <1>4, BoundAssumption DEF O!ReplansBounded, O!NothingDropped, O!HonestAnswer
  <1> QED
    BY <1>5, <1>6, <1>7 DEF PlanInv

LEMMA ReflectKeeps == PlanInv /\ O!Reflect => PlanInv'
  <1> SUFFICES ASSUME PlanInv, O!Reflect PROVE PlanInv'
    OBVIOUS
  <1>1. PICK p \in O!Plans \cup {run.plan} :
           run' = [run EXCEPT !.pc = "loop", !.plan = p, !.first = Len(p)]
    BY DEF O!Reflect
  <1>2. run.pc = "reflect" /\ UNCHANGED <<transcript, files, stop>>
    BY DEF O!Reflect, O!In, O!Quiet
  <1>3. run.plan \in Seq(O!Steps) /\ Len(run.plan) \in 1..MaxSteps
    BY <1>2 DEF PlanInv, PlanShape, PlanStage, RunRec
  <1>4. p \in Seq(O!Steps) /\ Len(p) \in 1..MaxSteps
    BY <1>3, PlansAre
  <1> QED
    BY <1>1, <1>2, <1>4, TakenUpKeeps

LEMMA DecomposeKeeps == PlanInv /\ O!Decompose => PlanInv'
  <1> SUFFICES ASSUME PlanInv, O!Decompose PROVE PlanInv'
    OBVIOUS
  <1>1. CASE run' = [run EXCEPT !.pc = "direct"]
    BY <1>1, SimpleStagesKeep DEF O!Decompose
  <1>2. CASE \E plan \in O!Plans :
                run' = [run EXCEPT !.pc = "tasks", !.plan = plan, !.first = Len(plan)]
    <2>1. PICK p \in O!Plans :
             run' = [run EXCEPT !.pc = "tasks", !.plan = p, !.first = Len(p)]
      BY <1>2
    <2>2. run.pc = "decompose" /\ UNCHANGED <<transcript, files, stop>>
      BY DEF O!Decompose, O!In, O!Quiet
    <2>3. p \in Seq(O!Steps) /\ Len(p) \in 1..MaxSteps
      BY PlansAre
    <2> QED
      BY <2>1, <2>2, <2>3, TakenUpKeeps
  <1> QED
    BY <1>1, <1>2 DEF O!Decompose

(* One more result. *)
Resulted(next, outcome, ok) ==
    run' = [run EXCEPT !.pc = next, !.index = @ + 1, !.results = Append(@, outcome), !.ok = ok]

LEMMA ResultKeeps ==
  ASSUME PlanInv, UNCHANGED stop, NEW outcome \in O!Outcomes, NEW next, NEW ok \in BOOLEAN,
         \/ run.pc = "sub" /\ next = "check"
         \/ run.pc = "tasks" /\ next = "tasks" /\ run.index < Len(run.plan),
         Resulted(next, outcome, ok),
         transcript' \in Seq(Turns),
         files' \in [O!Positions -> {"mine", "other", None}]
  PROVE  PlanInv'
  <1>1. run \in RunRec /\ Len(run.results) = run.index /\ run.results \in Seq(O!Outcomes)
    BY DEF PlanInv, PlanShape, PlanBounds, RunRec
  <1>2. /\ Append(run.results, outcome) \in Seq(O!Outcomes)
        /\ Len(Append(run.results, outcome)) = run.index + 1
    BY <1>1
  <1>10. next \in O!Stages
    BY DEF O!Stages
  <1>11. /\ run' \in RunRec /\ run'.pc = next /\ run'.answer = run.answer
         /\ run'.plan = run.plan /\ run'.first = run.first /\ run'.index = run.index + 1
         /\ run'.iter = run.iter /\ run'.fails = run.fails
         /\ run'.finished = run.finished /\ run'.results = Append(run.results, outcome)
    <2>1. run' = [pc |-> next, plan |-> run.plan, first |-> run.first,
                  index |-> run.index + 1, iter |-> run.iter, fails |-> run.fails, ok |-> ok,
                  finished |-> run.finished, results |-> Append(run.results, outcome),
                  answer |-> run.answer]
      BY <1>1 DEF RunRec, Resulted
    <2> QED
      BY <1>1, <1>2, <1>10, <2>1 DEF RunRec
  <1>3. /\ run' \in RunRec /\ run'.pc = next /\ run'.answer = run.answer
        /\ run'.plan = run.plan /\ run'.first = run.first /\ run'.index = run.index + 1
        /\ run'.iter = run.iter /\ run'.fails = run.fails
        /\ run'.finished = run.finished /\ Len(run'.results) = run.index + 1
    BY <1>2, <1>11
  <1>4. run.index < Len(run.plan) /\ run.index \in Nat
    BY <1>1 DEF PlanInv, PlanStage, RunRec
  <1>5. PlanShape'
    BY <1>3 DEF PlanInv, PlanShape
  <1>6. PlanBounds'
    <2>1. run.index + 1 <= Len(run.plan)
      BY <1>1, <1>4
    <2> QED
      BY <1>3, <2>1 DEF PlanInv, PlanBounds
  <1>7. PlanStage'
    BY <1>3, <1>4 DEF PlanInv, PlanStage
  <1>8. InsertsPaid'
    <2>1. /\ Len(run.plan) \in Nat /\ run.first \in Nat /\ run.fails \in Nat
      BY <1>1 DEF RunRec
    <2>2. CASE run.pc = "sub"
      <3>1. /\ run.first > 0
            /\ 2 * (Len(run.plan) - run.first)
                  <= run.index + IF run.fails > 0 THEN 1 ELSE 0
        BY <2>2 DEF PlanInv, InsertsPaid
      <3>2. 2 * (Len(run.plan) - run.first)
                  < run.index + 1 + IF run.fails > 0 THEN 1 ELSE 0
        BY <1>4, <2>1, <3>1
      <3> QED
        BY <1>11, <2>2, <3>1, <3>2 DEF InsertsPaid
    <2>3. CASE run.pc = "tasks"
      BY <1>11, <2>3 DEF InsertsPaid
    <2> QED
      BY <2>2, <2>3
  <1>9. O!ReplansBounded' /\ O!NothingDropped' /\ O!HonestAnswer'
    BY <1>3 DEF PlanInv, O!ReplansBounded, O!NothingDropped, O!HonestAnswer
  <1> QED
    BY <1>5, <1>6, <1>7, <1>8, <1>9 DEF PlanInv

LEMMA SubTaskKeeps == PlanInv /\ O!SubTaskEnds => PlanInv'
  <1> SUFFICES ASSUME PlanInv, O!SubTaskEnds PROVE PlanInv'
    OBVIOUS
  <1>1. PICK outcome \in {"success", "error"}, written \in BOOLEAN :
          /\ run' = [run EXCEPT !.pc = "check", !.index = @ + 1,
                                !.results = Append(@, outcome), !.ok = outcome = "success"]
          /\ transcript' = IF outcome = "success" THEN Append(transcript, "note")
                           ELSE transcript
          /\ files' = IF written THEN [files EXCEPT ![run.index + 1] = "mine"] ELSE files
    BY DEF O!SubTaskEnds
  <1>2. /\ transcript' \in Seq(Turns)
        /\ files' \in [O!Positions -> {"mine", "other", None}]
    <2>1. "note" \in Turns /\ transcript \in Seq(Turns)
          /\ files \in [O!Positions -> {"mine", "other", None}]
      BY DEF PlanInv, PlanShape, Turns
    <2>2. transcript' \in Seq(Turns)
      BY <1>1, <2>1
    <2>3. files' \in [O!Positions -> {"mine", "other", None}]
      BY <1>1, <2>1
    <2> QED
      BY <2>2, <2>3
  <1>3. /\ outcome \in O!Outcomes /\ (outcome = "success") \in BOOLEAN
        /\ run.pc = "sub" /\ UNCHANGED stop
    BY DEF O!Outcomes, O!SubTaskEnds
  <1> QED
    BY <1>1, <1>2, <1>3, ResultKeeps DEF Resulted

LEMMA TaskKeeps == PlanInv /\ O!Task => PlanInv'
  <1> SUFFICES ASSUME PlanInv, O!Task PROVE PlanInv'
    OBVIOUS
  <1>1. PICK outcome \in O!Outcomes :
          /\ run' = [run EXCEPT !.index = @ + 1, !.results = Append(@, outcome)]
          /\ transcript' = IF outcome = "success" THEN Append(transcript, "note")
                           ELSE transcript
    BY DEF O!Task
  <1>2. /\ transcript' \in Seq(Turns) /\ UNCHANGED stop
        /\ files' \in [O!Positions -> {"mine", "other", None}]
        /\ run.pc = "tasks" /\ run.index < Len(run.plan) /\ run \in RunRec
    BY <1>1 DEF PlanInv, PlanShape, O!Task, Turns
  <1>3. /\ run' = [run EXCEPT !.pc = "tasks", !.index = @ + 1,
                              !.results = Append(@, outcome), !.ok = run.ok]
        /\ run.ok \in BOOLEAN
    BY <1>1, <1>2 DEF RunRec
  <1> QED
    BY <1>2, <1>3, ResultKeeps DEF Resulted

(* A round of the loop ends: the plan stays, or an adjusted step comes in. *)
Round(p, fails, finished) ==
    run' = [pc |-> "loop", plan |-> p, first |-> run.first, index |-> run.index,
            iter |-> run.iter + 1, fails |-> fails, ok |-> run.ok,
            finished |-> finished, results |-> run.results, answer |-> run.answer]

LEMMA RoundKeeps ==
  ASSUME PlanInv, UNCHANGED <<transcript, files, stop>>, run.pc = "check",
         NEW p \in Seq(O!Steps), NEW fails \in Nat, NEW finished \in BOOLEAN,
         Round(p, fails, finished),
         fails <= run.fails + 1,
         \/ Len(p) = Len(run.plan)
         \/ /\ Len(p) = Len(run.plan) + 1 /\ run.index < Len(run.plan)
            /\ run.fails = 0 /\ fails = 1
  PROVE  PlanInv'
  <1>1. /\ run \in RunRec /\ run.iter < MaxIter /\ run.first > 0 /\ run.index > 0
        /\ run.index <= Len(run.plan) /\ run.first \in Nat /\ run.index \in Nat
        /\ run.iter \in Nat /\ run.fails \in Nat /\ Len(run.plan) \in Nat
        /\ run.fails <= run.iter /\ run.first <= MaxSteps
        /\ Len(run.plan) <= 2 * run.first /\ Len(run.plan) <= 2 * MaxSteps
        /\ Len(run.results) = run.index
    BY DEF PlanInv, PlanShape, PlanStage, PlanBounds, InsertsPaid, RunRec, O!ReplansBounded
  <1>2. /\ run' \in RunRec /\ run'.pc = "loop" /\ run'.answer = run.answer
        /\ run'.plan = p /\ run'.first = run.first /\ run'.index = run.index
        /\ run'.iter = run.iter + 1 /\ run'.fails = fails
        /\ run'.finished = finished /\ run'.results = run.results
    <2>1. "loop" \in O!Stages /\ run.iter + 1 \in Nat
      BY <1>1 DEF O!Stages
    <2> QED
      BY <1>1, <2>1 DEF RunRec, Round
  <1>3. /\ 2 * (Len(p) - run.first) <= run.index + IF fails > 0 THEN 1 ELSE 0
        /\ Len(p) <= 2 * run.first /\ Len(p) <= 2 * MaxSteps /\ run.index <= Len(p)
        /\ Len(p) > 0
    <2> DEFINE a == IF run.fails > 0 THEN 1 ELSE 0
               b == IF fails > 0 THEN 1 ELSE 0
    <2>1. /\ a \in {0, 1} /\ b \in {0, 1} /\ (run.fails = 0 => a = 0) /\ (fails = 1 => b = 1)
          /\ 2 * (Len(run.plan) - run.first) < run.index + a
      BY <1>1 DEF PlanInv, InsertsPaid
    <2> HIDE DEF a, b
    <2>2. /\ Len(p) \in Nat
          /\ \/ Len(p) = Len(run.plan)
             \/ Len(p) = Len(run.plan) + 1 /\ run.index < Len(run.plan) /\ a = 0 /\ b = 1
      BY <2>1
    <2> DEFINE l == Len(run.plan)
               m == Len(p)
               f == run.first
               x == run.index
    <2>4. /\ l \in Nat /\ m \in Nat /\ f \in Nat /\ x \in Nat /\ a \in {0, 1} /\ b \in {0, 1}
          /\ f > 0 /\ x > 0 /\ x <= l /\ l <= 2 * f /\ f <= MaxSteps /\ 2 * (l - f) < x + a
          /\ m = l \/ (m = l + 1 /\ x < l /\ a = 0 /\ b = 1)
      BY <1>1, <2>1, <2>2
    <2> HIDE DEF l, m, f, x
    <2>5. /\ 2 * (m - f) <= x + b
          /\ m <= 2 * f /\ m <= 2 * MaxSteps /\ x <= m /\ m > 0
      BY <2>4, BoundAssumption
    <2>3. /\ 2 * (Len(p) - run.first) <= run.index + b
          /\ Len(p) <= 2 * run.first /\ Len(p) <= 2 * MaxSteps /\ run.index <= Len(p)
          /\ Len(p) > 0
      BY <2>5 DEF l, m, f, x
    <2> QED
      BY <2>3 DEF b
  <1>4. PlanShape'
    BY <1>2 DEF PlanInv, PlanShape
  <1>5. PlanBounds'
    <2>1. fails <= run.iter + 1 /\ run.iter + 1 <= MaxIter
      BY <1>1, BoundAssumption
    <2> QED
      BY <1>1, <1>2, <1>3, <2>1 DEF PlanBounds
  <1>6. PlanStage'
    BY <1>1, <1>2, <1>3 DEF PlanStage
  <1>7. InsertsPaid'
    BY <1>1, <1>2, <1>3 DEF InsertsPaid
  <1>8. O!ReplansBounded' /\ O!NothingDropped' /\ O!HonestAnswer'
    BY <1>2, <1>3 DEF O!ReplansBounded, O!NothingDropped, O!HonestAnswer
  <1> QED
    BY <1>4, <1>5, <1>6, <1>7, <1>8 DEF PlanInv

LEMMA CheckKeeps == PlanInv /\ O!CheckProgress => PlanInv'
  <1> SUFFICES ASSUME PlanInv, O!CheckProgress PROVE PlanInv'
    OBVIOUS
  <1>1. /\ run \in RunRec /\ run.pc = "check" /\ UNCHANGED <<transcript, files, stop>>
    BY DEF PlanInv, PlanShape, O!CheckProgress, O!In, O!Quiet
  <1>2. /\ run.plan \in Seq(O!Steps) /\ run.fails \in Nat /\ run.finished \in BOOLEAN
        /\ run.index \in Nat /\ Len(run.plan) \in Nat
    BY <1>1 DEF RunRec
  <1>3. CASE run' = [run EXCEPT !.pc = "loop", !.iter = @ + 1, !.finished = TRUE]
    <2>1. Round(run.plan, run.fails, TRUE)
      BY <1>1, <1>3 DEF Round, RunRec
    <2>2. run.fails <= run.fails + 1 /\ TRUE \in BOOLEAN
      BY <1>2
    <2> QED
      BY <1>1, <1>2, <2>1, <2>2, RoundKeeps
  <1>4. CASE run' = [run EXCEPT !.pc = "loop", !.iter = @ + 1, !.fails = 0]
    <2>1. Round(run.plan, 0, run.finished)
      BY <1>1, <1>4 DEF Round, RunRec
    <2> QED
      BY <1>1, <1>2, <2>1, RoundKeeps
  <1>5. CASE \E finished \in BOOLEAN : O!Replans(run.plan, finished)
    <2>1. PICK finished \in BOOLEAN : O!Replans(run.plan, finished)
      BY <1>5
    <2>2. Round(run.plan, run.fails + 1, finished)
      BY <1>1, <2>1 DEF Round, RunRec, O!Replans
    <2> QED
      BY <1>1, <1>2, <2>2, RoundKeeps
  <1>6. CASE /\ run.index < Len(run.plan) /\ O!AskAgain
             /\ O!Replans(O!Before("adjusted"), FALSE)
    <2> DEFINE p == O!Before("adjusted")
    <2>1. /\ SubSeq(run.plan, 1, run.index) \in Seq(O!Steps)
          /\ Len(SubSeq(run.plan, 1, run.index)) = run.index
      BY <1>2, <1>6
    <2>2. /\ SubSeq(run.plan, run.index + 1, Len(run.plan)) \in Seq(O!Steps)
          /\ Len(SubSeq(run.plan, run.index + 1, Len(run.plan))) = Len(run.plan) - run.index
      BY <1>2, <1>6
    <2>3. <<"adjusted">> \in Seq(O!Steps) /\ Len(<<"adjusted">>) = 1
      <3>1. "adjusted" \in O!Steps
        BY DEF O!Steps
      <3> QED
        BY <3>1
    <2>4. p \in Seq(O!Steps) /\ Len(p) = Len(run.plan) + 1
      BY <1>2, <2>1, <2>2, <2>3 DEF O!Before
    <2>5. Round(p, 1, FALSE)
      <3>1. run.fails + 1 = 1
        BY <1>6 DEF O!AskAgain
      <3> QED
        BY <1>1, <1>6, <3>1 DEF Round, O!Replans, RunRec
    <2> HIDE DEF p
    <2>6. /\ 1 <= run.fails + 1 /\ 1 \in Nat /\ FALSE \in BOOLEAN
          /\ run.index < Len(run.plan) /\ run.fails = 0
      BY <1>6 DEF O!AskAgain
    <2> QED
      BY <1>1, <2>4, <2>5, <2>6, RoundKeeps
  <1> QED
    BY <1>3, <1>4, <1>5, <1>6 DEF O!CheckProgress

(* What others do. *)
LEMMA PlanStepKeeps == PlanInv /\ [O!Next]_<<run, transcript, files, stop>> => PlanInv'
  <1> SUFFICES ASSUME PlanInv, O!Next \/ UNCHANGED <<run, transcript, files, stop>>
               PROVE  PlanInv'
    OBVIOUS
  <1>1. CASE UNCHANGED <<run, transcript, files, stop>>
    BY <1>1 DEF PlanInv, PlanShape, PlanBounds, PlanStage, InsertsPaid, Unstarted,
       O!ReplansBounded, O!NothingDropped, O!HonestAnswer
  <1>2. CASE O!Stop
    BY <1>2 DEF PlanInv, PlanShape, PlanBounds, PlanStage, InsertsPaid, Unstarted, O!Stop,
       O!ReplansBounded, O!NothingDropped, O!HonestAnswer
  <1>3. CASE O!OtherPlan
    <2>1. files' \in [O!Positions -> {"mine", "other", None}]
      BY <1>3 DEF O!OtherPlan, PlanInv, PlanShape
    <2> QED
      BY <1>3, <2>1 DEF PlanInv, PlanShape, PlanBounds, PlanStage, InsertsPaid, Unstarted,
         O!OtherPlan, O!ReplansBounded, O!NothingDropped, O!HonestAnswer
  <1>4. CASE O!Work
    BY <1>4, StoppedKeeps, SimpleStagesKeep, ParseKeeps, ReflectKeeps, SubTaskKeeps,
       CheckKeeps, AttachKeeps, DecomposeKeeps, DirectKeeps, TaskKeeps, SynthesizeKeeps
       DEF O!Work
  <1> QED
    BY <1>1, <1>2, <1>3, <1>4 DEF O!Next, O!Done, O!vars

-----------------------------------------------------------------------------
(* The pipelines that act for the user.  First where each stage stands in    *)
(* the pipelines that have it.                                               *)

ByName == {"cron_run", "cron_remove", "cron_edit"}
ByTask == {"task_done", "task_update", "task_remove"}
Stored == {"memory_save", "memory_forget", "task_add"}
Shown == {"exec", "website"}
Actors == ByName \cup ByTask \cup Stored \cup Shown \cup {"message"}
ExtractAt(f) == IF f \in ByTask THEN 2 ELSE 1

StagesOf(f) ==
    CASE f \in ByName -> <<"extract", "gather_unless_known", "act_if_known", "confirm">>
      [] f \in ByTask -> <<"gather", "extract", "act", "confirm">>
      [] f \in Stored -> <<"extract", "act", "confirm">>
      [] f \in Shown -> <<"extract", "act", "answer">>
      [] f = "message" -> <<"extract", "defaults", "validate", "act", "confirm_send">>
      [] f = "cron_add" -> <<"extract", "defaults", "each", "confirm_each">>
      [] f \in {"cron_question", "cron_list"} -> <<"gather", "answer">>
      [] f \in {"memory_question", "task_question"} -> <<"answer">>
      [] f \in {"memory_recall", "task_list"} -> <<"extract", "gather", "answer">>
      [] f = "heartbeat" -> <<"gather", "analyze", "gather", "format">>
      [] f = "web_search" -> <<"extract_or_message", "gather", "pick", "gate", "fetch",
                               "synthesize", "review", "revise">>
      [] f = "code_gen" -> <<"projects", "enrich", "build", "verify", "fix", "re-verify",
                             "commit", "answer">>

Flows == Actors \cup {"cron_add", "cron_question", "cron_list", "memory_question",
         "task_question", "memory_recall", "task_list", "heartbeat", "web_search", "code_gen"}

LEMMA FlowsAre == DOMAIN P!Stages = Flows
  BY DEF P!Stages, Flows, Actors, ByName, ByTask, Stored, Shown

Branched == {"cron", "memory", "task"}

LEMMA BranchedAre ==
  /\ DOMAIN P!Branches = Branched
  /\ \A f \in Branched : P!Branches[f] \subseteq Flows \ {"message", "web_search", "code_gen"}
  /\ P!Pipelines \subseteq Branched \cup Flows /\ Branched \cap Flows = {}
  <1> USE DEF Flows, Actors, ByName, ByTask, Stored, Shown, Branched, P!Branches
  <1>1. DOMAIN P!Branches = Branched
    OBVIOUS
  <1>2. \A f \in Branched : P!Branches[f] \subseteq Flows \ {"message", "web_search", "code_gen"}
    OBVIOUS
  <1>3. P!Pipelines \subseteq Branched \cup Flows /\ Branched \cap Flows = {}
    BY <1>1 DEF P!Pipelines
  <1> QED
    BY <1>1, <1>2, <1>3

LEMMA ExtractEarly == \A f : ExtractAt(f) \in {1, 2}
  BY DEF ExtractAt

LEMMA StagesAre == \A f \in Flows : P!Stages[f] = StagesOf(f)
  <1> SUFFICES ASSUME NEW f \in Flows PROVE P!Stages[f] = StagesOf(f)
    OBVIOUS
  <1> USE DEF P!Stages, StagesOf, ByName, ByTask, Stored, Shown
  <1>1. CASE f \in ByName
    BY <1>1 DEF P!CronRun, P!CronRemove, P!CronEdit
  <1>2. CASE f \in ByTask
    BY <1>2 DEF P!TaskDone, P!TaskUpdate, P!TaskRemove
  <1>3. CASE f \in Stored
    BY <1>3 DEF P!MemorySave, P!MemoryForget, P!TaskAdd
  <1>4. CASE f \in Shown
    BY <1>4 DEF P!Exec, P!Website
  <1>5. CASE f \in {"message", "cron_add"}
    BY <1>5 DEF P!Message, P!CronAdd
  <1>6. CASE f \in {"cron_question", "cron_list", "memory_question", "task_question"}
    BY <1>6 DEF P!CronQuestion, P!CronList, P!MemoryQuestion, P!TaskQuestion
  <1>7. CASE f \in {"memory_recall", "task_list", "heartbeat"}
    BY <1>7 DEF P!MemoryRecall, P!TaskList, P!Heartbeat
  <1>8. CASE f \in {"web_search", "code_gen"}
    BY <1>8 DEF P!WebSearch, P!CodeGen
  <1> QED
    BY <1>1, <1>2, <1>3, <1>4, <1>5, <1>6, <1>7, <1>8 DEF Flows, Actors

(* What is known of a pipeline in which this stage stands there. *)
Placed(f, n, s, end) ==
    /\ s # "route"
    /\ f \in Actors => (s = "extract" <=> n = ExtractAt(f))
    /\ f = "message" => (s = "act" <=> n = 4)
    /\ s = "extract" => n < end /\ f \notin {"web_search", "code_gen"}
                        /\ (f = "cron_add" => n = 1) /\ (f = "message" => n = 1)
    /\ s = "extract_or_message" => n < end /\ f = "web_search" /\ n = 1
    /\ s \in {"gather", "gather_unless_known"} =>
          /\ n < end /\ f \notin {"message", "cron_add", "code_gen"}
          /\ f = "web_search" => n = 2
    /\ s \in {"act", "act_if_known"} => n < end /\ f \in Actors /\ n > ExtractAt(f)
    /\ s = "act_if_known" => f \in ByName
    /\ s = "confirm" => n = end /\ f \in ByName \cup ByTask \cup Stored
    /\ s = "defaults" => n < end /\ n = 2 /\ f \in {"message", "cron_add"}
    /\ s = "validate" => n < end /\ n = 3 /\ f = "message"
    /\ s = "confirm_send" => n = end /\ n = 5 /\ f = "message"
    /\ s = "each" => n < end /\ n = 3 /\ f = "cron_add"
    /\ s = "confirm_each" => n = end /\ n = 4 /\ f = "cron_add"
    /\ s = "answer" => n = end /\ f \notin {"message", "cron_add", "web_search"}
                       /\ (f = "code_gen" => n = 8)
    /\ s = "analyze" => n < end /\ f = "heartbeat"
    /\ s = "format" => n = end /\ f = "heartbeat"
    /\ s = "pick" => n < end /\ n = 3 /\ f = "web_search"
    /\ s = "gate" => n < end /\ n = 4 /\ f = "web_search"
    /\ s = "fetch" => n < end /\ n = 5 /\ f = "web_search"
    /\ s = "synthesize" => n < end /\ n = 6 /\ f = "web_search"
    /\ s = "review" => n < end /\ n = 7 /\ f = "web_search"
    /\ s = "revise" => n = end /\ n = 8 /\ f = "web_search"
    /\ s = "projects" => n < end /\ n = 1 /\ f = "code_gen"
    /\ s = "enrich" => n < end /\ n = 2 /\ f = "code_gen"
    /\ s = "build" => n < end /\ n = 3 /\ f = "code_gen"
    /\ s = "verify" => n < end /\ n = 4 /\ f = "code_gen"
    /\ s = "fix" => n < end /\ n = 5 /\ f = "code_gen"
    /\ s = "re-verify" => n < end /\ n = 6 /\ f = "code_gen"
    /\ s = "commit" => n < end /\ n = 7 /\ f = "code_gen"

LEMMA StagesPlaced ==
  \A f \in Flows :
     /\ Len(P!Stages[f]) \in 1..8
     /\ \A n \in 1..Len(P!Stages[f]) : Placed(f, n, P!Stages[f][n], Len(P!Stages[f]))
  <1> SUFFICES ASSUME NEW f \in Flows
               PROVE  /\ Len(P!Stages[f]) \in 1..8
                      /\ \A n \in 1..Len(P!Stages[f]) :
                            Placed(f, n, P!Stages[f][n], Len(P!Stages[f]))
    OBVIOUS
  <1> DEFINE g == P!Stages[f]
  <1>0. g = StagesOf(f)
    BY StagesAre
  <1> HIDE DEF g
  <1> USE DEF StagesOf, ByName, ByTask, Stored, Shown, Actors, ExtractAt
  <1>1. CASE f \in ByName
    <2>1. g = <<"extract", "gather_unless_known", "act_if_known", "confirm">>
      BY <1>0, <1>1
    <2>2. Len(g) = 4 /\ \A n \in 1..4 : n = 1 \/ n = 2 \/ n = 3 \/ n = 4
      BY <2>1
    <2> QED
      BY <1>1, <2>1, <2>2 DEF Placed, g
  <1>2. CASE f \in ByTask
    <2>1. g = <<"gather", "extract", "act", "confirm">>
      BY <1>0, <1>2
    <2>2. Len(g) = 4 /\ \A n \in 1..4 : n = 1 \/ n = 2 \/ n = 3 \/ n = 4
      BY <2>1
    <2> QED
      BY <1>2, <2>1, <2>2 DEF Placed, g
  <1>3. CASE f \in Stored
    <2>1. g = <<"extract", "act", "confirm">>
      BY <1>0, <1>3
    <2>2. Len(g) = 3 /\ \A n \in 1..3 : n = 1 \/ n = 2 \/ n = 3
      BY <2>1
    <2> QED
      BY <1>3, <2>1, <2>2 DEF Placed, g
  <1>4. CASE f \in Shown
    <2>1. g = <<"extract", "act", "answer">>
      BY <1>0, <1>4
    <2>2. Len(g) = 3 /\ \A n \in 1..3 : n = 1 \/ n = 2 \/ n = 3
      BY <2>1
    <2> QED
      BY <1>4, <2>1, <2>2 DEF Placed, g
  <1>5. CASE f = "message"
    <2>1. g = <<"extract", "defaults", "validate", "act", "confirm_send">>
      BY <1>0, <1>5
    <2>2. Len(g) = 5 /\ \A n \in 1..5 : n = 1 \/ n = 2 \/ n = 3 \/ n = 4 \/ n = 5
      BY <2>1
    <2> QED
      BY <1>5, <2>1, <2>2 DEF Placed, g
  <1>6. CASE f = "cron_add"
    <2>1. g = <<"extract", "defaults", "each", "confirm_each">>
      BY <1>0, <1>6
    <2>2. Len(g) = 4 /\ \A n \in 1..4 : n = 1 \/ n = 2 \/ n = 3 \/ n = 4
      BY <2>1
    <2> QED
      BY <1>6, <2>1, <2>2 DEF Placed, g
  <1>7. CASE f \in {"cron_question", "cron_list"}
    <2>1. g = <<"gather", "answer">>
      BY <1>0, <1>7
    <2>2. Len(g) = 2 /\ \A n \in 1..2 : n = 1 \/ n = 2
      BY <2>1
    <2> QED
      BY <1>7, <2>1, <2>2 DEF Placed, g
  <1>8. CASE f \in {"memory_question", "task_question"}
    <2>1. g = <<"answer">>
      BY <1>0, <1>8
    <2>2. Len(g) = 1 /\ \A n \in 1..1 : n = 1
      BY <2>1
    <2> QED
      BY <1>8, <2>1, <2>2 DEF Placed, g
  <1>9. CASE f \in {"memory_recall", "task_list"}
    <2>1. g = <<"extract", "gather", "answer">>
      BY <1>0, <1>9
    <2>2. Len(g) = 3 /\ \A n \in 1..3 : n = 1 \/ n = 2 \/ n = 3
      BY <2>1
    <2> QED
      BY <1>9, <2>1, <2>2 DEF Placed, g
  <1>10. CASE f = "heartbeat"
    <2>1. g = <<"gather", "analyze", "gather", "format">>
      BY <1>0, <1>10
    <2>2. Len(g) = 4 /\ \A n \in 1..4 : n = 1 \/ n = 2 \/ n = 3 \/ n = 4
      BY <2>1
    <2> QED
      BY <1>10, <2>1, <2>2 DEF Placed, g
  <1>11. CASE f = "web_search"
    <2>1. g = <<"extract_or_message", "gather", "pick", "gate", "fetch",
               "synthesize", "review", "revise">>
      BY <1>0, <1>11
    <2>2. Len(g) = 8 /\ \A n \in 1..8 : n = 1 \/ n = 2 \/ n = 3 \/ n = 4 \/ n = 5 \/ n = 6 \/ n = 7 \/ n = 8
      BY <2>1
    <2> QED
      BY <1>11, <2>1, <2>2 DEF Placed, g
  <1>12. CASE f = "code_gen"
    <2>1. g = <<"projects", "enrich", "build", "verify", "fix",
               "re-verify", "commit", "answer">>
      BY <1>0, <1>12
    <2>2. Len(g) = 8 /\ \A n \in 1..8 : n = 1 \/ n = 2 \/ n = 3 \/ n = 4 \/ n = 5 \/ n = 6 \/ n = 7 \/ n = 8
      BY <2>1
    <2> QED
      BY <1>12, <2>1, <2>2 DEF Placed, g
  <1> QED
    BY <1>1, <1>2, <1>3, <1>4, <1>5, <1>6, <1>7, <1>8, <1>9, <1>10, <1>11, <1>12 DEF Flows, g

PipeRec == [flow : Flows \cup Branched, at : 1..8, pc : {"running", "ended", "failed"},
            told : P!Told, known : BOOLEAN, jobs : 0..MaxJobs, lines : 0..MaxJobs,
            result : P!Results, target : P!Targets, elsewhere : BOOLEAN, sources : BOOLEAN,
            fixed : BOOLEAN, code : 0..2, tested : 0..2, verdict : P!Verdicts \cup {None}]

PipeShape ==
    /\ piped \in PipeRec /\ effects \subseteq 1..MaxJobs
    /\ stop \in BOOLEAN /\ structured \in BOOLEAN
    /\ piped.flow \in Flows => piped.at <= Len(P!Stages[piped.flow])
    /\ piped.flow \notin Flows =>
          /\ piped.at = 1 /\ piped.result = None /\ piped.lines = 0 /\ effects = {}
          /\ piped.told = IF piped.pc = "ended" THEN "stopped" ELSE None

(* A tool was called once for what was asked, or not at all. *)
Untouched == piped.result = None /\ piped.lines = 0 /\ effects = {}
Acted == /\ piped.result \in {"done", "error", "preview"} /\ piped.lines = 1 /\ piped.jobs = 1
         /\ effects = IF piped.result = "done" THEN {1} ELSE {}
ActedOnce == piped.flow \notin {"cron_add", "code_gen"} => Untouched \/ Acted

Asked == piped.flow \in Actors /\ piped.at > ExtractAt(piped.flow) => piped.jobs = 1

JobsCounted ==
    piped.flow = "cron_add" => /\ piped.lines <= piped.jobs /\ (piped.lines = 0 => effects = {})
                               /\ piped.at < 4 => piped.lines = 0

MessageChecked ==
    piped.flow = "message" => /\ piped.at <= 4 => Untouched
                              /\ piped.at = 5 => Acted
                              /\ piped.at >= 4 => piped.target # "misshapen"

CodeTested ==
    piped.flow = "code_gen" =>
        /\ piped.at <= 3 => piped.code = 0
        /\ piped.at <= 5 => piped.code <= 1
        /\ piped.at = 5 \/ (piped.at = 6 /\ ~piped.fixed) =>
              (piped.known => piped.tested = piped.code)

(* What the user has been told while the run goes on. *)
ToldSoFar ==
    /\ piped.pc = "running" =>
          \/ piped.told = None /\ ~(piped.flow = "web_search" /\ piped.at >= 7)
          \/ piped.told = "raw" /\ piped.flow = "code_gen"
          \/ piped.told = "written" /\ piped.flow = "web_search" /\ piped.at >= 7
    /\ piped.flow = "web_search" /\ piped.pc = "running" /\ piped.at >= 5 => piped.sources

PipeInv == /\ PipeShape /\ ActedOnce /\ Asked /\ JobsCounted /\ MessageChecked
           /\ CodeTested /\ ToldSoFar
           /\ P!NothingSilentlyMissing /\ P!NotToInvented /\ P!OnlyFromSources
           /\ P!VerdictIsOfLastCode

LEMMA PipeTypes == PipeInv => P!TypeOK
  BY FlowsAre, BranchedAre DEF PipeInv, PipeShape, PipeRec, P!TypeOK

LEMMA PipeInit == P!Init => PipeInv
  <1> SUFFICES ASSUME P!Init PROVE PipeInv
    OBVIOUS
  <1>1. PICK p \in P!Pipelines :
          piped = [flow |-> p, at |-> 1, pc |-> "running", told |-> None, known |-> FALSE,
                   jobs |-> 0, lines |-> 0, result |-> None, target |-> None,
                   elsewhere |-> FALSE, sources |-> FALSE,
                   fixed |-> FALSE, code |-> 0, tested |-> 0, verdict |-> None]
    BY DEF P!Init
  <1>2. p \in Flows \cup Branched
    BY BranchedAre
  <1>3. /\ None \in P!Told /\ None \in P!Results /\ None \in P!Targets
        /\ effects = {} /\ stop = FALSE /\ structured = TRUE
    BY DEF P!Told, P!Results, P!Targets, P!Init
  <1>7. p \in Flows => Len(P!Stages[p]) >= 1
    BY StagesPlaced
  <1>4. piped \in PipeRec
    BY <1>1, <1>2, <1>3, BoundAssumption DEF PipeRec
  <1>5. PipeShape
    BY <1>1, <1>3, <1>4, <1>7 DEF PipeShape
  <1>6. Untouched /\ Asked
    <2>1. piped.at = 1 /\ piped.lines = 0 /\ piped.result = None
      BY <1>1
    <2>2. ~(piped.at > ExtractAt(piped.flow))
      BY <2>1, ExtractEarly
    <2>3. Asked
      BY <2>2 DEF Asked
    <2> QED
      BY <1>3, <2>1, <2>3 DEF Untouched
  <1>8. /\ piped.at = 1 /\ piped.pc = "running" /\ piped.told = None /\ piped.code = 0
        /\ piped.lines = 0 /\ piped.jobs = 0
    BY <1>1
  <1>9. ActedOnce /\ JobsCounted /\ MessageChecked
    BY <1>3, <1>6, <1>8 DEF ActedOnce, JobsCounted, MessageChecked
  <1>10. CodeTested /\ ToldSoFar /\ P!VerdictIsOfLastCode
    BY <1>8 DEF CodeTested, ToldSoFar, P!VerdictIsOfLastCode
  <1>11. P!NothingSilentlyMissing /\ P!NotToInvented /\ P!OnlyFromSources
    BY <1>3, <1>8, NoneAssumption
       DEF P!NothingSilentlyMissing, P!NotToInvented, P!OnlyFromSources, P!Over
  <1> QED
    BY <1>5, <1>6, <1>9, <1>10, <1>11 DEF PipeInv

LEMMA NeverRoute ==
  ASSUME PipeInv, piped.flow \in Flows
  PROVE  P!Stages[piped.flow][piped.at] # "route"
  <1>1. /\ piped.at \in 1..8 /\ piped.at <= Len(P!Stages[piped.flow])
        /\ Len(P!Stages[piped.flow]) \in 1..8
    BY StagesPlaced DEF PipeInv, PipeShape, PipeRec
  <1>2. piped.at \in 1..Len(P!Stages[piped.flow])
    BY <1>1
  <1> QED
    BY <1>2, StagesPlaced DEF Placed

(* The stage after a stage. *)
LEMMA AfterIs ==
  ASSUME NEW c \in PipeRec, c.flow \in Flows, c.at <= Len(P!Stages[c.flow])
  PROVE  /\ P!After(c) \in PipeRec /\ P!After(c).flow = c.flow /\ P!After(c).told = c.told
         /\ P!After(c).known = c.known /\ P!After(c).jobs = c.jobs
         /\ P!After(c).lines = c.lines /\ P!After(c).result = c.result
         /\ P!After(c).target = c.target /\ P!After(c).sources = c.sources
         /\ P!After(c).fixed = c.fixed /\ P!After(c).code = c.code
         /\ P!After(c).tested = c.tested
         /\ c.at = Len(P!Stages[c.flow]) => P!After(c).at = c.at /\ P!After(c).pc = "ended"
         /\ c.at < Len(P!Stages[c.flow]) => P!After(c).at = c.at + 1 /\ P!After(c).pc = c.pc
         /\ P!After(c).at <= Len(P!Stages[c.flow])
  <1>1. Len(P!Stages[c.flow]) \in 1..8 /\ c.at \in 1..8
    BY StagesPlaced DEF PipeRec
  <1>2. CASE c.at = Len(P!Stages[c.flow])
    <2>1. P!After(c) = [c EXCEPT !.pc = "ended"]
      BY <1>2 DEF P!After
    <2> QED
      BY <1>1, <1>2, <2>1 DEF PipeRec
  <1>3. CASE c.at < Len(P!Stages[c.flow])
    <2> DEFINE l == Len(P!Stages[c.flow])
    <2>0. l \in 1..8 /\ c.at \in 1..8 /\ c.at < l
      BY <1>1, <1>3
    <2> HIDE DEF l
    <2>3. c.at + 1 \in 1..8 /\ c.at # l /\ c.at + 1 <= l
      BY <2>0
    <2>1. c.at + 1 \in 1..8 /\ c.at # Len(P!Stages[c.flow])
          /\ c.at + 1 <= Len(P!Stages[c.flow])
      BY <2>3 DEF l
    <2>2. P!After(c) = [c EXCEPT !.at = c.at + 1]
      BY <2>1 DEF P!After
    <2> QED
      BY <1>1, <1>3, <2>1, <2>2 DEF PipeRec
  <1> QED
    BY <1>1, <1>2, <1>3

(* Where a stage is found. *)
LEMMA InIs ==
  ASSUME PipeInv, NEW s, P!In(s), s # "route"
  PROVE  /\ piped \in PipeRec /\ piped.pc = "running" /\ ~stop /\ piped.flow \in Flows
         /\ piped.at \in 1..8 /\ piped.at <= Len(P!Stages[piped.flow])
         /\ Len(P!Stages[piped.flow]) \in 1..8
         /\ Placed(piped.flow, piped.at, s, Len(P!Stages[piped.flow]))
  <1>1. /\ piped \in PipeRec /\ piped.pc = "running" /\ ~stop /\ ~P!Routing
        /\ P!Stages[piped.flow][piped.at] = s
    BY DEF P!In, P!Current, PipeInv, PipeShape
  <1>2. piped.flow \in Flows /\ piped.at \in 1..8
    BY <1>1, BranchedAre DEF P!Routing, PipeRec
  <1>3. piped.at <= Len(P!Stages[piped.flow]) /\ Len(P!Stages[piped.flow]) \in 1..8
    BY <1>2, StagesPlaced DEF PipeInv, PipeShape
  <1>4. piped.at \in 1..Len(P!Stages[piped.flow])
    BY <1>2, <1>3
  <1> QED
    BY <1>1, <1>2, <1>3, <1>4, StagesPlaced

(* A stage is over that changed the context into c. *)
Moved(c) ==
    /\ PipeShape' /\ piped'.flow = piped.flow /\ piped.flow \in Flows
    /\ piped'.told = c.told /\ piped'.known = c.known /\ piped'.jobs = c.jobs
    /\ piped'.lines = c.lines /\ piped'.result = c.result /\ piped'.target = c.target
    /\ piped'.sources = c.sources /\ piped'.fixed = c.fixed /\ piped'.code = c.code
    /\ piped'.tested = c.tested
    /\ piped.at \in 1..8 /\ Len(P!Stages[piped.flow]) \in 1..8
    /\ piped.at <= Len(P!Stages[piped.flow])
    /\ piped.at = Len(P!Stages[piped.flow]) => piped'.at = piped.at /\ piped'.pc = "ended"
    /\ piped.at < Len(P!Stages[piped.flow]) =>
          piped'.at = piped.at + 1 /\ piped'.pc = "running"

LEMMA StageOver ==
  ASSUME PipeInv, NEW s, P!In(s), s # "route", NEW c \in PipeRec,
         c.flow = piped.flow, c.at = piped.at, c.pc = "running", piped' = P!After(c),
         effects' \subseteq 1..MaxJobs, UNCHANGED stop, structured' \in BOOLEAN
  PROVE  Moved(c)
  <1>1. /\ piped \in PipeRec /\ piped.flow \in Flows /\ Len(P!Stages[piped.flow]) \in 1..8
        /\ piped.at \in 1..8 /\ piped.at <= Len(P!Stages[piped.flow])
    BY InIs
  <1>2. /\ P!After(c) \in PipeRec /\ P!After(c).flow = c.flow /\ P!After(c).told = c.told
        /\ P!After(c).known = c.known /\ P!After(c).jobs = c.jobs
        /\ P!After(c).lines = c.lines /\ P!After(c).result = c.result
        /\ P!After(c).target = c.target /\ P!After(c).sources = c.sources
        /\ P!After(c).fixed = c.fixed /\ P!After(c).code = c.code
        /\ P!After(c).tested = c.tested
        /\ c.at = Len(P!Stages[c.flow]) => P!After(c).at = c.at /\ P!After(c).pc = "ended"
        /\ c.at < Len(P!Stages[c.flow]) => P!After(c).at = c.at + 1 /\ P!After(c).pc = c.pc
        /\ P!After(c).at <= Len(P!Stages[c.flow])
    BY <1>1, AfterIs
  <1>3. PipeShape'
    BY <1>1, <1>2 DEF PipeInv, PipeShape
  <1> QED
    BY <1>1, <1>2, <1>3 DEF Moved

(* A stage that changes nothing told apart. *)
LEMMA PassKeeps ==
  ASSUME PipeInv, NEW s, P!In(s), s # "route", piped' = P!After(piped),
         UNCHANGED <<effects, stop>>, structured' \in BOOLEAN,
         piped.flow \in Actors => piped.at # ExtractAt(piped.flow),
         piped.flow = "message" =>
            piped.at <= 3 /\ (piped.at = 3 => piped.target # "misshapen"),
         piped.flow = "cron_add" => piped.at <= 2,
         piped.flow = "web_search" => piped.at # 6 /\ (piped.at = 4 => piped.sources),
         piped.flow = "code_gen" => piped.at # 4 /\ (piped.at = 6 => ~piped.fixed),
         piped.at = Len(P!Stages[piped.flow]) => piped.flow = "web_search" /\ piped.at = 8
  PROVE  PipeInv'
  <1>1. Moved(piped)
    <2>1. piped \in PipeRec /\ piped.pc = "running" /\ effects' \subseteq 1..MaxJobs
      BY InIs DEF PipeInv, PipeShape
    <2> QED
      BY <2>1, StageOver
  <1>2. \/ piped'.at = piped.at + 1 /\ piped'.pc = "running"
        \/ piped'.at = piped.at /\ piped'.pc = "ended" /\ piped.flow = "web_search"
           /\ piped.at = 8
    BY <1>1 DEF Moved
  <1>3. ActedOnce'
    BY <1>1 DEF Moved, PipeInv, ActedOnce, Untouched, Acted
  <1>4. Asked'
    BY <1>1, <1>2, ExtractEarly DEF Moved, PipeInv, Asked
  <1>5. JobsCounted' /\ MessageChecked'
    BY <1>1, <1>2 DEF Moved, PipeInv, JobsCounted, MessageChecked, Untouched, Acted
  <1>6. CodeTested' /\ P!VerdictIsOfLastCode'
    BY <1>1, <1>2 DEF Moved, PipeInv, CodeTested, P!VerdictIsOfLastCode
  <1>7. ToldSoFar' /\ P!OnlyFromSources'
    BY <1>1, <1>2, InIs DEF Moved, PipeInv, ToldSoFar, P!OnlyFromSources
  <1>8. P!NotToInvented' /\ P!NothingSilentlyMissing'
    BY <1>1, <1>2, InIs, NoneAssumption
       DEF Moved, PipeInv, P!NotToInvented, P!NothingSilentlyMissing, P!Over, ToldSoFar
  <1> QED
    BY <1>1, <1>3, <1>4, <1>5, <1>6, <1>7, <1>8 DEF Moved, PipeInv


(* The last stage, which tells the user of what was done. *)
LEMMA TellKeeps ==
  ASSUME PipeInv, NEW s, P!In(s), s # "route", NEW t \in P!Told,
         piped' = P!After([piped EXCEPT !.told = t]), UNCHANGED <<effects, stop, structured>>,
         piped.at = Len(P!Stages[piped.flow]), t \notin {"raw", None},
         t = "written" => piped.flow # "web_search",
         t = "lines" => piped.lines = piped.jobs, t = "sent" => effects # {},
         t \in {"nothing_to_do", "which_one", "no_target", "not_yet", "failed"} => effects = {}
  PROVE  PipeInv'
  <1> DEFINE c == [piped EXCEPT !.told = t]
  <1>1. piped \in PipeRec /\ piped.pc = "running" /\ effects' \subseteq 1..MaxJobs
        /\ structured' \in BOOLEAN
    BY InIs DEF PipeInv, PipeShape
  <1>2. /\ c \in PipeRec /\ c.flow = piped.flow /\ c.at = piped.at /\ c.pc = "running"
        /\ c.told = t /\ c.known = piped.known /\ c.jobs = piped.jobs
        /\ c.lines = piped.lines /\ c.result = piped.result /\ c.target = piped.target
        /\ c.sources = piped.sources /\ c.fixed = piped.fixed /\ c.code = piped.code
        /\ c.tested = piped.tested /\ piped' = P!After(c)
    BY <1>1 DEF PipeRec
  <1> HIDE DEF c
  <1>3. Moved(c)
    BY <1>1, <1>2, StageOver
  <1>4. piped'.at = piped.at /\ piped'.pc = "ended"
    BY <1>3 DEF Moved
  <1>5. ActedOnce' /\ Asked' /\ JobsCounted' /\ MessageChecked' /\ CodeTested'
    <2>1. /\ piped'.flow = piped.flow /\ piped'.at = piped.at
          /\ piped'.known = piped.known /\ piped'.jobs = piped.jobs
          /\ piped'.lines = piped.lines /\ piped'.result = piped.result
          /\ piped'.target = piped.target /\ piped'.fixed = piped.fixed
          /\ piped'.code = piped.code /\ piped'.tested = piped.tested
          /\ effects' = effects
      BY <1>2, <1>3, <1>4 DEF Moved
    <2>2. (Untouched => Untouched') /\ (Acted => Acted')
      BY <2>1 DEF Untouched, Acted
    <2>3. ActedOnce' /\ MessageChecked'
      BY <2>1, <2>2 DEF PipeInv, ActedOnce, MessageChecked
    <2>4. Asked' /\ JobsCounted' /\ CodeTested'
      BY <2>1 DEF PipeInv, Asked, JobsCounted, CodeTested
    <2> QED
      BY <2>3, <2>4
  <1>6. ToldSoFar' /\ P!OnlyFromSources' /\ P!NotToInvented' /\ P!VerdictIsOfLastCode'
    BY <1>2, <1>3, <1>4
       DEF Moved, PipeInv, ToldSoFar, P!OnlyFromSources, P!NotToInvented,
           P!VerdictIsOfLastCode
  <1>7. P!NothingSilentlyMissing'
    BY <1>2, <1>3, <1>4 DEF Moved, P!NothingSilentlyMissing, P!Over
  <1> QED
    BY <1>3, <1>5, <1>6, <1>7 DEF Moved, PipeInv

(* A run that is given up. *)
LEMMA AbortKeeps ==
  ASSUME PipeInv, piped.pc = "running", NEW t \in {"stopped", "no_target", "no_evidence"},
         piped' = [piped EXCEPT !.pc = "ended", !.told = t],
         UNCHANGED <<effects, stop, structured>>,
         t = "no_target" => effects = {}, t # "stopped" => piped.flow \in Flows
  PROVE  PipeInv'
  <1>1. piped \in PipeRec /\ t \in P!Told
    BY DEF PipeInv, PipeShape, P!Told
  <1>2. /\ piped' \in PipeRec /\ piped'.flow = piped.flow /\ piped'.at = piped.at
        /\ piped'.pc = "ended" /\ piped'.told = t /\ piped'.known = piped.known
        /\ piped'.jobs = piped.jobs /\ piped'.lines = piped.lines
        /\ piped'.result = piped.result /\ piped'.target = piped.target
        /\ piped'.sources = piped.sources /\ piped'.fixed = piped.fixed
        /\ piped'.code = piped.code /\ piped'.tested = piped.tested
    BY <1>1 DEF PipeRec
  <1>3. PipeShape'
    BY <1>2 DEF PipeInv, PipeShape
  <1>4. ActedOnce' /\ Asked' /\ JobsCounted' /\ MessageChecked' /\ CodeTested'
    BY <1>2 DEF PipeInv, ActedOnce, Asked, JobsCounted, MessageChecked, CodeTested,
                Untouched, Acted
  <1>5. ToldSoFar' /\ P!OnlyFromSources' /\ P!NotToInvented' /\ P!VerdictIsOfLastCode'
    BY <1>2 DEF PipeInv, ToldSoFar, P!OnlyFromSources, P!NotToInvented,
                P!VerdictIsOfLastCode
  <1>6. P!NothingSilentlyMissing'
    BY <1>2, NoneAssumption DEF P!NothingSilentlyMissing, P!Over
  <1> QED
    BY <1>3, <1>4, <1>5, <1>6 DEF PipeInv

LEMMA PipeStoppedKeeps == ASSUME PipeInv, P!Stopped PROVE PipeInv'
  BY AbortKeeps DEF P!Stopped, P!Aborts, P!Quiet

LEMMA ThrowsKeeps == ASSUME PipeInv, P!Throws PROVE PipeInv'
  <1>1. /\ piped \in PipeRec /\ piped.pc = "running"
        /\ piped' = [piped EXCEPT !.pc = "failed"] /\ UNCHANGED <<effects, stop, structured>>
    BY DEF PipeInv, PipeShape, P!Throws, P!In, P!Quiet
  <1>2. /\ piped' \in PipeRec /\ piped'.flow = piped.flow /\ piped'.at = piped.at
        /\ piped'.pc = "failed" /\ piped'.told = piped.told /\ piped'.known = piped.known
        /\ piped'.jobs = piped.jobs /\ piped'.lines = piped.lines
        /\ piped'.result = piped.result /\ piped'.target = piped.target
        /\ piped'.sources = piped.sources /\ piped'.fixed = piped.fixed
        /\ piped'.code = piped.code /\ piped'.tested = piped.tested
    BY <1>1 DEF PipeRec
  <1>3. PipeShape'
    BY <1>1, <1>2 DEF PipeInv, PipeShape
  <1>4. ActedOnce' /\ Asked' /\ JobsCounted' /\ MessageChecked' /\ CodeTested'
    BY <1>1, <1>2 DEF PipeInv, ActedOnce, Asked, JobsCounted, MessageChecked, CodeTested,
                Untouched, Acted
  <1>5. ToldSoFar' /\ P!OnlyFromSources' /\ P!NotToInvented' /\ P!VerdictIsOfLastCode'
    BY <1>1, <1>2 DEF PipeInv, ToldSoFar, P!OnlyFromSources, P!NotToInvented,
                P!VerdictIsOfLastCode
  <1>6. P!NothingSilentlyMissing'
    BY <1>2 DEF P!NothingSilentlyMissing, P!Over
  <1> QED
    BY <1>3, <1>4, <1>5, <1>6 DEF PipeInv

(* A branch is taken before anything was done. *)
LEMMA RouteKeeps == ASSUME PipeInv, P!Route PROVE PipeInv'
  <1>1. PICK f \in P!Branches[piped.flow] : piped' = [piped EXCEPT !.flow = f]
    BY DEF P!Route
  <1>2. /\ piped \in PipeRec /\ piped.pc = "running" /\ UNCHANGED <<effects, stop, structured>>
        /\ P!Routing
    <2>1. ~P!Routing => P!Stages[piped.flow][piped.at] = "route"
      BY DEF P!Route, P!In, P!Current
    <2>2. ~P!Routing /\ piped.pc = "running" => piped.flow \in Flows
      BY BranchedAre DEF P!Routing, PipeInv, PipeShape, PipeRec
    <2> QED
      BY <2>1, <2>2, NeverRoute DEF P!Route, P!In, P!Quiet, PipeInv, PipeShape
  <1>3. piped.flow \in Branched /\ piped.flow \notin Flows
    BY <1>2, BranchedAre DEF P!Routing
  <1>4. f \in Flows /\ f \notin {"message", "web_search", "code_gen"}
    BY <1>1, <1>3, BranchedAre
  <1>5. /\ piped.at = 1 /\ piped.result = None /\ piped.lines = 0 /\ effects = {}
        /\ piped.told = None
    BY <1>2, <1>3 DEF PipeInv, PipeShape
  <1>6. /\ piped' \in PipeRec /\ piped'.flow = f /\ piped'.at = 1
        /\ piped'.pc = "running" /\ piped'.told = None /\ piped'.known = piped.known
        /\ piped'.jobs = piped.jobs /\ piped'.lines = 0
        /\ piped'.result = None /\ piped.jobs \in 0..MaxJobs
    BY <1>1, <1>2, <1>4, <1>5 DEF PipeRec
  <1>7. PipeShape'
    <2>1. Len(P!Stages[f]) \in 1..8
      BY <1>4, StagesPlaced
    <2>0. \A l \in 1..8 : 1 <= l
      OBVIOUS
    <2>2. 1 <= Len(P!Stages[f])
      BY <2>0, <2>1, Zenon
    <2>3. /\ effects' = effects /\ stop' = stop /\ structured' = structured
          /\ effects \subseteq 1..MaxJobs /\ stop \in BOOLEAN /\ structured \in BOOLEAN
      BY <1>2 DEF PipeInv, PipeShape
    <2> QED
      BY <1>4, <1>6, <2>2, <2>3 DEF PipeShape
  <1>8. ActedOnce' /\ JobsCounted' /\ MessageChecked' /\ CodeTested'
    BY <1>2, <1>4, <1>5, <1>6, BoundAssumption DEF ActedOnce, JobsCounted, MessageChecked, CodeTested,
                Untouched
  <1>9. Asked'
    BY <1>6, ExtractEarly DEF Asked
  <1>10. ToldSoFar' /\ P!OnlyFromSources' /\ P!NotToInvented' /\ P!VerdictIsOfLastCode'
         /\ P!NothingSilentlyMissing'
    BY <1>2, <1>4, <1>5, <1>6
       DEF ToldSoFar, P!OnlyFromSources, P!NotToInvented, P!VerdictIsOfLastCode,
           P!NothingSilentlyMissing, P!Over
  <1> QED
    BY <1>7, <1>8, <1>9, <1>10 DEF PipeInv

(* What was asked is extracted before anything is done. *)
LEMMA ExtractKeeps == ASSUME PipeInv, P!Extract PROVE PipeInv'
  <1>1. P!In("extract") /\ UNCHANGED <<effects, stop>> /\ structured' \in {structured, FALSE}
    BY DEF P!Extract
  <1>3. /\ piped \in PipeRec /\ piped.pc = "running" /\ effects' \subseteq 1..MaxJobs
        /\ structured' \in BOOLEAN /\ piped.flow \in Flows
        /\ Placed(piped.flow, piped.at, "extract", Len(P!Stages[piped.flow]))
    BY <1>1, InIs DEF PipeInv, PipeShape
  <1>4. /\ piped.at < Len(P!Stages[piped.flow])
        /\ piped.flow \notin {"web_search", "code_gen"}
        /\ piped.flow \in {"cron_add", "message"} => piped.at = 1
    BY <1>3 DEF Placed
  <1>5. PICK c \in PipeRec :
           /\ c.flow = piped.flow /\ c.at = piped.at /\ c.pc = "running"
           /\ c.told = piped.told /\ c.lines = piped.lines /\ c.result = piped.result
           /\ c.sources = piped.sources /\ c.fixed = piped.fixed /\ c.code = piped.code
           /\ c.tested = piped.tested /\ c.jobs \in 0..MaxJobs
           /\ piped.flow # "cron_add" => c.jobs = 1
           /\ piped' = P!After(c)
    <2>1. 1 \in 0..MaxJobs
      BY BoundAssumption
    <2>2. CASE piped.flow = "cron_add"
      <3>1. PICK n \in 0..MaxJobs : piped' = P!After([piped EXCEPT !.jobs = n])
        BY <2>2 DEF P!Extract
      <3> DEFINE d == [piped EXCEPT !.jobs = n]
      <3>2. /\ d \in PipeRec
            /\ d.flow = piped.flow /\ d.at = piped.at /\ d.pc = "running"
            /\ d.told = piped.told /\ d.lines = piped.lines /\ d.result = piped.result
            /\ d.sources = piped.sources /\ d.fixed = piped.fixed /\ d.code = piped.code
            /\ d.tested = piped.tested /\ d.jobs \in 0..MaxJobs
            /\ piped.flow # "cron_add" => d.jobs = 1
            /\ piped' = P!After(d)
        BY <1>3, <2>2, <3>1 DEF PipeRec
      <3> HIDE DEF d
      <3> QED
        BY <3>2
    <2>3. CASE piped.flow = "message"
      <3>1. PICK t \in P!Targets \ {"own"}, e \in BOOLEAN :
              piped' = P!After([piped EXCEPT !.jobs = 1, !.target = t, !.elsewhere = e])
        BY <2>3 DEF P!Extract
      <3> DEFINE d == [piped EXCEPT !.jobs = 1, !.target = t, !.elsewhere = e]
      <3>2. /\ d \in PipeRec
            /\ d.flow = piped.flow /\ d.at = piped.at /\ d.pc = "running"
            /\ d.told = piped.told /\ d.lines = piped.lines /\ d.result = piped.result
            /\ d.sources = piped.sources /\ d.fixed = piped.fixed /\ d.code = piped.code
            /\ d.tested = piped.tested /\ d.jobs \in 0..MaxJobs
            /\ piped.flow # "cron_add" => d.jobs = 1
            /\ piped' = P!After(d)
        BY <1>3, <2>1, <2>3, <3>1 DEF PipeRec
      <3> HIDE DEF d
      <3> QED
        BY <3>2
    <2>4. CASE piped.flow \notin {"cron_add", "message"}
      <3>1. PICK k \in BOOLEAN : piped' = P!After([piped EXCEPT !.jobs = 1, !.known = k])
        BY <2>4 DEF P!Extract
      <3> DEFINE d == [piped EXCEPT !.jobs = 1, !.known = k]
      <3>2. /\ d \in PipeRec
            /\ d.flow = piped.flow /\ d.at = piped.at /\ d.pc = "running"
            /\ d.told = piped.told /\ d.lines = piped.lines /\ d.result = piped.result
            /\ d.sources = piped.sources /\ d.fixed = piped.fixed /\ d.code = piped.code
            /\ d.tested = piped.tested /\ d.jobs \in 0..MaxJobs
            /\ piped.flow # "cron_add" => d.jobs = 1
            /\ piped' = P!After(d)
        BY <1>3, <2>1, <2>4, <3>1 DEF PipeRec
      <3> HIDE DEF d
      <3> QED
        BY <3>2
    <2> QED
      BY <2>2, <2>3, <2>4
  <1>6. Moved(c)
    BY <1>1, <1>3, <1>5, StageOver
  <1>7. piped'.at = piped.at + 1 /\ piped'.pc = "running"
    BY <1>4, <1>6 DEF Moved
  <1>8. ActedOnce' /\ MessageChecked' /\ CodeTested'
    BY <1>1, <1>4, <1>5, <1>6, <1>7
       DEF Moved, PipeInv, ActedOnce, MessageChecked, CodeTested, Untouched, Acted
  <1>9. JobsCounted'
    BY <1>1, <1>4, <1>5, <1>6, <1>7 DEF Moved, PipeInv, JobsCounted
  <1>10. Asked'
    BY <1>5, <1>6 DEF Moved, Asked, Actors, ByName, ByTask, Stored, Shown
  <1>11. P!NotToInvented'
    BY <1>1, <1>4, <1>6 DEF Moved, PipeInv, MessageChecked, Untouched, P!NotToInvented
  <1>12. ToldSoFar' /\ P!OnlyFromSources' /\ P!VerdictIsOfLastCode'
         /\ P!NothingSilentlyMissing'
    BY <1>3, <1>4, <1>5, <1>6, <1>7
       DEF Moved, PipeInv, ToldSoFar, P!OnlyFromSources, P!VerdictIsOfLastCode,
           P!NothingSilentlyMissing, P!Over
  <1> QED
    BY <1>6, <1>8, <1>9, <1>10, <1>11, <1>12 DEF Moved, PipeInv

LEMMA DefaultsKeep == ASSUME PipeInv, P!Defaults PROVE PipeInv'
  <1>1. PICK t \in {"own", None} :
           piped' = P!After([piped EXCEPT !.target =
                       IF piped.flow = "message" /\ @ = None THEN t ELSE @])
    BY DEF P!Defaults, P!Goes
  <1>2. P!In("defaults") /\ UNCHANGED <<effects, stop, structured>>
    BY DEF P!Defaults, P!Goes, P!Quiet
  <1>3. /\ piped \in PipeRec /\ piped.pc = "running" /\ effects' \subseteq 1..MaxJobs
        /\ structured' \in BOOLEAN /\ piped.flow \in Flows
        /\ Placed(piped.flow, piped.at, "defaults", Len(P!Stages[piped.flow]))
    BY <1>2, InIs DEF PipeInv, PipeShape
  <1>4. /\ piped.at < Len(P!Stages[piped.flow]) /\ piped.at = 2
        /\ piped.flow \in {"message", "cron_add"}
    BY <1>3 DEF Placed
  <1>5. PICK u \in P!Targets : piped' = P!After([piped EXCEPT !.target = u])
    <2>1. piped.target \in P!Targets /\ t \in P!Targets
      BY <1>3 DEF PipeRec, P!Targets
    <2> QED
      BY <1>1, <2>1
  <1> DEFINE c == [piped EXCEPT !.target = u]
  <1>6. /\ c \in PipeRec /\ c.flow = piped.flow /\ c.at = piped.at /\ c.pc = "running"
        /\ c.told = piped.told /\ c.lines = piped.lines /\ c.result = piped.result
        /\ c.sources = piped.sources /\ c.fixed = piped.fixed /\ c.code = piped.code
        /\ c.tested = piped.tested /\ c.jobs = piped.jobs /\ piped' = P!After(c)
    BY <1>3, <1>5 DEF PipeRec
  <1> HIDE DEF c
  <1>7. Moved(c)
    BY <1>2, <1>3, <1>6, StageOver
  <1>8. piped'.at = 3 /\ piped'.pc = "running"
    BY <1>4, <1>7 DEF Moved
  <1>9. ActedOnce' /\ MessageChecked' /\ CodeTested' /\ JobsCounted'
    BY <1>2, <1>4, <1>6, <1>7, <1>8
       DEF Moved, PipeInv, ActedOnce, MessageChecked, CodeTested, JobsCounted,
           Untouched, Acted
  <1>10. Asked'
    BY <1>4, <1>6, <1>7 DEF Moved, PipeInv, Asked, ExtractAt, ByTask, Actors, ByName, Stored, Shown
  <1>11. P!NotToInvented'
    BY <1>2, <1>4, <1>7 DEF Moved, PipeInv, MessageChecked, Untouched, P!NotToInvented
  <1>12. ToldSoFar' /\ P!OnlyFromSources' /\ P!VerdictIsOfLastCode'
         /\ P!NothingSilentlyMissing'
    BY <1>3, <1>4, <1>6, <1>7, <1>8
       DEF Moved, PipeInv, ToldSoFar, P!OnlyFromSources, P!VerdictIsOfLastCode,
           P!NothingSilentlyMissing, P!Over
  <1> QED
    BY <1>7, <1>9, <1>10, <1>11, <1>12 DEF Moved, PipeInv

(* A tool acts once, for the one thing asked. *)
LEMMA ActKeeps == ASSUME PipeInv, P!Act PROVE PipeInv'
  <1>1. PICK r \in P!Possible :
          /\ piped' = P!After([piped EXCEPT !.result = r, !.lines = 1])
          /\ effects' = IF r = "done" THEN {1} ELSE {}
    BY DEF P!Act
  <1>2. PICK s \in {"act", "act_if_known"} : P!In(s) /\ UNCHANGED <<stop, structured>>
    BY DEF P!Act
  <1>3. /\ piped \in PipeRec /\ piped.pc = "running"
        /\ structured' \in BOOLEAN /\ piped.flow \in Flows
        /\ Placed(piped.flow, piped.at, s, Len(P!Stages[piped.flow]))
    BY <1>2, InIs DEF PipeInv, PipeShape
  <1>4. /\ piped.at < Len(P!Stages[piped.flow]) /\ piped.flow \in Actors
        /\ piped.at > ExtractAt(piped.flow) /\ (piped.flow = "message" => piped.at = 4)
    <2>1. s = "act_if_known" => piped.flow # "message"
      BY <1>3 DEF Placed, ByName
    <2> QED
      BY <1>2, <1>3, <2>1 DEF Placed
  <1>5. piped.jobs = 1
    BY <1>4 DEF PipeInv, Asked
  <1>6. /\ r \in {"done", "error", "preview"} /\ r \in P!Results
        /\ piped.flow = "message" /\ r = "done" => piped.target # None
    BY DEF P!Possible, P!Results
  <1>7. 1 \in 0..MaxJobs /\ effects' \subseteq 1..MaxJobs
    BY <1>1, BoundAssumption
  <1> DEFINE c == [piped EXCEPT !.result = r, !.lines = 1]
  <1>8. /\ c \in PipeRec /\ c.flow = piped.flow /\ c.at = piped.at /\ c.pc = "running"
        /\ c.told = piped.told /\ c.lines = 1 /\ c.result = r
        /\ c.sources = piped.sources /\ c.fixed = piped.fixed /\ c.code = piped.code
        /\ c.tested = piped.tested /\ c.jobs = piped.jobs /\ c.target = piped.target
        /\ piped' = P!After(c)
    BY <1>1, <1>3, <1>6, <1>7 DEF PipeRec
  <1> HIDE DEF c
  <1>9. Moved(c)
    BY <1>2, <1>3, <1>7, <1>8, StageOver
  <1>10. piped'.at = piped.at + 1 /\ piped'.pc = "running"
    BY <1>4, <1>9 DEF Moved
  <1>11. piped.flow \notin {"cron_add", "code_gen", "web_search"}
    BY <1>4 DEF Actors, ByName, ByTask, Stored, Shown
  <1>12. Acted'
    BY <1>1, <1>5, <1>6, <1>8, <1>9 DEF Moved, Acted
  <1>13. ActedOnce' /\ MessageChecked' /\ CodeTested' /\ JobsCounted'
    BY <1>4, <1>8, <1>9, <1>10, <1>11, <1>12
       DEF Moved, PipeInv, ActedOnce, MessageChecked, CodeTested, JobsCounted
  <1>14. Asked'
    BY <1>5, <1>8, <1>9 DEF Moved, Asked
  <1>15. P!NotToInvented'
    <2> SUFFICES ASSUME piped'.flow = "message", effects' # {}
                 PROVE  piped'.target \in {"address", "own"}
      BY DEF P!NotToInvented
    <2>1. piped.flow = "message" /\ r = "done" /\ piped'.target = piped.target
      BY <1>1, <1>8, <1>9 DEF Moved
    <2>2. piped.target \in P!Targets /\ piped.target # "misshapen" /\ piped.target # None
      BY <1>3, <1>4, <1>6, <2>1 DEF PipeInv, MessageChecked, PipeRec
    <2> QED
      BY <2>1, <2>2 DEF P!Targets
  <1>16. ToldSoFar' /\ P!OnlyFromSources' /\ P!VerdictIsOfLastCode'
         /\ P!NothingSilentlyMissing'
    BY <1>3, <1>8, <1>9, <1>10, <1>11
       DEF Moved, PipeInv, ToldSoFar, P!OnlyFromSources, P!VerdictIsOfLastCode,
           P!NothingSilentlyMissing, P!Over
  <1> QED
    BY <1>9, <1>13, <1>14, <1>15, <1>16 DEF Moved, PipeInv

(* Jobs are done all at once; each that answers leaves a line. *)
LEMMA EachKeeps == ASSUME PipeInv, P!Each PROVE PipeInv'
  <1>1. P!In("each") /\ UNCHANGED <<stop, structured>>
    BY DEF P!Each
  <1>2. PICK results \in [1..piped.jobs -> {"done", "error", "preview", "throws"}] :
          /\ piped' = P!After([piped EXCEPT !.lines = P!Lines(results)])
          /\ effects' = {n \in 1..piped.jobs : results[n] = "done"}
    BY DEF P!Each
  <1>3. /\ piped \in PipeRec /\ piped.pc = "running" /\ structured' \in BOOLEAN
        /\ piped.flow \in Flows
        /\ Placed(piped.flow, piped.at, "each", Len(P!Stages[piped.flow]))
    BY <1>1, InIs DEF PipeInv, PipeShape
  <1>4. /\ piped.at < Len(P!Stages[piped.flow]) /\ piped.at = 3 /\ piped.flow = "cron_add"
    BY <1>3 DEF Placed
  <1>5. piped.jobs \in 0..MaxJobs
    BY <1>3 DEF PipeRec
  <1> DEFINE answered == {n \in DOMAIN results : results[n] # "throws"}
             m == P!Lines(results)
             c == [piped EXCEPT !.lines = m]
  <1>6. m \in 0..piped.jobs /\ (m = 0 => effects' = {})
    <2>1. IsFiniteSet(1..piped.jobs) /\ Cardinality(1..piped.jobs) = piped.jobs
      BY <1>5, BoundAssumption, FS_Interval
    <2>2. answered \subseteq 1..piped.jobs /\ effects' \subseteq answered
      BY <1>2
    <2>6. m = Cardinality(answered)
      BY DEF P!Lines, P!Cardinality, Cardinality
    <2> HIDE DEF answered, m
    <2>7. IsFiniteSet(answered) /\ Cardinality(answered) <= Cardinality(1..piped.jobs)
      BY <2>1, <2>2, FS_Subset
    <2>3. IsFiniteSet(answered) /\ m <= piped.jobs
      BY <2>1, <2>6, <2>7
    <2>4. m \in Nat /\ (m = 0 => answered = {})
      BY <2>3, <2>6, FS_CardinalityType, FS_EmptySet
    <2>5. m = 0 => effects' = {}
      BY <2>2, <2>4
    <2> QED
      BY <1>5, <2>3, <2>4, <2>5, BoundAssumption
  <1> HIDE DEF m
  <1>7. m \in 0..MaxJobs /\ effects' \subseteq 1..MaxJobs
    BY <1>2, <1>5, <1>6, BoundAssumption
  <1>8. /\ c \in PipeRec /\ c.flow = piped.flow /\ c.at = piped.at /\ c.pc = "running"
        /\ c.told = piped.told /\ c.lines = m /\ c.result = piped.result
        /\ c.sources = piped.sources /\ c.fixed = piped.fixed /\ c.code = piped.code
        /\ c.tested = piped.tested /\ c.jobs = piped.jobs /\ c.target = piped.target
        /\ piped' = P!After(c)
    BY <1>2, <1>3, <1>7 DEF PipeRec, m
  <1> HIDE DEF c
  <1>9. Moved(c)
    BY <1>1, <1>3, <1>7, <1>8, StageOver
  <1>10. piped'.at = 4 /\ piped'.pc = "running" /\ piped'.flow = "cron_add"
         /\ piped'.lines = m /\ piped'.jobs = piped.jobs /\ piped'.told = piped.told
    BY <1>4, <1>8, <1>9 DEF Moved
  <1>11. JobsCounted'
    BY <1>5, <1>6, <1>10 DEF JobsCounted
  <1>12. ActedOnce' /\ Asked' /\ MessageChecked' /\ CodeTested'
    BY <1>10 DEF ActedOnce, Asked, MessageChecked, CodeTested, Actors, ByName, ByTask,
                 Stored, Shown
  <1>13. ToldSoFar' /\ P!OnlyFromSources' /\ P!VerdictIsOfLastCode' /\ P!NotToInvented'
         /\ P!NothingSilentlyMissing'
    BY <1>3, <1>4, <1>10
       DEF PipeInv, ToldSoFar, P!OnlyFromSources, P!VerdictIsOfLastCode,
           P!NotToInvented, P!NothingSilentlyMissing, P!Over
  <1> QED
    BY <1>9, <1>11, <1>12, <1>13 DEF Moved, PipeInv

LEMMA ConfirmKeeps == ASSUME PipeInv, P!Confirm PROVE PipeInv'
  <1> DEFINE t == IF piped.result = None THEN "which_one" ELSE "lines"
  <1>1. /\ P!In("confirm") /\ UNCHANGED <<effects, stop, structured>>
        /\ piped' = P!After([piped EXCEPT !.told = t])
    BY DEF P!Confirm, P!Tells, P!Goes, P!Quiet
  <1>2. /\ piped \in PipeRec /\ piped.flow \in Flows
        /\ Placed(piped.flow, piped.at, "confirm", Len(P!Stages[piped.flow]))
        /\ piped.at \in 1..8 /\ Len(P!Stages[piped.flow]) \in 1..8
    BY <1>1, InIs
  <1>3. /\ piped.at = Len(P!Stages[piped.flow])
        /\ piped.flow \in ByName \cup ByTask \cup Stored
    BY <1>2 DEF Placed
  <1>4. piped.flow \notin {"cron_add", "code_gen"} /\ piped.flow \in Actors
        /\ (Untouched \/ Acted)
    BY <1>3 DEF PipeInv, ActedOnce, Actors, ByName, ByTask, Stored
  <1>5. t \in P!Told /\ t \in {"which_one", "lines"}
    BY DEF P!Told
  <1>6. t = "lines" => piped.lines = piped.jobs
    BY <1>4 DEF Untouched, Acted
  <1>7. t = "which_one" => effects = {}
    BY <1>4, NoneAssumption DEF Untouched, Acted
  <1>8. t # None
    BY <1>5, NoneAssumption
  <1> HIDE DEF t
  <1> QED
    BY <1>1, <1>3, <1>5, <1>6, <1>7, <1>8, TellKeeps

LEMMA ConfirmEachKeeps == ASSUME PipeInv, P!ConfirmEach PROVE PipeInv'
  <1> DEFINE t == IF piped.lines = 0 THEN "nothing_to_do"
                  ELSE IF piped.lines < piped.jobs THEN "lines_and_warning" ELSE "lines"
  <1>1. /\ P!In("confirm_each") /\ UNCHANGED <<effects, stop, structured>>
        /\ piped' = P!After([piped EXCEPT !.told = t])
    BY DEF P!ConfirmEach, P!Tells, P!Goes, P!Quiet
  <1>2. /\ piped \in PipeRec /\ piped.flow \in Flows
        /\ Placed(piped.flow, piped.at, "confirm_each", Len(P!Stages[piped.flow]))
    BY <1>1, InIs
  <1>3. piped.at = Len(P!Stages[piped.flow]) /\ piped.flow = "cron_add"
    BY <1>2 DEF Placed
  <1>4. piped.lines \in 0..MaxJobs /\ piped.jobs \in 0..MaxJobs
        /\ piped.lines <= piped.jobs /\ (piped.lines = 0 => effects = {})
    BY <1>2, <1>3 DEF PipeRec, PipeInv, JobsCounted
  <1>5. t \in P!Told /\ t \in {"nothing_to_do", "lines_and_warning", "lines"}
    BY DEF P!Told
  <1>6. t = "lines" => piped.lines = piped.jobs
    BY <1>4, BoundAssumption
  <1>7. t = "nothing_to_do" => effects = {}
    BY <1>4
  <1>8. t # None
    BY <1>5, NoneAssumption
  <1> HIDE DEF t
  <1> QED
    BY <1>1, <1>3, <1>5, <1>6, <1>7, <1>8, TellKeeps

LEMMA ConfirmSendKeeps == ASSUME PipeInv, P!ConfirmSend PROVE PipeInv'
  <1> DEFINE t == CASE piped.result = "done" -> "sent" [] piped.result = "preview" -> "not_yet"
                    [] piped.result = "error" -> "failed"
  <1>1. /\ P!In("confirm_send") /\ UNCHANGED <<effects, stop, structured>>
        /\ piped' = P!After([piped EXCEPT !.told = t])
    BY DEF P!ConfirmSend, P!Tells, P!Goes, P!Quiet
  <1>2. /\ piped \in PipeRec /\ piped.flow \in Flows
        /\ Placed(piped.flow, piped.at, "confirm_send", Len(P!Stages[piped.flow]))
    BY <1>1, InIs
  <1>3. piped.at = Len(P!Stages[piped.flow]) /\ piped.flow = "message" /\ piped.at = 5
    BY <1>2 DEF Placed
  <1>4. Acted
    BY <1>3 DEF PipeInv, MessageChecked
  <1>5. /\ piped.result = "done" => t = "sent"
        /\ piped.result = "preview" => t = "not_yet"
        /\ piped.result = "error" => t = "failed"
    OBVIOUS
  <1> HIDE DEF t
  <1>6. t \in P!Told /\ t \in {"sent", "not_yet", "failed"}
    BY <1>4, <1>5 DEF P!Told, Acted
  <1>7. /\ t = "sent" => effects # {}
        /\ t \in {"not_yet", "failed"} => effects = {}
    BY <1>4, <1>5 DEF Acted
  <1>8. t # None
    BY <1>6, NoneAssumption
  <1> QED
    BY <1>1, <1>3, <1>6, <1>7, <1>8, TellKeeps

(* What the model writes from what was gathered. *)
LEMMA AnswerKeeps == ASSUME PipeInv, P!Answer PROVE PipeInv'
  <1>1. PICK s \in {"answer", "synthesize", "format"} :
          /\ P!In(s) /\ UNCHANGED <<effects, stop, structured>>
          /\ piped' = P!After([piped EXCEPT !.told = "written"])
    BY DEF P!Answer, P!Tells, P!Goes, P!Quiet
  <1>2. /\ piped \in PipeRec /\ piped.flow \in Flows /\ piped.pc = "running"
        /\ Placed(piped.flow, piped.at, s, Len(P!Stages[piped.flow]))
    BY <1>1, InIs
  <1>3. "written" \in P!Told /\ None # "written"
    BY NoneAssumption DEF P!Told
  <1>4. CASE s \in {"answer", "format"}
    <2>1. piped.at = Len(P!Stages[piped.flow]) /\ piped.flow # "web_search"
      BY <1>2, <1>4 DEF Placed
    <2> QED
      BY <1>1, <1>3, <1>4, <2>1, TellKeeps
  <1>5. CASE s = "synthesize"
    <2>1. /\ piped.at < Len(P!Stages[piped.flow]) /\ piped.at = 6
          /\ piped.flow = "web_search"
      BY <1>2, <1>5 DEF Placed
    <2>2. piped.sources
      BY <1>2, <2>1 DEF PipeInv, ToldSoFar
    <2> DEFINE c == [piped EXCEPT !.told = "written"]
    <2>3. /\ c \in PipeRec /\ c.flow = piped.flow /\ c.at = piped.at /\ c.pc = "running"
          /\ c.told = "written" /\ c.lines = piped.lines /\ c.result = piped.result
          /\ c.sources = piped.sources /\ piped' = P!After(c)
          /\ effects' \subseteq 1..MaxJobs /\ structured' \in BOOLEAN
      BY <1>1, <1>2, <1>3 DEF PipeRec, PipeInv, PipeShape
    <2> HIDE DEF c
    <2>4. Moved(c)
      BY <1>1, <1>5, <2>3, StageOver
    <2>5. /\ piped'.at = 7 /\ piped'.pc = "running" /\ piped'.flow = "web_search"
          /\ piped'.told = "written" /\ piped'.lines = piped.lines
          /\ piped'.result = piped.result /\ piped'.sources = piped.sources
          /\ effects' = effects
      BY <1>1, <2>1, <2>3, <2>4 DEF Moved
    <2>8. Untouched' \/ Acted'
      <3>1. piped'.jobs = c.jobs /\ c.jobs = piped.jobs
        BY <1>2, <2>4 DEF Moved, c
      <3> QED
        BY <2>1, <2>5, <3>1 DEF PipeInv, ActedOnce, Untouched, Acted
    <2>6. ActedOnce' /\ Asked' /\ MessageChecked' /\ CodeTested' /\ JobsCounted'
      BY <2>5, <2>8
         DEF ActedOnce, Asked, MessageChecked, CodeTested, JobsCounted, Actors, ByName,
             ByTask, Stored, Shown
    <2>7. ToldSoFar' /\ P!OnlyFromSources' /\ P!VerdictIsOfLastCode' /\ P!NotToInvented'
           /\ P!NothingSilentlyMissing'
      BY <2>2, <2>5
         DEF ToldSoFar, P!OnlyFromSources, P!VerdictIsOfLastCode, P!NotToInvented,
             P!NothingSilentlyMissing, P!Over
    <2> QED
      BY <2>4, <2>6, <2>7 DEF Moved, PipeInv
  <1> QED
    BY <1>4, <1>5

(* A search has sources, or is given up. *)
LEMMA PickKeeps == ASSUME PipeInv, P!Pick PROVE PipeInv'
  <1>1. PICK b \in BOOLEAN : piped' = P!After([piped EXCEPT !.sources = b])
    BY DEF P!Pick, P!Goes
  <1>2. P!In("pick") /\ UNCHANGED <<effects, stop, structured>>
    BY DEF P!Pick, P!Goes, P!Quiet
  <1>3. /\ piped \in PipeRec /\ piped.flow \in Flows /\ piped.pc = "running"
        /\ Placed(piped.flow, piped.at, "pick", Len(P!Stages[piped.flow]))
    BY <1>2, InIs
  <1>4. /\ piped.at < Len(P!Stages[piped.flow]) /\ piped.at = 3 /\ piped.flow = "web_search"
    BY <1>3 DEF Placed
  <1> DEFINE c == [piped EXCEPT !.sources = b]
  <1>5. /\ c \in PipeRec /\ c.flow = piped.flow /\ c.at = piped.at /\ c.pc = "running"
        /\ c.told = piped.told /\ c.lines = piped.lines /\ c.result = piped.result
        /\ c.jobs = piped.jobs /\ piped' = P!After(c)
        /\ effects' \subseteq 1..MaxJobs /\ structured' \in BOOLEAN
    BY <1>1, <1>2, <1>3 DEF PipeRec, PipeInv, PipeShape
  <1> HIDE DEF c
  <1>6. Moved(c)
    BY <1>2, <1>5, StageOver
  <1>7. /\ piped'.at = 4 /\ piped'.pc = "running" /\ piped'.flow = "web_search"
        /\ piped'.told = piped.told /\ piped'.lines = piped.lines
        /\ piped'.result = piped.result /\ piped'.jobs = piped.jobs /\ effects' = effects
    BY <1>2, <1>4, <1>5, <1>6 DEF Moved
  <1>8. piped.told = None
    BY <1>3, <1>4 DEF PipeInv, ToldSoFar
  <1>9. Untouched' \/ Acted'
    BY <1>4, <1>7 DEF PipeInv, ActedOnce, Untouched, Acted
  <1>10. ActedOnce' /\ Asked' /\ MessageChecked' /\ CodeTested' /\ JobsCounted'
    BY <1>7, <1>9
       DEF ActedOnce, Asked, MessageChecked, CodeTested, JobsCounted, Actors, ByName,
           ByTask, Stored, Shown
  <1>11. ToldSoFar' /\ P!OnlyFromSources' /\ P!VerdictIsOfLastCode' /\ P!NotToInvented'
         /\ P!NothingSilentlyMissing'
    BY <1>7, <1>8, NoneAssumption
       DEF ToldSoFar, P!OnlyFromSources, P!VerdictIsOfLastCode, P!NotToInvented,
           P!NothingSilentlyMissing, P!Over
  <1> QED
    BY <1>6, <1>10, <1>11 DEF Moved, PipeInv

LEMMA GateKeeps == ASSUME PipeInv, P!Gate PROVE PipeInv'
  <1>1. P!In("gate") /\ UNCHANGED <<effects, stop, structured>>
    BY DEF P!Gate, P!Goes, P!Aborts, P!Quiet
  <1>2. /\ piped \in PipeRec /\ piped.flow \in Flows /\ piped.pc = "running"
        /\ Placed(piped.flow, piped.at, "gate", Len(P!Stages[piped.flow]))
        /\ structured' \in BOOLEAN
        /\ piped.at \in 1..8 /\ Len(P!Stages[piped.flow]) \in 1..8
    BY <1>1, InIs DEF PipeInv, PipeShape
  <1>3. /\ piped.at < Len(P!Stages[piped.flow]) /\ piped.at = 4 /\ piped.flow = "web_search"
        /\ piped.flow \notin Actors
    BY <1>2 DEF Placed, Actors, ByName, ByTask, Stored, Shown
  <1>4. CASE piped.sources
    <2>1. piped' = P!After(piped)
      BY <1>4 DEF P!Gate, P!Goes
    <2>3. \A n \in 1..8, l \in 1..8 : n < l => n # l
      OBVIOUS
    <2>2. piped.at # Len(P!Stages[piped.flow])
      BY <1>1, <1>2, <1>3, <2>3, InIs, Zenon
    <2> QED
      BY <1>1, <1>2, <1>3, <1>4, <2>1, <2>2, PassKeeps
  <1>5. CASE ~piped.sources
    <2>1. piped' = [piped EXCEPT !.pc = "ended", !.told = "no_evidence"]
      BY <1>5 DEF P!Gate, P!Aborts
    <2> QED
      BY <1>1, <1>2, <2>1, AbortKeeps
  <1> QED
    BY <1>4, <1>5

LEMMA ValidateKeeps == ASSUME PipeInv, P!Validate PROVE PipeInv'
  <1>1. P!In("validate") /\ UNCHANGED <<effects, stop, structured>>
    BY DEF P!Validate, P!Goes, P!Aborts, P!Quiet
  <1>2. /\ piped \in PipeRec /\ piped.flow \in Flows /\ piped.pc = "running"
        /\ Placed(piped.flow, piped.at, "validate", Len(P!Stages[piped.flow]))
        /\ structured' \in BOOLEAN
        /\ piped.at \in 1..8 /\ Len(P!Stages[piped.flow]) \in 1..8
    BY <1>1, InIs DEF PipeInv, PipeShape
  <1>3. /\ piped.at < Len(P!Stages[piped.flow]) /\ piped.at = 3 /\ piped.flow = "message"
        /\ piped.at # ExtractAt(piped.flow)
    BY <1>2 DEF Placed, ExtractAt, ByTask
  <1>4. CASE piped.target # "misshapen"
    <2>1. piped' = P!After(piped)
      BY <1>4 DEF P!Validate, P!Goes
    <2>3. \A n \in 1..8, l \in 1..8 : n < l => n # l
      OBVIOUS
    <2>2. piped.at # Len(P!Stages[piped.flow])
      BY <1>1, <1>2, <1>3, <2>3, InIs, Zenon
    <2> QED
      BY <1>1, <1>2, <1>3, <1>4, <2>1, <2>2, PassKeeps
  <1>5. CASE piped.target = "misshapen"
    <2>1. piped' = [piped EXCEPT !.pc = "ended", !.told = "no_target"]
      BY <1>5 DEF P!Validate, P!Aborts
    <2>2. effects = {}
      BY <1>3 DEF PipeInv, MessageChecked, Untouched
    <2> QED
      BY <1>1, <1>2, <2>1, <2>2, AbortKeeps
  <1> QED
    BY <1>4, <1>5

(* A project is written, tested and fixed. *)
LEMMA CodeMoves ==
  ASSUME PipeInv, NEW s, P!In(s), s # "route", piped.flow = "code_gen", piped.at <= 6,
         piped.at < Len(P!Stages[piped.flow]), NEW c \in PipeRec,
         c.flow = piped.flow, c.at = piped.at, c.pc = "running", c.told \in {None, "raw"},
         piped' = P!After(c), effects' \subseteq 1..MaxJobs, UNCHANGED <<stop, structured>>,
         piped.at <= 2 => c.code = 0, piped.at <= 4 => c.code <= 1,
         piped.at \in {4, 6} \/ (piped.at = 5 /\ ~c.fixed) => (c.known => c.tested = c.code)
  PROVE  PipeInv'
  <1>1. Moved(c)
    <2>1. structured' \in BOOLEAN
      BY DEF PipeInv, PipeShape
    <2> QED
      BY <2>1, StageOver
  <1>2. /\ piped'.flow = "code_gen" /\ piped'.at = piped.at + 1 /\ piped'.pc = "running"
        /\ piped'.told \in {None, "raw"} /\ piped'.code = c.code /\ piped'.tested = c.tested
        /\ piped'.known = c.known /\ piped'.fixed = c.fixed /\ piped.at \in 1..6
    BY <1>1 DEF Moved
  <1>3. CodeTested' /\ P!VerdictIsOfLastCode'
    BY <1>2 DEF CodeTested, P!VerdictIsOfLastCode
  <1>4. ActedOnce' /\ Asked' /\ MessageChecked' /\ JobsCounted'
    BY <1>2 DEF ActedOnce, Asked, MessageChecked, JobsCounted, Actors, ByName, ByTask,
                Stored, Shown
  <1>5. ToldSoFar' /\ P!OnlyFromSources' /\ P!NotToInvented' /\ P!NothingSilentlyMissing'
    BY <1>2 DEF ToldSoFar, P!OnlyFromSources, P!NotToInvented, P!NothingSilentlyMissing,
                P!Over
  <1> QED
    BY <1>1, <1>3, <1>4, <1>5 DEF Moved, PipeInv

(* What holds where a stage of code generation is found. *)
LEMMA CodeAt ==
  ASSUME PipeInv, NEW s \in {"enrich", "build", "verify", "fix", "re-verify"}, P!In(s)
  PROVE  /\ piped \in PipeRec /\ piped.flow = "code_gen" /\ piped.pc = "running"
         /\ piped.at \in 1..8 /\ piped.at < Len(P!Stages[piped.flow])
         /\ piped.at # Len(P!Stages[piped.flow]) /\ piped.flow \notin Actors
         /\ piped.at = CASE s = "enrich" -> 2 [] s = "build" -> 3 [] s = "verify" -> 4
                         [] s = "fix" -> 5 [] s = "re-verify" -> 6
         /\ piped.told \in {None, "raw"} /\ effects \subseteq 1..MaxJobs
         /\ structured \in BOOLEAN /\ piped.code \in 0..2
         /\ piped.at <= 3 => piped.code = 0
         /\ piped.at <= 5 => piped.code <= 1
         /\ piped.at = 5 \/ (piped.at = 6 /\ ~piped.fixed) =>
               (piped.known => piped.tested = piped.code)
  <1>1. /\ piped \in PipeRec /\ piped.pc = "running"
        /\ Placed(piped.flow, piped.at, s, Len(P!Stages[piped.flow]))
        /\ piped.at \in 1..8 /\ Len(P!Stages[piped.flow]) \in 1..8
    BY InIs
  <1>2. /\ piped.flow = "code_gen" /\ piped.at < Len(P!Stages[piped.flow])
        /\ piped.at = CASE s = "enrich" -> 2 [] s = "build" -> 3 [] s = "verify" -> 4
                         [] s = "fix" -> 5 [] s = "re-verify" -> 6
    BY <1>1 DEF Placed
  <1>3. \A n \in 1..8, l \in 1..8 : n < l => n # l
    OBVIOUS
  <1>4. piped.at # Len(P!Stages[piped.flow])
    BY <1>1, <1>2, <1>3, Zenon
  <1>5. piped.flow \notin Actors
    BY <1>2 DEF Actors, ByName, ByTask, Stored, Shown
  <1>6. /\ piped.told \in {None, "raw"} /\ effects \subseteq 1..MaxJobs
        /\ structured \in BOOLEAN /\ piped.code \in 0..2
    BY <1>1, <1>2 DEF PipeInv, PipeShape, PipeRec, ToldSoFar
  <1>7. CodeTested
    BY DEF PipeInv
  <1> QED
    BY <1>1, <1>2, <1>4, <1>5, <1>6, <1>7 DEF CodeTested

LEMMA EnrichKeeps == ASSUME PipeInv, P!Enrich PROVE PipeInv'
  <1> DEFINE c == [piped EXCEPT !.told = "raw"]
  <1>1. /\ P!In("enrich") /\ UNCHANGED <<effects, stop, structured>> /\ piped' = P!After(c)
    BY DEF P!Enrich, P!Tells, P!Goes, P!Quiet
  <1>2. /\ piped \in PipeRec /\ piped.flow = "code_gen" /\ piped.pc = "running"
        /\ piped.at < Len(P!Stages[piped.flow]) /\ piped.at = 2
        /\ effects \subseteq 1..MaxJobs /\ piped.code = 0
    BY <1>1, CodeAt
  <1>3. "raw" \in P!Told
    BY DEF P!Told
  <1>4. /\ c \in PipeRec /\ c.flow = piped.flow /\ c.at = 2 /\ c.pc = "running"
        /\ c.told = "raw" /\ c.code = 0
    BY <1>2, <1>3 DEF PipeRec
  <1> HIDE DEF c
  <1> QED
    BY <1>1, <1>2, <1>4, CodeMoves

LEMMA BuildKeeps == ASSUME PipeInv, P!Build PROVE PipeInv'
  <1>1. P!In("build") /\ UNCHANGED <<stop, structured>>
    BY DEF P!Build
  <1>2. /\ piped \in PipeRec /\ piped.flow = "code_gen" /\ piped.pc = "running"
        /\ piped.at < Len(P!Stages[piped.flow]) /\ piped.at = 3 /\ piped.code = 0
        /\ piped.told \in {None, "raw"}
    BY <1>1, CodeAt
  <1>3. effects' \subseteq 1..MaxJobs
    BY BoundAssumption DEF P!Build
  <1>4. CASE piped' = P!After([piped EXCEPT !.known = TRUE, !.code = 1])
    <2> DEFINE c == [piped EXCEPT !.known = TRUE, !.code = 1]
    <2>1. /\ c \in PipeRec /\ c.flow = piped.flow /\ c.at = 3 /\ c.pc = "running"
          /\ c.told \in {None, "raw"} /\ c.code = 1
      <3>1. 1 \in 0..2 /\ TRUE \in BOOLEAN
        OBVIOUS
      <3>2. c \in PipeRec
        BY <1>2, <3>1 DEF PipeRec
      <3>3. /\ c.flow = piped.flow /\ c.at = piped.at /\ c.pc = piped.pc
            /\ c.told = piped.told /\ c.code = 1
        BY <1>2 DEF PipeRec
      <3> QED
        BY <1>2, <3>2, <3>3
    <2>2. piped' = P!After(c)
      BY <1>4
    <2> HIDE DEF c
    <2> QED
      BY <1>1, <1>2, <1>3, <2>1, <2>2, CodeMoves
  <1>5. CASE piped' = P!After(piped)
    BY <1>1, <1>2, <1>3, <1>5, CodeMoves
  <1> QED
    BY <1>4, <1>5 DEF P!Build

LEMMA VerifyKeeps == ASSUME PipeInv, P!Verify PROVE PipeInv'
  <1>1. /\ P!In("verify") /\ UNCHANGED <<effects, stop, structured>>
    BY DEF P!Verify, P!Goes, P!Quiet
  <1>2. /\ piped \in PipeRec /\ piped.flow = "code_gen" /\ piped.pc = "running"
        /\ piped.at < Len(P!Stages[piped.flow]) /\ piped.at = 4
        /\ piped.code \in 0..2 /\ piped.code <= 1
        /\ piped.told \in {None, "raw"} /\ effects' \subseteq 1..MaxJobs
    BY <1>1, CodeAt
  <1>3. "fail" \in P!Verdicts
    BY DEF P!Verdicts
  <1>4. CASE piped.known
    <2>1. PICK v \in P!Verdicts :
            piped' = P!After([piped EXCEPT !.verdict = v, !.tested = piped.code])
      BY <1>4 DEF P!Verify, P!Goes
    <2> DEFINE c == [piped EXCEPT !.verdict = v, !.tested = piped.code]
    <2>2. /\ c \in PipeRec /\ c.flow = piped.flow /\ c.at = 4 /\ c.pc = "running"
          /\ c.told \in {None, "raw"} /\ c.code = piped.code /\ c.tested = piped.code
          /\ piped' = P!After(c)
      BY <1>2, <2>1 DEF PipeRec
    <2> HIDE DEF c
    <2> QED
      BY <1>1, <1>2, <2>2, CodeMoves
  <1>5. CASE ~piped.known
    <2> DEFINE c == [piped EXCEPT !.verdict = "fail"]
    <2>1. piped' = P!After(c)
      BY <1>5 DEF P!Verify, P!Goes
    <2>2. /\ c \in PipeRec /\ c.flow = piped.flow /\ c.at = 4 /\ c.pc = "running"
          /\ c.told \in {None, "raw"} /\ c.code = piped.code /\ ~c.known
      BY <1>2, <1>3, <1>5 DEF PipeRec
    <2> HIDE DEF c
    <2> QED
      BY <1>1, <1>2, <2>1, <2>2, CodeMoves
  <1> QED
    BY <1>4, <1>5

LEMMA FixKeeps == ASSUME PipeInv, P!Fix PROVE PipeInv'
  <1>1. /\ P!In("fix") /\ UNCHANGED <<effects, stop, structured>>
    BY DEF P!Fix, P!Goes, P!Quiet
  <1>2. /\ piped \in PipeRec /\ piped.flow = "code_gen" /\ piped.pc = "running"
        /\ piped.at < Len(P!Stages[piped.flow]) /\ piped.at = 5
        /\ piped.at # Len(P!Stages[piped.flow]) /\ piped.flow \notin Actors
        /\ piped.code \in 0..2 /\ piped.code <= 1 /\ structured' \in BOOLEAN
        /\ piped.told \in {None, "raw"} /\ effects' \subseteq 1..MaxJobs
    BY <1>1, CodeAt
  <1>3. CASE P!ToFix
    <2>1. PICK d \in 0..1 :
            piped' = P!After([piped EXCEPT !.fixed = TRUE, !.code = piped.code + d])
      BY <1>3 DEF P!Fix, P!Goes
    <2> DEFINE k == piped.code + d
               c == [piped EXCEPT !.fixed = TRUE, !.code = k]
    <2>2. k \in 0..2 /\ piped' = P!After(c)
      BY <1>2, <2>1
    <2> HIDE DEF k
    <2>3. /\ c \in PipeRec /\ c.flow = piped.flow /\ c.at = 5 /\ c.pc = "running"
          /\ c.told \in {None, "raw"} /\ c.fixed
      BY <1>2, <2>2 DEF PipeRec
    <2> HIDE DEF c
    <2> QED
      BY <1>1, <1>2, <2>2, <2>3, CodeMoves
  <1>4. CASE ~P!ToFix
    <2>1. piped' = P!After(piped)
      BY <1>4 DEF P!Fix, P!Goes
    <2> QED
      BY <1>1, <1>2, <2>1, PassKeeps
  <1> QED
    BY <1>3, <1>4

LEMMA ReVerifyKeeps == ASSUME PipeInv, P!ReVerify PROVE PipeInv'
  <1>1. /\ P!In("re-verify") /\ UNCHANGED <<effects, stop, structured>>
    BY DEF P!ReVerify, P!Goes, P!Quiet
  <1>2. /\ piped \in PipeRec /\ piped.flow = "code_gen" /\ piped.pc = "running"
        /\ piped.at < Len(P!Stages[piped.flow]) /\ piped.at = 6
        /\ piped.at # Len(P!Stages[piped.flow]) /\ piped.flow \notin Actors
        /\ piped.code \in 0..2 /\ structured' \in BOOLEAN
        /\ piped.told \in {None, "raw"} /\ effects' \subseteq 1..MaxJobs
    BY <1>1, CodeAt
  <1>3. CASE piped.fixed
    <2>1. PICK v \in P!Verdicts :
            piped' = P!After([piped EXCEPT !.verdict = v, !.tested = piped.code])
      BY <1>3 DEF P!ReVerify, P!Goes
    <2> DEFINE c == [piped EXCEPT !.verdict = v, !.tested = piped.code]
    <2>2. /\ c \in PipeRec /\ c.flow = piped.flow /\ c.at = 6 /\ c.pc = "running"
          /\ c.told \in {None, "raw"} /\ c.code = piped.code /\ c.tested = piped.code
          /\ piped' = P!After(c)
      BY <1>2, <2>1 DEF PipeRec
    <2> HIDE DEF c
    <2> QED
      BY <1>1, <1>2, <2>2, CodeMoves
  <1>4. CASE ~piped.fixed
    <2>1. piped' = P!After(piped)
      BY <1>4 DEF P!ReVerify, P!Goes
    <2> QED
      BY <1>1, <1>2, <1>4, <2>1, PassKeeps
  <1> QED
    BY <1>3, <1>4

(* Stages that leave nothing that is told apart. *)
LEMMA GatherKeeps == ASSUME PipeInv, P!Gather \/ P!ActSkipped PROVE PipeInv'
  <1>1. PICK s \in {"gather", "gather_unless_known", "act_if_known"} :
          /\ P!In(s) /\ UNCHANGED <<effects, stop, structured>> /\ piped' = P!After(piped)
    BY DEF P!Gather, P!ActSkipped, P!Goes, P!Quiet
  <1>2. /\ piped.flow \in Flows /\ piped.at \in 1..8 /\ Len(P!Stages[piped.flow]) \in 1..8
        /\ Placed(piped.flow, piped.at, s, Len(P!Stages[piped.flow]))
        /\ structured' \in BOOLEAN
    BY <1>1, InIs DEF PipeInv, PipeShape
  <1>3. /\ piped.at < Len(P!Stages[piped.flow])
        /\ piped.flow \notin {"message", "cron_add", "code_gen"}
        /\ piped.flow = "web_search" => piped.at = 2
    BY <1>2 DEF Placed, Actors, ByName, ByTask, Stored, Shown
  <1>4. \A n \in 1..8, l \in 1..8 : n < l => n # l
    OBVIOUS
  <1>5. piped.at # Len(P!Stages[piped.flow])
    BY <1>2, <1>3, <1>4, Zenon
  <1>6. piped.flow \in Actors => piped.at # ExtractAt(piped.flow)
    BY <1>2 DEF Placed
  <1> QED
    BY <1>1, <1>2, <1>3, <1>5, <1>6, PassKeeps

LEMMA QueryKeeps == ASSUME PipeInv, P!ExtractOrMessage PROVE PipeInv'
  <1>1. /\ P!In("extract_or_message") /\ UNCHANGED <<effects, stop>>
        /\ piped' = P!After(piped) /\ structured' \in BOOLEAN
    BY DEF P!ExtractOrMessage, PipeInv, PipeShape
  <1>2. /\ piped.flow \in Flows /\ piped.at \in 1..8 /\ Len(P!Stages[piped.flow]) \in 1..8
        /\ Placed(piped.flow, piped.at, "extract_or_message", Len(P!Stages[piped.flow]))
    BY <1>1, InIs
  <1>3. /\ piped.at < Len(P!Stages[piped.flow]) /\ piped.flow = "web_search" /\ piped.at = 1
        /\ piped.flow \notin Actors
    BY <1>2 DEF Placed, Actors, ByName, ByTask, Stored, Shown
  <1>4. \A n \in 1..8, l \in 1..8 : n < l => n # l
    OBVIOUS
  <1>5. piped.at # Len(P!Stages[piped.flow])
    BY <1>2, <1>3, <1>4, Zenon
  <1> QED
    BY <1>1, <1>2, <1>3, <1>5, PassKeeps

LEMMA PrepareKeeps == ASSUME PipeInv, P!Prepare PROVE PipeInv'
  <1>1. PICK s \in {"projects", "analyze", "fetch", "review", "revise", "commit"} :
          /\ P!In(s) /\ UNCHANGED <<effects, stop, structured>> /\ piped' = P!After(piped)
    BY DEF P!Prepare, P!Goes, P!Quiet
  <1>2. /\ piped.flow \in Flows /\ piped.at \in 1..8 /\ Len(P!Stages[piped.flow]) \in 1..8
        /\ Placed(piped.flow, piped.at, s, Len(P!Stages[piped.flow]))
        /\ structured' \in BOOLEAN
    BY <1>1, InIs DEF PipeInv, PipeShape
  <1>3. /\ piped.flow \in {"heartbeat", "web_search", "code_gen"}
        /\ piped.flow = "web_search" => piped.at \in {5, 7, 8}
        /\ piped.flow = "code_gen" => piped.at \in {1, 7}
    BY <1>2 DEF Placed
  <1>4. \A n \in 1..8, l \in 1..8 : n < l => n # l
    OBVIOUS
  <1>5. s # "revise" => piped.at < Len(P!Stages[piped.flow])
    BY <1>2 DEF Placed
  <1>6. s # "revise" => piped.at # Len(P!Stages[piped.flow])
    BY <1>2, <1>4, <1>5, Zenon
  <1>7. s = "revise" => piped.flow = "web_search" /\ piped.at = 8
    BY <1>2 DEF Placed
  <1>8. piped.flow \notin Actors
    BY <1>3 DEF Actors, ByName, ByTask, Stored, Shown
  <1>9. s # "route"
    OBVIOUS
  <1> QED
    BY <1>1, <1>2, <1>3, <1>6, <1>7, <1>8, <1>9, PassKeeps

LEMMA PipeStopKeeps == ASSUME PipeInv, P!Stop \/ P!Done PROVE PipeInv'
  <1>1. UNCHANGED <<piped, effects, structured>> /\ stop' \in BOOLEAN
    BY DEF P!Stop, P!Done, P!vars, PipeInv, PipeShape
  <1> QED
    BY <1>1 DEF PipeInv, PipeShape, ActedOnce, Untouched, Acted, Asked, JobsCounted,
       MessageChecked, CodeTested, ToldSoFar, P!NothingSilentlyMissing, P!Over,
       P!NotToInvented, P!OnlyFromSources, P!VerdictIsOfLastCode

LEMMA PipeStepKeeps == PipeInv /\ P!Next => PipeInv'
  BY PipeStoppedKeeps, ThrowsKeeps, RouteKeeps, ExtractKeeps, QueryKeeps, DefaultsKeep,
     ValidateKeeps, GatherKeeps, ActKeeps, EachKeeps, ConfirmKeeps, ConfirmEachKeeps,
     ConfirmSendKeeps, AnswerKeeps, EnrichKeeps, PrepareKeeps, PickKeeps, GateKeeps,
     BuildKeeps, VerifyKeeps, FixKeeps, ReVerifyKeeps, PipeStopKeeps, Zenon
  DEF P!Next, P!Work
-----------------------------------------------------------------------------
(* The research pipeline.                                                    *)

Claims == UNION {[1..n -> Ids] : n \in 0..MaxClaims}
Judged == UNION {[1..n -> R!Result] : n \in 0..MaxClaims}

ResRec == [abort : BOOLEAN, answer : R!Answers, todo : SUBSET Facets, busy : SUBSET Facets,
           found : SUBSET Facets, read : SUBSET Facets, listed : SUBSET Facets,
           claims : Claims, results : Judged, doubted : SUBSET R!Positions,
           rewritten : SUBSET R!Positions, appendix : SUBSET R!Positions,
           attached : R!Files]

ResShape ==
    /\ ctx \in ResRec /\ step \in {"boundary", "stage", "ended", "failed"} /\ at \in 1..20
    /\ cancelled \in BOOLEAN /\ pdf \in R!Files
    /\ step = "stage" => at <= 19 /\ ~ctx.abort

(* Why a run is over. *)
ResAnswer ==
    /\ ctx.abort => ctx.answer \in {"downgrade", "stopped", "dry", "thin"}
    /\ ~ctx.abort => IF at = 20 THEN ctx.answer = "report" ELSE ctx.answer \in {"raw", None}
    /\ step = "ended" => ctx.abort \/ at = 20

(* Only a stop leaves a facet behind, and a stop is heard. *)
ResFacets ==
    /\ ctx.busy # {} => at = 6 /\ step = "stage"
    /\ ctx.todo # {} /\ at >= 7 => at = 7 /\ cancelled /\ step # "stage"

(* What was found is what is read and listed. *)
ResSources ==
    /\ at >= 8 => ctx.abort \/ ctx.found # {}
    /\ at >= 11 => ctx.read = ctx.found
    /\ at <= 11 => ctx.listed = {}
    /\ at >= 12 => ctx.abort \/ ctx.listed = ctx.read
    /\ ctx.listed # {} => ctx.listed = ctx.read

(* The number of this claim is its own. *)
Own(n) == \A m \in DOMAIN ctx.claims \ {n} : ctx.claims[m] # ctx.claims[n]
Confirmed(n) == ctx.results[n].cross = "confirmed" /\ ctx.results[n].asked = n

(* What becomes of a doubt. *)
ResDoubts ==
    /\ at <= 13 => DOMAIN ctx.results = {}
    /\ DOMAIN ctx.results \in {{}, DOMAIN ctx.claims}
    /\ ctx.doubted \subseteq DOMAIN ctx.results
    /\ \A n \in DOMAIN ctx.results : ctx.results[n].claim \in DOMAIN ctx.claims
    /\ at = 14 => \A n \in ctx.doubted : ctx.results[n].claim = n
                                         /\ ctx.results[n].action # "keep"
    /\ at >= 15 => \A n \in ctx.doubted : Own(n) =>
                      ctx.results[n].claim = n
                      /\ (ctx.results[n].action # "keep" \/ Confirmed(n))
    /\ at >= 17 => \A n \in ctx.doubted : Own(n) => n \in ctx.appendix \/ Confirmed(n)

ResInv == ResShape /\ ResAnswer /\ ResFacets /\ ResSources /\ ResDoubts

LEMMA ResTypes == ResInv => R!TypeOK
  <1> SUFFICES ASSUME ResInv PROVE R!TypeOK
    OBVIOUS
  <1>1. Len(R!Stages) = 19
    BY DEF R!Stages
  <1>2. /\ ctx \in ResRec /\ step \in {"boundary", "stage", "ended", "failed"}
        /\ at \in 1..20 /\ cancelled \in BOOLEAN /\ pdf \in R!Files
    BY DEF ResInv, ResShape
  <1>3. at \in 1..Len(R!Stages) + 1
    BY <1>1, <1>2
  <1>4. \A f \in {"todo", "busy", "found", "read", "listed"} : ctx[f] \subseteq Facets
    BY <1>2 DEF ResRec
  <1>5. \A f \in {"doubted", "rewritten", "appendix"} : ctx[f] \subseteq R!Positions
    BY <1>2 DEF ResRec
  <1>6. /\ ctx.abort \in BOOLEAN /\ ctx.answer \in R!Answers /\ ctx.claims \in Claims
        /\ ctx.results \in Judged /\ ctx.attached \in R!Files
    BY <1>2 DEF ResRec
  <1> QED
    BY <1>2, <1>3, <1>4, <1>5, <1>6, Zenon DEF R!TypeOK, Claims, Judged

(* The properties of a report follow. *)
LEMMA ResReports == ResInv => R!GroundedReport /\ R!DoubtsPublished /\ R!HonestEnd
  <1> SUFFICES ASSUME ResInv PROVE R!GroundedReport /\ R!DoubtsPublished /\ R!HonestEnd
    OBVIOUS
  <1>1. ctx.answer = "report" => at = 20 /\ ~ctx.abort
    BY NoneAssumption DEF ResInv, ResAnswer
  <1>2. R!HonestEnd
    BY <1>1, NoneAssumption DEF ResInv, ResAnswer, ResFacets, R!HonestEnd
  <1>3. ctx.answer = "report" => ctx.found # {} /\ ctx.read = ctx.found /\ ctx.listed = ctx.read
    BY <1>1 DEF ResInv, ResSources
  <1>4. R!GroundedReport
    BY <1>3 DEF ResInv, ResSources, R!GroundedReport
  <1>5. R!DoubtsPublished
    <2> SUFFICES ASSUME ctx.answer = "report", NEW n \in ctx.doubted
                 PROVE  \/ n \in ctx.appendix
                        \/ \E j \in DOMAIN ctx.claims \ {n} : ctx.claims[j] = ctx.claims[n]
                        \/ ctx.results[n].cross = "confirmed" /\ ctx.results[n].asked = n
      BY DEF R!DoubtsPublished
    <2>1. Own(n) => n \in ctx.appendix \/ Confirmed(n)
      BY <1>1 DEF ResInv, ResDoubts
    <2> QED
      BY <2>1 DEF Own, Confirmed
  <1> QED
    BY <1>2, <1>4, <1>5

LEMMA NoClaims == <<>> \in Claims /\ <<>> \in Judged /\ DOMAIN <<>> = {}
  <1>1. <<>> \in [1..0 -> Ids] /\ <<>> \in [1..0 -> R!Result]
    OBVIOUS
  <1>2. 0 \in 0..MaxClaims
    BY BoundAssumption
  <1> QED
    BY <1>1, <1>2 DEF Claims, Judged

LEMMA ResInit == R!Init => ResInv
  <1> SUFFICES ASSUME R!Init PROVE ResInv
    OBVIOUS
  <1>1. step = "boundary" /\ at = 1 /\ cancelled = FALSE /\ pdf \in {"other", None}
    BY DEF R!Init
  <1>2. ctx = [abort |-> FALSE, answer |-> None, todo |-> {}, busy |-> {},
               found |-> {}, read |-> {}, listed |-> {}, claims |-> <<>>,
               results |-> <<>>, doubted |-> {}, rewritten |-> {}, appendix |-> {},
               attached |-> None]
    BY DEF R!Init
  <1>3. None \in R!Answers /\ None \in R!Files /\ "other" \in R!Files
    BY DEF R!Answers, R!Files
  <1> DEFINE e == <<>>
  <1>4. e \in Claims /\ e \in Judged /\ DOMAIN e = {}
    BY NoClaims
  <1>5. ctx.results = e /\ ctx.claims = e
    BY <1>2
  <1>6. ctx \in ResRec
    BY <1>2, <1>3, NoClaims DEF ResRec
  <1> HIDE DEF e
  <1>7. /\ ctx.abort = FALSE /\ ctx.answer = None /\ ctx.todo = {} /\ ctx.busy = {}
        /\ ctx.listed = {} /\ ctx.doubted = {}
    BY <1>2
  <1>8. ResShape /\ ResAnswer /\ ResFacets /\ ResSources
    <2>4. pdf \in R!Files /\ cancelled \in BOOLEAN
      BY <1>1, <1>3
    <2>5. at \in 1..20 /\ step \in {"boundary", "stage", "ended", "failed"} /\ step # "stage"
      BY <1>1
    <2>1. ResShape
      BY <1>6, <2>4, <2>5 DEF ResShape
    <2>2. ResAnswer /\ ResFacets
      BY <1>1, <1>7 DEF ResAnswer, ResFacets
    <2>3. ResSources
      BY <1>1, <1>7 DEF ResSources
    <2> QED
      BY <2>1, <2>2, <2>3
  <1>9. ResDoubts
    BY <1>1, <1>4, <1>5, <1>7 DEF ResDoubts
  <1> QED
    BY <1>8, <1>9 DEF ResInv

LEMMA ResStages ==
  /\ at \in 1..19 /\ R!Stages[at] = "extract_params" => at = 1
  /\ at \in 1..19 /\ R!Stages[at] = "defaults" => at = 2
  /\ at \in 1..19 /\ R!Stages[at] = "flow_gather" => at = 3
  /\ at \in 1..19 /\ R!Stages[at] = "decompose" => at = 4
  /\ at \in 1..19 /\ R!Stages[at] = "parse_angles" => at = 5
  /\ at \in 1..19 /\ R!Stages[at] = "research_angles" => at = 6
  /\ at \in 1..19 /\ R!Stages[at] = "evidence_gate" => at = 7
  /\ at \in 1..19 /\ R!Stages[at] = "gap_check" => at = 8
  /\ at \in 1..19 /\ R!Stages[at] = "supplementary" => at = 9
  /\ at \in 1..19 /\ R!Stages[at] = "final_synthesis" => at = 10
  /\ at \in 1..19 /\ R!Stages[at] = "parse_final" => at = 11
  /\ at \in 1..19 /\ R!Stages[at] = "extract_claims" => at = 12
  /\ at \in 1..19 /\ R!Stages[at] = "verify_claims" => at = 13
  /\ at \in 1..19 /\ R!Stages[at] = "tier1_crosscheck" => at = 14
  /\ at \in 1..19 /\ R!Stages[at] = "correction_pass" => at = 15
  /\ at \in 1..19 /\ R!Stages[at] = "verification_append" => at = 16
  /\ at \in 1..19 /\ R!Stages[at] = "convert_pdf" => at = 17
  /\ at \in 1..19 /\ R!Stages[at] = "summary" => at = 18
  /\ at \in 1..19 /\ R!Stages[at] = "finalize" => at = 19
  <1>1. \A n \in 1..19 : \/ n = 1 \/ n = 2 \/ n = 3 \/ n = 4 \/ n = 5 \/ n = 6 \/ n = 7
                         \/ n = 8 \/ n = 9 \/ n = 10 \/ n = 11 \/ n = 12 \/ n = 13
                         \/ n = 14 \/ n = 15 \/ n = 16 \/ n = 17 \/ n = 18 \/ n = 19
    OBVIOUS
  <1> QED
    BY <1>1 DEF R!Stages

(* A stage is done. *)
Ends(n) ==
    /\ at = n /\ step = "stage" /\ step' = "boundary" /\ at' = n + 1 /\ n \in 1..19
    /\ cancelled' = cancelled /\ ctx \in ResRec /\ ~ctx.abort /\ pdf' \in R!Files

LEMMA StageEnds ==
  ASSUME ResInv, NEW s, R!In(s), R!Done, pdf' \in R!Files
  PROVE  Ends(at) /\ R!Stages[at] = s
  BY DEF ResInv, ResShape, R!In, R!Stage, R!Done, Ends

SameAnswer == ctx'.abort = ctx.abort /\ ctx'.answer = ctx.answer
SameFacets == ctx'.todo = ctx.todo /\ ctx'.busy = ctx.busy
SameSources == ctx'.found = ctx.found /\ ctx'.read = ctx.read /\ ctx'.listed = ctx.listed
SameDoubts == /\ ctx'.claims = ctx.claims /\ ctx'.results = ctx.results
              /\ ctx'.doubted = ctx.doubted /\ ctx'.appendix = ctx.appendix

LEMMA ShapeEnds == ASSUME ResInv, Ends(at), ctx' \in ResRec PROVE ResShape'
  BY DEF ResInv, Ends, ResShape

LEMMA AnswerEnds ==
  ASSUME ResInv, Ends(at),
         \/ at # 19 /\ ctx'.abort = ctx.abort /\ ctx'.answer \in {ctx.answer, "raw"}
         \/ ctx'.abort = TRUE /\ ctx'.answer \in {"downgrade", "dry", "thin"}
         \/ at = 19 /\ ctx'.abort = ctx.abort /\ ctx'.answer = "report"
  PROVE  ResAnswer'
  BY DEF ResInv, ResAnswer, Ends

LEMMA FacetsEnd ==
  ASSUME ResInv, Ends(at), at # 6, ctx'.busy = ctx.busy, at <= 5 \/ ctx'.todo = ctx.todo
  PROVE  ResFacets'
  BY DEF ResInv, ResFacets, Ends

LEMMA SourcesEnd ==
  ASSUME ResInv, Ends(at), at \notin {7, 10, 11}, SameSources,
         ctx'.abort = ctx.abort \/ ctx'.abort = TRUE
  PROVE  ResSources'
  BY DEF ResInv, ResSources, Ends, SameSources

LEMMA DoubtsEnd ==
  ASSUME ResInv, Ends(at), at \notin {13, 14, 16}, SameDoubts
  PROVE  ResDoubts'
  BY DEF ResInv, ResDoubts, Ends, SameDoubts, Own, Confirmed

(* Stages that leave the raw output of a model, or nothing. *)
LEMMA RawEnds ==
  ASSUME ResInv, Ends(at), at \notin {6, 7, 10, 11, 13, 14, 16, 19},
         ctx' = ctx \/ ctx' = [ctx EXCEPT !.answer = "raw"]
  PROVE  ResInv'
  <1>1. "raw" \in R!Answers /\ ctx \in ResRec
    BY DEF R!Answers, Ends
  <1>2. /\ ctx' \in ResRec /\ ctx'.abort = ctx.abort /\ ctx'.answer \in {ctx.answer, "raw"}
        /\ SameFacets /\ SameSources /\ SameDoubts
    BY <1>1 DEF ResRec, SameFacets, SameSources, SameDoubts
  <1>3. ResShape' /\ ResAnswer'
    BY <1>2, ShapeEnds, AnswerEnds
  <1>4. ResFacets' /\ ResSources' /\ ResDoubts'
    BY <1>2, FacetsEnd, SourcesEnd, DoubtsEnd DEF SameFacets
  <1> QED
    BY <1>3, <1>4 DEF ResInv

(* Stages that give the run up. *)
LEMMA GivenUp ==
  ASSUME ResInv, Ends(at), at \in {2, 7, 11}, NEW t \in {"downgrade", "dry", "thin"},
         ctx' = [ctx EXCEPT !.abort = TRUE, !.answer = t]
  PROVE  ResInv'
  <1>1. t \in R!Answers /\ ctx \in ResRec /\ TRUE \in BOOLEAN
    BY DEF R!Answers, Ends
  <1>2. /\ ctx' \in ResRec /\ ctx'.abort = TRUE /\ ctx'.answer = t
        /\ SameFacets /\ SameSources /\ SameDoubts
    BY <1>1 DEF ResRec, SameFacets, SameSources, SameDoubts
  <1>3. ResShape' /\ ResAnswer'
    BY <1>2, ShapeEnds, AnswerEnds
  <1>4. ResFacets' /\ ResDoubts'
    BY <1>2, FacetsEnd, DoubtsEnd DEF SameFacets
  <1>5. ResSources'
    BY <1>2 DEF ResInv, ResSources, Ends, SameSources
  <1> QED
    BY <1>3, <1>4, <1>5 DEF ResInv

LEMMA RawStages ==
  ASSUME ResInv, R!ExtractParams \/ R!Decompose \/ R!GapCheck \/ R!Summary
  PROVE  ResInv'
  <1>1. pdf' \in R!Files
    BY DEF R!ExtractParams, R!Decompose, R!GapCheck, R!Summary, R!Private, ResInv, ResShape
  <1>2. PICK s \in {"extract_params", "decompose", "gap_check", "summary"} :
           R!In(s) /\ R!Done /\ (ctx' = ctx \/ ctx' = [ctx EXCEPT !.answer = "raw"])
    BY DEF R!ExtractParams, R!Decompose, R!GapCheck, R!Summary
  <1>3. Ends(at) /\ R!Stages[at] = s
    BY <1>1, <1>2, StageEnds
  <1>4. at \in {1, 4, 8, 18}
    BY <1>3, ResStages DEF Ends
  <1> QED
    BY <1>2, <1>3, <1>4, RawEnds

LEMMA ConvertKeeps == ASSUME ResInv, R!ConvertPdf PROVE ResInv'
  <1>1. pdf' \in R!Files
    BY DEF R!ConvertPdf, ResInv, ResShape, R!Files
  <1>2. R!In("convert_pdf") /\ R!Done /\ ctx' = ctx
    BY DEF R!ConvertPdf
  <1>3. Ends(at) /\ R!Stages[at] = "convert_pdf"
    BY <1>1, <1>2, StageEnds
  <1>4. at = 17
    BY <1>3, ResStages DEF Ends
  <1> QED
    BY <1>2, <1>3, <1>4, RawEnds

LEMMA ResDefaultsKeep == ASSUME ResInv, R!Defaults PROVE ResInv'
  <1>1. /\ pdf' \in R!Files /\ R!In("defaults") /\ R!Done
        /\ ctx' = ctx \/ ctx' = [ctx EXCEPT !.abort = TRUE, !.answer = "downgrade"]
    BY DEF R!Defaults, R!Private, R!Stopped, ResInv, ResShape
  <1>2. Ends(at) /\ R!Stages[at] = "defaults"
    BY <1>1, StageEnds
  <1>3. at = 2
    BY <1>2, ResStages DEF Ends
  <1>4. CASE ctx' = ctx
    BY <1>2, <1>3, <1>4, RawEnds
  <1>5. CASE ctx' = [ctx EXCEPT !.abort = TRUE, !.answer = "downgrade"]
    BY <1>2, <1>3, <1>5, GivenUp
  <1> QED
    BY <1>1, <1>4, <1>5

LEMMA ThrowsFails == ASSUME ResInv, R!Throws PROVE ResInv'
  <1>1. step = "stage" /\ step' = "failed" /\ UNCHANGED <<at, ctx, cancelled, pdf>>
    BY DEF R!Throws
  <1>2. at # 6
    BY <1>1, ResStages DEF R!Throws, R!Stage, R!Stages, ResInv, ResShape
  <1>3. ResShape'
    BY <1>1 DEF ResInv, ResShape
  <1>4. ResAnswer' /\ ResFacets'
    BY <1>1, <1>2 DEF ResInv, ResAnswer, ResFacets
  <1>5. ResSources' /\ ResDoubts'
    BY <1>1 DEF ResInv, ResSources, ResDoubts, Own, Confirmed
  <1> QED
    BY <1>3, <1>4, <1>5 DEF ResInv

LEMMA ResStopKeeps == ASSUME ResInv, R!Stop \/ R!OtherRun PROVE ResInv'
  <1>1. /\ UNCHANGED <<step, at, ctx>> /\ pdf' \in R!Files /\ cancelled' \in BOOLEAN
        /\ cancelled => cancelled'
    BY DEF R!Stop, R!OtherRun, ResInv, ResShape, R!Files
  <1>2. ResShape' /\ ResAnswer' /\ ResFacets'
    BY <1>1 DEF ResInv, ResShape, ResAnswer, ResFacets
  <1>3. ResSources' /\ ResDoubts'
    BY <1>1 DEF ResInv, ResSources, ResDoubts, Own, Confirmed
  <1> QED
    BY <1>2, <1>3 DEF ResInv

LEMMA FlowKeeps == ASSUME ResInv, R!FlowGather \/ R!ParseAngles PROVE ResInv'
  <1>1. PICK s \in {"flow_gather", "parse_angles"} :
           /\ R!In(s) /\ R!Done /\ pdf' \in R!Files
           /\ \E fs \in SUBSET Facets : ctx' = [ctx EXCEPT !.todo = fs]
    BY DEF R!FlowGather, R!ParseAngles, R!Private, ResInv, ResShape
  <1>2. PICK fs \in SUBSET Facets : ctx' = [ctx EXCEPT !.todo = fs]
    BY <1>1
  <1>3. Ends(at) /\ R!Stages[at] = s
    BY <1>1, StageEnds
  <1>4. at \in {3, 5}
    BY <1>3, ResStages DEF Ends
  <1>5. /\ ctx' \in ResRec /\ ctx'.abort = ctx.abort /\ ctx'.answer = ctx.answer
        /\ ctx'.busy = ctx.busy /\ SameSources /\ SameDoubts
    BY <1>2, <1>3 DEF Ends, ResRec, SameSources, SameDoubts
  <1>8. at # 19 /\ ctx'.answer \in {ctx.answer, "raw"}
    BY <1>4, <1>5
  <1>6. ResShape' /\ ResAnswer'
    BY <1>3, <1>5, <1>8, ShapeEnds, AnswerEnds
  <1>7. ResFacets' /\ ResSources' /\ ResDoubts'
    BY <1>3, <1>4, <1>5, FacetsEnd, SourcesEnd, DoubtsEnd
  <1> QED
    BY <1>6, <1>7 DEF ResInv

(* While facets are investigated. *)
LEMMA WorkersKeep ==
  ASSUME ResInv, R!In("research_angles"), UNCHANGED <<step, at, cancelled, pdf>>,
         ctx' \in ResRec, SameAnswer, ctx'.listed = ctx.listed, SameDoubts
  PROVE  ResInv'
  <1>1. step = "stage" /\ at = 6
    BY ResStages DEF ResInv, ResShape, R!In, R!Stage
  <1>2. ResShape' /\ ResAnswer' /\ ResFacets' /\ ResSources'
    BY <1>1 DEF ResInv, ResShape, ResAnswer, ResFacets, ResSources, SameAnswer
  <1>3. ResDoubts'
    BY <1>1 DEF ResInv, ResDoubts, SameDoubts, Own, Confirmed
  <1> QED
    BY <1>2, <1>3 DEF ResInv

LEMMA TakeKeeps == ASSUME ResInv, NEW f \in Facets, R!Take(f) \/ R!Investigated(f) PROVE ResInv'
  <1>1. R!In("research_angles") /\ UNCHANGED <<step, at, cancelled, pdf>> /\ ctx \in ResRec
    BY DEF R!Take, R!Investigated, R!Private, ResInv, ResShape
  <1>2. CASE R!Take(f)
    <2> DEFINE t == ctx.todo \ {f}
               b == ctx.busy \cup {f}
    <2>1. t \subseteq Facets /\ b \subseteq Facets
      BY <1>1 DEF ResRec
    <2>2. ctx' = [ctx EXCEPT !.todo = t, !.busy = b]
      BY <1>2 DEF R!Take
    <2> HIDE DEF t, b
    <2>3. ctx' \in ResRec /\ SameAnswer /\ ctx'.listed = ctx.listed /\ SameDoubts
      BY <1>1, <2>1, <2>2 DEF ResRec, SameAnswer, SameDoubts
    <2> QED
      BY <1>1, <2>3, WorkersKeep
  <1>3. CASE R!Investigated(f)
    <2>1. PICK g \in {{}, {f}} :
             ctx' = [ctx EXCEPT !.busy = ctx.busy \ {f}, !.found = ctx.found \cup g]
      BY <1>3 DEF R!Investigated
    <2> DEFINE t == ctx.busy \ {f}
               b == ctx.found \cup g
    <2>2. t \subseteq Facets /\ b \subseteq Facets
      BY <1>1 DEF ResRec
    <2>3. ctx' = [ctx EXCEPT !.busy = t, !.found = b]
      BY <2>1
    <2> HIDE DEF t, b
    <2>4. ctx' \in ResRec /\ SameAnswer /\ ctx'.listed = ctx.listed /\ SameDoubts
      BY <1>1, <2>2, <2>3 DEF ResRec, SameAnswer, SameDoubts
    <2> QED
      BY <1>1, <2>4, WorkersKeep
  <1> QED
    BY <1>2, <1>3

LEMMA AnglesKeep == ASSUME ResInv, R!ResearchAngles PROVE ResInv'
  <1>1. /\ R!In("research_angles") /\ R!Done /\ pdf' \in R!Files /\ ctx' = ctx
        /\ ctx.busy = {} /\ (ctx.todo = {} \/ cancelled)
    BY DEF R!ResearchAngles, R!Private, ResInv, ResShape
  <1>2. Ends(at) /\ R!Stages[at] = "research_angles"
    BY <1>1, StageEnds
  <1>3. at = 6
    BY <1>2, ResStages DEF Ends
  <1>4. ctx' \in ResRec /\ SameSources /\ SameDoubts
    BY <1>1, <1>2 DEF Ends, SameSources, SameDoubts
  <1>5. ResShape' /\ ResAnswer'
    BY <1>1, <1>2, <1>3, <1>4, ShapeEnds, AnswerEnds
  <1>6. ResFacets'
    BY <1>1, <1>2, <1>3 DEF ResFacets, Ends
  <1>7. ResSources' /\ ResDoubts'
    BY <1>1, <1>2, <1>3, <1>4, SourcesEnd, DoubtsEnd
  <1> QED
    BY <1>5, <1>6, <1>7 DEF ResInv

LEMMA GateEnds == ASSUME ResInv, R!EvidenceGate PROVE ResInv'
  <1>1. /\ R!In("evidence_gate") /\ R!Done /\ pdf' \in R!Files
        /\ ctx' = IF ctx.found = {} THEN [ctx EXCEPT !.abort = TRUE, !.answer = "dry"] ELSE ctx
    BY DEF R!EvidenceGate, R!Private, R!Stopped, ResInv, ResShape
  <1>2. Ends(at) /\ R!Stages[at] = "evidence_gate"
    BY <1>1, StageEnds
  <1>3. at = 7
    BY <1>2, ResStages DEF Ends
  <1>4. CASE ctx.found = {}
    BY <1>1, <1>2, <1>3, <1>4, GivenUp
  <1>5. CASE ctx.found # {}
    <2>1. ctx' = ctx
      BY <1>1, <1>5
    <2>2. ctx' \in ResRec /\ SameFacets /\ SameDoubts
      BY <1>2, <2>1 DEF Ends, SameFacets, SameDoubts
    <2>3. ResShape' /\ ResAnswer'
      BY <1>2, <1>3, <2>1, <2>2, ShapeEnds, AnswerEnds
    <2>4. ResFacets' /\ ResDoubts'
      BY <1>2, <1>3, <2>2, FacetsEnd, DoubtsEnd DEF SameFacets
    <2>5. ResSources'
      BY <1>2, <1>3, <1>5, <2>1 DEF ResInv, ResSources, Ends
    <2> QED
      BY <2>3, <2>4, <2>5 DEF ResInv
  <1> QED
    BY <1>4, <1>5

LEMMA SupplementKeeps == ASSUME ResInv, R!Supplementary PROVE ResInv'
  <1>1. R!In("supplementary") /\ R!Done /\ pdf' \in R!Files
    BY DEF R!Supplementary, R!Private, ResInv, ResShape
  <1>2. PICK extra_ \in SUBSET Facets : ctx' = [ctx EXCEPT !.found = ctx.found \cup extra_]
    BY DEF R!Supplementary
  <1>3. Ends(at) /\ R!Stages[at] = "supplementary"
    BY <1>1, StageEnds
  <1>4. at = 9
    BY <1>3, ResStages DEF Ends
  <1> DEFINE b == ctx.found \cup extra_
  <1>5. b \subseteq Facets /\ (ctx.found # {} => b # {}) /\ ctx' = [ctx EXCEPT !.found = b]
    BY <1>2, <1>3 DEF Ends, ResRec
  <1> HIDE DEF b
  <1>6. /\ ctx' \in ResRec /\ ctx'.abort = ctx.abort /\ ctx'.answer = ctx.answer
        /\ SameFacets /\ SameDoubts /\ ctx'.found = b /\ ctx'.listed = ctx.listed
    BY <1>3, <1>5 DEF Ends, ResRec, SameFacets, SameDoubts
  <1>7. ResShape' /\ ResAnswer'
    BY <1>3, <1>4, <1>6, ShapeEnds, AnswerEnds
  <1>8. ResFacets' /\ ResDoubts'
    BY <1>3, <1>4, <1>6, FacetsEnd, DoubtsEnd DEF SameFacets
  <1>9. ResSources'
    BY <1>3, <1>4, <1>5, <1>6 DEF ResInv, ResSources, Ends
  <1> QED
    BY <1>7, <1>8, <1>9 DEF ResInv

LEMMA SynthesisKeeps == ASSUME ResInv, R!FinalSynthesis PROVE ResInv'
  <1>1. /\ R!In("final_synthesis") /\ R!Done /\ pdf' \in R!Files
        /\ ctx' = [ctx EXCEPT !.answer = "raw", !.read = ctx.found]
    BY DEF R!FinalSynthesis, R!Private, ResInv, ResShape
  <1>2. Ends(at) /\ R!Stages[at] = "final_synthesis"
    BY <1>1, StageEnds
  <1>3. at = 10
    BY <1>2, ResStages DEF Ends
  <1>4. "raw" \in R!Answers /\ ctx \in ResRec
    BY <1>2 DEF R!Answers, Ends
  <1>5. /\ ctx' \in ResRec /\ ctx'.abort = ctx.abort /\ ctx'.answer = "raw"
        /\ SameFacets /\ SameDoubts /\ ctx'.found = ctx.found /\ ctx'.read = ctx.found
        /\ ctx'.listed = ctx.listed
    BY <1>1, <1>4 DEF ResRec, SameFacets, SameDoubts
  <1>6. ResShape' /\ ResAnswer'
    BY <1>2, <1>3, <1>5, ShapeEnds, AnswerEnds
  <1>7. ResFacets' /\ ResDoubts'
    BY <1>2, <1>3, <1>5, FacetsEnd, DoubtsEnd DEF SameFacets
  <1>8. ResSources'
    BY <1>2, <1>3, <1>5 DEF ResInv, ResSources, Ends
  <1> QED
    BY <1>6, <1>7, <1>8 DEF ResInv

LEMMA ParseFinalKeeps == ASSUME ResInv, R!ParseFinal PROVE ResInv'
  <1>1. /\ R!In("parse_final") /\ R!Done /\ pdf' \in R!Files
        /\ \/ ctx' = [ctx EXCEPT !.abort = TRUE, !.answer = "thin"]
           \/ ctx' = [ctx EXCEPT !.listed = ctx.found]
    BY DEF R!ParseFinal, R!Private, R!Stopped, ResInv, ResShape
  <1>2. Ends(at) /\ R!Stages[at] = "parse_final"
    BY <1>1, StageEnds
  <1>3. at = 11
    BY <1>2, ResStages DEF Ends
  <1>4. CASE ctx' = [ctx EXCEPT !.abort = TRUE, !.answer = "thin"]
    BY <1>2, <1>3, <1>4, GivenUp
  <1>5. CASE ctx' = [ctx EXCEPT !.listed = ctx.found]
    <2>1. /\ ctx' \in ResRec /\ ctx'.abort = ctx.abort /\ ctx'.answer = ctx.answer
          /\ SameFacets /\ SameDoubts /\ ctx'.found = ctx.found /\ ctx'.read = ctx.read
          /\ ctx'.listed = ctx.found
      BY <1>2, <1>5 DEF Ends, ResRec, SameFacets, SameDoubts
    <2>2. ResShape' /\ ResAnswer'
      BY <1>2, <1>3, <2>1, ShapeEnds, AnswerEnds
    <2>3. ResFacets' /\ ResDoubts'
      BY <1>2, <1>3, <2>1, FacetsEnd, DoubtsEnd DEF SameFacets
    <2>4. ResSources'
      BY <1>2, <1>3, <2>1 DEF ResInv, ResSources, Ends
    <2> QED
      BY <2>2, <2>3, <2>4 DEF ResInv
  <1> QED
    BY <1>1, <1>4, <1>5

(* A stage that changes what is known of the claims. *)
LEMMA ClaimStage ==
  ASSUME ResInv, Ends(at), at \in {12, 13, 14, 16}, ctx' \in ResRec,
         ctx'.abort = ctx.abort, ctx'.answer = ctx.answer, SameFacets, SameSources, ResDoubts'
  PROVE  ResInv'
  <1>1. at # 19 /\ ctx'.answer \in {ctx.answer, "raw"}
    OBVIOUS
  <1>2. ResShape' /\ ResAnswer'
    BY <1>1, ShapeEnds, AnswerEnds
  <1>3. ResFacets' /\ ResSources'
    BY FacetsEnd, SourcesEnd DEF SameFacets
  <1> QED
    BY <1>2, <1>3 DEF ResInv

LEMMA ClaimsExtracted == ASSUME ResInv, R!ExtractClaims PROVE ResInv'
  <1>1. R!In("extract_claims") /\ R!Done /\ pdf' \in R!Files
    BY DEF R!ExtractClaims, R!Private, ResInv, ResShape
  <1>9. PICK n \in 0..MaxClaims : \E ids \in [1..n -> Ids] : ctx' = [ctx EXCEPT !.claims = ids]
    BY DEF R!ExtractClaims
  <1>2. PICK ids \in [1..n -> Ids] : ctx' = [ctx EXCEPT !.claims = ids]
    BY <1>9
  <1>3. Ends(at) /\ R!Stages[at] = "extract_claims"
    BY <1>1, StageEnds
  <1>4. at = 12
    BY <1>3, ResStages DEF Ends
  <1>5. ids \in Claims
    BY DEF Claims
  <1>6. /\ ctx' \in ResRec /\ ctx'.abort = ctx.abort /\ ctx'.answer = ctx.answer
        /\ SameFacets /\ SameSources /\ ctx'.claims = ids /\ ctx'.results = ctx.results
        /\ ctx'.doubted = ctx.doubted
    BY <1>2, <1>3, <1>5 DEF Ends, ResRec, SameFacets, SameSources
  <1>7. at' = 13 /\ DOMAIN ctx.results = {} /\ ctx.doubted = {}
    BY <1>3, <1>4 DEF ResInv, ResDoubts, Ends
  <1>8. ResDoubts'
    BY <1>6, <1>7 DEF ResDoubts
  <1> QED
    BY <1>3, <1>4, <1>6, <1>8, ClaimStage

LEMMA ClaimsCounted ==
  ASSUME ctx \in ResRec
  PROVE  \E n \in 0..MaxClaims : /\ DOMAIN ctx.claims = 1..n /\ 1..n \subseteq R!Positions
                                 /\ ctx.claims \in [1..n -> Ids]
  <1>1. PICK n \in 0..MaxClaims : ctx.claims \in [1..n -> Ids]
    BY DEF ResRec, Claims
  <1>2. 1..n \subseteq R!Positions
    BY BoundAssumption DEF R!Positions
  <1> QED
    BY <1>1, <1>2

LEMMA ClaimsVerified == ASSUME ResInv, R!VerifyClaims PROVE ResInv'
  <1>1. R!In("verify_claims") /\ R!Done /\ pdf' \in R!Files
    BY DEF R!VerifyClaims, R!Private, ResInv, ResShape
  <1>2. PICK action \in [DOMAIN ctx.claims -> R!Actions] :
          ctx' = [ctx EXCEPT
              !.doubted = {m \in DOMAIN ctx.claims : action[m] # "keep"},
              !.results = [m \in DOMAIN ctx.claims |->
                  [claim |-> m, action |-> action[m], cross |-> None, asked |-> m]]]
    BY DEF R!VerifyClaims
  <1>3. Ends(at) /\ R!Stages[at] = "verify_claims"
    BY <1>1, StageEnds
  <1>4. at = 13 /\ ctx \in ResRec
    BY <1>3, ResStages DEF Ends
  <1> DEFINE d == {m \in DOMAIN ctx.claims : action[m] # "keep"}
             r == [m \in DOMAIN ctx.claims |->
                     [claim |-> m, action |-> action[m], cross |-> None, asked |-> m]]
  <1>5. PICK n \in 0..MaxClaims : /\ DOMAIN ctx.claims = 1..n /\ 1..n \subseteq R!Positions
                                  /\ ctx.claims \in [1..n -> Ids]
    BY <1>4, ClaimsCounted
  <1>6. r \in [1..n -> R!Result]
    BY <1>5 DEF R!Result, R!Crosses
  <1>7. r \in Judged
    BY <1>6 DEF Judged
  <1>8. /\ d \subseteq R!Positions /\ d \subseteq DOMAIN ctx.claims
        /\ \A m \in d : r[m].claim = m /\ r[m].action # "keep"
    BY <1>5
  <1>9. /\ DOMAIN r = DOMAIN ctx.claims /\ \A m \in DOMAIN r : r[m].claim \in DOMAIN ctx.claims
        /\ ctx' = [ctx EXCEPT !.doubted = d, !.results = r]
    BY <1>2
  <1> HIDE DEF d, r
  <1>10. /\ ctx' \in ResRec /\ ctx'.abort = ctx.abort /\ ctx'.answer = ctx.answer
         /\ SameFacets /\ SameSources /\ ctx'.claims = ctx.claims /\ ctx'.results = r
         /\ ctx'.doubted = d
    BY <1>4, <1>7, <1>8, <1>9 DEF ResRec, SameFacets, SameSources
  <1>11. at' = 14
    BY <1>3, <1>4 DEF Ends
  <1>12. ResDoubts'
    BY <1>8, <1>9, <1>10, <1>11 DEF ResDoubts
  <1> QED
    BY <1>3, <1>4, <1>10, <1>12, ClaimStage

(* Any set of naturals has a least element, so one with a bound has a last. *)
LEMMA LeastNat ==
  ASSUME NEW T \in SUBSET Nat, T # {}
  PROVE  \E x \in T : \A y \in T : x <= y
  <1> DEFINE Q == OpToRel(<, Nat)
  <1>1. IsWellFoundedOn(Q, Nat)
    BY NatLessThanWellFounded
  <1>2. \A x, y \in Nat : x < y => <<x, y>> \in Q
    BY DEF OpToRel
  <1> HIDE DEF Q
  <1>3. PICK x \in T : \A y \in T : ~(<<y, x>> \in Q)
    BY <1>1, WFMin
  <1>4. \A y \in T : ~(y < x)
    BY <1>2, <1>3
  <1> QED
    BY <1>4

LEMMA LatestIs ==
  ASSUME NEW n \in Nat, NEW T \in SUBSET (1..n), T # {}
  PROVE  R!Latest(T) \in T /\ \A m \in T : m <= R!Latest(T)
  <1> DEFINE U == {n - m : m \in T}
  <1>0. \A m \in 1..n : n - m \in Nat
    OBVIOUS
  <1>1. U \in SUBSET Nat /\ U # {}
    <2>1. PICK t \in T : TRUE
      OBVIOUS
    <2>2. n - t \in U
      OBVIOUS
    <2> QED
      BY <1>0, <2>2
  <1>2. PICK u \in U : \A v \in U : u <= v
    BY <1>1, LeastNat
  <1>3. PICK t \in T : u = n - t
    BY <1>2
  <1>4. \A m \in T : n - t <= n - m
    BY <1>2, <1>3
  <1>5. \A m \in T : m <= t
    BY <1>4
  <1> QED
    BY <1>3, <1>5 DEF R!Latest

LEMMA ByIdIs ==
  ASSUME ctx \in ResRec, NEW m \in DOMAIN ctx.claims
  PROVE  /\ R!ById(ctx.claims[m]) \in DOMAIN ctx.claims
         /\ Own(m) => R!ById(ctx.claims[m]) = m
  <1>1. PICK n \in 0..MaxClaims : DOMAIN ctx.claims = 1..n
    BY ClaimsCounted
  <1> DEFINE T == {j \in DOMAIN ctx.claims : ctx.claims[j] = ctx.claims[m]}
  <1>2. T \in SUBSET (1..n) /\ m \in T /\ n \in Nat /\ T \subseteq DOMAIN ctx.claims
    BY <1>1, BoundAssumption
  <1>3. Own(m) => \A j \in T : j = m
    BY DEF Own
  <1>4. R!ById(ctx.claims[m]) = R!Latest(T)
    BY DEF R!ById
  <1> HIDE DEF T
  <1>5. R!Latest(T) \in T
    BY <1>2, LatestIs
  <1> QED
    BY <1>2, <1>3, <1>4, <1>5

LEMMA AppliedIs ==
  ASSUME NEW v \in R!Result, NEW status \in R!Crosses
  PROVE  /\ R!Applied(v, status) \in R!Result
         /\ R!Applied(v, status).claim = v.claim /\ R!Applied(v, status).asked = v.asked
         /\ v.action # "keep" => \/ R!Applied(v, status).action # "keep"
                                 \/ R!Applied(v, status).cross = "confirmed"
  <1>1. "keep" \in R!Actions /\ "correct" \in R!Actions
    BY DEF R!Actions
  <1>2. CASE status = "contradicted"
    <2>1. R!Applied(v, status) = [v EXCEPT !.cross = status, !.action = "correct"]
      BY <1>2 DEF R!Applied
    <2> QED
      BY <1>1, <2>1 DEF R!Result
  <1>3. CASE status = "confirmed" /\ v.action = "hedge"
    <2>1. R!Applied(v, status) = [v EXCEPT !.cross = status, !.action = "keep"]
      BY <1>3 DEF R!Applied
    <2>2. R!Applied(v, status).cross = "confirmed"
      BY <1>3, <2>1 DEF R!Result
    <2> QED
      BY <1>1, <2>1, <2>2 DEF R!Result
  <1>4. CASE status # "contradicted" /\ ~(status = "confirmed" /\ v.action = "hedge")
    <2>1. R!Applied(v, status) = [v EXCEPT !.cross = status]
      BY <1>4 DEF R!Applied
    <2> QED
      BY <2>1 DEF R!Result
  <1> QED
    BY <1>2, <1>3, <1>4

(* What the cross-check makes of a result. *)
LEMMA CheckedIs ==
  ASSUME ResInv, NEW status, DOMAIN status \subseteq DOMAIN ctx.claims,
         \A e \in DOMAIN status : status[e] \in R!Crosses,
         NEW m \in DOMAIN ctx.results
  PROVE  /\ R!Checked(m, status) \in R!Result
         /\ R!Checked(m, status).claim \in DOMAIN ctx.claims
         /\ Own(m) /\ ctx.results[m].claim = m /\ ctx.results[m].action # "keep" =>
               /\ R!Checked(m, status).claim = m
               /\ \/ R!Checked(m, status).action # "keep"
                  \/ R!Checked(m, status).cross = "confirmed"
                     /\ R!Checked(m, status).asked = m
  <1>1. /\ ctx \in ResRec /\ DOMAIN ctx.results = DOMAIN ctx.claims
        /\ \A k \in DOMAIN ctx.results : ctx.results[k].claim \in DOMAIN ctx.claims
    BY DEF ResInv, ResShape, ResDoubts
  <1>2. \A k \in DOMAIN ctx.results : ctx.results[k] \in R!Result
    <2>1. ctx.results \in Judged
      BY <1>1 DEF ResRec
    <2>2. PICK n \in 0..MaxClaims : ctx.results \in [1..n -> R!Result]
      BY <2>1 DEF Judged
    <2> QED
      BY <2>2
  <1>3. PICK n \in 0..MaxClaims : DOMAIN ctx.claims = 1..n /\ 1..n \subseteq R!Positions
    BY <1>1, ClaimsCounted
  <1> DEFINE same == {e \in DOMAIN status : ctx.claims[e] = ctx.claims[m]}
             l == R!Latest(same)
             b == R!ById(ctx.claims[m])
             v == [ctx.results[l] EXCEPT !.asked = b]
  <1>4. R!Checked(m, status) = IF same = {} THEN ctx.results[m]
                               ELSE R!Applied(v, status[l])
    BY DEF R!Checked
  <1>5. same \in SUBSET (1..n) /\ n \in Nat
    BY <1>3, BoundAssumption
  <1>6. b \in 1..n /\ (Own(m) => b = m)
    BY <1>1, <1>3, ByIdIs
  <1>7. Own(m) => same \subseteq {m}
    BY DEF Own
  <1>8. same # {} => l \in same
    <2> HIDE DEF same
    <2> QED
      BY <1>5, LatestIs
  <1>9. CASE same = {}
    BY <1>1, <1>2, <1>4, <1>9
  <1>10. CASE same # {}
    <2>1. l \in DOMAIN status /\ l \in 1..n /\ (Own(m) => l = m)
      BY <1>5, <1>7, <1>8, <1>10
    <2> HIDE DEF same, l, b
    <2>2. ctx.results[l] \in R!Result /\ status[l] \in R!Crosses
          /\ ctx.results[l].claim \in DOMAIN ctx.claims
      BY <1>1, <1>2, <1>3, <2>1
    <2>3. /\ v \in R!Result /\ v.asked = b /\ v.claim = ctx.results[l].claim
          /\ v.action = ctx.results[l].action
      BY <1>3, <1>6, <2>2 DEF R!Result
    <2> HIDE DEF v
    <2> DEFINE a == R!Applied(v, status[l])
    <2>4. /\ a \in R!Result /\ a.claim = v.claim /\ a.asked = v.asked
          /\ v.action # "keep" => a.action # "keep" \/ a.cross = "confirmed"
      BY <2>2, <2>3, AppliedIs
    <2>5. R!Checked(m, status) = a
      BY <1>4, <1>10
    <2> HIDE DEF a
    <2> QED
      BY <1>6, <2>1, <2>2, <2>3, <2>4, <2>5
  <1> QED
    BY <1>9, <1>10

LEMMA CrosscheckKeeps == ASSUME ResInv, R!Tier1Crosscheck PROVE ResInv'
  <1>1. R!In("tier1_crosscheck") /\ R!Done /\ pdf' \in R!Files
    BY DEF R!Tier1Crosscheck, R!Private, ResInv, ResShape
  <1>9. PICK escalated \in SUBSET DOMAIN ctx.claims : \E status \in [escalated -> R!Crosses] :
          ctx' = [ctx EXCEPT !.results = [m \in DOMAIN ctx.results |-> R!Checked(m, status)]]
    BY DEF R!Tier1Crosscheck
  <1>2. PICK status \in [escalated -> R!Crosses] :
          ctx' = [ctx EXCEPT !.results = [m \in DOMAIN ctx.results |-> R!Checked(m, status)]]
    BY <1>9
  <1>3. Ends(at) /\ R!Stages[at] = "tier1_crosscheck"
    BY <1>1, StageEnds
  <1>4. at = 14 /\ ctx \in ResRec
    BY <1>3, ResStages DEF Ends
  <1> DEFINE r == [m \in DOMAIN ctx.results |-> R!Checked(m, status)]
  <1>5. \A m \in DOMAIN ctx.results :
          /\ r[m] \in R!Result /\ r[m].claim \in DOMAIN ctx.claims
          /\ Own(m) /\ ctx.results[m].claim = m /\ ctx.results[m].action # "keep" =>
                /\ r[m].claim = m
                /\ r[m].action # "keep" \/ (r[m].cross = "confirmed" /\ r[m].asked = m)
    <2>1. DOMAIN status \subseteq DOMAIN ctx.claims
          /\ \A e \in DOMAIN status : status[e] \in R!Crosses
      OBVIOUS
    <2> QED
      BY <2>1, CheckedIs
  <1>6. DOMAIN r = DOMAIN ctx.results /\ r \in [DOMAIN ctx.results -> R!Result]
    BY <1>5
  <1>7. ctx' = [ctx EXCEPT !.results = r]
    BY <1>2
  <1> HIDE DEF r
  <1>8. r \in Judged
    <2>1. PICK n \in 0..MaxClaims : ctx.results \in [1..n -> R!Result]
      BY <1>4 DEF ResRec, Judged
    <2>2. r \in [1..n -> R!Result]
      BY <1>6, <2>1
    <2> QED
      BY <2>2 DEF Judged
  <1>10. /\ ctx' \in ResRec /\ ctx'.abort = ctx.abort /\ ctx'.answer = ctx.answer
         /\ SameFacets /\ SameSources /\ ctx'.claims = ctx.claims /\ ctx'.results = r
         /\ ctx'.doubted = ctx.doubted
    BY <1>4, <1>7, <1>8 DEF ResRec, SameFacets, SameSources
  <1>11. at' = 15
    BY <1>3, <1>4 DEF Ends
  <1>12. /\ DOMAIN ctx.results \in {{}, DOMAIN ctx.claims}
         /\ ctx.doubted \subseteq DOMAIN ctx.results
         /\ \A n \in ctx.doubted : ctx.results[n].claim = n /\ ctx.results[n].action # "keep"
    BY <1>4 DEF ResInv, ResDoubts
  <1>13. ResDoubts'
    BY <1>5, <1>6, <1>10, <1>11, <1>12 DEF ResDoubts, Own, Confirmed
  <1> QED
    BY <1>3, <1>4, <1>10, <1>13, ClaimStage

(* The corrections and the list of what was not borne out. *)
LEMMA CorrectionKeeps == ASSUME ResInv, R!CorrectionPass PROVE ResInv'
  <1>1. R!In("correction_pass") /\ R!Done /\ pdf' \in R!Files
    BY DEF R!CorrectionPass, R!Private, ResInv, ResShape
  <1>2. PICK w \in SUBSET R!PatchSet : ctx' = [ctx EXCEPT !.rewritten = w]
    BY DEF R!CorrectionPass
  <1>3. Ends(at) /\ R!Stages[at] = "correction_pass"
    BY <1>1, StageEnds
  <1>4. at = 15 /\ ctx \in ResRec
    BY <1>3, ResStages DEF Ends
  <1>5. w \subseteq R!Positions
    <2>1. \A n \in DOMAIN ctx.results : ctx.results[n].claim \in DOMAIN ctx.claims
      BY DEF ResInv, ResDoubts
    <2>2. DOMAIN ctx.claims \subseteq R!Positions
      BY <1>4, ClaimsCounted
    <2>3. \A m \in DOMAIN ctx.claims : R!ById(ctx.claims[m]) \in DOMAIN ctx.claims
      BY <1>4, ByIdIs
    <2> QED
      BY <2>1, <2>2, <2>3 DEF R!PatchSet
  <1>6. /\ ctx' \in ResRec /\ ctx'.abort = ctx.abort /\ ctx'.answer = ctx.answer
        /\ SameFacets /\ SameSources /\ SameDoubts
    BY <1>2, <1>4, <1>5 DEF ResRec, SameFacets, SameSources, SameDoubts
  <1>7. at # 19 /\ ctx'.answer \in {ctx.answer, "raw"}
    BY <1>4, <1>6
  <1>8. ResShape' /\ ResAnswer'
    BY <1>3, <1>6, <1>7, ShapeEnds, AnswerEnds
  <1>9. ResFacets' /\ ResSources' /\ ResDoubts'
    BY <1>3, <1>4, <1>6, FacetsEnd, SourcesEnd, DoubtsEnd DEF SameFacets
  <1> QED
    BY <1>8, <1>9 DEF ResInv

LEMMA AppendKeeps == ASSUME ResInv, R!VerificationAppend PROVE ResInv'
  <1> DEFINE p == {ctx.results[n].claim :
                     n \in {m \in DOMAIN ctx.results : ctx.results[m].action # "keep"}}
  <1>1. /\ R!In("verification_append") /\ R!Done /\ pdf' \in R!Files
        /\ ctx' = [ctx EXCEPT !.appendix = p]
    BY DEF R!VerificationAppend, R!Private, ResInv, ResShape
  <1>2. Ends(at) /\ R!Stages[at] = "verification_append"
    BY <1>1, StageEnds
  <1>3. at = 16 /\ ctx \in ResRec
    BY <1>2, ResStages DEF Ends
  <1>4. \A n \in DOMAIN ctx.results : ctx.results[n].claim \in DOMAIN ctx.claims
    BY DEF ResInv, ResDoubts
  <1>5. p \subseteq R!Positions
    BY <1>3, <1>4, ClaimsCounted
  <1>6. \A n \in DOMAIN ctx.results : ctx.results[n].action # "keep" => ctx.results[n].claim \in p
    OBVIOUS
  <1> HIDE DEF p
  <1>7. /\ ctx' \in ResRec /\ ctx'.abort = ctx.abort /\ ctx'.answer = ctx.answer
        /\ SameFacets /\ SameSources /\ ctx'.claims = ctx.claims
        /\ ctx'.results = ctx.results /\ ctx'.doubted = ctx.doubted /\ ctx'.appendix = p
    BY <1>1, <1>3, <1>5 DEF ResRec, SameFacets, SameSources
  <1>8. /\ at' = 17 /\ DOMAIN ctx.results \in {{}, DOMAIN ctx.claims}
        /\ ctx.doubted \subseteq DOMAIN ctx.results
        /\ \A n \in ctx.doubted : Own(n) =>
              ctx.results[n].claim = n /\ (ctx.results[n].action # "keep" \/ Confirmed(n))
    BY <1>2, <1>3 DEF Ends, ResInv, ResDoubts
  <1>9. (\A n : Own(n)' = Own(n)) /\ (\A n : Confirmed(n)' = Confirmed(n))
    BY <1>7 DEF Own, Confirmed
  <1>10. \A n \in ctx.doubted : Own(n) => n \in p \/ Confirmed(n)
    BY <1>6, <1>8
  <1>11. ResDoubts'
    BY <1>4, <1>7, <1>8, <1>9, <1>10 DEF ResDoubts
  <1> QED
    BY <1>2, <1>3, <1>7, <1>11, ClaimStage

LEMMA FinalizeKeeps == ASSUME ResInv, R!Finalize PROVE ResInv'
  <1>1. /\ R!In("finalize") /\ R!Done /\ pdf' \in R!Files /\ pdf \in R!Files
        /\ ctx' = [ctx EXCEPT !.answer = "report", !.attached = pdf]
    BY DEF R!Finalize, R!Private, ResInv, ResShape
  <1>2. Ends(at) /\ R!Stages[at] = "finalize"
    BY <1>1, StageEnds
  <1>3. at = 19 /\ ctx \in ResRec /\ "report" \in R!Answers
    BY <1>2, ResStages DEF Ends, R!Answers
  <1>4. /\ ctx' \in ResRec /\ ctx'.abort = ctx.abort /\ ctx'.answer = "report"
        /\ SameFacets /\ SameSources /\ SameDoubts
    BY <1>1, <1>3 DEF ResRec, SameFacets, SameSources, SameDoubts
  <1>5. ResShape' /\ ResAnswer'
    BY <1>2, <1>3, <1>4, ShapeEnds, AnswerEnds
  <1>6. ResFacets' /\ ResSources' /\ ResDoubts'
    BY <1>2, <1>3, <1>4, FacetsEnd, SourcesEnd, DoubtsEnd DEF SameFacets
  <1> QED
    BY <1>5, <1>6 DEF ResInv

(* Between two stages. *)
LEMMA SkippedIs ==
  ASSUME at \in 1..19, ~R!Due
  PROVE  at \in {4, 5, 13, 14, 15, 16} /\ (at = 16 => ctx.results = <<>>)
  <1>1. \/ R!Stage \in {"decompose", "parse_angles", "verify_claims", "correction_pass"}
        \/ R!Stage \in {"tier1_crosscheck", "verification_append"} /\ ctx.results = <<>>
    BY DEF R!Due
  <1>2. at \in {4, 5, 13, 14, 15, 16}
    BY <1>1, ResStages DEF R!Stage
  <1>3. at = 16 => R!Stage = "verification_append"
    BY DEF R!Stage, R!Stages
  <1> QED
    BY <1>1, <1>2, <1>3

LEMMA BoundaryKeeps == ASSUME ResInv, R!Boundary PROVE ResInv'
  <1>1. step = "boundary" /\ UNCHANGED <<cancelled, pdf>> /\ at \in 1..20 /\ ctx \in ResRec
    BY DEF R!Boundary, ResInv, ResShape
  <1>2. Len(R!Stages) = 19
    BY DEF R!Stages
  <1>3. CASE (at > 19 \/ ctx.abort) /\ step' = "ended" /\ UNCHANGED <<at, ctx>>
    <2>1. ResShape' /\ ResAnswer' /\ ResFacets' /\ ResSources'
      BY <1>1, <1>3 DEF ResInv, ResShape, ResAnswer, ResFacets, ResSources
    <2>2. ResDoubts'
      BY <1>3 DEF ResInv, ResDoubts, Own, Confirmed
    <2> QED
      BY <2>1, <2>2 DEF ResInv
  <1>4. CASE /\ at <= 19 /\ step' = "ended" /\ at' = at
             /\ ctx' = [ctx EXCEPT !.abort = TRUE, !.answer = "stopped"]
    <2>1. "stopped" \in R!Answers /\ TRUE \in BOOLEAN
      BY DEF R!Answers
    <2>2. /\ ctx' \in ResRec /\ ctx'.abort = TRUE /\ ctx'.answer = "stopped"
          /\ SameFacets /\ SameSources /\ SameDoubts
      BY <1>1, <1>4, <2>1 DEF ResRec, SameFacets, SameSources, SameDoubts
    <2>3. ResShape' /\ ResAnswer'
      BY <1>1, <1>4, <2>2 DEF ResInv, ResShape, ResAnswer
    <2>4. ResFacets' /\ ResSources'
      BY <1>1, <1>4, <2>2 DEF ResInv, ResFacets, ResSources, SameFacets, SameSources
    <2>5. ResDoubts'
      BY <1>4, <2>2 DEF ResInv, ResDoubts, SameDoubts, Own, Confirmed
    <2> QED
      BY <2>3, <2>4, <2>5 DEF ResInv
  <1>5. CASE at <= 19 /\ ~ctx.abort /\ ~cancelled /\ step' = "stage" /\ UNCHANGED <<at, ctx>>
    <2>1. ResShape' /\ ResAnswer' /\ ResFacets' /\ ResSources'
      BY <1>1, <1>5 DEF ResInv, ResShape, ResAnswer, ResFacets, ResSources
    <2>2. ResDoubts'
      BY <1>5 DEF ResInv, ResDoubts, Own, Confirmed
    <2> QED
      BY <2>1, <2>2 DEF ResInv
  <1>6. CASE at <= 19 /\ ~ctx.abort /\ ~R!Due /\ at' = at + 1 /\ UNCHANGED <<step, ctx>>
    <2>1. at \in {4, 5, 13, 14, 15, 16} /\ (at = 16 => ctx.results = <<>>)
      BY <1>1, <1>6, SkippedIs
    <2>2. ResShape' /\ ResAnswer' /\ ResFacets' /\ ResSources'
      BY <1>1, <1>6, <2>1 DEF ResInv, ResShape, ResAnswer, ResFacets, ResSources
    <2>3. (\A n : Own(n)' = Own(n)) /\ (\A n : Confirmed(n)' = Confirmed(n))
      BY <1>6 DEF Own, Confirmed
    <2>4. at \in {13, 16} => DOMAIN ctx.results = {}
      BY <2>1, NoClaims DEF ResInv, ResDoubts
    <2>5. ResDoubts'
      BY <1>6, <2>1, <2>3, <2>4 DEF ResInv, ResDoubts
    <2> QED
      BY <2>2, <2>5 DEF ResInv
  <1> QED
    BY <1>2, <1>3, <1>4, <1>5, <1>6 DEF R!Boundary, R!Stopped

LEMMA ResStepKeeps == ResInv /\ R!Next => ResInv'
  BY BoundaryKeeps, ThrowsFails, RawStages, ResDefaultsKeep, FlowKeeps, TakeKeeps, AnglesKeep,
     GateEnds, SupplementKeeps, SynthesisKeeps, ParseFinalKeeps, ClaimsExtracted,
     ClaimsVerified, CrosscheckKeeps, CorrectionKeeps, AppendKeeps, ConvertKeeps,
     FinalizeKeeps, ResStopKeeps, Zenon
  DEF R!Next, R!Work, R!Findings, R!Report
-----------------------------------------------------------------------------
(* All together: a request takes one of them, which keeps what it relies on. *)

AllInv == /\ side \in {"loop", "research", "plan", "pipeline"}
          /\ IInv
          /\ side = "research" => ResInv
          /\ side = "plan" => PlanInv
          /\ side = "pipeline" => PipeInv

LEMMA AllInvInit == AllInit => AllInv
  BY InitIInv, ResInit, PlanInit, PipeInit, Zenon DEF AllInit, AllInv

LEMMA AllInvStep == AllInv /\ [AllNext]_all => AllInv'
  <1> SUFFICES ASSUME AllInv, [AllNext]_all PROVE AllInv'
    OBVIOUS
  <1>1. CASE ToolLoop
    <2>1. side = "loop" /\ side' = side /\ Next
      BY <1>1, Zenon DEF ToolLoop
    <2>2. IInv'
      BY <2>1, NextIInv, Zenon DEF AllInv
    <2> QED
      BY <2>1, <2>2 DEF AllInv
  <1>2. CASE Research
    <2>1. side = "research" /\ side' = side /\ R!Next /\ UNCHANGED vars
      BY <1>2, Zenon DEF Research
    <2>2. IInv' /\ ResInv'
      BY <2>1, NextIInv, ResStepKeeps, Zenon DEF AllInv
    <2> QED
      BY <2>1, <2>2 DEF AllInv
  <1>3. CASE Plan
    <2>1. side = "plan" /\ side' = side /\ O!Next /\ UNCHANGED vars
      BY <1>3, Zenon DEF Plan
    <2>2. IInv' /\ PlanInv'
      BY <2>1, NextIInv, PlanStepKeeps, Zenon DEF AllInv
    <2> QED
      BY <2>1, <2>2 DEF AllInv
  <1>4. CASE Pipeline
    <2>1. side = "pipeline" /\ side' = side /\ P!Next /\ UNCHANGED vars
      BY <1>4, Zenon DEF Pipeline
    <2>2. IInv' /\ PipeInv'
      BY <2>1, NextIInv, PipeStepKeeps, Zenon DEF AllInv
    <2> QED
      BY <2>1, <2>2 DEF AllInv
  <1>5. CASE UNCHANGED all
    <2>1. /\ UNCHANGED vars /\ side' = side /\ UNCHANGED <<run, transcript, files, stop>>
          /\ UNCHANGED <<step, at, ctx, cancelled, pdf>>
          /\ UNCHANGED <<piped, effects, structured>>
      BY <1>5 DEF all, researchVars, planVars, pipeVars
    <2>2. IInv'
      BY <2>1, NextIInv, Zenon DEF AllInv
    <2>3. PlanInv => PlanInv'
      BY <2>1, PlanStepKeeps, Zenon
    <2>4. PipeInv => PipeInv'
      <3> SUFFICES ASSUME PipeInv PROVE PipeInv'
        OBVIOUS
      <3> QED
        BY <2>1 DEF PipeInv, PipeShape, ActedOnce, Untouched, Acted, Asked, JobsCounted,
          MessageChecked, CodeTested, ToldSoFar, P!NothingSilentlyMissing, P!Over,
          P!NotToInvented, P!OnlyFromSources, P!VerdictIsOfLastCode
    <2>5. ResInv => ResInv'
      BY <2>1 DEF ResInv, ResShape, ResAnswer, ResFacets, ResSources, ResDoubts, Own, Confirmed
    <2> QED
      BY <2>1, <2>2, <2>3, <2>4, <2>5 DEF AllInv
  <1> QED
    BY <1>1, <1>2, <1>3, <1>4, <1>5, Zenon DEF AllNext

THEOREM AllInductive == AllSpec => []AllInv
  BY AllInvInit, AllInvStep, PTL DEF AllSpec

(* Whichever way a request takes, its state stays well typed. *)
THEOREM SpecialistsTyped == AllSpec => []AllTypeOK
  <1>1. AllInv => AllTypeOK
    BY ResTypes, PlanTypes, PipeTypes DEF AllInv, AllTypeOK, IInv
  <1> QED
    BY <1>1, AllInductive, PTL

(* A report is written from what was found and carries its doubts, a plan    *)
(* says what it left out, and no job, target, source or verdict is made up,  *)
(* for any facets, workers, claims, steps, calls and jobs.                   *)
THEOREM WorkReported == AllSpec => []ReportsAreTrue
  <1>1. AllInv => ReportsAreTrue
    <2> SUFFICES ASSUME AllInv PROVE ReportsAreTrue
      OBVIOUS
    <2>1. CASE side = "research"
      BY <2>1, ResReports DEF AllInv, ReportsAreTrue
    <2>2. CASE side = "plan"
      BY <2>2 DEF AllInv, ReportsAreTrue, PlanInv
    <2>3. CASE side = "pipeline"
      BY <2>3 DEF AllInv, ReportsAreTrue, PipeInv
    <2>4. CASE side = "loop"
      BY <2>4 DEF ReportsAreTrue
    <2> QED
      BY <2>1, <2>2, <2>3, <2>4 DEF AllInv
  <1> QED
    BY <1>1, AllInductive, PTL

(* Repairs and checkpoints cannot keep the loop going beyond its bound. *)
THEOREM LoopBounded == AllSpec => []IterationsBounded
  <1>1. AllInv => IterationsBounded
    BY LoopBound DEF AllInv
  <1> QED
    BY <1>1, AllInductive, PTL

(* No call is executed a third time in a row unless the loop blocked it once.*)
THEOREM ThirdRunBlocked == AllSpec => []NoThirdRun
  <1>1. AllInv => NoThirdRun
    BY ThirdRun DEF AllInv
  <1> QED
    BY <1>1, AllInductive, PTL
=============================================================================
