---------------------------- MODULE Orchestration ----------------------------
(* A request handed to several specialists in turn: the plan pipeline        *)
(* (pipeline/definitions/plan.ts) under the stage executor                   *)
(* (pipeline/executor.ts), and the multi orchestration of dispatch.ts.       *)
(*                                                                           *)
(* One run, from the request to its answer.  A sub-task is a dispatch of the *)
(* same session: it is a call that returns or throws, and leaves an exchange *)
(* in the transcript.  The directory of artifacts is one for all plans, so   *)
(* another plan may clear or overwrite it at any time.                       *)
EXTENDS Integers, Sequences

CONSTANTS
    MaxSteps,   \* bound: steps a model proposes at once
    MaxIter,    \* execute_steps.maxIterations
    None

VARIABLES
    run,        \* the PipelineContext, or the frame of runMultiOrchestration
    transcript, \* user turns recorded: "own" words or a "note" to a specialist
    files,      \* step-N.txt of ARTIFACT_DIR: whose plan wrote it last
    cancelled   \* !stop was said

vars == <<run, transcript, files, cancelled>>

Positions == 1..2 * MaxSteps
Steps == {"planned", "adjusted"}
Outcomes == {"success", "error", "skipped"}
Answers == {"raw", "stopped", "summary", "direct", None}
Stages == {"generate", "parse", "reflect", "loop", "step", "sub", "check",
           "summarize", "attach", "decompose", "tasks", "direct", "synthesize"}

TypeOK ==
    /\ run.pc \in Stages \cup {"ended", "failed"}
    /\ run.plan \in UNION {[1..n -> Steps] : n \in 0..2 * MaxSteps}
    /\ run.results \in UNION {[1..n -> Outcomes] : n \in 0..2 * MaxSteps}
    /\ run.index \in 0..2 * MaxSteps /\ run.iter \in 0..MaxIter
    /\ run.fails \in 0..MaxIter /\ {run.ok, run.finished} \subseteq BOOLEAN
    /\ run.first \in 0..MaxSteps /\ run.answer \in Answers
    /\ \A i \in DOMAIN transcript : transcript[i] \in {"own", "note"}
    /\ files \in [Positions -> {"mine", "other", None}]
    /\ cancelled \in BOOLEAN

(* first: length of the plan taken up, 0 before, without what is inserted. *)
Init ==
    /\ \E pc \in {"generate", "decompose"} :
          run = [pc |-> pc, plan |-> <<>>, first |-> 0, index |-> 0, iter |-> 0,
                 fails |-> 0, ok |-> TRUE, finished |-> FALSE, results |-> <<>>,
                 answer |-> None]
    /\ transcript = <<>> /\ cancelled = FALSE
    /\ files \in {[p \in Positions |-> f] : f \in {"other", None}}
-----------------------------------------------------------------------------
(* The stage executor *)

PlanStages == {"generate", "parse", "reflect", "step", "check", "summarize", "attach"}
In(stage) == run.pc = stage /\ (stage \in PlanStages => ~cancelled)
Quiet == UNCHANGED <<transcript, files, cancelled>>

(* dispatchMessage keeps the exchange of a run that has an answer. *)
Ends(answer) ==
    /\ run' = [run EXCEPT !.pc = "ended", !.answer = answer]
    /\ transcript' = Append(transcript, "own")

(* A stop is heard between two stages and replaces what is the answer so far. *)
Stopped ==
    /\ run.pc \in PlanStages /\ cancelled
    /\ Ends("stopped") /\ UNCHANGED <<files, cancelled>>

(* A model call that fails ends the run, unless its stage catches it. *)
Throws ==
    /\ \E stage \in {"generate", "reflect", "check", "summarize",
                     "decompose", "direct", "synthesize"} : In(stage)
    /\ run.pc = "check" => run.index < Len(run.plan) /\ ~run.ok /\ run.fails = 0
    /\ run' = [run EXCEPT !.pc = "failed"] /\ Quiet
-----------------------------------------------------------------------------
(* The plan pipeline *)

Plans == UNION {[1..n -> {"planned"}] : n \in 1..MaxSteps}

(* An llm stage leaves its raw output as the answer so far. *)
Generate ==
    /\ In("generate") /\ Quiet
    /\ run' = [run EXCEPT !.pc = "parse", !.answer = "raw"]

(* parsePlan; a plan of which nothing is left is the request as one step.    *)
(* Whatever lay in the directory of artifacts is removed.                    *)
Parse ==
    /\ In("parse") /\ UNCHANGED <<transcript, cancelled>>
    /\ \E plan \in Plans : run' = [run EXCEPT !.pc = "reflect", !.plan = plan]
    /\ files' = [p \in Positions |-> None]

(* The reviewer approves, or revises into steps that can be parsed. *)
Reflect ==
    /\ In("reflect") /\ Quiet
    /\ \E plan \in Plans \cup {run.plan} :
          run' = [run EXCEPT !.pc = "loop", !.plan = plan, !.first = Len(plan)]

Continue == run.index < Len(run.plan) /\ ~run.finished

Loop ==
    /\ run.pc = "loop" /\ Quiet
    /\ run' = [run EXCEPT !.pc =
          IF run.iter < MaxIter /\ (run.iter = 0 \/ Continue) THEN "step" ELSE "summarize"]

(* run_step: the specialist is told its task and where the results of the    *)
(* steps before it lie.                                                      *)
RunStep ==
    /\ In("step") /\ Quiet
    /\ run' = [run EXCEPT !.pc = "sub"]

(* The sub-task returns, or throws; a result goes to the list and to disk.   *)
SubTaskEnds ==
    /\ run.pc = "sub" /\ UNCHANGED cancelled
    /\ \E outcome \in {"success", "error"}, written \in BOOLEAN :
          /\ run' = [run EXCEPT !.pc = "check", !.index = @ + 1,
                                !.results = Append(@, outcome), !.ok = outcome = "success"]
          /\ transcript' = IF outcome = "success" THEN Append(transcript, "note")
                           ELSE transcript
          /\ files' = IF written THEN [files EXCEPT ![run.index + 1] = "mine"] ELSE files

Replans(plan, finished) ==
    run' = [run EXCEPT !.pc = "loop", !.iter = @ + 1, !.fails = @ + 1,
                       !.plan = plan, !.finished = finished]

Before(step) == SubSeq(run.plan, 1, run.index) \o <<step>>
                    \o SubSeq(run.plan, run.index + 1, Len(run.plan))

(* A second failure in a row is not planned around. *)
AskAgain == run.fails = 0

(* Mutant: nothing says that the steps are over or that one went well. *)
CheckProgressOnce ==
    /\ In("check") /\ Quiet /\ run.index < Len(run.plan)
    /\ run' = [run EXCEPT !.pc = "loop", !.iter = @ + 1]

(* check_progress: the model may declare the goal reached, or put an         *)
(* adjusted step before those that are left.                                 *)
CheckProgress ==
    /\ In("check") /\ Quiet
    /\ \/ /\ run.index >= Len(run.plan)
          /\ run' = [run EXCEPT !.pc = "loop", !.iter = @ + 1, !.finished = TRUE]
       \/ /\ run.index < Len(run.plan) /\ run.ok
          /\ run' = [run EXCEPT !.pc = "loop", !.iter = @ + 1, !.fails = 0]
       \/ /\ run.index < Len(run.plan) /\ ~run.ok /\ ~AskAgain
          /\ Replans(run.plan, FALSE)
       \/ /\ run.index < Len(run.plan) /\ ~run.ok /\ AskAgain
          /\ \/ Replans(run.plan, TRUE)
             \/ Replans(run.plan, FALSE)
             \/ Replans(Before("adjusted"), FALSE)

(* The summary; a stage of its own puts back the files named in the results. *)
Summarize ==
    /\ In("summarize") /\ Quiet
    /\ run' = [run EXCEPT !.pc = "attach", !.answer = "summary"]

AttachFiles == In("attach") /\ Ends(run.answer) /\ UNCHANGED <<files, cancelled>>
-----------------------------------------------------------------------------
(* runMultiOrchestration *)

(* A request that could not be taken apart goes to one specialist. *)
Decompose ==
    /\ In("decompose") /\ Quiet
    /\ \/ run' = [run EXCEPT !.pc = "direct"]
       \/ \E plan \in Plans :
             run' = [run EXCEPT !.pc = "tasks", !.plan = plan, !.first = Len(plan)]

Direct == In("direct") /\ Ends("direct") /\ UNCHANGED <<files, cancelled>>

(* A sub-task the channel, the sender or the configuration does not allow is *)
(* skipped; one that throws leaves its error.                                *)
Task ==
    /\ run.pc = "tasks" /\ run.index < Len(run.plan) /\ UNCHANGED <<files, cancelled>>
    /\ \E outcome \in Outcomes :
          /\ run' = [run EXCEPT !.index = @ + 1, !.results = Append(@, outcome)]
          /\ transcript' = IF outcome = "success" THEN Append(transcript, "note")
                           ELSE transcript

AllTasks == /\ run.pc = "tasks" /\ run.index = Len(run.plan)
            /\ run' = [run EXCEPT !.pc = "synthesize"] /\ Quiet

Synthesize == In("synthesize") /\ Ends("summary") /\ UNCHANGED <<files, cancelled>>
-----------------------------------------------------------------------------
(* The environment *)

Stop == /\ run.pc \in Stages /\ ~cancelled
        /\ cancelled' = TRUE /\ UNCHANGED <<run, transcript, files>>

(* Another plan of the same agent begins, or ends one of its steps. *)
OtherPlan ==
    /\ run.pc \in {"sub", "check"} /\ UNCHANGED <<run, transcript, cancelled>>
    /\ \/ files' = [p \in Positions |-> None]
       \/ files' = [files EXCEPT ![1] = "other"]

Work == \/ Stopped \/ Throws \/ Generate \/ Parse \/ Reflect \/ Loop \/ RunStep
        \/ SubTaskEnds \/ CheckProgress \/ Summarize \/ AttachFiles
        \/ Decompose \/ Direct \/ Task \/ AllTasks \/ Synthesize
Done == run.pc \in {"ended", "failed"} /\ UNCHANGED vars
Next == Work \/ Stop \/ OtherPlan \/ Done

(* Model calls and sub-tasks end: both have their time and iteration limits. *)
Spec == Init /\ [][Next]_vars /\ WF_vars(Work)
-----------------------------------------------------------------------------
(* Properties *)

(* Planning around failures adds no more steps than were planned: there is   *)
(* no endless sequence of failures and adjusted steps, whatever the models   *)
(* answer (plan.ts:525, "give up after 2 to prevent infinite replan loops"). *)
ReplansBounded == run.first > 0 => Len(run.plan) <= 2 * run.first

(* A plan ends with steps left only if it was stopped, if a model declared   *)
(* the goal reached, or at the limit of iterations.                          *)
NothingDropped ==
    (run.answer = "summary" /\ run.pc = "ended") =>
        run.index = Len(run.plan) \/ run.finished \/ run.iter = MaxIter

(* The answer is a summary of the results, a direct answer or the word that  *)
(* the run was stopped, never the raw output of a stage on the way.          *)
HonestAnswer ==
    run.pc = "ended" => /\ run.answer \in {"stopped", "summary", "direct"}
                        /\ run.answer = "stopped" => cancelled

=============================================================================
