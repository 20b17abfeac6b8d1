------------------------------ MODULE Pipelines ------------------------------
(* The deterministic pipelines of src/pipeline/definitions that act for the  *)
(* user: cron, memory, task, message, exec, website, web search, heartbeat   *)
(* and code generation, under the stage executor (pipeline/executor.ts) and  *)
(* the extraction of parameters (pipeline/extractor.ts).                     *)
(*                                                                           *)
(* One run.  A pipeline is data: the sequence of its stages, each atomic,    *)
(* with a stop heard between two of them.  What a tool does is a choice: it  *)
(* acts, returns an error as its result, is held back by the confirmation    *)
(* gate, or throws.  The plan and the research pipeline have modules of      *)
(* their own.                                                                *)
EXTENDS Integers, Sequences, FiniteSets

CONSTANTS
    MaxJobs,    \* bound: jobs a user asks for in one message
    None

VARIABLES
    ctx,        \* the PipelineContext
    effects,    \* what the tools of this run have changed, one per call
    cancelled,  \* !stop was said
    structured  \* structuredOutputsSupported: one flag for the process

vars == <<ctx, effects, cancelled, structured>>

(* The stages of each pipeline, or of each branch of one that has branches.  *)
CronRun      == <<"extract", "gather_unless_known", "act_if_known", "confirm">>
CronQuestion == <<"gather", "answer">>
CronAdd      == <<"extract", "defaults", "each", "confirm_each">>
CronList     == <<"gather", "answer">>
CronRemove   == <<"extract", "gather_unless_known", "act_if_known", "confirm">>
CronEdit     == <<"extract", "gather_unless_known", "act_if_known", "confirm">>
MemoryQuestion == <<"answer">>
MemorySave   == <<"extract", "act", "confirm">>
MemoryRecall == <<"extract", "gather", "answer">>
MemoryForget == <<"extract", "act", "confirm">>
TaskQuestion == <<"answer">>
TaskAdd      == <<"extract", "act", "confirm">>
TaskList     == <<"extract", "gather", "answer">>
TaskDone     == <<"gather", "extract", "act", "confirm">>
TaskUpdate   == <<"gather", "extract", "act", "confirm">>
TaskRemove   == <<"gather", "extract", "act", "confirm">>
Message      == <<"extract", "defaults", "validate", "act", "confirm_send">>
Exec         == <<"extract", "act", "answer">>
Website      == <<"extract", "act", "answer">>
Heartbeat    == <<"gather", "analyze", "gather", "format">>
WebSearch    == <<"extract_or_message", "gather", "pick", "gate", "fetch",
                  "synthesize", "review", "revise">>
CodeGen      == <<"projects", "enrich", "build", "verify", "fix", "re-verify",
                  "commit", "answer">>

Stages == [cron_run |-> CronRun, cron_question |-> CronQuestion, cron_add |-> CronAdd,
           cron_list |-> CronList, cron_remove |-> CronRemove, cron_edit |-> CronEdit,
           memory_question |-> MemoryQuestion, memory_save |-> MemorySave,
           memory_recall |-> MemoryRecall, memory_forget |-> MemoryForget,
           task_question |-> TaskQuestion, task_add |-> TaskAdd, task_list |-> TaskList,
           task_done |-> TaskDone, task_update |-> TaskUpdate, task_remove |-> TaskRemove,
           message |-> Message, exec |-> Exec, website |-> Website,
           heartbeat |-> Heartbeat, web_search |-> WebSearch, code_gen |-> CodeGen]

Branches == [cron |-> {"cron_run", "cron_question", "cron_add", "cron_list",
                       "cron_remove", "cron_edit"},
             memory |-> {"memory_question", "memory_save", "memory_recall", "memory_forget"},
             task |-> {"task_question", "task_add", "task_list", "task_done",
                       "task_update", "task_remove"}]

Pipelines == DOMAIN Branches \cup {"message", "exec", "website", "heartbeat",
                                   "web_search", "code_gen"}

(* Where a message goes: an address of the channel, one of no shape it has,  *)
(* or that of the conversation.                                              *)
Targets == {"address", "misshapen", "own", None}
Told == {"lines", "lines_and_warning", "nothing_to_do", "which_one", "no_target",
         "sent", "not_yet", "failed", "raw", "written", "no_evidence", "stopped", None}
Results == {"done", "error", "preview", None}

(* runTests; a project it does not recognise is not tested, nor fixed. *)
Verdicts == {"pass", "fail", "skipped"}

TypeOK ==
    /\ ctx.flow \in DOMAIN Stages \cup DOMAIN Branches /\ ctx.at \in 1..8
    /\ ctx.pc \in {"running", "ended", "failed"} /\ ctx.told \in Told
    /\ {ctx.jobs, ctx.lines} \subseteq 0..MaxJobs /\ ctx.result \in Results
    /\ {ctx.known, ctx.elsewhere, ctx.sources, ctx.fixed} \subseteq BOOLEAN
    /\ ctx.target \in Targets /\ ctx.verdict \in Verdicts \cup {None}
    /\ ctx.code \in 0..2 /\ ctx.tested \in 0..2
    /\ effects \subseteq 1..MaxJobs /\ {cancelled, structured} \subseteq BOOLEAN

(* known: what is acted on is named; jobs: asked for; lines: results of their *)
(* tool; code, tested: how often the agent wrote the project, and which       *)
(* writing the verdict is about.                                              *)
Init ==
    /\ \E p \in Pipelines :
          ctx = [flow |-> p, at |-> 1, pc |-> "running", told |-> None, known |-> FALSE,
                 jobs |-> 0, lines |-> 0, result |-> None, target |-> None,
                 elsewhere |-> FALSE, sources |-> FALSE,
                 fixed |-> FALSE, code |-> 0, tested |-> 0, verdict |-> None]
    /\ effects = {} /\ cancelled = FALSE /\ structured = TRUE
-----------------------------------------------------------------------------
(* The stage executor *)

Routing == ctx.pc = "running" /\ ctx.flow \in DOMAIN Branches
Current == IF Routing THEN "route" ELSE Stages[ctx.flow][ctx.at]
In(stage) == ctx.pc = "running" /\ ~cancelled /\ Current = stage
Quiet == UNCHANGED <<effects, cancelled, structured>>

(* The stage after this one; the last one ends the run. *)
After(c) == IF c.at = Len(Stages[c.flow]) THEN [c EXCEPT !.pc = "ended"]
            ELSE [c EXCEPT !.at = @ + 1]
Goes(c) == ctx' = After(c) /\ Quiet
Tells(answer) == Goes([ctx EXCEPT !.told = answer])
Aborts(answer) == ctx' = [ctx EXCEPT !.pc = "ended", !.told = answer] /\ Quiet

(* A stop is heard before a stage, and replaces what is the answer so far. *)
Stopped ==
    /\ ctx.pc = "running" /\ cancelled
    /\ Aborts("stopped")

ToFix == ctx.verdict = "fail" /\ ctx.known

(* A model, an extraction or a tool that fails ends the run with an error. *)
Fallible == {"route", "extract", "gather", "gather_unless_known", "act", "act_if_known",
             "answer", "synthesize", "enrich", "build", "fix"}
Throws ==
    /\ \E stage \in Fallible : In(stage)
    /\ Current = "fix" => ToFix
    /\ ctx' = [ctx EXCEPT !.pc = "failed"] /\ Quiet

Route == /\ In("route") /\ Quiet
         /\ \E flow \in Branches[ctx.flow] : ctx' = [ctx EXCEPT !.flow = flow]
-----------------------------------------------------------------------------
(* Extraction: an attempt and a repair, each with the format of the answer    *)
(* imposed until one such call has failed.  Any failure clears the flag, the  *)
(* plain call may still answer.                                               *)
Extract ==
    /\ In("extract") /\ UNCHANGED <<effects, cancelled>>
    /\ \/ /\ ctx.flow = "cron_add"
          /\ \E n \in 0..MaxJobs : ctx' = After([ctx EXCEPT !.jobs = n])
       \/ /\ ctx.flow = "message"
          /\ \E t \in Targets \ {"own"}, e \in BOOLEAN :
                ctx' = After([ctx EXCEPT !.jobs = 1, !.target = t, !.elsewhere = e])
       \/ /\ ctx.flow \notin {"cron_add", "message"}
          /\ \E k \in BOOLEAN : ctx' = After([ctx EXCEPT !.jobs = 1, !.known = k])
    /\ structured' \in {structured, FALSE}

(* A search does without: the message is the query. *)
ExtractOrMessage ==
    /\ In("extract_or_message") /\ ctx' = After(ctx)
    /\ UNCHANGED <<effects, cancelled>> /\ structured' \in {structured, FALSE}

(* What was not said is taken from where the message came from, if known. *)
Defaults ==
    /\ In("defaults")
    /\ \E source \in {"own", None} :
          Goes([ctx EXCEPT !.target = IF ctx.flow = "message" /\ @ = None THEN source ELSE @])

(* An address is refused that its channel cannot have and nobody wrote from. *)
Validate ==
    /\ In("validate")
    /\ IF ctx.target = "misshapen" THEN Aborts("no_target") ELSE Goes(ctx)
-----------------------------------------------------------------------------
(* Tools *)

Gather == \/ In("gather") /\ Goes(ctx)
          \/ In("gather_unless_known") /\ Goes(ctx)

(* A tool that is not told on what to act returns an error. *)
NeedsName == {"task_done", "task_update", "task_remove"}
Possible == IF (ctx.flow \in NeedsName /\ ~ctx.known)
               \/ (ctx.flow = "message" /\ ctx.target = None)
            THEN {"error"} ELSE {"done", "error", "preview"}

Act ==
    /\ In("act") \/ (In("act_if_known") /\ ctx.known)
    /\ \E result \in Possible :
          /\ ctx' = After([ctx EXCEPT !.result = result, !.lines = 1])
          /\ effects' = IF result = "done" THEN {1} ELSE {}
    /\ UNCHANGED <<cancelled, structured>>

ActSkipped == In("act_if_known") /\ ~ctx.known /\ Goes(ctx)

(* All at once; a call that throws leaves no line. *)
Lines(results) == Cardinality({n \in DOMAIN results : results[n] # "throws"})
Each ==
    /\ In("each") /\ UNCHANGED <<cancelled, structured>>
    /\ \E results \in [1..ctx.jobs -> {"done", "error", "preview", "throws"}] :
          /\ ctx' = After([ctx EXCEPT !.lines = Lines(results)])
          /\ effects' = {i \in 1..ctx.jobs : results[i] = "done"}
-----------------------------------------------------------------------------
(* What the user is told *)

Confirm == /\ In("confirm")
           /\ Tells(IF ctx.result = None THEN "which_one" ELSE "lines")

(* A silent partial is disclosed. *)
ConfirmEach ==
    /\ In("confirm_each")
    /\ Tells(IF ctx.lines = 0 THEN "nothing_to_do"
             ELSE IF ctx.lines < ctx.jobs THEN "lines_and_warning" ELSE "lines")

ConfirmSend ==
    /\ In("confirm_send")
    /\ Tells(CASE ctx.result = "done" -> "sent" [] ctx.result = "preview" -> "not_yet"
               [] ctx.result = "error" -> "failed")

Answer == \E stage \in {"answer", "synthesize", "format"} : In(stage) /\ Tells("written")
Enrich == In("enrich") /\ Tells("raw")

(* Stages that prepare or polish: they may fail, and the run goes on. *)
Prepare == \E stage \in {"projects", "analyze", "fetch", "review", "revise", "commit"} :
              In(stage) /\ Goes(ctx)
-----------------------------------------------------------------------------
(* Web search *)

Pick == /\ In("pick")
        /\ \E sources \in BOOLEAN : Goes([ctx EXCEPT !.sources = sources])

(* No source, no answer. *)
Gate == /\ In("gate")
        /\ IF ctx.sources THEN Goes(ctx) ELSE Aborts("no_evidence")
-----------------------------------------------------------------------------
(* Code generation *)

(* The agent writes in a directory, well or not, or it was never started. *)
Build ==
    /\ In("build") /\ UNCHANGED <<cancelled, structured>>
    /\ \/ ctx' = After([ctx EXCEPT !.known = TRUE, !.code = 1]) /\ effects' = {1}
       \/ ctx' = After(ctx) /\ effects' = {}

Verify ==
    /\ In("verify")
    /\ \E verdict \in Verdicts :
          Goes(IF ctx.known THEN [ctx EXCEPT !.verdict = verdict, !.tested = ctx.code]
               ELSE [ctx EXCEPT !.verdict = "fail"])

(* Mutant: only a fix that answers without an error is tested again. *)
FixTrusted ==
    /\ In("fix")
    /\ IF ToFix
       THEN \E changed \in 0..1, ok \in BOOLEAN :
               Goes([ctx EXCEPT !.fixed = ok, !.code = @ + changed])
       ELSE Goes(ctx)

(* The agent is given the errors; it may change the code and then fail. *)
Fix ==
    /\ In("fix")
    /\ IF ToFix
       THEN \E changed \in 0..1 : Goes([ctx EXCEPT !.fixed = TRUE, !.code = @ + changed])
       ELSE Goes(ctx)

ReVerify ==
    /\ In("re-verify")
    /\ IF ctx.fixed
       THEN \E verdict \in Verdicts :
               Goes([ctx EXCEPT !.verdict = verdict, !.tested = ctx.code])
       ELSE Goes(ctx)
-----------------------------------------------------------------------------
Stop == /\ ctx.pc = "running" /\ ~cancelled
        /\ cancelled' = TRUE /\ UNCHANGED <<ctx, effects, structured>>

Work == \/ Stopped \/ Throws \/ Route \/ Extract \/ ExtractOrMessage \/ Defaults
        \/ Validate \/ Gather \/ Act \/ ActSkipped \/ Each
        \/ Confirm \/ ConfirmEach \/ ConfirmSend \/ Answer \/ Enrich \/ Prepare
        \/ Pick \/ Gate \/ Build \/ Verify \/ Fix \/ ReVerify
Done == ctx.pc # "running" /\ UNCHANGED vars
Next == Work \/ Stop \/ Done

Spec == Init /\ [][Next]_vars /\ WF_vars(Work)
-----------------------------------------------------------------------------
(* Properties *)

Over == ctx.pc = "ended"

(* The user is told of everything asked for: each thing has its line, or the *)
(* answer warns that lines are missing; what is called sent was sent, and    *)
(* no run ends without an answer or with a stage's raw output (cron.ts:186,  *)
(* "A silent partial ... caused the July 20 incident").                      *)
NothingSilentlyMissing ==
    Over => /\ ctx.told = "lines" => ctx.lines = ctx.jobs
            /\ ctx.told = "sent" => effects # {}
            /\ ctx.told \in {"nothing_to_do", "which_one", "no_target", "not_yet",
                             "failed"} => effects = {}
            /\ ctx.told \notin {"raw", None}

(* Nothing is sent to an address no such channel has, unless the message     *)
(* came from it (message.ts:62-67, the guard against invented targets).      *)
NotToInvented == (ctx.flow = "message" /\ effects # {}) => ctx.target \in {"address", "own"}

(* An answer from the web has sources (web-search.ts:83-88). *)
OnlyFromSources == (ctx.flow = "web_search" /\ ctx.told = "written") => ctx.sources

(* The verdict that is committed and reported is about the code as it is.    *)
VerdictIsOfLastCode ==
    (ctx.flow = "code_gen" /\ ctx.known /\ ctx.at >= 7) => ctx.tested = ctx.code

=============================================================================
