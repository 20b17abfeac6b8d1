------------------------------- MODULE Research -------------------------------
(* The research pipeline (pipeline/definitions/research.ts) under the stage  *)
(* executor (pipeline/executor.ts): one run from the topic to the PDF, with  *)
(* the verification of its claims (pipeline/verification.ts), a !stop that   *)
(* may come at any time, and other runs that use the same file names.        *)
(*                                                                           *)
(* A stage is one step: only its context changes, and nobody else holds it.  *)
(* The facets are gathered by concurrent workers, one step for each fetch.   *)
(* What a page, a finding or a claim says is left out.                       *)
EXTENDS Integers, Sequences, FiniteSets

CONSTANTS
    Facets,         \* what a topic can be split into, six at most
    Workers,        \* facets investigated at once
    MaxClaims,      \* vcfg.maxClaims
    MaxCrossChecks, \* vcfg.maxCrossChecks
    Ids,            \* the claim numbers a model gives
    None

VARIABLES
    pc,         \* "boundary", "stage", "ended" or "failed"
    at,         \* the stage that comes next, or runs
    ctx,        \* the PipelineContext
    cancelled,  \* !stop was said
    pdf         \* whose file has the slug's name: "mine", "other" or None

vars == <<pc, at, ctx, cancelled, pdf>>

(* researchPipeline.stages.  The discovery sweep, which adds to a prompt, the *)
(* charts and the rendering are left out: they change nothing told apart.    *)
Stages == <<
    "extract_params", "defaults", "flow_gather", "decompose", "parse_angles",
    "research_angles", "evidence_gate", "gap_check", "supplementary",
    "final_synthesis", "parse_final", "extract_claims", "verify_claims",
    "tier1_crosscheck", "correction_pass", "verification_append",
    "convert_pdf", "summary", "finalize">>
Stage == Stages[at]

Positions == 1..MaxClaims
Files == {"mine", "other", None}
Answers == {"raw", "downgrade", "stopped", "dry", "thin", "report", None}
Actions == {"keep", "hedge", "correct"}
Crosses == {"confirmed", "contradicted", "silent", None}

(* claim: whose text the result carries; asked: whose the cross-check read.  *)
Result == [claim : Positions, action : Actions, cross : Crosses, asked : Positions]

TypeOK ==
    /\ pc \in {"boundary", "stage", "ended", "failed"} /\ at \in 1..Len(Stages) + 1
    /\ ctx.abort \in BOOLEAN /\ ctx.answer \in Answers
    /\ \A f \in {"todo", "busy", "found", "read", "listed"} : ctx[f] \subseteq Facets
    /\ ctx.claims \in UNION {[1..n -> Ids] : n \in 0..MaxClaims}
    /\ ctx.results \in UNION {[1..n -> Result] : n \in 0..MaxClaims}
    /\ \A f \in {"doubted", "rewritten", "appendix"} : ctx[f] \subseteq Positions
    /\ {ctx.attached, pdf} \subseteq Files
    /\ cancelled \in BOOLEAN

Init ==
    /\ pc = "boundary" /\ at = 1 /\ cancelled = FALSE
    /\ pdf \in {"other", None}
    /\ ctx = [abort |-> FALSE, answer |-> None, todo |-> {}, busy |-> {},
              found |-> {}, read |-> {}, listed |-> {}, claims |-> <<>>,
              results |-> <<>>, doubted |-> {}, rewritten |-> {}, appendix |-> {},
              attached |-> None]
-----------------------------------------------------------------------------
(* pipeline/executor.ts *)

Stopped(answer) == [ctx EXCEPT !.abort = TRUE, !.answer = answer]

(* stage.when *)
Due ==
    CASE Stage \in {"decompose", "parse_angles"} -> ctx.todo = {}
      [] Stage = "verify_claims" -> ctx.claims # <<>>
      [] Stage \in {"tier1_crosscheck", "verification_append"} -> ctx.results # <<>>
      [] Stage = "correction_pass" ->
            \E i \in DOMAIN ctx.results : ctx.results[i].action # "keep"
      [] OTHER -> TRUE

(* Between two stages: the end, an abort, a stop, a skipped stage.           *)
Boundary ==
    /\ pc = "boundary"
    /\ \/ /\ at > Len(Stages) \/ ctx.abort
          /\ pc' = "ended" /\ UNCHANGED <<at, ctx>>
       \/ /\ at <= Len(Stages) /\ ~ctx.abort /\ cancelled
          /\ pc' = "ended" /\ ctx' = Stopped("stopped") /\ UNCHANGED at
       \/ /\ at <= Len(Stages) /\ ~ctx.abort /\ ~cancelled
          /\ IF Due THEN pc' = "stage" /\ UNCHANGED at
             ELSE at' = at + 1 /\ UNCHANGED pc
          /\ UNCHANGED ctx
    /\ UNCHANGED <<cancelled, pdf>>

In(stage) == pc = "stage" /\ Stage = stage
Done == pc' = "boundary" /\ at' = at + 1 /\ UNCHANGED cancelled
Private == UNCHANGED pdf

(* A stage that throws ends the run: extraction and plain model calls.       *)
Throws ==
    /\ pc = "stage"
    /\ Stage \in {"extract_params", "decompose", "gap_check", "final_synthesis",
                  "convert_pdf", "summary"}
    /\ pc' = "failed" /\ UNCHANGED <<at, ctx, cancelled, pdf>>
-----------------------------------------------------------------------------
(* From the topic to the findings *)

ExtractParams == In("extract_params") /\ Done /\ Private /\ UNCHANGED ctx

(* In a conversation that asked for no report dispatch shall go elsewhere.   *)
Defaults ==
    /\ In("defaults") /\ Done /\ Private
    /\ ctx' \in {Stopped("downgrade"), ctx}

(* The facets of a flow the user named; none if there is none, or it fails.  *)
FlowGather ==
    /\ In("flow_gather") /\ Done /\ Private
    /\ \E fs \in SUBSET Facets : ctx' = [ctx EXCEPT !.todo = fs]

(* An llm stage leaves its raw output as the answer so far. *)
Decompose ==
    /\ In("decompose") /\ Done /\ Private
    /\ ctx' = [ctx EXCEPT !.answer = "raw"]

ParseAngles ==
    /\ In("parse_angles") /\ Done /\ Private
    /\ \E fs \in SUBSET Facets \ {{}} : ctx' = [ctx EXCEPT !.todo = fs]

(* mapLimit: a worker takes the next facet unless the run is stopped. *)
Take(f) ==
    /\ In("research_angles") /\ ~cancelled
    /\ f \in ctx.todo /\ Cardinality(ctx.busy) < Workers
    /\ ctx' = [ctx EXCEPT !.todo = @ \ {f}, !.busy = @ \cup {f}]
    /\ UNCHANGED <<pc, at, cancelled>> /\ Private

(* researchAngle: findings, or none when nothing was found or it failed. *)
Investigated(f) ==
    /\ In("research_angles") /\ f \in ctx.busy
    /\ \E found \in {{}, {f}} :
          ctx' = [ctx EXCEPT !.busy = @ \ {f}, !.found = @ \cup found]
    /\ UNCHANGED <<pc, at, cancelled>> /\ Private

ResearchAngles ==
    /\ In("research_angles") /\ ctx.busy = {} /\ (ctx.todo = {} \/ cancelled)
    /\ Done /\ Private /\ UNCHANGED ctx

EvidenceGate ==
    /\ In("evidence_gate") /\ Done /\ Private
    /\ ctx' = IF ctx.found = {} THEN Stopped("dry") ELSE ctx

GapCheck == In("gap_check") /\ Done /\ Private /\ ctx' = [ctx EXCEPT !.answer = "raw"]

(* At most two more queries, each investigated like a facet. *)
Supplementary ==
    /\ In("supplementary") /\ Done /\ Private
    /\ \E extra \in SUBSET Facets :
          /\ Cardinality(extra) <= 2
          /\ ctx' = [ctx EXCEPT !.found = @ \cup extra]
-----------------------------------------------------------------------------
(* The report and its claims *)

FinalSynthesis ==
    /\ In("final_synthesis") /\ Done /\ Private
    /\ ctx' = [ctx EXCEPT !.answer = "raw", !.read = ctx.found]

(* The list of sources is written by code; a blank draft ends the run. *)
ParseFinal ==
    /\ In("parse_final") /\ Done /\ Private
    /\ ctx' \in {Stopped("thin"), [ctx EXCEPT !.listed = ctx.found]}

(* parseClaims: none when the call fails; a number may be given twice. *)
ExtractClaims ==
    /\ In("extract_claims") /\ Done /\ Private
    /\ \E n \in 0..MaxClaims : \E ids \in [1..n -> Ids] :
          ctx' = [ctx EXCEPT !.claims = ids]

(* parseVerdict: the judge's action, or the one of its verdict; a removal is *)
(* turned into a hedge, and so is a judge that failed.                       *)
VerifyClaims ==
    /\ In("verify_claims") /\ Done /\ Private
    /\ \E action \in [DOMAIN ctx.claims -> Actions] :
          ctx' = [ctx EXCEPT
              !.doubted = {i \in DOMAIN ctx.claims : action[i] # "keep"},
              !.results = [i \in DOMAIN ctx.claims |->
                  [claim |-> i, action |-> action[i], cross |-> None, asked |-> i]]]

(* The claim looked up by a number is the last one that has it. *)
Latest(claims) == CHOOSE i \in claims : \A j \in claims : j <= i
ById(id) == Latest({i \in DOMAIN ctx.claims : ctx.claims[i] = id})

(* applyTier1; a contradiction with evidence off the subject is set aside,   *)
(* which leaves the result as silence does.                                  *)
Applied(v, status) ==
    CASE status = "contradicted" -> [v EXCEPT !.cross = status, !.action = "correct"]
      [] status = "confirmed" /\ v.action = "hedge" ->
            [v EXCEPT !.cross = status, !.action = "keep"]
      [] OTHER -> [v EXCEPT !.cross = status]

(* Results are matched by number. *)
Checked(i, status) ==
    LET same == {e \in DOMAIN status : ctx.claims[e] = ctx.claims[i]}
    IN IF same = {} THEN ctx.results[i]
       ELSE Applied([ctx.results[Latest(same)] EXCEPT !.asked = ById(ctx.claims[i])],
                    status[Latest(same)])

(* Some claims are searched for once more. *)
Tier1Crosscheck ==
    /\ In("tier1_crosscheck") /\ Done /\ Private
    /\ \E escalated \in SUBSET DOMAIN ctx.claims :
       \E status \in [escalated -> Crosses] :
          /\ Cardinality(escalated) <= MaxCrossChecks
          /\ ctx' = [ctx EXCEPT !.results = [i \in DOMAIN @ |-> Checked(i, status)]]

(* One correction for each number of a claim that is not kept. *)
PatchSet == {ById(ctx.claims[ctx.results[i].claim]) :
                i \in {i \in DOMAIN ctx.results : ctx.results[i].action # "keep"}}

(* A correction is skipped when its sentence is not found, the rewrite is    *)
(* refused by guardRewrite or the model fails.                               *)
CorrectionPass ==
    /\ In("correction_pass") /\ Done /\ Private
    /\ \E applied \in SUBSET PatchSet : ctx' = [ctx EXCEPT !.rewritten = applied]

(* verificationSection *)
VerificationAppend ==
    /\ In("verification_append") /\ Done /\ Private
    /\ ctx' = [ctx EXCEPT !.appendix =
          {ctx.results[i].claim : i \in {i \in DOMAIN ctx.results :
                                            ctx.results[i].action # "keep"}}]

(* The document tool writes the file, or answers that it may not. *)
ConvertPdf ==
    /\ In("convert_pdf") /\ Done /\ UNCHANGED ctx
    /\ pdf' \in {pdf, "mine"}

Summary == In("summary") /\ Done /\ Private /\ ctx' = [ctx EXCEPT !.answer = "raw"]

Finalize ==
    /\ In("finalize") /\ Done /\ Private
    /\ ctx' = [ctx EXCEPT !.answer = "report", !.attached = pdf]
-----------------------------------------------------------------------------
Stop == /\ pc \in {"boundary", "stage"} /\ ~cancelled /\ cancelled' = TRUE
        /\ UNCHANGED <<pc, at, ctx, pdf>>

(* Another run with the slug writes its file; before this run's conversion   *)
(* that is what Init leaves there.                                           *)
OtherRun ==
    /\ pc \in {"boundary", "stage"} /\ at <= Len(Stages)
    /\ Stage \in {"summary", "finalize"}
    /\ pdf' = "other" /\ UNCHANGED <<pc, at, ctx, cancelled>>

Findings == ExtractParams \/ Defaults \/ FlowGather \/ Decompose \/ ParseAngles
         \/ (\E f \in Facets : Take(f) \/ Investigated(f)) \/ ResearchAngles
         \/ EvidenceGate \/ GapCheck \/ Supplementary
Report == FinalSynthesis \/ ParseFinal \/ ExtractClaims \/ VerifyClaims
       \/ Tier1Crosscheck \/ CorrectionPass \/ VerificationAppend
       \/ ConvertPdf \/ Summary \/ Finalize

Work == Boundary \/ Throws \/ Findings \/ Report
Next == Work \/ Stop \/ OtherRun

(* Every call of a stage is bounded in time, so the run goes on. *)
Spec == Init /\ [][Next]_vars /\ WF_vars(Work)
-----------------------------------------------------------------------------
(* Properties *)

(* A run ends with a report or says why there is none, never with the raw    *)
(* output of a planning stage, which every llm stage leaves as the answer    *)
(* (executor.ts:116); and no facet of a report was left out by a stop        *)
(* (executor.ts:220, "an honest stop, never a half-report").                 *)
HonestEnd ==
    pc = "ended" => /\ ctx.answer \notin {"raw", None}
                    /\ ctx.answer = "report" => ctx.todo = {} /\ ctx.busy = {}

(* What is written from is what was found, it is not nothing, and the list   *)
(* of sources is the one the writer had, so that [n] means the same page     *)
(* (research.ts:498, :618).                                                  *)
GroundedReport ==
    ctx.listed # {} \/ ctx.answer = "report" => ctx.read # {} /\ ctx.listed = ctx.read

(* A doubt about a claim the pages did not bear out is in the published      *)
(* list, unless an independent source confirmed this very claim; for claims  *)
(* whose number is their own (verification.ts:429).                          *)
DoubtsPublished ==
    ctx.answer = "report" =>
        \A i \in ctx.doubted :
            \/ i \in ctx.appendix
            \/ \E j \in DOMAIN ctx.claims \ {i} : ctx.claims[j] = ctx.claims[i]
            \/ /\ ctx.results[i].cross = "confirmed" /\ ctx.results[i].asked = i

=============================================================================
