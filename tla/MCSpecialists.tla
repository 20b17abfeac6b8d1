---------------------------- MODULE MCSpecialists ----------------------------
(* The ways a request is worked on, side by side in one check: the tool loop *)
(* that lets a model choose its calls, the research pipeline whose stages    *)
(* are fixed, the smaller pipelines that act for the user, and the plan or   *)
(* multi run that hands a request to several specialists.  A request takes   *)
(* one of them: side says which, and the others stay in their initial state. *)
EXTENDS ToolLoop

CONSTANTS searchA, searchB, badWrite, search, write,
          Facets, Workers, MaxClaims, MaxCrossChecks, Ids, None, MaxSteps, MaxIter,
          MaxJobs

VARIABLES side, step, at, ctx, cancelled, pdf, run, transcript, files, stop,
          piped, effects, structured

researchVars == <<step, at, ctx, cancelled, pdf>>
planVars == <<run, transcript, files>>
pipeVars == <<piped, effects, structured>>
all == <<side, vars, researchVars, planVars, pipeVars, stop>>

(* One tool with two parameter values and a second tool whose parameters are *)
(* invalid.                                                                  *)
MCToolOf == [c \in Calls |-> IF c = badWrite THEN write ELSE search]

(* What is not there looks like no result, answer or outcome. *)
ASSUME NoneAssumption ==
    None \notin {"done", "error", "preview", "lines", "lines_and_warning", "nothing_to_do",
                 "which_one", "no_target", "sent", "not_yet", "failed", "written",
                 "no_evidence", "stopped", "downgrade", "dry", "thin", "report", "confirmed"}

(* Bounds are numbers, and a message may ask for a job. *)
ASSUME BoundAssumption ==
    /\ MaxSteps \in Nat /\ MaxIter \in Nat /\ MaxJobs \in Nat \ {0} /\ MaxClaims \in Nat

R == INSTANCE Research WITH pc <- step
O == INSTANCE Orchestration WITH cancelled <- stop
P == INSTANCE Pipelines WITH cancelled <- stop, ctx <- piped

AllInit == /\ side \in {"loop", "research", "plan", "pipeline"}
           /\ Init /\ R!Init /\ O!Init /\ P!Init
           /\ side # "research" => pdf = None
           /\ side # "plan" => run.pc = "generate" /\ files[1] = None
           /\ side # "pipeline" => piped.flow = "exec"

ToolLoop == side = "loop" /\ Next /\ UNCHANGED <<side, researchVars, planVars, pipeVars, stop>>
Research == side = "research" /\ R!Next /\ UNCHANGED <<side, vars, planVars, pipeVars, stop>>
Plan == side = "plan" /\ O!Next /\ UNCHANGED <<side, vars, researchVars, pipeVars>>
Pipeline == side = "pipeline" /\ P!Next /\ UNCHANGED <<side, vars, researchVars, planVars>>
AllNext == ToolLoop \/ Research \/ Plan \/ Pipeline

(* The fairness of the parts: side never changes. *)
AllFair == \/ side = "loop" /\ Loop /\ UNCHANGED <<side, researchVars, planVars, pipeVars, stop>>
           \/ side = "research" /\ R!Work /\ UNCHANGED <<side, vars, planVars, pipeVars, stop>>
           \/ side = "plan" /\ O!Work /\ UNCHANGED <<side, vars, researchVars, pipeVars>>
           \/ side = "pipeline" /\ P!Work /\ UNCHANGED <<side, vars, researchVars, planVars>>

AllSpec == AllInit /\ [][AllNext]_all /\ WF_all(AllFair)
-----------------------------------------------------------------------------
(* Every part keeps its types (stated in its module). *)
AllTypeOK == CASE side = "loop" -> TypeOK [] side = "research" -> R!TypeOK
               [] side = "plan" -> O!TypeOK
               [] side = "pipeline" -> P!TypeOK

(* What a run reports of its work is what was done: a report is written from *)
(* what was found, with the doubts about it; a plan is summarised with steps *)
(* left only for a reason that is known; what is said of a build is the      *)
(* verdict on its code, and no job, target or source is made up or passed    *)
(* over in silence.                                                          *)
ReportsAreTrue ==
    CASE side = "research" -> R!GroundedReport /\ R!DoubtsPublished /\ R!HonestEnd
      [] side = "plan" -> O!NothingDropped /\ O!ReplansBounded /\ O!HonestAnswer
      [] side = "pipeline" -> /\ P!VerdictIsOfLastCode /\ P!NothingSilentlyMissing
                              /\ P!NotToInvented /\ P!OnlyFromSources
      [] OTHER -> TRUE

(* Whatever the models and tools answer, the tool loop returns and a run of  *)
(* a pipeline or of several specialists comes to an end.                     *)
WorkEnds == <>(CASE side = "loop" -> pc = "done"
                 [] side = "research" -> step \in {"ended", "failed"}
                 [] side = "plan" -> run.pc \in {"ended", "failed"}
                 [] side = "pipeline" -> piped.pc # "running")
=============================================================================
