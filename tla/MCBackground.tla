----------------------------- MODULE MCBackground -----------------------------
(* What goes on behind the conversations, side by side in one check: the run *)
(* journal with its sweep, the cron scheduler, the deploy of a               *)
(* self-modification, code sessions, the sandbox, the clients of MCP servers *)
(* and the tokens of a remote one.  They share no state, so a behaviour is   *)
(* one of them: side says which, and the others stay in their initial state. *)
EXTENDS RunJournal

CONSTANTS Sides,   \* the parts that are looked at
          Jobs, HeartbeatJobs, FileJobs, Slots, MaxRetries, MaxOrphans, MaxOps,
          MaxEnds, MaxFaults, MaxCommits, MaxGates, MaxReboots,
          Ids, MaxSessions, MaxProcs, Execs, LongRuns, MaxBuffer,
          Callers, StartUp, MaxRespawns, MaxCalls,
          Users, MaxUses, Requests, MaxRefreshes, MaxPosts

VARIABLES side,
          phase, jobs, file, used, scheduled, orphans, late, activeJobs, exec, ops,
          ends, faults, loose, told,
          main, made, active, arena, session, verdict, ledger, merging, learned,
          marker, failed, detecting, exiting, proc, sup, gates, reboots, judged,
          undone, twice, unseen,
          sessions, procs, execs, forgotten, alone,
          container, running, at, uses, broken, misled,
          server, clients, asked, calls, sends, left, stopped,
          stored, issuer, connected, req, posts, lost

cronVars == <<phase, jobs, file, used, scheduled, orphans, late, activeJobs,
              exec, ops, ends, faults, loose, told>>
modVars == <<main, made, active, arena, session, verdict, ledger, merging,
             learned, marker, failed, detecting, exiting, proc, sup, gates,
             reboots, judged, undone, twice, unseen>>
execVars == <<sessions, procs, execs, forgotten, alone>>
boxVars == <<container, running, at, uses, broken, misled>>
mcpVars == <<server, clients, asked, calls, sends, left, stopped>>
tokenVars == <<stored, issuer, connected, req, posts, lost>>

ASSUME SidesAssumption ==
    Sides \subseteq {"journal", "cron", "selfmod", "exec", "sandbox", "mcp", "tokens"}

(* The repository has its first commit. *)
ASSUME CommitAssumption == MaxCommits \in Nat \ {0}

(* The jobs in the file are jobs; what is counted is counted in numbers. *)
ASSUME CronAssumption ==
    /\ FileJobs \subseteq Jobs
    /\ {MaxRetries, MaxOrphans, MaxOps, MaxEnds, MaxFaults} \subseteq Nat

ASSUME BufferAssumption == MaxBuffer \in Nat
ASSUME BoxAssumption == MaxUses \in Nat
(* The calls are finitely many, and none is the connection at boot.          *)
ASSUME ClientAssumption ==
    IsFiniteSet(Callers) /\ StartUp \notin Callers /\ MaxRespawns \in Nat \ {0}
ASSUME TokenAssumption == MaxRefreshes \in Nat /\ MaxPosts \in Nat

all == <<side, vars, cronVars, modVars, execVars, boxVars, mcpVars, tokenVars>>

C == INSTANCE Cron WITH crashes <- ends, MaxCrashes <- MaxEnds
S == INSTANCE SelfMod
E == INSTANCE ExecSessions WITH Runs <- Execs, calls <- execs, failed <- broken
M == INSTANCE Mcp WITH made <- sends, Boot <- StartUp

AllInit ==
    /\ side \in Sides
    /\ Init /\ C!Init /\ S!Init /\ E!Init /\ E!BoxInit /\ M!Init
    /\ M!TokenInit
    (* Where a part is not looked at, one of its initial states will do. *)
    /\ side # "sandbox" => container = "none"
    /\ side # "tokens" => ~issuer.rotates

Journal ==
    side = "journal" /\ Next
    /\ UNCHANGED <<side, cronVars, modVars, execVars, boxVars, mcpVars, tokenVars>>
Cron ==
    side = "cron" /\ C!Next
    /\ UNCHANGED <<side, vars, modVars, execVars, boxVars, mcpVars, tokenVars>>
SelfMod ==
    side = "selfmod" /\ S!Next
    /\ UNCHANGED <<side, vars, cronVars, execVars, boxVars, mcpVars, tokenVars>>
Exec ==
    side = "exec" /\ E!Next
    /\ UNCHANGED <<side, vars, cronVars, modVars, boxVars, mcpVars, tokenVars>>
Box ==
    side = "sandbox" /\ E!BoxNext
    /\ UNCHANGED <<side, vars, cronVars, modVars, execVars, mcpVars, tokenVars>>
Mcp ==
    side = "mcp" /\ M!Next
    /\ UNCHANGED <<side, vars, cronVars, modVars, execVars, boxVars, tokenVars>>
Tokens ==
    side = "tokens" /\ M!TokenNext
    /\ UNCHANGED <<side, vars, cronVars, modVars, execVars, boxVars, mcpVars>>
AllNext == Journal \/ Cron \/ SelfMod \/ Exec \/ Box \/ Mcp \/ Tokens

(* The fairness of the parts, for the one that is looked at. *)
AllFair ==
    /\ WF_cronVars(side = "cron" /\ C!Boot)
    /\ \A s \in Slots : WF_cronVars(side = "cron" /\ C!Progress(s))
    /\ \A j \in Jobs : WF_cronVars(side = "cron" /\ C!LateFires(j))
    /\ WF_mcpVars(side = "mcp" /\ M!Timers)

AllSpec == AllInit /\ [][AllNext]_all /\ AllFair
-----------------------------------------------------------------------------
(* Every part keeps its types (stated in its module). *)
AllTypeOK ==
    CASE side = "journal" -> TypeOK
      [] side = "cron" -> C!TypeOK
      [] side = "selfmod" -> S!TypeOK
      [] side = "exec" -> E!TypeOK
      [] side = "sandbox" -> E!BoxTypeOK
      [] side = "mcp" -> M!TypeOK
      [] side = "tokens" -> M!TokenTypeOK

(* A fire missed while the process was down is made up for, every run of a   *)
(* job ends, and so does every call of an MCP server, whatever it does.      *)
NothingIsLeftWaiting == C!MissedIsCaughtUp /\ C!EveryRunEnds /\ M!CallsEnd

(* Whatever is merged passed the gate as it is, can be undone by the         *)
(* supervisor, and if it was undone memory does not go on praising it.       *)
MergesAreSound ==
    side = "selfmod" => S!OnlyJudgedIsMerged /\ S!DeployIsReversible /\ S!RollbackIsLearned

(* What the program has set going it has in hand: a job runs once at a time  *)
(* and has its timer, live interpreters are reachable, but for those a late  *)
(* exit forgot, a sandboxed call goes on only when the container runs or is   *)
(* being started, an answer of an MCP server reaches the call it belongs to, *)
(* and the store holds the refresh token the issuer takes.                   *)
RunsAreInHand ==
    CASE side = "cron" -> C!NoStackedRuns /\ C!TimersMatchJobs /\ C!OneShotOnce
      [] side = "exec" -> E!LiveIsReachable /\ E!AloneIsExact
      [] side = "sandbox" -> E!ReadyMeansRunning
      [] side = "mcp" -> /\ M!AnswerIsOwn /\ M!WaitersArePending
                         /\ M!ProcessesAreHeld /\ M!RespawnsAreLimited
      [] side = "tokens" -> M!RefreshTokenIsGood
      [] OTHER -> TRUE
=============================================================================
