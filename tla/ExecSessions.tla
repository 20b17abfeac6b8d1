----------------------------- MODULE ExecSessions -----------------------------
(* exec/session-manager.ts with tools/code-session.ts: named interpreters    *)
(* that live across tool calls.  A run writes its code and then a command    *)
(* that prints the sentinel, and polls the session's output for it.  After   *)
(* it the container that sandboxed calls run in, exec/docker-backend.ts.     *)
(*                                                                           *)
(* Output is a sequence of items: what a run's code printed, and the         *)
(* sentinel that follows it.  An interpreter takes its input in order.       *)
(* Scoping of ids by agent and sender, runtimes and wording are left out.    *)
EXTENDS Integers, FiniteSets, Sequences, SequencesExt

CONSTANTS
    Ids,          \* session ids
    MaxSessions,  \* maxSessions
    MaxProcs,     \* bound: interpreters spawned
    Runs,         \* run calls, in the order they are made (a bound)
    LongRuns,     \* those whose code prints two items, the others print one
    MaxBuffer     \* maxOutputBytes, in items

VARIABLES
    sessions,   \* id -> interpreter
    procs,      \* every interpreter spawned
    calls,      \* the run calls
    forgotten,  \* history: interpreters whose entry another one's exit deleted
    alone       \* history: runs that had their interpreter to themselves

vars == <<sessions, procs, calls, forgotten, alone>>

Printed(r) == [run |-> r, sentinel |-> FALSE]
Code(r) == IF r \in LongRuns THEN <<Printed(r), Printed(r)>> ELSE <<Printed(r)>>
Sentinel(r) == [run |-> r, sentinel |-> TRUE]
Item == [run : Runs, sentinel : BOOLEAN]
Waiting == {r \in Runs : calls[r].at = "waiting"}

TypeOK ==
    LET Ps == 1..Len(procs)
    IN /\ Len(procs) <= MaxProcs
       /\ DOMAIN sessions \subseteq Ids /\ sessions \in [DOMAIN sessions -> Ps]
       /\ Cardinality(DOMAIN sessions) <= MaxSessions
       /\ \A p \in Ps :
             /\ procs[p].id \in Ids
             /\ procs[p].state \in {"live", "killed", "exited"}
             /\ procs[p].input \in Seq(Item) /\ procs[p].buffer \in Seq(Item)
             /\ Len(procs[p].buffer) <= MaxBuffer
             /\ procs[p].discarded \in Nat
       /\ calls \in [Runs -> [at : {"idle", "waiting", "done", "timed out"},
                              proc : {0} \cup Ps, from : Nat, output : Seq(Item)]]
       /\ forgotten \subseteq Ps /\ alone \subseteq Runs

Init ==
    /\ sessions = <<>>
    /\ procs = <<>>
    /\ calls = [r \in Runs |-> [at |-> "idle", proc |-> 0, from |-> 0,
                                output |-> <<>>]]
    /\ forgotten = {} /\ alone = {}
-----------------------------------------------------------------------------
(* start, startFromProcess: an id in use and a full table are refused. *)
Start(id) ==
    /\ Len(procs) < MaxProcs
    /\ id \notin DOMAIN sessions
    /\ Cardinality(DOMAIN sessions) < MaxSessions
    /\ procs' = Append(procs, [id |-> id, state |-> "live", input |-> <<>>,
                               buffer |-> <<>>, discarded |-> 0])
    /\ sessions' = [i \in DOMAIN sessions \cup {id} |->
                       IF i = id THEN Len(procs') ELSE sessions[i]]
    /\ UNCHANGED <<calls, forgotten, alone>>

(* Mutant: the process is left running. *)
CloseOnlyForgets(id) ==
    /\ id \in DOMAIN sessions
    /\ sessions' = Restrict(sessions, DOMAIN sessions \ {id})
    /\ UNCHANGED <<procs, calls, forgotten, alone>>

(* close, by the tool or by the idle timer: SIGTERM, and the id is free.     *)
Close(id) ==
    /\ id \in DOMAIN sessions
    /\ procs' = [procs EXCEPT ![sessions[id]].state =
                    IF @ = "live" THEN "killed" ELSE @]
    /\ sessions' = Restrict(sessions, DOMAIN sessions \ {id})
    /\ UNCHANGED <<calls, forgotten, alone>>

(* The exit or error event, after a kill (SIGKILL follows after 5 s), a      *)
(* crash or a failed spawn.  cleanup goes by the id: it deletes whatever     *)
(* session has it now.                                                       *)
Exited(p) ==
    /\ procs[p].state # "exited"
    /\ procs' = [procs EXCEPT ![p].state = "exited", ![p].input = <<>>]
    /\ LET id == procs[p].id
       IN IF id \in DOMAIN sessions
          THEN /\ sessions' = Restrict(sessions, DOMAIN sessions \ {id})
               /\ forgotten' = forgotten \cup ({sessions[id]} \ {p})
          ELSE UNCHANGED <<sessions, forgotten>>
    /\ UNCHANGED <<calls, alone>>
-----------------------------------------------------------------------------

(* The cursor of a run is an offset in the whole stream. *)
Written(p) == procs[p].discarded + Len(procs[p].buffer)

(* Nothing of an earlier run is still to be read or printed. *)
Quiet(p) ==
    /\ procs[p].input = <<>>
    /\ \A r \in Waiting : calls[r].proc # p

(* run: a cursor, the code and the sentinel command. *)
Run(r, id) ==
    /\ calls[r].at = "idle" /\ \A q \in Runs : q < r => calls[q].at # "idle"
    /\ id \in DOMAIN sessions
    /\ LET p == sessions[id]
       IN /\ procs[p].state = "live"
          /\ calls' = [calls EXCEPT ![r] = [at |-> "waiting", proc |-> p,
                                            from |-> Written(p), output |-> <<>>]]
          /\ procs' = [procs EXCEPT ![p].input = @ \o Append(Code(r), Sentinel(r))]
          /\ alone' = {q \in alone : calls[q].at # "waiting" \/ calls[q].proc # p}
                      \cup (IF Quiet(p) THEN {r} ELSE {})
    /\ UNCHANGED <<sessions, forgotten>>

(* The interpreter prints what comes next; the buffer keeps the tail. *)
Trim(p, stream) ==
    LET drop == IF Len(stream) > MaxBuffer THEN Len(stream) - MaxBuffer ELSE 0
    IN [procs[p] EXCEPT !.buffer = SubSeq(stream, drop + 1, Len(stream)),
                        !.discarded = @ + drop]

Prints(p) ==
    /\ procs[p].state # "exited" /\ procs[p].input # <<>>
    /\ procs' = [procs EXCEPT ![p] =
                    [Trim(p, Append(procs[p].buffer, Head(procs[p].input)))
                       EXCEPT !.input = Tail(@)]]
    /\ UNCHANGED <<sessions, calls, forgotten, alone>>

(* What a poll looks at: the output after the cursor, or what is left of it. *)
NewOutput(r) ==
    LET p == calls[r].proc
        skip == calls[r].from - procs[p].discarded
    IN SubSeq(procs[p].buffer, (IF skip > 0 THEN skip ELSE 0) + 1,
              Len(procs[p].buffer))
HasSentinel(out) == \E i \in DOMAIN out : out[i].sentinel
UpToSentinel(out) ==
    LET first == CHOOSE i \in DOMAIN out :
                    out[i].sentinel /\ \A j \in 1..i - 1 : ~out[j].sentinel
    IN SubSeq(out, 1, first - 1)

(* waitForSentinel: the first sentinel after the cursor ends the run. *)
Poll(r) ==
    /\ calls[r].at = "waiting" /\ HasSentinel(NewOutput(r))
    /\ calls' = [calls EXCEPT ![r].at = "done", ![r].output =
                    UpToSentinel(NewOutput(r))]
    /\ UNCHANGED <<sessions, procs, forgotten, alone>>

(* 30 seconds without it: what there is.  The code runs on. *)
TimeOut(r) ==
    /\ calls[r].at = "waiting" /\ ~HasSentinel(NewOutput(r))
    /\ calls' = [calls EXCEPT ![r].at = "timed out", ![r].output = NewOutput(r)]
    /\ UNCHANGED <<sessions, procs, forgotten, alone>>

Next ==
    \/ \E id \in Ids : Start(id) \/ Close(id) \/ \E r \in Runs : Run(r, id)
    \/ \E p \in 1..Len(procs) : Exited(p) \/ Prints(p)
    \/ \E r \in Runs : Poll(r) \/ TimeOut(r)

(* Polls and their time limit are timers. *)
Polling == \E r \in Runs : Poll(r) \/ TimeOut(r)
Spec == Init /\ [][Next]_vars /\ WF_vars(Polling)
-----------------------------------------------------------------------------
(* Properties *)

(* A run that had its interpreter to itself returns what its own code        *)
(* printed, as much of it as the buffer holds, even when earlier output was  *)
(* trimmed away (session-manager.ts:22, :178).                               *)
Kept(code) ==
    LET drop == Len(code) + 1 - MaxBuffer
    IN SubSeq(code, (IF drop > 0 THEN drop ELSE 0) + 1, Len(code))
AloneIsExact ==
    \A r \in alone : calls[r].at = "done" => calls[r].output = Kept(Code(r))

(* An interpreter nobody told to stop can be reached by its id, unless the   *)
(* exit of an earlier interpreter of that id deleted its entry.              *)
LiveIsReachable ==
    \A p \in 1..Len(procs) : procs[p].state = "live" =>
        \/ p \in forgotten
        \/ procs[p].id \in DOMAIN sessions /\ sessions[procs[p].id] = p
-----------------------------------------------------------------------------
(* The sandbox: exec/docker-backend.ts as tools/exec.ts and                  *)
(* tools/code-session.ts use it.  Every sandboxed command and interpreter    *)
(* first makes sure that the one container runs.  Docker is outside src/: a  *)
(* command does what it says, fails with a message, or fails without one,    *)
(* and docker run takes the name when it creates the container, before it    *)
(* starts it.                                                                *)
CONSTANTS
    Users,    \* exec and code_session calls under way
    MaxUses   \* bound: calls made

VARIABLES
    container,
    running,   \* DockerBackend.running
    at,        \* where each call is
    uses,
    failed,    \* history: a docker command failed, or somebody stopped the
               \* container, after which running may not be true
    misled     \* history: a call went on although nothing had failed and the
               \* container neither ran nor was being started

boxVars == <<container, running, at, uses, failed, misled>>

BoxTypeOK ==
    /\ container \in {"none", "stopped", "running"}
    /\ running \in BOOLEAN /\ failed \in BOOLEAN /\ misled \in BOOLEAN
    /\ at \in [Users -> {"idle", "exists?", "running?", "start", "run",
                         "starting", "exec"}]
    /\ uses \in 0..MaxUses

(* The container may be left from an earlier process. *)
BoxInit ==
    /\ container \in {"none", "stopped", "running"}
    /\ running = FALSE /\ failed = FALSE /\ misled = FALSE
    /\ at = [u \in Users |-> "idle"]
    /\ uses = 0

Go(u, where) == at' = [at EXCEPT ![u] = where]

(* The call goes on to docker exec. *)
Ready(u) ==
    /\ Go(u, "exec")
    /\ misled' = \/ misled
                 \/ /\ ~failed' /\ container' # "running"
                    /\ \A v \in Users \ {u} : at[v] # "starting"

(* ensureRunning up to its first await. *)
Use(u) ==
    /\ at[u] = "idle" /\ uses < MaxUses /\ uses' = uses + 1
    /\ UNCHANGED <<container, running, failed>>
    /\ IF running THEN Ready(u) ELSE Go(u, "exists?") /\ UNCHANGED misled

(* containerExists, containerIsRunning: a failed inspect counts as no. *)
Inspect(u) ==
    /\ UNCHANGED <<container, uses>>
    /\ \E ok \in BOOLEAN :
          /\ failed' = (failed \/ ~ok)
          /\ \/ /\ at[u] = "exists?"
                /\ Go(u, IF ok /\ container # "none" THEN "running?" ELSE "run")
                /\ UNCHANGED <<running, misled>>
             \/ /\ at[u] = "running?"
                /\ IF ok /\ container = "running"
                   THEN running' = TRUE /\ Ready(u)
                   ELSE Go(u, "start") /\ UNCHANGED <<running, misled>>

(* docker start, and docker run once it created the container. *)
StartContainer(u) ==
    /\ at[u] \in {"start", "starting"}
    /\ container # "none" /\ container' = "running"
    /\ UNCHANGED <<uses, failed>>
    /\ running' = TRUE /\ Ready(u)

Create(u) ==
    /\ at[u] = "run" /\ container = "none"
    /\ container' = "stopped" /\ Go(u, "starting")
    /\ UNCHANGED <<running, uses, failed, misled>>

(* A command that fails and prints something is taken for success.  So the   *)
(* second of two calls that both create the container goes on when docker    *)
(* refuses the name, whether the first has started it yet or not.            *)
Refused(u) ==
    /\ at[u] = "run" /\ container # "none"
    /\ UNCHANGED <<container, uses, failed>>
    /\ running' = TRUE /\ Ready(u)

Fails(u) ==
    /\ at[u] \in {"start", "run", "starting"}
    /\ UNCHANGED <<container, uses>> /\ failed' = TRUE
    /\ \/ running' = TRUE /\ Ready(u)
       \/ Go(u, "idle") /\ UNCHANGED <<running, misled>>

Bring(u) == StartContainer(u) \/ Create(u) \/ Refused(u) \/ Fails(u)

(* docker exec ends, well or not; running is not looked at again. *)
Exec(u) ==
    /\ at[u] = "exec"
    /\ Go(u, "idle")
    /\ UNCHANGED <<container, running, uses, failed, misled>>

(* Outside: the container is stopped, removed or out of memory. *)
ContainerEnds ==
    /\ container # "none"
    /\ container' \in {"none", "stopped"} /\ container' # container
    /\ failed' = TRUE
    /\ UNCHANGED <<running, at, uses, misled>>

BoxNext == \/ \E u \in Users : Use(u) \/ Inspect(u) \/ Bring(u) \/ Exec(u)
        \/ ContainerEnds
BoxSpec == BoxInit /\ [][BoxNext]_vars
-----------------------------------------------------------------------------
(* Properties *)

(* However many calls start the sandbox at once, a call goes on only when    *)
(* the container runs or another call has created it and is starting it, as  *)
(* long as no docker command failed and nobody stopped it.  That it runs for *)
(* sure ("Ensure the sandbox container is running", docker-backend.ts:32) is *)
(* more than the code does.                                                  *)
ReadyMeansRunning == ~misled
=============================================================================
