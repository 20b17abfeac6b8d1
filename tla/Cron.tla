--------------------------------- MODULE Cron ---------------------------------
(* cron/service.ts and cron/store.ts: the job file, one timer per scheduled  *)
(* job, runs with two retries, the catch-up at boot, and what the user edits *)
(* meanwhile through cron_add, cron_edit, cron_remove, cron_run and the      *)
(* console.                                                                  *)
(*                                                                           *)
(* The list of jobs is in memory; every change ends with a save of all of    *)
(* it, which can throw.  Then memory has the change and the file has not,    *)
(* and the caller stops where it is.                                         *)
(*                                                                           *)
(* Time is counted in a job's own fire times: due is how many of them passed *)
(* since lastRunAt (or createdAt).  A job's id is used once.  Timers close   *)
(* over the job object of the store, so an edit reaches a waiting run.       *)
EXTENDS Integers, FiniteSets, Functions

CONSTANTS
    Jobs,
    HeartbeatJobs,  \* those of type "heartbeat": the heartbeat runs them
    FileJobs,       \* those in the file when the first process starts
    Slots,          \* executions under way (a bound)
    MaxRetries,     \* CronService.MAX_RETRIES
    MaxOrphans,     \* bound: timers a job has outside schedulers
    MaxOps,         \* bound: things the user does
    MaxFaults,      \* bound: saves that fail
    MaxCrashes      \* bound: ends of the process

VARIABLES
    phase,       \* of the process
    jobs,        \* the list in memory: by id
    file,        \* what the last save that worked wrote
    used,        \* ids handed out
    scheduled,   \* jobs with a timer in schedulers
    orphans,     \* timers that were replaced in schedulers and never stopped
    late,        \* jobs whose staggered catch-up has not fired yet
    activeJobs,
    exec,        \* executions under way, by slot
    ops, crashes, faults,
    loose,       \* history: jobs whose timer was not set for a change that was
                 \* made in memory but not saved
    told         \* history: how often a one-shot job delivered since the user
                 \* last enabled it, and those that may deliver again

vars == <<phase, jobs, file, used, scheduled, orphans, late, activeJobs, exec,
              ops, crashes, faults, loose, told>>

Never == 3    \* due of a job whose schedule is invalid
Job == [once : BOOLEAN, enabled : BOOLEAN, due : 0..Never]
Execution == [job : Jobs, attempt : 0..MaxRetries,
              at : {"triggered", "waiting", "telling"}]

InStore(j) == j \in DOMAIN jobs
Running == DOMAIN exec
Enabled(j) == InStore(j) /\ jobs[j].enabled
Timed(j) == j \notin HeartbeatJobs
Good(j) == jobs[j].due # Never

TypeOK ==
    /\ phase \in {"down", "up", "stopping"}
    /\ used \in SUBSET Jobs /\ DOMAIN jobs \subseteq used
    /\ jobs \in [DOMAIN jobs -> Job]
    /\ DOMAIN file \subseteq used /\ file \in [DOMAIN file -> Job]
    /\ scheduled \in SUBSET Jobs /\ late \in SUBSET Jobs
    /\ activeJobs \in SUBSET Jobs
    /\ orphans \in [Jobs -> 0..MaxOrphans]
    /\ Running \subseteq Slots /\ exec \in [Running -> Execution]
    /\ ops \in 0..MaxOps /\ crashes \in 0..MaxCrashes
    /\ faults \in 0..MaxFaults /\ loose \in SUBSET Jobs
    /\ told \in [Jobs -> {"no", "yes", "twice", "excused"}]

(* The process is not up yet; the file holds what earlier ones left. *)
Init ==
    /\ phase = "down"
    /\ \E once \in BOOLEAN :
          jobs = [j \in FileJobs |-> [once |-> once, enabled |-> TRUE, due |-> 0]]
    /\ file = jobs /\ used = DOMAIN jobs
    /\ scheduled = {} /\ late = {} /\ activeJobs = {}
    /\ orphans = [j \in Jobs |-> 0]
    /\ exec = <<>>
    /\ ops = 0 /\ crashes = 0 /\ faults = 0 /\ loose = {}
    /\ told = [j \in Jobs |-> "no"]
-----------------------------------------------------------------------------
(* Runs *)

(* executeJob up to its first await: a job under way is skipped, not stacked. *)
ExecuteJob(j) ==
    \/ j \in activeJobs /\ UNCHANGED <<exec, activeJobs>>
    \/ /\ j \notin activeJobs
       /\ LET s == CHOOSE t \in Slots \ Running : TRUE
          IN /\ Slots # Running
             /\ exec' = [t \in Running \cup {s} |->
                   IF t = s THEN [job |-> j, attempt |-> 0, at |-> "triggered"]
                            ELSE exec[t]]
       /\ activeJobs' = activeJobs \cup {j}

OneShot(j) == InStore(j) /\ jobs[j].once

(* What was delivered and is run once more on purpose, or by what no longer  *)
(* looks at the job.                                                         *)
Rerun(j) == IF told[j] = "yes" THEN [told EXCEPT ![j] = "excused"] ELSE told

(* save: the file is replaced by what memory holds, or stays as it was. *)
Saved == file' = jobs' /\ UNCHANGED faults
Unsaved == faults < MaxFaults /\ faults' = faults + 1 /\ UNCHANGED file

Aged(f, j) == IF j \in DOMAIN f /\ f[j].due < 2
              THEN [f EXCEPT ![j].due = @ + 1] ELSE f
SameInFile(j) == InStore(j) /\ j \in DOMAIN file /\ file[j] = jobs[j]

(* A fire time of the job passes, whether a timer is there to see it or not. *)
Tick(j) ==
    /\ InStore(j) /\ Good(j)
    /\ jobs' = Aged(jobs, j)
    /\ file' = IF SameInFile(j) THEN Aged(file, j) ELSE file
    /\ IF phase = "up" /\ j \in scheduled THEN ExecuteJob(j)
                                          ELSE UNCHANGED <<exec, activeJobs>>
    /\ UNCHANGED <<used, phase, scheduled, orphans, late, ops, crashes, faults,
                   loose, told>>

(* Where the file has another job than memory, it counts for itself. *)
FileTick(j) ==
    /\ ~SameInFile(j) /\ Aged(file, j) # file
    /\ file' = Aged(file, j)
    /\ UNCHANGED <<used, phase, jobs, scheduled, orphans, late, activeJobs, exec,
                   ops, crashes, faults, loose, told>>

(* A timer that schedulers lost keeps the schedule it was made with. *)
OrphanFires(j) ==
    /\ phase = "up" /\ orphans[j] > 0
    /\ ExecuteJob(j)
    /\ told' = Rerun(j)
    /\ UNCHANGED <<used, phase, jobs, file, scheduled, orphans, late, ops,
                   crashes, faults, loose>>

(* The staggered catch-up looks at nothing: not at running, not at the job.  *)
LateFires(j) ==
    /\ phase # "down" /\ j \in late
    /\ late' = late \ {j}
    /\ ExecuteJob(j)
    /\ told' = Rerun(j)
    /\ UNCHANGED <<used, phase, jobs, file, scheduled, orphans, ops, crashes,
                   faults, loose>>

Reset(due) == IF due = Never THEN Never ELSE 0
Deliver(j) ==
    IF OneShot(j) /\ told[j] # "excused"
    THEN [told EXCEPT ![j] = IF @ = "no" THEN "yes" ELSE "twice"]
    ELSE told

Release(s) ==
    /\ exec' = Restrict(exec, DOMAIN exec \ {s})
    /\ activeJobs' = activeJobs \ {exec[s].job}

(* The retry, or after the last one the report of the failure. *)
AfterFailure(s) ==
    /\ exec' = [exec EXCEPT ![s].at =
                   IF exec[s].attempt < MaxRetries THEN "waiting" ELSE "telling"]
    /\ UNCHANGED activeJobs

(* updateLastRun and, for a job that retires, edit(enabled: false). *)
Ran(j) == [jobs EXCEPT ![j].due = Reset(@)]
Retired(j) == [jobs EXCEPT ![j].due = Reset(@), ![j].enabled = FALSE]

(* The dispatch answered and the answer was delivered: the run is recorded,  *)
(* and a one-shot job is disabled and loses its timer.  A job that was       *)
(* removed meanwhile is not looked for in the file.                          *)
Succeed(s) ==
    /\ s \in Running /\ exec[s].at = "triggered"
    /\ LET j == exec[s].job
       IN /\ told' = Deliver(j)
          /\ IF InStore(j) THEN /\ jobs' = IF OneShot(j) THEN Retired(j) ELSE Ran(j)
                                /\ Saved
                           ELSE UNCHANGED <<jobs, file, faults>>
          /\ IF OneShot(j)
             THEN scheduled' = scheduled \ {j} /\ loose' = loose \ {j}
             ELSE UNCHANGED <<scheduled, loose>>
    /\ Release(s)
    /\ UNCHANGED <<used, phase, orphans, late, ops, crashes>>

(* It was delivered, but updateLastRun or the retirement could not be saved: *)
(* what was thrown counts as a failure of the run, which is tried again.  If *)
(* it was the retirement, the job is disabled and its timer goes on.         *)
SucceedUnsaved(s) ==
    /\ s \in Running /\ exec[s].at = "triggered"
    /\ faults < MaxFaults /\ faults' = faults + 1
    /\ LET j == exec[s].job
       IN /\ InStore(j)
          /\ told' = [told EXCEPT ![j] = "excused"]
          /\ \/ jobs' = Ran(j) /\ UNCHANGED <<file, loose>>
             \/ /\ OneShot(j)
                /\ jobs' = Retired(j) /\ file' = Ran(j)
                /\ loose' = loose \cup {j}
    /\ AfterFailure(s)
    /\ UNCHANGED <<used, phase, scheduled, orphans, late, ops, crashes>>

(* The dispatch or the delivery failed: wait for the retry, or tell. *)
Fail(s) ==
    /\ s \in Running /\ exec[s].at = "triggered"
    /\ AfterFailure(s)
    /\ UNCHANGED <<used, phase, jobs, file, scheduled, orphans, late, ops,
                   crashes, faults, loose, told>>

Retry(s) ==
    /\ s \in Running /\ exec[s].at = "waiting"
    /\ exec' = [exec EXCEPT ![s].at = "triggered", ![s].attempt = @ + 1]
    /\ UNCHANGED <<used, phase, jobs, file, scheduled, orphans, late, activeJobs,
                   ops, crashes, faults, loose, told>>

(* onFailure: the dead letter, the notice if it can be sent. *)
Told(s) ==
    /\ s \in Running /\ exec[s].at = "telling"
    /\ Release(s)
    /\ UNCHANGED <<used, phase, jobs, file, scheduled, orphans, late, ops,
                   crashes, faults, loose, told>>

Progress(s) ==
    Succeed(s) \/ SucceedUnsaved(s) \/ Fail(s) \/ Retry(s) \/ Told(s)
-----------------------------------------------------------------------------
(* What the user does.  scheduleJob of an invalid schedule logs and returns. *)

Operate == phase # "down" /\ ops < MaxOps /\ ops' = ops + 1
Arm(j) == IF phase = "up" /\ Timed(j) /\ jobs'[j].due # Never THEN {j} ELSE {}

(* cron_add validates the schedule, the console does not.  A job that could  *)
(* not be saved stays in memory without a timer.                             *)
Add(j, once, good) ==
    /\ Operate /\ j \notin used /\ used' = used \cup {j}
    /\ LET new == [once |-> once, enabled |-> TRUE,
                   due |-> IF good THEN 0 ELSE Never]
       IN jobs' = [i \in DOMAIN jobs \cup {j} |-> IF i = j THEN new ELSE jobs[i]]
    /\ \/ Saved /\ scheduled' = scheduled \cup Arm(j) /\ UNCHANGED loose
       \/ Unsaved /\ loose' = loose \cup {j} /\ UNCHANGED scheduled
    /\ UNCHANGED <<phase, orphans, late, activeJobs, exec, crashes, told>>

(* The same name and schedule again: the store returns the existing job, the *)
(* service makes a second timer for it and forgets the first.                *)
AddAgain(j) ==
    /\ Operate /\ Enabled(j) /\ orphans[j] < MaxOrphans
    /\ UNCHANGED jobs
    /\ orphans' = IF Arm(j) # {} /\ j \in scheduled
                  THEN [orphans EXCEPT ![j] = @ + 1] ELSE orphans
    /\ scheduled' = scheduled \cup Arm(j)
    /\ loose' = loose \ Arm(j)
    /\ UNCHANGED <<used, phase, file, late, activeJobs, exec, crashes, faults,
                   told>>

(* cron_remove, heartbeat_remove, the console: stops the timer in schedulers *)
(* before anything is saved.  If that fails, the next process has the job    *)
(* again, whatever a run under way has delivered.                            *)
Remove(j) ==
    /\ Operate /\ InStore(j)
    /\ jobs' = Restrict(jobs, DOMAIN jobs \ {j})
    /\ scheduled' = scheduled \ {j} /\ loose' = loose \ {j}
    /\ \/ Saved /\ UNCHANGED told
       \/ Unsaved /\ told' = [told EXCEPT ![j] = "excused"]
    /\ UNCHANGED <<used, phase, orphans, late, activeJobs, exec, crashes>>

(* edit with a schedule or an enabled flag.  Under another schedule other    *)
(* fire times have passed since lastRunAt.  The type is not looked at: an    *)
(* edited heartbeat task gets a timer of its own.  An edit that could not be *)
(* saved changes the job and leaves the timer as it was.                     *)
Edit(j, enabled, once, due) ==
    /\ Operate /\ InStore(j)
    /\ jobs' = [jobs EXCEPT ![j] = [once |-> once, enabled |-> enabled,
                                    due |-> due]]
    /\ \/ /\ Saved /\ loose' = loose \ {j}
          /\ scheduled' = IF enabled /\ phase = "up" /\ due # Never
                          THEN scheduled \cup {j} ELSE scheduled \ {j}
       \/ Unsaved /\ loose' = loose \cup {j} /\ UNCHANGED scheduled
    /\ told' = IF enabled THEN [told EXCEPT ![j] = "no"] ELSE told
    /\ UNCHANGED <<used, phase, orphans, late, activeJobs, exec, crashes>>

(* cron_run and the console's run: "exactly like the clock firing". *)
RunNow(j) ==
    /\ Operate /\ InStore(j)
    /\ ExecuteJob(j)
    /\ told' = Rerun(j)
    /\ UNCHANGED <<used, phase, jobs, file, scheduled, orphans, late, crashes,
                   faults, loose>>
-----------------------------------------------------------------------------
(* The process *)

(* What the catch-up runs: one fire was missed, and not the one after it. *)
Missed(j) == Enabled(j) /\ Timed(j) /\ Good(j) /\ jobs[j].due = 1

(* Mutant: the catch-up runs the first missed job only. *)
BootFirstOnly ==
    /\ phase = "down" /\ phase' = "up"
    /\ scheduled' = {j \in Jobs : Enabled(j) /\ Timed(j) /\ Good(j)}
    /\ LET missed == {j \in Jobs : Missed(j)}
       IN IF missed = {} THEN UNCHANGED <<exec, activeJobs, late>>
          ELSE \E first \in missed : ExecuteJob(first) /\ UNCHANGED late
    /\ UNCHANGED <<jobs, file, used, orphans, ops, crashes, faults, loose, told>>

(* start: every enabled job gets its timer; of those that missed a fire the  *)
(* first in the file runs at once, the others 45 seconds apart.              *)
Boot ==
    /\ phase = "down" /\ phase' = "up"
    /\ scheduled' = {j \in Jobs : Enabled(j) /\ Timed(j) /\ Good(j)}
    /\ LET missed == {j \in Jobs : Missed(j)}
       IN IF missed = {} THEN UNCHANGED <<exec, activeJobs, late>>
          ELSE \E first \in missed : /\ ExecuteJob(first)
                                     /\ late' = missed \ {first}
    /\ UNCHANGED <<jobs, file, used, orphans, ops, crashes, faults, loose, told>>

(* stop: schedulers is cleared; runs under way and late timers are not. *)
Stop ==
    /\ phase = "up" /\ crashes < MaxCrashes
    /\ phase' = "stopping"
    /\ scheduled' = {}
    /\ UNCHANGED <<jobs, file, used, orphans, late, activeJobs, exec, ops,
                   crashes, faults, loose, told>>

(* The process ends, and the next one reads the file.  A dispatch may have   *)
(* delivered without being recorded.                                         *)
Exit ==
    /\ phase # "down" /\ crashes < MaxCrashes
    /\ phase' = "down" /\ crashes' = crashes + 1
    /\ \E cut \in SUBSET {s \in Running : exec[s].at = "triggered"} :
           told' = [j \in Jobs |-> IF j \in {exec[s].job : s \in cut}
                                   THEN "excused" ELSE told[j]]
    /\ jobs' = file
    /\ exec' = <<>>
    /\ scheduled' = {} /\ late' = {} /\ activeJobs' = {} /\ loose' = {}
    /\ orphans' = [j \in Jobs |-> 0]
    /\ UNCHANGED <<file, used, ops, faults>>

Next ==
    \/ \E j \in Jobs :
          \/ Tick(j) \/ FileTick(j) \/ OrphanFires(j) \/ LateFires(j)
          \/ \E once, good \in BOOLEAN : Add(j, once, good)
          \/ AddAgain(j) \/ Remove(j) \/ RunNow(j)
          \/ \E enabled, once \in BOOLEAN, due \in 0..Never :
                Edit(j, enabled, once, due)
    \/ \E s \in Slots : Progress(s)
    \/ Boot \/ Stop \/ Exit

(* A dispatch ends (its model calls and tools have time limits), timers fire *)
(* and the supervisor starts the process again.                              *)
Fair ==
    /\ \A s \in Slots : WF_vars(Progress(s))
    /\ \A j \in Jobs : WF_vars(LateFires(j))
    /\ WF_vars(Boot)

Spec == Init /\ [][Next]_vars /\ Fair
-----------------------------------------------------------------------------
(* Properties *)

(* However a run starts (timer, catch-up, lost timer, cron_run, retry), a    *)
(* job has one at a time, and activeJobs says exactly which have one         *)
(* (service.ts:26, "SKIPPED, not stacked").                                  *)
NoStackedRuns ==
    /\ \A s, t \in Running : exec[s].job = exec[t].job => s = t
    /\ activeJobs = {exec[s].job : s \in Running}

(* The timers in schedulers and the jobs agree, after any order of adds,     *)
(* edits, removals, retirements and restarts: an enabled job with a valid    *)
(* schedule has a timer, and a timer has an enabled job.  Only a save that   *)
(* failed leaves a job out of it, until its timer is set again.              *)
TimersMatchJobs ==
    /\ phase = "up" =>
        /\ \A j \in Jobs \ loose : Enabled(j) /\ Timed(j) /\ Good(j)
                                       => j \in scheduled
        /\ \A j \in scheduled \ loose : Enabled(j) /\ Good(j)
    /\ faults = 0 => loose = {}

(* A one-shot job is delivered once, unless it was enabled again, run by     *)
(* hand, caught up late or fired by a timer that schedulers lost after it    *)
(* was delivered, or the process died or a save failed before what happened  *)
(* to it was in the file (service.ts:203).                                   *)
OneShotOnce == \A j \in Jobs : told[j] # "twice"

(* No job stays blocked by its own earlier run. *)
EveryRunEnds == \A j \in Jobs : j \in activeJobs ~> j \notin activeJobs

(* A fire missed while the process was down is run after the boot, unless    *)
(* the next one passes too or the user takes the job away (service.ts:45,    *)
(* "a reboot at 8:59 must not eat a 9:00 reminder").                         *)
MissedIsCaughtUp ==
    \A j \in Jobs : phase = "down" /\ Missed(j) ~> j \in activeJobs \/ ~Missed(j)
=============================================================================
