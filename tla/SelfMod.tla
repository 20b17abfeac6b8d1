-------------------------------- MODULE SelfMod --------------------------------
(* coding/self-mod-service.ts, coding/self-mod.ts and coding/merge-gate.ts   *)
(* with scripts/supervisor-lib.mjs: a change built in a worktree, judged by  *)
(* the gate, confirmed by the owner, merged, deployed by the supervisor and  *)
(* rolled back when it is unhealthy; what is learned of it at the next boot. *)
(*                                                                           *)
(* Commits are numbers; main is its history.  A step ends where the code     *)
(* awaits: the coding session, the gate, the write to memory, a boot.  All   *)
(* changes have one slug, so that verdicts and confirmations of an earlier   *)
(* change meet the next one.                                                 *)
EXTENDS Integers, Sequences

CONSTANTS
    MaxCommits,   \* bound: commits made
    MaxGates,     \* bound: changes proposed or gated again
    MaxReboots    \* bound: crashes, and restarts of the supervisor

VARIABLES
    main,        \* the history of main: commits, and which head each merged
    made,        \* commits made so far
    active,      \* state.json: base and head of the worktree, 0 if none
    arena,       \* its directory exists
    session,     \* propose or retry under way (busy), and what it gates
    verdict,     \* the verdict file
    ledger,      \* self_merge actions to confirm: number and head
    merging,     \* merges whose memory write is awaited
    learned,     \* commit -> what memory says of the deploy
    marker,      \* deploy.json
    failed,      \* deploy-failed.json
    detecting,   \* the rollback detectRollback writes about
    exiting,     \* the restart was requested
    proc,        \* the program
    sup,         \* the supervisor: where it is, the commit it rolls back to
    gates, reboots,
    judged,      \* history: heads that passed the gate
    undone,      \* history: merges the supervisor rolled back
    twice,       \* history: a head was merged a second time
    unseen       \* history: rollbacks whose evidence was lost

vars == <<main, made, active, arena, session, verdict, ledger, merging, learned,
          marker, failed, detecting, exiting, proc, sup, gates, reboots, judged,
          undone, twice, unseen>>

Commit == 0..MaxCommits
NoTree == [base |-> 0, head |-> 0]
NoMarker == [prev |-> 0, merge |-> 0, exp |-> FALSE, old |-> FALSE]
Idle == [at |-> "idle", base |-> 0, head |-> 0]
Marker == [prev : Commit, merge : Commit, exp : BOOLEAN, old : BOOLEAN]
HEAD == main[Len(main)].sha
Shas(history) == {history[i].sha : i \in 1..Len(history)}
Merged(head) == \E i \in 1..Len(main) : main[i].of = head

TypeOK ==
    /\ main \in Seq([sha : Commit, of : Commit]) /\ made \in Commit
    /\ active \in [base : Commit, head : Commit] /\ arena \in BOOLEAN
    /\ session \in [at : {"idle", "session", "gate"},
                    base : Commit, head : Commit]
    /\ verdict \in {"none", "pass", "fail"}
    /\ ledger \subseteq [n : 1..MaxGates, head : Commit]
    /\ merging \subseteq [prev : Commit, merge : Commit]
    /\ learned \in [Commit -> {"none", "worked", "failed"}]
    /\ marker \in Marker /\ failed \in Marker
    /\ detecting \in [of : Marker, kept : BOOLEAN]
    /\ exiting \in BOOLEAN /\ proc \in {"down", "starting", "swept", "up"}
    /\ sup \in [at : {"boot", "watch", "deploy", "stopped"}, to : Commit]
    /\ judged \subseteq Commit /\ undone \subseteq Commit /\ twice \in BOOLEAN
    /\ unseen \subseteq Commit

Init ==
    /\ main = <<[sha |-> 1, of |-> 0]>> /\ made = 1
    /\ active = NoTree /\ arena = FALSE /\ session = Idle /\ verdict = "none"
    /\ ledger = {} /\ merging = {}
    /\ learned = [c \in Commit |-> "none"]
    /\ marker = NoMarker /\ failed = NoMarker
    /\ detecting = [of |-> NoMarker, kept |-> FALSE]
    /\ exiting = FALSE /\ proc = "down" /\ sup = [at |-> "boot", to |-> 0]
    /\ gates = 0 /\ reboots = 0
    /\ judged = {} /\ undone = {} /\ twice = FALSE /\ unseen = {}

work == <<active, arena, session, verdict, gates>>
deploy == <<merging, learned, marker, failed, detecting, exiting, proc, sup,
            reboots>>
history == <<judged, undone, twice, unseen>>
-----------------------------------------------------------------------------
(* Commits *)

CanCommit(n) == made + n <= MaxCommits
NewMain(of) == main' = Append(main, [sha |-> made', of |-> of])

OwnerCommits ==
    /\ CanCommit(1) /\ made' = made + 1 /\ NewMain(0)
    /\ UNCHANGED <<work, ledger, deploy, history>>

(* Somebody commits in the worktree: the coding session left a process, or   *)
(* the owner helped.                                                         *)
ArenaCommit ==
    /\ active # NoTree /\ arena /\ CanCommit(1) /\ made' = made + 1
    /\ active' = [active EXCEPT !.head = made']
    /\ UNCHANGED <<main, arena, session, verdict, gates, ledger, deploy, history>>
-----------------------------------------------------------------------------
(* propose, retry, abandon: one at a time *)

(* What the gate reads when it starts. *)
Judged(tree) == [at |-> "gate", base |-> tree.base, head |-> tree.head]

Free == proc = "up" /\ session = Idle
Judging == gates < MaxGates /\ gates' = gates + 1

(* create: tracked changes are committed first.  A worktree that is active,  *)
(* or a directory left over, refuses; a failure on the way leaves one.       *)
Propose ==
    /\ Free /\ Judging /\ active = NoTree /\ ~arena
    /\ \/ made' = made /\ UNCHANGED main
       \/ CanCommit(1) /\ made' = made + 1 /\ NewMain(0)
    /\ arena' = TRUE
    /\ \/ /\ LET head == main'[Len(main')].sha
             IN active' = [base |-> head, head |-> head]
          /\ session' = [Idle EXCEPT !.at = "session"]
       \/ UNCHANGED <<active, session>>
    /\ UNCHANGED <<verdict, ledger, deploy, history>>

(* The coding session ends, with commits, with uncommitted changes that are  *)
(* committed now, or with nothing; the gate reads what it judges.  Or it     *)
(* throws, and the worktree stays.                                           *)
SessionEnds ==
    /\ session.at = "session"
    /\ \/ session' = Idle /\ UNCHANGED <<made, active>>
       \/ /\ active # NoTree
          /\ \/ CanCommit(1) /\ made' = made + 1
                /\ active' = [active EXCEPT !.head = made']
             \/ UNCHANGED <<made, active>>
          /\ session' = Judged(active')
    /\ UNCHANGED <<main, arena, verdict, gates, ledger, deploy, history>>

Carried == active.head = active.base \/ Merged(active.head)

(* retry: rebase onto main, which may conflict, and gate again.  A branch    *)
(* with nothing that is not merged already becomes main itself.              *)
Retry ==
    /\ Free /\ active # NoTree /\ Judging
    /\ \/ /\ active.base = HEAD /\ UNCHANGED <<made, active>>
       \/ /\ active.base # HEAD /\ Carried /\ UNCHANGED made
          /\ active' = [base |-> HEAD, head |-> HEAD]
       \/ /\ active.base # HEAD /\ ~Carried
          /\ CanCommit(1) /\ made' = made + 1
          /\ active' = [base |-> HEAD, head |-> made']
    /\ session' = Judged(active')
    /\ UNCHANGED <<main, arena, verdict, ledger, deploy, history>>

Remove == active' = NoTree /\ arena' = (arena /\ active = NoTree)

(* The gate and judgeAndProposeMerge: a diff that touches nothing never      *)
(* passes.  A verdict is kept by slug; a session that failed and changed     *)
(* nothing loses its worktree.                                               *)
GateEnds(pass) ==
    /\ session.at = "gate" /\ session' = Idle
    /\ pass => session.head # session.base
    /\ verdict' = IF pass THEN "pass" ELSE "fail"
    /\ IF pass
       THEN /\ judged' = judged \cup {session.head}
            /\ \/ ledger' = ledger \cup {[n |-> gates, head |-> session.head]}
               \/ UNCHANGED ledger    \* the ledger could not be written
            /\ UNCHANGED <<active, arena>>
       ELSE /\ \/ session.head = session.base /\ Remove
               \/ UNCHANGED <<active, arena>>
            /\ UNCHANGED <<ledger, judged>>
    /\ UNCHANGED <<main, made, gates, deploy, undone, twice, unseen>>

Abandon ==
    /\ Free /\ active # NoTree /\ Remove
    /\ UNCHANGED <<main, made, session, verdict, gates, ledger, deploy, history>>

(* Denied, or 12 hours old. *)
Drop(e) ==
    /\ e \in ledger /\ ledger' = ledger \ {e}
    /\ UNCHANGED <<main, made, work, deploy, history>>
-----------------------------------------------------------------------------
(* executeMerge *)

(* Mutant: a worktree that moved on since the gate is merged all the same. *)
MayMergeAnyHead(e) == active # NoTree /\ verdict = "pass"

MayMerge(e) == active # NoTree /\ active.head = e.head /\ verdict = "pass"

(* The owner confirms: the action is consumed; then the checks, a checkpoint *)
(* of tracked changes, the merge, which may conflict, and the write to       *)
(* memory begins.  A head that is merged already makes no commit.            *)
Confirm(e) ==
    /\ proc = "up" /\ e \in ledger /\ ledger' = ledger \ {e}
    /\ \/ UNCHANGED <<main, made, merging, twice>>
       \/ /\ MayMerge(e)
          /\ LET head == active.head
                 prev == HEAD
             IN \/ /\ ~Merged(head) /\ CanCommit(1) /\ made' = made + 1
                   /\ NewMain(head)
                   /\ merging' = merging \cup {[prev |-> prev, merge |-> made']}
                   /\ UNCHANGED twice
                \/ /\ Merged(head) /\ twice' = TRUE
                   /\ merging' = merging \cup {[prev |-> prev, merge |-> prev]}
                   /\ UNCHANGED <<main, made>>
    /\ UNCHANGED <<work, learned, marker, failed, detecting, exiting, proc, sup,
                   reboots, judged, undone, unseen>>

NewMarker(m, ok) ==
    [prev |-> m.prev, merge |-> m.merge, exp |-> ok, old |-> FALSE]

(* The write to memory succeeded or not: the marker, the worktree that is    *)
(* active now goes, and the restart in three seconds.                        *)
MergeRecorded(m) ==
    /\ m \in merging /\ merging' = merging \ {m}
    /\ \E ok \in BOOLEAN :
          /\ learned' = [learned EXCEPT ![m.merge] =
                            IF ok /\ @ = "none" THEN "worked" ELSE @]
          /\ marker' = NewMarker(m, ok)
    /\ Remove
    /\ exiting' = TRUE
    /\ UNCHANGED <<main, made, session, verdict, gates, ledger, failed,
                   detecting, proc, sup, reboots, history>>
-----------------------------------------------------------------------------
(* The supervisor *)

Down ==
    /\ proc' = "down" /\ session' = Idle /\ merging' = {} /\ exiting' = FALSE
    /\ detecting' = [of |-> NoMarker, kept |-> FALSE]

(* Exit 42: the marker is looked at next.  A crash: it boots again. *)
Exit(code) ==
    /\ proc = "up" /\ Down
    /\ \/ code = "deploy" /\ exiting /\ UNCHANGED reboots
          /\ sup' = [at |-> "deploy", to |-> 0]
       \/ code = "crash" /\ reboots < MaxReboots /\ reboots' = reboots + 1
          /\ sup' = [at |-> "boot", to |-> 0]
    /\ UNCHANGED <<main, made, active, arena, verdict, gates, ledger, learned,
                   marker, failed, history>>

(* The machine goes down, or the owner restarts a supervisor that stopped.   *)
Reboot ==
    /\ reboots < MaxReboots /\ reboots' = reboots + 1
    /\ Down /\ sup' = [at |-> "boot", to |-> 0]
    /\ UNCHANGED <<main, made, active, arena, verdict, gates, ledger, learned,
                   marker, failed, history>>

(* The marker is kept as evidence, in the place of an earlier one that the   *)
(* program could not deal with yet.                                          *)
KeepMarker == /\ failed' = IF marker = NoMarker THEN failed ELSE marker
              /\ marker' = NoMarker

(* rollback: main is reset to a commit; the later ones are gone. *)
Rollback(to) ==
    /\ \E k \in 0..Len(main) :
          /\ \A i \in 1..Len(main) : main[i].sha <= to <=> i <= k
          /\ main' = SubSeq(main, 1, k)
    /\ undone' = undone \cup (Shas(main) \ Shas(main'))
    /\ KeepMarker
    /\ unseen' = unseen \cup (IF marker = NoMarker THEN Shas(main) \ Shas(main')
                                                 ELSE {failed.merge})

(* A marker that does not name HEAD counts as failed; nothing is rolled back. *)
Discard ==
    /\ KeepMarker /\ unseen' = unseen \cup {failed.merge}
    /\ sup' = [sup EXCEPT !.at = "boot"]

(* After exit 42: a marker that does not name HEAD is discarded; then        *)
(* npm ci and the gates, and the next boot has the rollback armed.  A        *)
(* rollback whose npm ci fails stops the supervisor.                         *)
Deploy ==
    /\ sup.at = "deploy"
    /\ \/ marker.merge # HEAD /\ Discard /\ UNCHANGED <<main, undone>>
       \/ /\ marker.merge = HEAD
          /\ sup' = [at |-> "boot", to |-> marker.prev]
          /\ UNCHANGED <<main, marker, failed, undone, unseen>>
       \/ /\ marker.merge = HEAD /\ Rollback(marker.prev)
          /\ sup' \in [at : {"boot", "stopped"}, to : {0}]
    /\ UNCHANGED <<made, work, ledger, merging, learned, detecting, exiting, proc,
                   reboots, judged, twice>>

Boot ==
    /\ sup.at = "boot"
    /\ sup' = [sup EXCEPT !.at = "watch"] /\ proc' = "starting"
    /\ UNCHANGED <<main, made, work, ledger, merging, learned, marker, failed,
                   detecting, exiting, reboots, history>>

(* bootSweep: detectRollback up to its first await, then the sweep of left   *)
(* over directories and of a marker that is not HEAD or older than 15        *)
(* minutes.                                                                  *)
Sweep ==
    /\ proc = "starting" /\ proc' = "swept"
    /\ detecting' =
          IF failed # NoMarker THEN [of |-> failed, kept |-> TRUE]
          ELSE IF marker # NoMarker /\ marker.merge \notin Shas(main)
          THEN [of |-> marker, kept |-> FALSE] ELSE detecting
    /\ marker' = IF marker.merge # HEAD \/ marker.old THEN NoMarker ELSE marker
    /\ arena' = (active # NoTree)
    /\ UNCHANGED <<main, made, active, session, verdict, gates, ledger, merging,
                   learned, failed, exiting, sup, reboots, history>>

(* detectRollback goes on: the experience is superseded.  Memory that is     *)
(* down answers null, and the evidence is cleared all the same; an exception *)
(* keeps it.                                                                 *)
Learn ==
    /\ detecting.of # NoMarker /\ proc # "down"
    /\ LET m == detecting.of.merge
       IN \/ /\ detecting.of.exp /\ learned' = [learned EXCEPT ![m] = "failed"]
             /\ failed' = IF detecting.kept THEN NoMarker ELSE failed
             /\ UNCHANGED unseen
          \/ /\ unseen' = unseen \cup {m} /\ UNCHANGED learned
             /\ failed' = IF detecting.kept THEN NoMarker ELSE failed
          \/ /\ unseen' = IF detecting.kept THEN unseen ELSE unseen \cup {m}
             /\ UNCHANGED <<learned, failed>>
    /\ detecting' = [of |-> NoMarker, kept |-> FALSE]
    /\ UNCHANGED <<main, made, work, ledger, merging, marker, exiting, proc, sup,
                   reboots, judged, undone, twice>>

Healthy ==
    /\ proc = "swept" /\ proc' = "up"
    /\ sup' = [sup EXCEPT !.to = 0]
    /\ UNCHANGED <<main, made, work, ledger, merging, learned, marker, failed,
                   detecting, exiting, reboots, history>>

(* The health check fails: roll back, or stop loud. *)
Unhealthy ==
    /\ proc \in {"starting", "swept"}
    /\ reboots < MaxReboots /\ reboots' = reboots + 1
    /\ Down
    /\ IF sup.to # 0
       THEN Rollback(sup.to) /\ sup' \in [at : {"boot", "stopped"}, to : {0}]
       ELSE /\ sup' = [sup EXCEPT !.at = "stopped"]
            /\ UNCHANGED <<main, marker, failed, undone, unseen>>
    /\ UNCHANGED <<made, active, arena, verdict, gates, ledger, learned, judged,
                   twice>>

(* A quarter of an hour passes: gates and installs take that long. *)
MarkerAges ==
    /\ marker # NoMarker /\ ~marker.old
    /\ marker' = [marker EXCEPT !.old = TRUE]
    /\ UNCHANGED <<main, made, work, ledger, merging, learned, failed, detecting,
                   exiting, proc, sup, reboots, history>>

Next ==
    \/ OwnerCommits \/ ArenaCommit \/ MarkerAges
    \/ Propose \/ SessionEnds \/ Retry \/ Abandon
    \/ \E pass \in BOOLEAN : GateEnds(pass)
    \/ \E e \in ledger : Drop(e) \/ Confirm(e)
    \/ \E m \in merging : MergeRecorded(m)
    \/ \E code \in {"deploy", "crash"} : Exit(code)
    \/ Reboot \/ Deploy \/ Boot \/ Sweep \/ Learn \/ Healthy \/ Unhealthy

(* Awaited work ends; the supervisor and the boot go on. *)
Awaited == \/ SessionEnds \/ \E pass \in BOOLEAN : GateEnds(pass)
           \/ \E m \in merging : MergeRecorded(m)
           \/ Exit("deploy") \/ Deploy \/ Boot \/ Sweep \/ Learn \/ Healthy
Spec == Init /\ [][Next]_vars /\ WF_vars(Awaited)
-----------------------------------------------------------------------------
(* Properties *)

(* Whatever is merged passed the gate as it is, although worktrees are       *)
(* abandoned, gated again and committed to while old confirmations of the    *)
(* same slug are still open (self-mod-service.ts:329, :288).                 *)
OnlyJudgedIsMerged == \A i \in 1..Len(main) : main[i].of \in judged \cup {0}

(* A deploy can be undone: the commit the supervisor would go back to is in  *)
(* main, in front of the merge, unless one head was confirmed twice before   *)
(* the first confirmation was through (self-mod-service.ts:340-360).         *)
DeployIsReversible ==
    sup.to # 0 => twice \/ /\ sup.to \in Shas(main)
                           /\ sup.to # HEAD

(* A merge that was rolled back does not stay in memory as one that worked:  *)
(* it is corrected, or the evidence is still there for the next boot, but    *)
(* for evidence the sweep or a memory that was down consumed                 *)
(* (self-mod-service.ts:104).                                                *)
RollbackIsLearned ==
    \A m \in undone : learned[m] = "worked" =>
        \/ m \in unseen \/ twice
        \/ marker.merge = m \/ failed.merge = m \/ detecting.of.merge = m
=============================================================================
