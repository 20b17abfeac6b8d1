------------------------------- MODULE Steward -------------------------------
(* The email steward (services/email-steward.ts): a poll reads the state     *)
(* file, walks through the new mail with a fetch, a judgement and a ping for *)
(* each, and writes the file at its end.  A poll changes only its copy, so   *)
(* fetch and judgement of a mail are one step.  The cron's poll and the      *)
(* heartbeat's may run at once; the heartbeat then drains the digest into    *)
(* its report.  One mail may lie in several mailboxes under its own id.      *)
(*                                                                           *)
(* Which mail has come, and which a query lists of it (two days, so many at  *)
(* most), is left open; SEEN_CAP, which is above that, is left out.          *)
EXTENDS Integers, FiniteSets

CONSTANTS
    Copies,     \* mailbox entries
    Mails,
    MailOf,     \* [Copies -> Mails], the Message-ID
    Fast,       \* mails of the fast lane: pinged without a judgement (a delivery is set)
    MaxTold,    \* bound: how often the owner is told of a mail
    MaxCrashes, \* bound
    None

Polls == {"cron", "beat"}

VARIABLES
    seen,     \* email-seen.json: ids and Message-IDs
    digest,   \* email-seen.json: flagged mail that waits for the heartbeat
    poll,     \* the polls: where each awaits, its copy of the file, its list
    report,   \* what the heartbeat drained and has not sent
    told,     \* history: how often the owner was told of a mail
    lost,     \* history: mails a failed fetch or send, or a crash, lost
    flagged,  \* history: mails found to need the owner
    shared,   \* history: two polls ran at once
    crashes   \* how often the process died in a poll

vars == <<seen, digest, poll, report, told, lost, flagged, shared,
          crashes>>

Resting == [pc |-> "idle", seen |-> {}, digest |-> {}, left |-> {}, at |-> None]

TypeOK ==
    /\ seen \subseteq Copies \cup Mails /\ digest \subseteq Mails
    /\ \A p \in Polls :
          /\ poll[p].pc \in {"idle", "next", "pinging", "drain", "report"}
          /\ poll[p].seen \subseteq Copies \cup Mails /\ poll[p].digest \subseteq Mails
          /\ poll[p].left \subseteq Copies /\ poll[p].at \in Mails \cup {None}
    /\ {report, lost, flagged} \subseteq SUBSET Mails
    /\ told \in [Mails -> 0..MaxTold] /\ shared \in BOOLEAN
    /\ crashes \in 0..MaxCrashes

Init ==
    /\ seen = {} /\ digest = {} /\ report = {} /\ lost = {} /\ flagged = {}
    /\ poll = [p \in Polls |-> Resting] /\ told = [m \in Mails |-> 0] /\ shared = FALSE
    /\ crashes = 0

-----------------------------------------------------------------------------
Store == UNCHANGED <<seen, digest>>
Tells(ms) == told' = [m \in Mails |-> IF m \in ms /\ told[m] < MaxTold
                                      THEN told[m] + 1 ELSE told[m]]

(* loadState, then each mailbox is asked for its mail: the ids that are new, *)
(* none where the query fails.                                               *)
Load(p, left) ==
    /\ poll[p].pc = "idle" /\ left \subseteq Copies \ seen
    /\ poll' = [poll EXCEPT ![p] = [pc |-> "next", seen |-> seen, digest |-> digest,
                                    left |-> left, at |-> None]]
    /\ shared' = (shared \/ \E q \in Polls \ {p} : poll[q].pc # "idle")
    /\ Store /\ UNCHANGED <<report, told, lost, flagged, crashes>>

(* The next id: it counts as seen from now on, in this poll's copy.          *)
From(p, x) == [poll EXCEPT ![p].left = @ \ {x}, ![p].seen = @ \cup {x}]

(* The fetch fails, and so does the mail: nobody looks at its id again.      *)
NotFetched(p, x) ==
    /\ poll[p].pc = "next" /\ x \in poll[p].left
    /\ poll' = From(p, x) /\ lost' = lost \cup {MailOf[x]}
    /\ Store /\ UNCHANGED <<report, told, flagged, shared, crashes>>

(* The Message-ID was seen under another id. *)
Known(p, m) == m \in poll[p].seen

(* What becomes of a mail: bulk mail and what the model does not find worth  *)
(* it (or fails on) is passed over, the rest waits in the digest, but for    *)
(* the fast lane, and watched senders found in the spam, who are pinged.     *)
Ways(m) == IF m \in Fast THEN {"pinging"} ELSE {"passed", "digest", "pinging"}

(* Fetched, and judged unless the sender decides. *)
Fetched(p, x) ==
    /\ poll[p].pc = "next" /\ x \in poll[p].left
    /\ LET m == MailOf[x]
           on == [From(p, x) EXCEPT ![p].seen = @ \cup {m}]
       IN \E way \in IF Known(p, m) THEN {"passed"} ELSE Ways(m) :
          /\ flagged' = IF way = "passed" THEN flagged ELSE flagged \cup {m}
          /\ poll' = CASE way = "passed" -> on
                       [] way = "digest" -> [on EXCEPT ![p].digest = @ \cup {m}]
                       [] way = "pinging" -> [on EXCEPT ![p].pc = "pinging", ![p].at = m]
    /\ Store /\ UNCHANGED <<report, told, lost, shared, crashes>>

(* The ping arrives, or fails and is not repeated. *)
Pinged(p, ok) ==
    /\ poll[p].pc = "pinging"
    /\ poll' = [poll EXCEPT ![p].pc = "next", ![p].at = None]
    /\ IF ok THEN Tells({poll[p].at}) /\ UNCHANGED lost
       ELSE lost' = lost \cup {poll[p].at} /\ UNCHANGED told
    /\ Store /\ UNCHANGED <<report, flagged, shared, crashes>>

(* saveState: the file becomes this poll's copy. *)
Save(p) ==
    /\ poll[p].pc = "next" /\ poll[p].left = {}
    /\ seen' = poll[p].seen /\ digest' = poll[p].digest
    /\ poll' = [poll EXCEPT ![p] = IF p = "beat" THEN [Resting EXCEPT !.pc = "drain"]
                                   ELSE Resting]
    /\ UNCHANGED <<report, told, lost, flagged, shared, crashes>>

(* drainDigest *)
Drain ==
    /\ poll["beat"].pc = "drain"
    /\ report' = digest /\ digest' = {}
    /\ poll' = [poll EXCEPT !["beat"].pc = "report"]
    /\ UNCHANGED <<seen, told, lost, flagged, shared, crashes>>

(* The heartbeat's report is sent once. *)
Reported(ok) ==
    /\ poll["beat"].pc = "report" /\ report' = {}
    /\ poll' = [poll EXCEPT !["beat"] = Resting]
    /\ IF ok THEN Tells(report) /\ UNCHANGED lost
       ELSE lost' = lost \cup report /\ UNCHANGED told
    /\ Store /\ UNCHANGED <<flagged, shared, crashes>>

(* The polls are gone, the file stays. *)
Crash ==
    /\ crashes < MaxCrashes /\ crashes' = crashes + 1
    /\ \E p \in Polls : poll[p].pc # "idle"
    /\ poll' = [p \in Polls |-> Resting] /\ report' = {} /\ lost' = lost \cup report
    /\ Store /\ UNCHANGED <<told, flagged, shared>>

Poll(p) == \/ Save(p) \/ \E x \in Copies : NotFetched(p, x) \/ Fetched(p, x)
           \/ \E left \in SUBSET Copies : Load(p, left)
           \/ \E ok \in BOOLEAN : Pinged(p, ok)
Report == Drain \/ \E ok \in BOOLEAN : Reported(ok)

Next == \/ \E p \in Polls : Poll(p)
        \/ Report \/ Crash

Goes(p) == Poll(p) \/ (p = "beat" /\ Report)

AllListed(p) == Load(p, Copies \ seen)

(* Both schedules come round again and their calls end; every mail comes,    *)
(* and a mailbox that is asked again and again answers in the end.           *)
Spec == Init /\ [][Next]_vars
        /\ \A p \in Polls : WF_vars(Goes(p)) /\ SF_vars(AllListed(p))
-----------------------------------------------------------------------------
(* Properties *)

(* The owner is told once of a mail that needs him, wherever it landed first *)
(* (email-steward.ts:209), as long as polls come one after the other.        *)
ToldOnce == ~shared /\ crashes = 0 => \A m \in Mails : told[m] <= 1

(* A mail found to need the owner is told to him or on its way: only a fetch *)
(* or send that failed, a crash with a drained digest, and polls that ran at *)
(* once lose it.                                                             *)
FlaggedIsKept ==
    ~shared /\ crashes = 0 => \A m \in flagged \ lost :
        \/ told[m] > 0 \/ m \in digest \cup report
        \/ \E p \in Polls : m \in poll[p].digest \/ poll[p].at = m

=============================================================================
