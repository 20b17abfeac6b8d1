---------------------------- MODULE KeepingProofs -----------------------------
(* The owner is not bothered twice, what is kept is found again as it is,    *)
(* and what is learned was earned: proved side by side for the preparation   *)
(* of events, the document vault, the web index, lessons, experiences,       *)
(* proposals, the review of facts and the mail steward, for any bounds.      *)
EXTENDS MCKeeping, FiniteSetTheorems

-----------------------------------------------------------------------------
(* Proposals.  An open one whose record was written is the latest entry of   *)
(* its failure, by the id that only it has; a denial is in the history, or   *)
(* among the rows the next heartbeat reads, and no draft is then under way.  *)

Outcomes == {"none", "proposed", "denied", "confirmed"}

HistoryShape ==
    /\ history \in [Signatures -> [outcome : Outcomes, id : Nat, cooled : BOOLEAN]]
    /\ last \in Nat /\ open \subseteq (1..last) \X Signatures /\ rows \subseteq 1..last
    /\ drafting \in Signatures \cup {None} /\ denied \cup orphans \subseteq Signatures

IdsOnce == /\ \A p, q \in open : p[1] = q[1] => p = q
           /\ \A p \in open : p[1] \notin rows

OpenIsLatest == \A p \in open : p[2] \notin orphans =>
    /\ history[p[2]].outcome = "proposed" /\ history[p[2]].id = p[1]
    /\ ~history[p[2]].cooled /\ drafting # p[2]

DenialCounts == \A s \in denied \ orphans :
    /\ drafting # s
    /\ \/ history[s].outcome = "denied"
       \/ history[s].outcome = "proposed" /\ history[s].id \in rows

ProposalsInv == HistoryShape /\ IdsOnce /\ OpenIsLatest /\ DenialCounts

LEMMA ProposalsInit == A!Init => ProposalsInv
  BY DEF A!Init, A!NoEntry, ProposalsInv, HistoryShape, IdsOnce, OpenIsLatest, DenialCounts,
         Outcomes

LEMMA BeatKeeps == ProposalsInv /\ A!Beat => ProposalsInv'
  <1> SUFFICES ASSUME ProposalsInv, A!Beat PROVE ProposalsInv'
    OBVIOUS
  <1> USE DEF ProposalsInv
  <1>1. /\ history' \in [Signatures -> [outcome : Outcomes, id : Nat, cooled : BOOLEAN]]
        /\ \A s \in Signatures :
              history'[s] = IF history[s].outcome = "proposed" /\ history[s].id \in rows
                            THEN [history[s] EXCEPT !.outcome = "denied"] ELSE history[s]
    BY DEF A!Beat, A!Absorbed, HistoryShape, Outcomes
  <1>2. /\ drafting' \in Signatures \cup {None}
        /\ drafting' # None => /\ history'[drafting'].outcome # "denied"
                               /\ history'[drafting'].cooled
    BY DEF A!Beat, A!Eligible
  <1>3. HistoryShape' /\ IdsOnce'
    BY <1>1, <1>2 DEF A!Beat, HistoryShape, IdsOnce
  <1>4. ASSUME NEW p \in open, p[2] \notin orphans
        PROVE  /\ history'[p[2]] = history[p[2]]
               /\ drafting' # p[2]
    <2>1. p[2] \in Signatures /\ history[p[2]].id \notin rows /\ ~history[p[2]].cooled
      BY <1>4 DEF HistoryShape, IdsOnce, OpenIsLatest
    <2>2. history'[p[2]] = history[p[2]]
      BY <1>1, <2>1
    <2> QED
      BY <1>2, <2>1, <2>2, KeysAssumption
  <1>5. OpenIsLatest'
    BY <1>4 DEF A!Beat, OpenIsLatest
  <1>6. ASSUME NEW s \in denied \ orphans
        PROVE  history'[s].outcome = "denied" /\ drafting' # s
    <2>1. s \in Signatures
      BY DEF HistoryShape
    <2>2. history'[s].outcome = "denied"
      BY <1>1, <2>1, <1>6 DEF DenialCounts, HistoryShape
    <2> QED
      BY <1>2, <2>1, <2>2, KeysAssumption
  <1>7. DenialCounts'
    BY <1>6 DEF A!Beat, DenialCounts
  <1> QED
    BY <1>3, <1>5, <1>7

LEMMA ProposedKeeps ==
  ASSUME ProposalsInv, NEW written \in BOOLEAN, A!Proposed(written)
  PROVE  ProposalsInv'
  <1> USE DEF ProposalsInv
  <1> DEFINE s == drafting
             new == [outcome |-> "proposed", id |-> last + 1, cooled |-> FALSE]
  <1>1. /\ s \in Signatures /\ s # None /\ drafting' = None /\ last' = last + 1
        /\ open' = open \cup {<<last + 1, s>>} /\ rows' = rows /\ denied' = denied
    BY DEF A!Proposed, HistoryShape
  <1>2. \/ history' = [history EXCEPT ![s] = new] /\ orphans' = orphans
        \/ history' = history /\ orphans' = orphans \cup {s}
    BY <1>1 DEF A!Proposed
  <1>3. last \in Nat /\ new \in [outcome : Outcomes, id : Nat, cooled : BOOLEAN]
    BY DEF HistoryShape, Outcomes
  <1>4. HistoryShape'
    <2>1. history' \in [Signatures -> [outcome : Outcomes, id : Nat, cooled : BOOLEAN]]
      BY <1>1, <1>2, <1>3 DEF HistoryShape
    <2>2. 1..last \subseteq 1..last' /\ last + 1 \in 1..last' /\ last' \in Nat
      BY <1>1, <1>3
    <2>3. open' \subseteq (1..last') \X Signatures /\ rows' \subseteq 1..last'
      BY <1>1, <2>2 DEF HistoryShape
    <2>4. denied' \cup orphans' \subseteq Signatures
      BY <1>1, <1>2 DEF HistoryShape
    <2> QED
      BY <1>1, <2>1, <2>2, <2>3, <2>4 DEF HistoryShape
  <1>5. IdsOnce'
    BY <1>1 DEF IdsOnce, HistoryShape
  <1>6. \A p \in open : p[2] # s \/ p[2] \in orphans
    BY DEF OpenIsLatest
  <1>7. history'[s] = new \/ s \in orphans'
    BY <1>1, <1>2 DEF HistoryShape
  <1>8. orphans \subseteq orphans' /\ \A t \in Signatures : t # s => history'[t] = history[t]
    BY <1>1, <1>2 DEF HistoryShape
  <1>9. ASSUME NEW p \in open', p[2] \notin orphans'
        PROVE  /\ history'[p[2]].outcome = "proposed" /\ history'[p[2]].id = p[1]
               /\ ~history'[p[2]].cooled /\ drafting' # p[2]
    <2>1. CASE p = <<last + 1, s>>
      BY <1>1, <1>7, <1>9, <2>1
    <2>2. CASE p \in open
      <3>1. p[2] \in Signatures /\ p[2] # s
        BY <2>2, <1>6, <1>8, <1>9 DEF HistoryShape
      <3>2. history'[p[2]] = history[p[2]] /\ p[2] \notin orphans
        BY <3>1, <1>8, <1>9
      <3>3. p[2] # None
        BY <3>1, KeysAssumption
      <3> QED
        BY <2>2, <3>1, <3>2, <3>3, <1>1 DEF OpenIsLatest
    <2> QED
      BY <2>1, <2>2, <1>1
  <1>10. OpenIsLatest'
    BY <1>9 DEF OpenIsLatest
  <1>11. DenialCounts'
    BY <1>1, <1>8, KeysAssumption DEF DenialCounts, HistoryShape
  <1> QED
    BY <1>4, <1>5, <1>10, <1>11

LEMMA ClosedKeeps ==
  ASSUME ProposalsInv, NEW p \in open, A!Deny(p) \/ A!Confirm(p) \/ A!Expire(p)
  PROVE  ProposalsInv'
  <1> USE DEF ProposalsInv
  <1>0. /\ p[1] \in 1..last /\ p[2] \in Signatures /\ open' = open \ {p} /\ last' = last
        /\ drafting' = drafting /\ orphans' = orphans
    BY DEF A!Deny, A!Confirm, A!Expire, HistoryShape
  <1>1. ASSUME NEW q \in open', q[2] \notin orphans
        PROVE  q[2] # p[2] /\ q \in open /\ q[2] \in Signatures
    <2>1. q \in open /\ q # p /\ q[2] \in Signatures
      BY <1>0 DEF HistoryShape
    <2>2. CASE q[2] = p[2]
      <3>1. q[1] = p[1]
        BY <1>1, <2>1, <2>2 DEF OpenIsLatest
      <3> QED
        BY <2>1, <3>1 DEF IdsOnce
    <2> QED
      BY <2>1, <2>2
  <1>2. CASE A!Deny(p)
    <2>1. /\ history' = history /\ rows' = rows \cup {p[1]} /\ denied' = denied \cup {p[2]}
      BY <1>2 DEF A!Deny
    <2>2. HistoryShape' /\ OpenIsLatest'
      BY <1>0, <2>1 DEF HistoryShape, OpenIsLatest
    <2>3. IdsOnce'
      BY <1>0, <2>1 DEF IdsOnce
    <2>4. DenialCounts'
      BY <1>0, <2>1 DEF DenialCounts, OpenIsLatest, HistoryShape
    <2> QED
      BY <2>2, <2>3, <2>4
  <1>3. CASE A!Confirm(p)
    <2> DEFINE new == [outcome |-> "confirmed", id |-> 0, cooled |-> FALSE]
    <2>1. /\ history' = [history EXCEPT ![p[2]] = new] /\ rows' = rows /\ denied' = denied
          /\ new \in [outcome : Outcomes, id : Nat, cooled : BOOLEAN]
      BY <1>3 DEF A!Confirm, Outcomes
    <2> HIDE DEF new
    <2>2. HistoryShape'
      BY <1>0, <2>1 DEF HistoryShape
    <2>3. IdsOnce'
      BY <1>0, <2>1 DEF IdsOnce
    <2>4. \A t \in Signatures : t # p[2] => history'[t] = history[t]
      BY <1>0, <2>1 DEF HistoryShape
    <2>5. OpenIsLatest'
      BY <1>0, <1>1, <2>4 DEF OpenIsLatest
    <2>6. p[2] \notin denied \ orphans
      BY <1>0 DEF DenialCounts, OpenIsLatest, IdsOnce
    <2>7. DenialCounts'
      BY <1>0, <2>1, <2>4, <2>6 DEF DenialCounts, HistoryShape
    <2> QED
      BY <2>2, <2>3, <2>5, <2>7
  <1>4. CASE A!Expire(p)
    BY <1>0, <1>4 DEF A!Expire, HistoryShape, IdsOnce, OpenIsLatest, DenialCounts
  <1> QED
    BY <1>2, <1>3, <1>4

LEMMA CooledKeeps ==
  ASSUME ProposalsInv, NEW s \in Signatures, A!Cool(s)
  PROVE  ProposalsInv'
  <1> USE DEF ProposalsInv
  <1>1. /\ history' = [history EXCEPT ![s].cooled = TRUE] /\ open' = open /\ rows' = rows
        /\ drafting' = drafting /\ last' = last /\ denied' = denied /\ orphans' = orphans
        /\ \A p \in open : p[2] # s \/ s \in orphans
    BY DEF A!Cool
  <1>2. /\ history' \in [Signatures -> [outcome : Outcomes, id : Nat, cooled : BOOLEAN]]
        /\ \A t \in Signatures : /\ t # s => history'[t] = history[t]
                                /\ history'[t].outcome = history[t].outcome
                                /\ history'[t].id = history[t].id
    BY <1>1 DEF HistoryShape
  <1>3. HistoryShape' /\ IdsOnce'
    BY <1>1, <1>2 DEF HistoryShape, IdsOnce
  <1>4. OpenIsLatest'
    BY <1>1, <1>2 DEF OpenIsLatest, HistoryShape
  <1>5. DenialCounts'
    BY <1>1, <1>2 DEF DenialCounts, HistoryShape
  <1> QED
    BY <1>3, <1>4, <1>5

LEMMA ProposalsStep == ASSUME ProposalsInv, [A!Next]_proposalVars PROVE ProposalsInv'
  <1>1. CASE UNCHANGED proposalVars
    BY <1>1 DEF proposalVars, ProposalsInv, HistoryShape, IdsOnce, OpenIsLatest, DenialCounts
  <1>2. CASE A!NotProposed
    BY <1>2, KeysAssumption DEF A!NotProposed, ProposalsInv, HistoryShape, IdsOnce,
                                OpenIsLatest, DenialCounts
  <1> QED
    BY <1>1, <1>2, BeatKeeps, ProposedKeeps, ClosedKeeps, CooledKeeps DEF A!Next

(* Neither is a denied failure put again, nor one that is open. *)
LEMMA ProposedOnce == ProposalsInv => A!DeniedForGood /\ A!AskedOnce
  <1> SUFFICES ASSUME ProposalsInv PROVE A!DeniedForGood /\ A!AskedOnce
    OBVIOUS
  <1>1. A!DeniedForGood
    BY DEF ProposalsInv, IdsOnce, OpenIsLatest, DenialCounts, A!DeniedForGood
  <1>2. A!AskedOnce
    BY DEF ProposalsInv, IdsOnce, OpenIsLatest, A!AskedOnce
  <1> QED
    BY <1>1, <1>2

-----------------------------------------------------------------------------
(* Mail.  While polls come one after the other, the one under way has a copy *)
(* of the file that holds all of it; what it pings, what waits in a digest   *)
(* and what a report drained are mails that were seen and not yet told.      *)

Polls == J!Polls
PollRec == [pc : {"idle", "next", "pinging", "drain", "report"},
            seen : SUBSET (Copies \cup Mails), digest : SUBSET Mails,
            left : SUBSET Copies, at : Mails \cup {None}]

MailShape ==
    /\ poll \in [Polls -> PollRec] /\ tellings \in [Mails -> Nat] /\ crashes \in Nat
    /\ listed \subseteq Copies \cup Mails /\ digest \subseteq Mails
    /\ {report, mailLost, flagged} \subseteq SUBSET Mails /\ shared \in BOOLEAN
    /\ \A p \in Polls : poll[p].pc = "pinging" => poll[p].at \in Mails

Unshared == ~shared /\ crashes = 0
InHand(p) == poll[p].pc \in {"next", "pinging"}

OnePoll == \A p, q \in Polls : p # q => poll[p].pc = "idle" \/ poll[q].pc = "idle"

AtRest == \A p \in Polls :
    /\ ~InHand(p) => poll[p].seen = {} /\ poll[p].digest = {} /\ poll[p].left = {}
    /\ poll[p].pc # "pinging" => poll[p].at = None
    /\ poll[p].pc \in {"drain", "report"} => p = "beat"

CopyGrows == \A p \in Polls :
    InHand(p) => listed \subseteq poll[p].seen /\ digest \subseteq poll[p].digest

PingIsFirst == \A p \in Polls : poll[p].pc = "pinging" =>
    /\ poll[p].at \in Mails /\ poll[p].at \in poll[p].seen
    /\ tellings[poll[p].at] = 0 /\ poll[p].at \notin poll[p].digest

WaitsUntold ==
    /\ \A m \in digest : m \in listed /\ tellings[m] = 0
    /\ \A p \in Polls, m \in Mails :
          m \in poll[p].digest => m \in poll[p].seen /\ tellings[m] = 0

DrainedUntold ==
    /\ report # {} => poll["beat"].pc = "report"
    /\ \A m \in report : m \in listed /\ tellings[m] = 0 /\ m \notin digest

ToldIsSeen == \A m \in Mails : tellings[m] > 0 =>
    m \in listed \/ \E p \in Polls : m \in poll[p].seen

ToldAtMostOnce == \A m \in Mails : tellings[m] <= 1

FlaggedIsHeld == \A m \in flagged \ mailLost :
    \/ tellings[m] > 0 \/ m \in digest \cup report
    \/ \E p \in Polls : m \in poll[p].digest \/ poll[p].at = m

MailOrder == /\ OnePoll /\ AtRest /\ CopyGrows /\ PingIsFirst /\ WaitsUntold
             /\ DrainedUntold /\ ToldIsSeen /\ ToldAtMostOnce /\ FlaggedIsHeld

MailInv == MailShape /\ (Unshared => MailOrder)

LEMMA BeatPolls == "beat" \in Polls
  BY DEF Polls, J!Polls

LEMMA MailInit == F!Init => MailInv
  <1> SUFFICES ASSUME F!Init PROVE MailInv
    OBVIOUS
  <1>1. /\ poll = [p \in Polls |-> [pc |-> "idle", seen |-> {}, digest |-> {},
                                    left |-> {}, at |-> None]]
        /\ listed = {} /\ digest = {} /\ report = {} /\ mailLost = {} /\ flagged = {}
        /\ tellings = [m \in Mails |-> 0] /\ shared = FALSE /\ crashes = 0
    BY DEF F!Init, F!Resting, F!Polls, Polls, J!Polls
  <1>2. MailShape
    BY <1>1 DEF MailShape, PollRec
  <1>3. OnePoll /\ AtRest /\ CopyGrows /\ PingIsFirst
    BY <1>1 DEF OnePoll, AtRest, CopyGrows, PingIsFirst, InHand
  <1>4. WaitsUntold /\ DrainedUntold /\ ToldIsSeen /\ ToldAtMostOnce /\ FlaggedIsHeld
    BY <1>1, BeatPolls DEF WaitsUntold, DrainedUntold, ToldIsSeen, ToldAtMostOnce,
                           FlaggedIsHeld
  <1> QED
    BY <1>2, <1>3, <1>4 DEF MailInv, MailOrder

(* A step of one poll leaves the other's progress. *)
OthersStay(p) == \A q \in Polls : q # p => poll'[q] = poll[q]

(* A poll in hand is alone, and nothing drained waits. *)
LEMMA AloneInHand ==
  ASSUME MailOrder, NEW p \in Polls, InHand(p)
  PROVE  /\ report = {}
         /\ \A q \in Polls : q # p => /\ poll[q].pc = "idle" /\ poll[q].seen = {}
                                      /\ poll[q].digest = {} /\ poll[q].at = None
  BY BeatPolls DEF MailOrder, OnePoll, AtRest, DrainedUntold, InHand

LEMMA LoadKeeps ==
  ASSUME MailInv, NEW p \in Polls, NEW more \in SUBSET Copies, J!Load(p, more)
  PROVE  MailInv'
  <1> DEFINE r == [pc |-> "next", seen |-> listed, digest |-> digest, left |-> more,
                   at |-> None]
  <1>1. /\ poll[p].pc = "idle" /\ poll' = [poll EXCEPT ![p] = r]
        /\ shared' = (shared \/ \E q \in Polls \ {p} : poll[q].pc # "idle")
        /\ listed' = listed /\ digest' = digest /\ report' = report /\ tellings' = tellings
        /\ mailLost' = mailLost /\ flagged' = flagged /\ crashes' = crashes
    BY DEF J!Load, J!Store, Polls
  <1>2. MailShape /\ r \in PollRec
    BY DEF MailInv, MailShape, PollRec
  <1>3. /\ r.pc = "next" /\ r.seen = listed /\ r.digest = digest /\ r.at = None
        /\ poll'[p] = r /\ OthersStay(p) /\ poll' \in [Polls -> PollRec]
    BY <1>1, <1>2 DEF MailShape, OthersStay
  <1> HIDE DEF r
  <1>4. shared' \in BOOLEAN
    BY <1>1, <1>2 DEF MailShape
  <1>5. MailShape'
    BY <1>1, <1>2, <1>3, <1>4 DEF MailShape, OthersStay
  <1>6. ASSUME Unshared' PROVE MailOrder'
    <2>1. MailOrder /\ \A q \in Polls : q # p => poll[q].pc = "idle"
      BY <1>1, <1>6 DEF MailInv, Unshared
    <2>2. \A q \in Polls : q # p => /\ poll'[q].pc = "idle" /\ poll'[q].seen = {}
                                    /\ poll'[q].digest = {} /\ poll'[q].at = None
                                    /\ poll'[q].left = {}
      BY <2>1, <1>3 DEF MailOrder, AtRest, OthersStay, InHand
    <2>3. poll[p].digest = {} /\ poll[p].at = None /\ poll[p].seen = {}
      BY <1>1, <2>1 DEF MailOrder, AtRest, InHand
    <2>4. report = {}
      BY <1>1, <2>1, BeatPolls DEF MailOrder, DrainedUntold
    <2>5. OnePoll' /\ AtRest' /\ CopyGrows' /\ PingIsFirst'
      BY <1>1, <1>3, <2>2 DEF OnePoll, AtRest, CopyGrows, PingIsFirst, InHand
    <2>6. WaitsUntold' /\ DrainedUntold'
      BY <1>1, <1>3, <2>1, <2>2, <2>4 DEF MailOrder, WaitsUntold, DrainedUntold
    <2>7. ToldIsSeen' /\ ToldAtMostOnce'
      BY <1>1, <1>3, <2>1, <2>2, <2>3 DEF MailOrder, ToldIsSeen, ToldAtMostOnce, OthersStay
    <2>8. FlaggedIsHeld'
      BY <1>1, <1>3, <2>1, <2>3 DEF MailOrder, FlaggedIsHeld, OthersStay
    <2> QED
      BY <2>5, <2>6, <2>7, <2>8 DEF MailOrder
  <1> QED
    BY <1>5, <1>6 DEF MailInv

(* The steps of a poll between loading and saving: where it is now, what its *)
(* copy gained, and the mail it leaves the file with.                        *)
LEMMA InHandKeeps ==
  ASSUME MailInv, NEW p \in Polls, InHand(p), OthersStay(p),
         poll' \in [Polls -> PollRec],
         poll'[p].pc \in {"next", "pinging"},
         poll'[p].pc = "pinging" => poll'[p].at \in Mails,
         listed' = listed, digest' = digest, report' = report, shared' = shared,
         crashes' = crashes,
         poll[p].seen \subseteq poll'[p].seen, poll[p].digest \subseteq poll'[p].digest,
         tellings' \in [Mails -> Nat], mailLost' \subseteq Mails, flagged' \subseteq Mails,
         MailOrder => /\ PingIsFirst' /\ ToldIsSeen' /\ ToldAtMostOnce' /\ FlaggedIsHeld'
                      /\ poll'[p].pc # "pinging" => poll'[p].at = None
                      /\ \A m \in Mails : m \in poll'[p].digest =>
                            m \in poll'[p].seen /\ tellings'[m] = 0
  PROVE  MailInv'
  <1>1. MailShape'
    BY DEF MailInv, MailShape, OthersStay
  <1>2. ASSUME Unshared' PROVE MailOrder'
    <2>1. MailOrder
      BY <1>2 DEF MailInv, Unshared
    <2>2. /\ report = {}
          /\ \A q \in Polls : q # p => /\ poll[q].pc = "idle" /\ poll[q].seen = {}
                                       /\ poll[q].digest = {} /\ poll[q].at = None
      BY <2>1, AloneInHand
    <2>3. OnePoll' /\ CopyGrows'
      BY <2>1, <2>2 DEF MailOrder, OnePoll, CopyGrows, InHand, OthersStay
    <2>4. AtRest'
      BY <2>1, <2>2 DEF MailOrder, AtRest, InHand, OthersStay
    <2>5. \A m \in digest : m \in Mails /\ m \in poll'[p].digest
      BY <2>1 DEF MailOrder, CopyGrows, MailInv, MailShape
    <2>6. WaitsUntold'
      <3>1. \A m \in digest' : m \in listed' /\ tellings'[m] = 0
        BY <2>1, <2>5 DEF MailOrder, WaitsUntold
      <3>2. \A q \in Polls, m \in Mails :
                m \in poll'[q].digest => m \in poll'[q].seen /\ tellings'[m] = 0
        BY <2>1, <2>2 DEF OthersStay
      <3> QED
        BY <3>1, <3>2 DEF WaitsUntold
    <2>7. DrainedUntold'
      BY <2>2 DEF DrainedUntold
    <2> QED
      BY <2>1, <2>3, <2>4, <2>6, <2>7 DEF MailOrder
  <1> QED
    BY <1>1, <1>2 DEF MailInv

LEMMA NotFetchedKeeps ==
  ASSUME MailInv, NEW p \in Polls, NEW x \in Copies, J!NotFetched(p, x)
  PROVE  MailInv'
  <1>1. /\ poll[p].pc = "next" /\ x \in poll[p].left /\ mailLost' = mailLost \cup {MailOf[x]}
        /\ listed' = listed /\ digest' = digest /\ report' = report /\ tellings' = tellings
        /\ flagged' = flagged /\ shared' = shared /\ crashes' = crashes
    BY DEF J!NotFetched, J!Store
  <1>2. MailShape /\ MailOf[x] \in Mails
    BY MailAssumption DEF MailInv
  <1>3. /\ poll' \in [Polls -> PollRec] /\ OthersStay(p)
        /\ poll'[p].pc = "next" /\ poll'[p].seen = poll[p].seen \cup {x}
        /\ poll'[p].digest = poll[p].digest /\ poll'[p].at = poll[p].at
    BY <1>2 DEF J!NotFetched, J!From, MailShape, PollRec, OthersStay
  <1>4. ASSUME MailOrder
        PROVE  /\ PingIsFirst' /\ ToldIsSeen' /\ ToldAtMostOnce' /\ FlaggedIsHeld'
               /\ poll'[p].pc # "pinging" => poll'[p].at = None
               /\ \A m \in Mails : m \in poll'[p].digest =>
                     m \in poll'[p].seen /\ tellings'[m] = 0
    <2>1. PingIsFirst'
      BY <1>1, <1>3, <1>4 DEF MailOrder, PingIsFirst, OthersStay
    <2>2. ToldIsSeen' /\ ToldAtMostOnce'
      BY <1>1, <1>3, <1>4 DEF MailOrder, ToldIsSeen, ToldAtMostOnce, OthersStay
    <2>3. FlaggedIsHeld'
      BY <1>1, <1>3, <1>4 DEF MailOrder, FlaggedIsHeld, OthersStay
    <2>4. poll'[p].at = None
      BY <1>1, <1>3, <1>4 DEF MailOrder, AtRest
    <2>5. \A m \in Mails : m \in poll'[p].digest => m \in poll'[p].seen /\ tellings'[m] = 0
      BY <1>1, <1>3, <1>4 DEF MailOrder, WaitsUntold
    <2> QED
      BY <2>1, <2>2, <2>3, <2>4, <2>5
  <1> QED
    BY <1>1, <1>2, <1>3, <1>4, InHandKeeps DEF InHand, MailShape

LEMMA FetchedKeeps ==
  ASSUME MailInv, NEW p \in Polls, NEW x \in Copies,
         F!Fetched(p, x) \/ J!Fetched(p, x)
  PROVE  MailInv'
  <1> DEFINE m == MailOf[x]
  <1>1. /\ poll[p].pc = "next" /\ x \in poll[p].left
        /\ listed' = listed /\ digest' = digest /\ report' = report /\ tellings' = tellings
        /\ mailLost' = mailLost /\ shared' = shared /\ crashes' = crashes
    BY DEF F!Fetched, F!Store, J!Fetched, J!Store
  <1>2. MailShape /\ m \in Mails
    BY MailAssumption DEF MailInv
  <1> DEFINE on == [poll EXCEPT ![p].left = @ \ {x}, ![p].seen = @ \cup {x}]
             in == [on EXCEPT ![p].seen = @ \cup {m}]
  <1>3. PICK way \in {"passed", "digest", "pinging"} :
           /\ m \in poll[p].seen => way = "passed"
           /\ flagged' = IF way = "passed" THEN flagged ELSE flagged \cup {m}
           /\ poll' = CASE way = "passed" -> in
                        [] way = "digest" -> [in EXCEPT ![p].digest = @ \cup {m}]
                        [] way = "pinging" -> [in EXCEPT ![p].pc = "pinging", ![p].at = m]
    <2>1. CASE J!Fetched(p, x)
      BY <2>1 DEF J!Fetched, J!From, J!Known, J!Ways
    <2>2. CASE F!Fetched(p, x)
      BY <2>2 DEF F!Fetched, F!From, F!Known, F!Ways
    <2> QED
      BY <2>1, <2>2
  <1>4. /\ in \in [Polls -> PollRec] /\ \A q \in Polls : q # p => in[q] = poll[q]
        /\ in[p].pc = "next" /\ in[p].seen = poll[p].seen \cup {x, m}
        /\ in[p].digest = poll[p].digest /\ in[p].at = poll[p].at
    <2>1. /\ on \in [Polls -> PollRec] /\ \A q \in Polls : q # p => on[q] = poll[q]
          /\ on[p].pc = "next" /\ on[p].seen = poll[p].seen \cup {x}
          /\ on[p].digest = poll[p].digest /\ on[p].at = poll[p].at
      BY <1>1, <1>2 DEF MailShape, PollRec
    <2> HIDE DEF on
    <2> QED
      BY <1>2, <2>1 DEF PollRec
  <1> HIDE DEF in, m
  <1>5. /\ poll' \in [Polls -> PollRec] /\ OthersStay(p)
        /\ poll'[p].seen = poll[p].seen \cup {x, m}
        /\ poll'[p].digest = (IF way = "digest" THEN poll[p].digest \cup {m}
                              ELSE poll[p].digest)
        /\ poll'[p].pc = (IF way = "pinging" THEN "pinging" ELSE "next")
        /\ poll'[p].at = (IF way = "pinging" THEN m ELSE poll[p].at)
    <2>1. CASE way = "passed"
      BY <1>3, <1>4, <2>1 DEF OthersStay
    <2>2. CASE way = "digest"
      BY <1>2, <1>3, <1>4, <2>2 DEF OthersStay, PollRec
    <2>3. CASE way = "pinging"
      BY <1>2, <1>3, <1>4, <2>3 DEF OthersStay, PollRec
    <2> QED
      BY <2>1, <2>2, <2>3
  <1>6. ASSUME MailOrder
        PROVE  /\ PingIsFirst' /\ ToldIsSeen' /\ ToldAtMostOnce' /\ FlaggedIsHeld'
               /\ poll'[p].pc # "pinging" => poll'[p].at = None
               /\ \A n \in Mails : n \in poll'[p].digest =>
                     n \in poll'[p].seen /\ tellings'[n] = 0
    <2>1. \A q \in Polls : q # p => poll[q].seen = {}
      BY <1>1, <1>6, AloneInHand DEF InHand
    <2>2. m \notin poll[p].seen => tellings[m] = 0 /\ m \notin poll[p].digest
      <3>1. listed \subseteq poll[p].seen
        BY <1>1, <1>6 DEF MailOrder, CopyGrows, InHand
      <3> QED
        BY <1>2, <1>6, <2>1, <3>1 DEF MailOrder, ToldIsSeen, WaitsUntold, MailShape
    <2>3. poll[p].at = None
      BY <1>1, <1>6 DEF MailOrder, AtRest
    <2>4. PingIsFirst'
      BY <1>1, <1>2, <1>3, <1>5, <1>6, <2>2 DEF MailOrder, PingIsFirst, OthersStay
    <2>5. ToldIsSeen' /\ ToldAtMostOnce'
      BY <1>1, <1>5, <1>6 DEF MailOrder, ToldIsSeen, ToldAtMostOnce, OthersStay
    <2>6. \A n \in Mails : n \in poll'[p].digest => n \in poll'[p].seen /\ tellings'[n] = 0
      <3> SUFFICES ASSUME NEW n \in Mails, n \in poll'[p].digest
                   PROVE  n \in poll'[p].seen /\ tellings'[n] = 0
        OBVIOUS
      <3>1. CASE n \in poll[p].digest
        <4>1. n \in poll[p].seen /\ tellings[n] = 0
          BY <1>6, <3>1 DEF MailOrder, WaitsUntold
        <4> QED
          BY <1>1, <1>5, <4>1
      <3>2. CASE n = m /\ way = "digest"
        BY <1>1, <1>3, <1>5, <2>2, <3>2
      <3> QED
        BY <1>5, <3>1, <3>2
    <2>7. FlaggedIsHeld'
      <3> SUFFICES ASSUME NEW n \in flagged' \ mailLost'
                   PROVE  \/ tellings'[n] > 0 \/ n \in digest' \cup report'
                          \/ \E q \in Polls : n \in poll'[q].digest \/ poll'[q].at = n
        BY DEF FlaggedIsHeld
      <3>1. CASE n = m /\ way # "passed"
        BY <1>3, <1>5, <3>1
      <3>2. CASE n \in flagged
        <4>1. \/ tellings[n] > 0 \/ n \in digest \cup report
              \/ \E q \in Polls : n \in poll[q].digest \/ poll[q].at = n
          BY <1>1, <1>6, <3>2 DEF MailOrder, FlaggedIsHeld
        <4>2. CASE \E q \in Polls : n \in poll[q].digest \/ poll[q].at = n
          <5>1. PICK q \in Polls : n \in poll[q].digest \/ poll[q].at = n
            BY <4>2
          <5>2. CASE q # p
            BY <1>5, <5>1, <5>2 DEF OthersStay
          <5>3. CASE q = p /\ n \in poll[p].digest
            BY <1>5, <5>3
          <5>4. CASE q = p /\ poll[p].at = n
            <6>1. n = None /\ n \in Mails
              BY <5>4, <2>3, <1>2, <3>2 DEF MailShape
            <6> QED
              BY <6>1, KeysAssumption
          <5> QED
            BY <5>1, <5>2, <5>3, <5>4
        <4> QED
          BY <1>1, <4>1, <4>2
      <3> QED
        BY <1>3, <3>1, <3>2
    <2> QED
      BY <1>5, <2>3, <2>4, <2>5, <2>6, <2>7
  <1>7. flagged' \subseteq Mails /\ mailLost' \subseteq Mails
    BY <1>1, <1>2, <1>3 DEF MailShape
  <1>8. /\ poll'[p].pc \in {"next", "pinging"} /\ InHand(p)
        /\ poll[p].seen \subseteq poll'[p].seen /\ poll[p].digest \subseteq poll'[p].digest
        /\ tellings' \in [Mails -> Nat]
        /\ poll'[p].pc = "pinging" => poll'[p].at \in Mails
    BY <1>1, <1>2, <1>5 DEF InHand, MailShape
  <1> QED
    BY <1>1, <1>5, <1>6, <1>7, <1>8, InHandKeeps

(* Telling tells each of them, once more. *)
LEMMA TellsType ==
  ASSUME MailShape, NEW ms \in SUBSET Mails, J!Tells(ms)
  PROVE  /\ tellings' \in [Mails -> Nat]
         /\ \A m \in Mails : tellings'[m] \in {tellings[m], tellings[m] + 1}
         /\ \A m \in Mails \ ms : tellings'[m] = tellings[m]
         /\ \A m \in ms : tellings'[m] > 0
  <1>1. /\ tellings \in [Mails -> Nat] /\ MaxTold \in Nat \ {0}
        /\ tellings' = [m \in Mails |-> IF m \in ms /\ tellings[m] < MaxTold
                                       THEN tellings[m] + 1 ELSE tellings[m]]
    BY MailAssumption DEF MailShape, J!Tells
  <1>2. \A m \in Mails : tellings'[m] \in Nat
    BY <1>1
  <1>3. tellings' \in [Mails -> Nat]
    BY <1>1, <1>2
  <1> QED
    BY <1>1, <1>3

LEMMA PingedKeeps ==
  ASSUME MailInv, NEW p \in Polls, NEW ok \in BOOLEAN, J!Pinged(p, ok)
  PROVE  MailInv'
  <1> DEFINE m == poll[p].at
  <1>1. /\ poll[p].pc = "pinging"
        /\ poll' = [poll EXCEPT ![p].pc = "next", ![p].at = None]
        /\ \/ J!Tells({m}) /\ mailLost' = mailLost
           \/ mailLost' = mailLost \cup {m} /\ tellings' = tellings
        /\ listed' = listed /\ digest' = digest /\ report' = report
        /\ flagged' = flagged /\ shared' = shared /\ crashes' = crashes
    BY DEF J!Pinged, J!Store
  <1>2. MailShape
    BY DEF MailInv
  <1>3. /\ poll' \in [Polls -> PollRec] /\ OthersStay(p)
        /\ poll'[p].pc = "next" /\ poll'[p].seen = poll[p].seen
        /\ poll'[p].digest = poll[p].digest /\ poll'[p].at = None
    BY <1>1, <1>2 DEF MailShape, PollRec, OthersStay
  <1>4. m \in Mails
    BY <1>1, <1>2 DEF MailShape
  <1> HIDE DEF m
  <1>5. /\ tellings' \in [Mails -> Nat]
        /\ \A n \in Mails : tellings'[n] \in {tellings[n], tellings[n] + 1}
        /\ \A n \in Mails \ {m} : tellings'[n] = tellings[n]
        /\ tellings'[m] > 0 \/ m \in mailLost'
        /\ mailLost' \subseteq Mails /\ mailLost \subseteq mailLost'
    <2>1. CASE J!Tells({m}) /\ mailLost' = mailLost
      BY <1>2, <1>4, <2>1, TellsType DEF MailShape
    <2>2. CASE mailLost' = mailLost \cup {m} /\ tellings' = tellings
      BY <1>2, <1>4, <2>2 DEF MailShape
    <2> QED
      BY <1>1, <2>1, <2>2
  <1>6. ASSUME MailOrder
        PROVE  /\ PingIsFirst' /\ ToldIsSeen' /\ ToldAtMostOnce' /\ FlaggedIsHeld'
               /\ poll'[p].pc # "pinging" => poll'[p].at = None
               /\ \A n \in Mails : n \in poll'[p].digest =>
                     n \in poll'[p].seen /\ tellings'[n] = 0
    <2>1. m \in poll[p].seen /\ tellings[m] = 0 /\ m \notin poll[p].digest
      BY <1>1, <1>6 DEF MailOrder, PingIsFirst, m
    <2>2. \A q \in Polls : q # p => poll[q].pc = "idle"
      BY <1>1, <1>6, AloneInHand DEF InHand
    <2>3. PingIsFirst'
      BY <1>3, <2>2 DEF PingIsFirst, OthersStay
    <2>4. \A n \in Mails : n \in poll'[p].digest => n \in poll'[p].seen /\ tellings'[n] = 0
      BY <1>3, <1>5, <1>6, <2>1 DEF MailOrder, WaitsUntold
    <2>5. ToldIsSeen'
      <3>1. \A q \in Polls : poll'[q].seen = poll[q].seen
        BY <1>3 DEF OthersStay
      <3> SUFFICES ASSUME NEW n \in Mails, tellings'[n] > 0
                   PROVE  n \in listed' \/ \E q \in Polls : n \in poll'[q].seen
        BY DEF ToldIsSeen
      <3>2. CASE n = m
        BY <2>1, <3>1, <3>2
      <3>3. CASE n # m
        BY <1>1, <1>5, <1>6, <3>1, <3>3 DEF MailOrder, ToldIsSeen
      <3> QED
        BY <3>2, <3>3
    <2>6. ToldAtMostOnce'
      BY <1>4, <1>5, <1>6, <2>1 DEF MailOrder, ToldAtMostOnce
    <2>7. FlaggedIsHeld'
      <3> SUFFICES ASSUME NEW n \in flagged' \ mailLost'
                   PROVE  \/ tellings'[n] > 0 \/ n \in digest' \cup report'
                          \/ \E q \in Polls : n \in poll'[q].digest \/ poll'[q].at = n
        BY DEF FlaggedIsHeld
      <3>1. n \in flagged \ mailLost /\ n \in Mails
        BY <1>1, <1>2, <1>5 DEF MailShape
      <3>2. CASE n = m
        BY <1>5, <3>2
      <3>3. CASE n # m
        <4>1. \/ tellings[n] > 0 \/ n \in digest \cup report
              \/ \E q \in Polls : n \in poll[q].digest \/ poll[q].at = n
          BY <1>6, <3>1 DEF MailOrder, FlaggedIsHeld
        <4>2. tellings'[n] = tellings[n]
          BY <1>5, <3>1, <3>3
        <4>3. \A q \in Polls : poll'[q].digest = poll[q].digest
          BY <1>3 DEF OthersStay
        <4>4. \A q \in Polls : poll[q].at = n => poll'[q].at = n
          BY <1>3, <3>3 DEF OthersStay, m
        <4> QED
          BY <1>1, <4>1, <4>2, <4>3, <4>4
      <3> QED
        BY <3>2, <3>3
    <2> QED
      BY <1>3, <2>3, <2>4, <2>5, <2>6, <2>7
  <1>7. InHand(p) /\ flagged' \subseteq Mails
    BY <1>1, <1>2 DEF InHand, MailShape
  <1> QED
    BY <1>1, <1>3, <1>5, <1>6, <1>7, InHandKeeps

LEMMA SaveKeeps == ASSUME MailInv, NEW p \in Polls, J!Save(p) PROVE MailInv'
  <1>1. /\ poll[p].pc = "next" /\ poll[p].left = {}
        /\ listed' = poll[p].seen /\ digest' = poll[p].digest
        /\ poll' = [poll EXCEPT ![p] =
              [pc |-> IF p = "beat" THEN "drain" ELSE "idle", seen |-> {}, digest |-> {},
               left |-> {}, at |-> None]]
        /\ report' = report /\ tellings' = tellings /\ mailLost' = mailLost
        /\ flagged' = flagged /\ shared' = shared /\ crashes' = crashes
    <2>1. CASE p = "beat"
      BY <2>1 DEF J!Save, J!Resting
    <2>2. CASE p # "beat"
      BY <2>2 DEF J!Save, J!Resting
    <2> QED
      BY <2>1, <2>2
  <1>2. MailShape
    BY DEF MailInv
  <1>3. /\ poll' \in [Polls -> PollRec] /\ OthersStay(p)
        /\ poll'[p].pc = (IF p = "beat" THEN "drain" ELSE "idle")
        /\ poll'[p].seen = {} /\ poll'[p].digest = {} /\ poll'[p].left = {}
        /\ poll'[p].at = None
    BY <1>1, <1>2 DEF MailShape, PollRec, OthersStay
  <1>4. MailShape'
    BY <1>1, <1>2, <1>3 DEF MailShape, PollRec, OthersStay
  <1>5. ASSUME Unshared' PROVE MailOrder'
    <2>1. MailOrder
      BY <1>1, <1>5 DEF MailInv, Unshared
    <2>2. /\ report = {}
          /\ \A q \in Polls : q # p => /\ poll[q].pc = "idle" /\ poll[q].seen = {}
                                       /\ poll[q].digest = {} /\ poll[q].at = None
      BY <1>1, <2>1, AloneInHand DEF InHand
    <2>3. \A q \in Polls : q # p => poll[q].left = {}
      BY <2>1, <2>2 DEF MailOrder, AtRest, InHand
    <2>4. listed \subseteq poll[p].seen /\ digest \subseteq poll[p].digest /\ poll[p].at = None
      BY <1>1, <2>1 DEF MailOrder, CopyGrows, AtRest, InHand
    <2>5. OnePoll' /\ AtRest' /\ CopyGrows' /\ PingIsFirst'
      BY <1>3, <2>2, <2>3 DEF OnePoll, AtRest, CopyGrows, PingIsFirst, InHand, OthersStay
    <2>6. WaitsUntold'
      BY <1>1, <1>2, <1>3, <2>1, <2>2 DEF MailOrder, WaitsUntold, OthersStay, MailShape,
                                          PollRec
    <2>7. DrainedUntold'
      BY <1>1, <2>2 DEF DrainedUntold
    <2>8. ToldIsSeen' /\ ToldAtMostOnce'
      BY <1>1, <2>1, <2>2, <2>4 DEF MailOrder, ToldIsSeen, ToldAtMostOnce
    <2>9. FlaggedIsHeld'
      <3> SUFFICES ASSUME NEW n \in flagged \ mailLost
                   PROVE  tellings[n] > 0 \/ n \in poll[p].digest
        BY <1>1 DEF FlaggedIsHeld
      <3>1. n # None
        BY <1>2, KeysAssumption DEF MailShape
      <3>2. \/ tellings[n] > 0 \/ n \in digest \cup report
            \/ \E q \in Polls : n \in poll[q].digest \/ poll[q].at = n
        BY <2>1 DEF MailOrder, FlaggedIsHeld
      <3> QED
        BY <2>2, <2>4, <3>1, <3>2
    <2> QED
      BY <2>5, <2>6, <2>7, <2>8, <2>9 DEF MailOrder
  <1> QED
    BY <1>4, <1>5 DEF MailInv

LEMMA DrainKeeps == MailInv /\ J!Drain => MailInv'
  <1> SUFFICES ASSUME MailInv, J!Drain PROVE MailInv'
    OBVIOUS
  <1> DEFINE p == "beat"
  <1>1. /\ poll[p].pc = "drain" /\ report' = digest /\ digest' = {}
        /\ poll' = [poll EXCEPT ![p].pc = "report"]
        /\ listed' = listed /\ tellings' = tellings /\ mailLost' = mailLost
        /\ flagged' = flagged /\ shared' = shared /\ crashes' = crashes
    BY DEF J!Drain
  <1>2. MailShape /\ p \in Polls
    BY BeatPolls DEF MailInv
  <1>3. /\ poll' \in [Polls -> PollRec] /\ OthersStay(p)
        /\ poll'[p].pc = "report" /\ poll'[p].seen = poll[p].seen
        /\ poll'[p].digest = poll[p].digest /\ poll'[p].at = poll[p].at
        /\ poll'[p].left = poll[p].left
    BY <1>1, <1>2 DEF MailShape, PollRec, OthersStay
  <1>4. MailShape'
    BY <1>1, <1>2, <1>3 DEF MailShape, PollRec, OthersStay
  <1>5. ASSUME Unshared' PROVE MailOrder'
    <2>1. MailOrder
      BY <1>1, <1>5 DEF MailInv, Unshared
    <2>2. \A q \in Polls : q # p => poll[q].pc = "idle"
      BY <1>1, <1>2, <2>1 DEF MailOrder, OnePoll
    <2>3. report = {}
      BY <1>1, <2>1 DEF MailOrder, DrainedUntold
    <2>4. \A q \in Polls : /\ poll'[q].seen = poll[q].seen /\ poll'[q].digest = poll[q].digest
                           /\ poll'[q].at = poll[q].at /\ poll'[q].left = poll[q].left
      BY <1>3 DEF OthersStay
    <2>5. OnePoll' /\ AtRest' /\ CopyGrows' /\ PingIsFirst'
      BY <1>1, <1>2, <1>3, <2>1, <2>2, <2>4
         DEF MailOrder, OnePoll, AtRest, CopyGrows, PingIsFirst, InHand, OthersStay
    <2>6. WaitsUntold' /\ DrainedUntold'
      BY <1>1, <1>3, <2>1, <2>4 DEF MailOrder, WaitsUntold, DrainedUntold
    <2>7. ToldIsSeen' /\ ToldAtMostOnce'
      BY <1>1, <2>1, <2>4 DEF MailOrder, ToldIsSeen, ToldAtMostOnce
    <2>8. FlaggedIsHeld'
      BY <1>1, <2>1, <2>3, <2>4 DEF MailOrder, FlaggedIsHeld
    <2> QED
      BY <2>5, <2>6, <2>7, <2>8 DEF MailOrder
  <1> QED
    BY <1>4, <1>5 DEF MailInv

LEMMA ReportedKeeps ==
  ASSUME MailInv, NEW ok \in BOOLEAN, J!Reported(ok)
  PROVE  MailInv'
  <1> DEFINE p == "beat"
  <1>1. /\ poll[p].pc = "report" /\ report' = {}
        /\ poll' = [poll EXCEPT ![p] = [pc |-> "idle", seen |-> {}, digest |-> {},
                                        left |-> {}, at |-> None]]
        /\ \/ J!Tells(report) /\ mailLost' = mailLost
           \/ mailLost' = mailLost \cup report /\ tellings' = tellings
        /\ listed' = listed /\ digest' = digest
        /\ flagged' = flagged /\ shared' = shared /\ crashes' = crashes
    BY DEF J!Reported, J!Store, J!Resting
  <1>2. MailShape /\ p \in Polls
    BY BeatPolls DEF MailInv
  <1>3. /\ poll' \in [Polls -> PollRec] /\ OthersStay(p)
        /\ poll'[p].pc = "idle" /\ poll'[p].seen = {} /\ poll'[p].digest = {}
        /\ poll'[p].at = None /\ poll'[p].left = {}
    BY <1>1, <1>2 DEF MailShape, PollRec, OthersStay
  <1>4. /\ tellings' \in [Mails -> Nat]
        /\ \A n \in Mails : tellings'[n] \in {tellings[n], tellings[n] + 1}
        /\ \A n \in Mails \ report : tellings'[n] = tellings[n]
        /\ \A n \in report : tellings'[n] > 0 \/ n \in mailLost'
        /\ mailLost' \subseteq Mails /\ mailLost \subseteq mailLost'
    <2>1. CASE J!Tells(report) /\ mailLost' = mailLost
      BY <1>2, <2>1, TellsType DEF MailShape
    <2>2. CASE mailLost' = mailLost \cup report /\ tellings' = tellings
      BY <1>2, <2>2 DEF MailShape
    <2> QED
      BY <1>1, <2>1, <2>2
  <1>5. MailShape'
    BY <1>1, <1>2, <1>3, <1>4 DEF MailShape, PollRec, OthersStay
  <1>6. ASSUME Unshared' PROVE MailOrder'
    <2>1. MailOrder
      BY <1>1, <1>6 DEF MailInv, Unshared
    <2>2. \A q \in Polls : q # p => poll[q].pc = "idle"
      BY <1>1, <1>2, <2>1 DEF MailOrder, OnePoll
    <2>3. /\ poll[p].seen = {} /\ poll[p].digest = {} /\ poll[p].at = None
          /\ \A q \in Polls : poll[q].seen = {} /\ poll[q].digest = {} /\ poll[q].left = {}
                              /\ poll[q].at = None
      BY <1>1, <1>2, <2>1, <2>2 DEF MailOrder, AtRest, InHand
    <2>4. \A q \in Polls : /\ poll'[q].pc = "idle" /\ poll'[q].seen = {}
                           /\ poll'[q].digest = {} /\ poll'[q].at = None
                           /\ poll'[q].left = {}
      BY <1>3, <2>2, <2>3 DEF OthersStay
    <2>5. OnePoll' /\ AtRest' /\ CopyGrows' /\ PingIsFirst'
      BY <2>4 DEF OnePoll, AtRest, CopyGrows, PingIsFirst, InHand
    <2>6. \A n \in report : n \in listed /\ tellings[n] = 0 /\ n \notin digest
      BY <2>1 DEF MailOrder, DrainedUntold
    <2>7. WaitsUntold'
      BY <1>1, <1>2, <1>4, <2>1, <2>4, <2>6 DEF MailOrder, WaitsUntold, MailShape
    <2>8. DrainedUntold'
      BY <1>1 DEF DrainedUntold
    <2>9. ToldIsSeen'
      BY <1>1, <1>4, <2>1, <2>3, <2>6 DEF MailOrder, ToldIsSeen
    <2>10. ToldAtMostOnce'
      BY <1>2, <1>4, <2>1, <2>6 DEF MailOrder, ToldAtMostOnce, MailShape
    <2>11. FlaggedIsHeld'
      <3> SUFFICES ASSUME NEW n \in flagged \ mailLost'
                   PROVE  tellings'[n] > 0 \/ n \in digest
        BY <1>1 DEF FlaggedIsHeld
      <3>1. n \in flagged \ mailLost /\ n \in Mails /\ n # None
        BY <1>2, <1>4, KeysAssumption DEF MailShape
      <3>2. tellings[n] > 0 \/ n \in digest \cup report
        BY <2>1, <2>3, <3>1 DEF MailOrder, FlaggedIsHeld
      <3> QED
        BY <1>2, <1>4, <3>1, <3>2 DEF MailShape
    <2> QED
      BY <2>5, <2>7, <2>8, <2>9, <2>10, <2>11 DEF MailOrder
  <1> QED
    BY <1>5, <1>6 DEF MailInv

LEMMA MailCrashKeeps == MailInv /\ J!Crash => MailInv'
  <1> SUFFICES ASSUME MailInv, J!Crash PROVE MailInv'
    OBVIOUS
  <1>1. /\ poll' = [p \in Polls |-> [pc |-> "idle", seen |-> {}, digest |-> {},
                                     left |-> {}, at |-> None]]
        /\ crashes' = crashes + 1 /\ report' = {} /\ mailLost' = mailLost \cup report
        /\ listed' = listed /\ digest' = digest /\ tellings' = tellings
        /\ flagged' = flagged /\ shared' = shared
    BY DEF J!Crash, J!Store, J!Resting, Polls
  <1>2. MailShape'
    BY <1>1 DEF MailInv, MailShape, PollRec
  <1>3. ~Unshared'
    BY <1>1 DEF MailInv, MailShape, Unshared
  <1> QED
    BY <1>2, <1>3 DEF MailInv

(* The fast lane is about the ways of a mail alone. *)
LEMMA FastIsJudged == F!Next => J!Next \/ \E p \in Polls, x \in Copies : F!Fetched(p, x)
  <1>2. \A p : F!Save(p) => J!Save(p)
    BY DEF F!Save, J!Save, F!Resting, J!Resting
  <1>3. \A p, x : F!NotFetched(p, x) => J!NotFetched(p, x)
    BY DEF F!NotFetched, J!NotFetched, F!From, J!From, F!Store, J!Store
  <1>4. \A p, more : F!Load(p, more) => J!Load(p, more)
    BY DEF F!Load, J!Load, F!Polls, J!Polls, F!Store, J!Store
  <1>5. \A p, ok : F!Pinged(p, ok) => J!Pinged(p, ok)
    BY DEF F!Pinged, J!Pinged, F!Tells, J!Tells, F!Store, J!Store
  <1>6. F!Drain => J!Drain
    BY DEF F!Drain, J!Drain
  <1>7. \A ok : F!Reported(ok) => J!Reported(ok)
    BY DEF F!Reported, J!Reported, F!Tells, J!Tells, F!Store, J!Store, F!Resting, J!Resting
  <1>8. F!Crash => J!Crash
    BY DEF F!Crash, J!Crash, F!Polls, J!Polls, F!Resting, J!Resting, F!Store, J!Store
  <1> QED
    BY <1>2, <1>3, <1>4, <1>5, <1>6, <1>7, <1>8
       DEF F!Next, J!Next, F!Poll, J!Poll, F!Report, J!Report, F!Polls, J!Polls, Polls

LEMMA MailStep ==
  ASSUME MailInv, F!Next \/ J!Next \/ UNCHANGED mailVars
  PROVE  MailInv'
  <1>1. CASE UNCHANGED mailVars
    BY <1>1 DEF mailVars, MailInv, MailShape, Unshared, MailOrder, OnePoll, AtRest, CopyGrows,
                PingIsFirst, WaitsUntold, DrainedUntold, ToldIsSeen, ToldAtMostOnce,
                FlaggedIsHeld, InHand
  <1>2. CASE J!Next
    BY <1>2, LoadKeeps, NotFetchedKeeps, FetchedKeeps, PingedKeeps, SaveKeeps, DrainKeeps,
       ReportedKeeps, MailCrashKeeps DEF J!Next, J!Poll, J!Report, Polls
  <1> QED
    BY <1>1, <1>2, FastIsJudged, FetchedKeeps

(* A mail is told once, and one that needs the owner is told or on its way. *)
LEMMA MailSound == MailInv => F!ToldOnce /\ J!FlaggedIsKept
  BY DEF MailInv, MailOrder, Unshared, ToldAtMostOnce, FlaggedIsHeld, F!ToldOnce,
         J!FlaggedIsKept, Polls

-----------------------------------------------------------------------------
(* Lessons.  The markers at which a lesson was given evidence are behind the *)
(* one of now; where it has the one of now although this cycle has not       *)
(* touched it, a cycle that ended before its marker was written has been.    *)

CycleRec == [pc : {"idle", "synth", "save"}, newest : Nat, cands : SUBSET SUBSET Nat,
             left : SUBSET ((SUBSET Nat) \X Slugs), heard : BOOLEAN,
             touched : SUBSET Slugs, fresh : SUBSET Slugs]

LessonShape ==
    /\ cycle \in CycleRec
    /\ log \in Seq(L!Kinds) /\ mark \in 0..Len(log) /\ replays \in Nat
    /\ lessons \in [Slugs -> Nat] /\ seen \in [Slugs -> SUBSET (0..mark)]
    /\ cycle.pc # "idle" => cycle.newest \in (mark + 1)..Len(log)
    /\ cycle.pc = "idle" => cycle = L!Idle

NoneUntaught == \A s \in Slugs : lessons[s] = 0 => seen[s] = {}

ReadAgain == \A s \in Slugs :
    mark \in seen[s] /\ s \notin cycle.touched =>
        lessons[s] < Cardinality(seen[s]) + replays

Recurred == \A s \in Slugs : lessons[s] <= Cardinality(seen[s]) + replays

LessonsInv == /\ LessonShape /\ NoneUntaught /\ ReadAgain
              /\ Recurred /\ L!AuthorityIsHeard

LEMMA MarkersFinite ==
  ASSUME LessonShape, NEW s \in Slugs
  PROVE  IsFiniteSet(seen[s]) /\ Cardinality(seen[s]) \in Nat
  <1>1. mark \in Int /\ seen[s] \subseteq 0..mark
    BY DEF LessonShape
  <1>2. IsFiniteSet(0..mark)
    BY <1>1, FS_Interval
  <1> QED
    BY <1>1, <1>2, FS_Subset, FS_CardinalityType

LEMMA LessonsInit == L!Init => LessonsInv
  <1> SUFFICES ASSUME L!Init PROVE LessonsInv
    OBVIOUS
  <1>1. /\ log = <<>> /\ mark = 0 /\ lessons = [s \in Slugs |-> 0] /\ cycle = L!Idle
        /\ seen = [s \in Slugs |-> {}] /\ replays = 0 /\ silenced = {}
    BY DEF L!Init
  <1>2. L!Idle \in CycleRec /\ L!Idle.pc = "idle"
    BY DEF L!Idle, CycleRec
  <1>4. LessonShape /\ NoneUntaught /\ ReadAgain
    BY <1>1, <1>2 DEF LessonShape, NoneUntaught, ReadAgain
  <1>3. Recurred /\ L!AuthorityIsHeard
    BY <1>1, FS_EmptySet DEF Recurred, L!AuthorityIsHeard
  <1> QED
    BY <1>3, <1>4 DEF LessonsInv

LEMMA FailsKeeps == ASSUME LessonsInv, NEW k \in L!Kinds, L!Fails(k) PROVE LessonsInv'
  BY DEF L!Fails, LessonsInv, LessonShape, NoneUntaught, ReadAgain, Recurred,
         L!AuthorityIsHeard

(* A cycle ends and begins with nothing touched, at a marker that is new, or *)
(* that of a cycle counted among the replays.                                *)
LEMMA MarkedKeeps ==
  ASSUME LessonsInv, log' = log, lessons' = lessons, seen' = seen, silenced' = silenced,
         replays' \in Nat, replays' >= replays, cycle' = L!Idle,
         \/ mark' \in (mark + 1)..Len(log)
         \/ mark' = mark /\ (cycle.touched = {} \/ replays' > replays)
  PROVE  LessonsInv'
  <1>1. /\ mark \in Nat /\ mark' \in 0..Len(log) /\ mark' >= mark /\ replays \in Nat
        /\ \A s \in Slugs : seen[s] \subseteq 0..mark /\ lessons[s] \in Nat
    BY DEF LessonsInv, LessonShape
  <1>2. 0..mark \subseteq 0..mark'
    BY <1>1
  <1>3. LessonShape'
    <2>1. L!Idle \in CycleRec /\ L!Idle.pc = "idle"
      BY DEF L!Idle, CycleRec
    <2> QED
      BY <1>1, <1>2, <2>1 DEF LessonsInv, LessonShape
  <1>4. NoneUntaught' /\ L!AuthorityIsHeard'
    BY DEF LessonsInv, NoneUntaught, L!AuthorityIsHeard
  <1>5. \A s \in Slugs : lessons[s] <= Cardinality(seen[s]) + replays
                         /\ Cardinality(seen[s]) \in Nat
    BY MarkersFinite DEF LessonsInv, Recurred
  <1>6. Recurred'
    BY <1>1, <1>5 DEF Recurred
  <1>7. ReadAgain'
    <2> SUFFICES ASSUME NEW s \in Slugs, mark' \in seen[s]
                 PROVE  lessons[s] < Cardinality(seen[s]) + replays'
      BY DEF ReadAgain
    <2>1. mark' = mark
      BY <1>1
    <2>2. CASE replays' > replays
      BY <1>1, <1>5, <2>2
    <2>3. CASE cycle.touched = {}
      <3>1. lessons[s] < Cardinality(seen[s]) + replays
        BY <2>1, <2>3 DEF LessonsInv, ReadAgain
      <3> QED
        BY <1>1, <1>5, <3>1
    <2> QED
      BY <1>1, <2>1, <2>2, <2>3
  <1> QED
    BY <1>3, <1>4, <1>6, <1>7 DEF LessonsInv

LEMMA FoundAreSets == LessonShape => L!Found \subseteq SUBSET Nat
  <1> SUFFICES ASSUME LessonShape, NEW c \in L!Found PROVE c \subseteq Nat
    OBVIOUS
  <1>1. (mark + 1)..Len(log) \subseteq Nat
    BY DEF LessonShape
  <1>2. {i \in (mark + 1)..Len(log) : log[i] = "tool"} \subseteq Nat
    BY <1>1
  <1>3. \/ c = {i \in (mark + 1)..Len(log) : log[i] = "tool"}
        \/ \E i \in (mark + 1)..Len(log) : c = {i}
    BY DEF L!Found
  <1> QED
    BY <1>1, <1>2, <1>3

LEMMA HarvestKeeps == LessonsInv /\ L!Harvest => LessonsInv'
  <1> SUFFICES ASSUME LessonsInv, L!Harvest PROVE LessonsInv'
    OBVIOUS
  <1>1. /\ cycle = L!Idle /\ cycle.touched = {} /\ LessonShape
        /\ log' = log /\ lessons' = lessons /\ seen' = seen /\ replays' = replays
    <2>1. cycle = L!Idle /\ LessonShape
      BY DEF L!Harvest, LessonsInv, LessonShape
    <2>2. L!Idle.touched = {}
      BY DEF L!Idle
    <2> QED
      BY <2>1, <2>2 DEF L!Harvest
  <1>2. CASE L!Found = {}
    <2>1. mark' = Len(log) /\ cycle' = cycle /\ silenced' = silenced
      BY <1>2 DEF L!Harvest
    <2>2. mark' = mark \/ mark' \in (mark + 1)..Len(log)
      BY <1>1, <2>1 DEF LessonShape
    <2>3. replays' \in Nat /\ replays' >= replays
      BY <1>1 DEF LessonShape
    <2> QED
      BY <1>1, <2>1, <2>2, <2>3, MarkedKeeps
  <1>3. CASE L!Found # {}
    <2>1. PICK taken \in L!Taken(L!Found) :
             /\ cycle' = [L!Idle EXCEPT !.pc = "synth", !.newest = Len(log), !.cands = taken]
             /\ silenced' = silenced \cup
                   {c \in L!Found \ taken :
                      \E d \in taken : L!Authority(c) /\ ~L!Authority(d)}
             /\ mark' = mark
      BY <1>3 DEF L!Harvest
    <2>2. /\ cycle'.touched = {} /\ cycle'.pc = "synth" /\ cycle'.newest = Len(log)
          /\ cycle' \in CycleRec
      <3>1. taken \in SUBSET SUBSET Nat /\ Len(log) \in Nat
        <4>1. taken \subseteq L!Found
          BY DEF L!Taken
        <4> QED
          BY <1>1, <4>1, FoundAreSets DEF LessonShape
      <3> QED
        BY <2>1, <3>1 DEF L!Idle, CycleRec
    <2>3. Len(log) \in (mark + 1)..Len(log)
      <3>1. mark # Len(log)
        <4>1. SUFFICES ASSUME mark = Len(log) PROVE FALSE
          OBVIOUS
        <4>2. (mark + 1)..Len(log) = {}
          BY <4>1, <1>1 DEF LessonShape
        <4>3. {i \in (mark + 1)..Len(log) : log[i] = "tool"} = {}
          BY <4>2
        <4>4. ~(Cardinality({}) >= Often)
          BY FS_EmptySet, OftenAssumption
        <4>5. L!Found = {}
          BY <4>2, <4>3, <4>4 DEF L!Found, L!Cardinality, Cardinality
        <4> QED
          BY <4>5, <1>3
      <3> QED
        BY <1>1, <3>1 DEF LessonShape
    <2>4. \A c \in L!Found \ taken, d \in taken : L!Authority(c) => L!Authority(d)
      <3>1. SUFFICES ASSUME NEW c \in L!Found \ taken, NEW d \in taken, L!Authority(c)
                     PROVE  L!Authority(d)
        OBVIOUS
      <3>2. L!Severity(d) >= L!Severity(c)
        BY DEF L!Taken
      <3>3. L!Severity(c) = 3
        BY <3>1 DEF L!Severity, L!Authority
      <3>4. ~L!Authority(d) => L!Severity(d) \in {1, 2}
        BY DEF L!Severity
      <3> QED
        BY <3>2, <3>3, <3>4
    <2>5. L!AuthorityIsHeard'
      BY <2>1, <2>4 DEF LessonsInv, L!AuthorityIsHeard
    <2>6. LessonShape'
      BY <1>1, <2>1, <2>2, <2>3 DEF LessonShape
    <2>7. NoneUntaught' /\ ReadAgain' /\ Recurred'
      BY <1>1, <2>1, <2>2 DEF LessonsInv, NoneUntaught, ReadAgain, Recurred
    <2> QED
      BY <2>5, <2>6, <2>7 DEF LessonsInv
  <1> QED
    BY <1>2, <1>3

LEMMA SynthesizeKeeps == LessonsInv /\ L!Synthesize => LessonsInv'
  <1> SUFFICES ASSUME LessonsInv, L!Synthesize PROVE LessonsInv'
    OBVIOUS
  <1>1. PICK says \in [cycle.cands -> Slugs \cup {"fails", "worthless"}] :
           /\ cycle' = [cycle EXCEPT !.pc = "save", !.heard = L!Judged(says) # {},
                            !.left = {<<c, says[c]>> : c \in L!Keepers(says)}]
           /\ log' = IF L!Distrusted(says) THEN Append(log, "rejected") ELSE log
           /\ silenced' = silenced \cup
                 {c \in L!Worth(says) \ L!Keepers(says) : L!Authority(c)}
    BY DEF L!Synthesize
  <1>2. /\ cycle.pc = "synth" /\ mark' = mark /\ lessons' = lessons /\ seen' = seen
        /\ replays' = replays
    BY DEF L!Synthesize
  <1>3. /\ cycle'.touched = cycle.touched /\ cycle'.newest = cycle.newest
        /\ cycle'.pc \in {"synth", "save"} /\ cycle' \in CycleRec
    <2>1. {<<c, says[c]>> : c \in L!Keepers(says)} \in SUBSET ((SUBSET Nat) \X Slugs)
      <3>1. L!Keepers(says) \subseteq cycle.cands
            /\ \A c \in L!Keepers(says) : says[c] \in Slugs
        BY <1>1 DEF L!Keepers, L!Worth
      <3>2. cycle.cands \subseteq SUBSET Nat
        BY DEF LessonsInv, LessonShape, CycleRec
      <3>3. \A c \in L!Keepers(says) : <<c, says[c]>> \in (SUBSET Nat) \X Slugs
        BY <3>1, <3>2
      <3> QED
        BY <3>3
    <2> DEFINE kept == {<<c, says[c]>> : c \in L!Keepers(says)}
    <2>2. (L!Judged(says) # {}) \in BOOLEAN /\ kept \in SUBSET ((SUBSET Nat) \X Slugs)
          /\ cycle' = [cycle EXCEPT !.pc = "save", !.heard = L!Judged(says) # {},
                                    !.left = kept]
      BY <1>1, <2>1
    <2> HIDE DEF kept
    <2> QED
      BY <1>2, <2>2 DEF LessonsInv, LessonShape, CycleRec
  <1>4. L!AuthorityIsHeard'
    BY <1>1 DEF LessonsInv, L!AuthorityIsHeard, L!Keepers
  <1>5. /\ log' \in Seq(L!Kinds) /\ Len(log') \in Nat /\ Len(log) \in Nat
        /\ Len(log') >= Len(log)
    <2>1. log \in Seq(L!Kinds) /\ "rejected" \in L!Kinds
      BY DEF LessonsInv, LessonShape, L!Kinds
    <2>2. Append(log, "rejected") \in Seq(L!Kinds)
      BY <2>1
    <2>3. Len(log) \in Nat /\ Len(Append(log, "rejected")) = Len(log) + 1
      BY <2>1
    <2>4. log' = log \/ log' = Append(log, "rejected")
      BY <1>1
    <2>5. log' \in Seq(L!Kinds)
      BY <2>1, <2>2, <2>4
    <2>6. Len(log') = Len(log) \/ Len(log') = Len(log) + 1
      BY <2>3, <2>4
    <2> QED
      BY <2>3, <2>5, <2>6
  <1>6. LessonShape'
    <2>1. mark \in 0..Len(log) /\ cycle.newest \in (mark + 1)..Len(log)
      BY <1>2 DEF LessonsInv, LessonShape
    <2>2. mark \in 0..Len(log') /\ cycle.newest \in (mark + 1)..Len(log')
      BY <1>5, <2>1
    <2> QED
      BY <1>2, <1>3, <1>5, <2>2 DEF LessonsInv, LessonShape
  <1>7. NoneUntaught' /\ ReadAgain' /\ Recurred'
    BY <1>2, <1>3 DEF LessonsInv, NoneUntaught, ReadAgain, Recurred
  <1> QED
    BY <1>4, <1>6, <1>7 DEF LessonsInv

LEMMA KeepKeeps ==
  ASSUME LessonsInv, NEW k \in cycle.left, L!Keep(k[1], k[2])
  PROVE  LessonsInv'
  <1> DEFINE s == k[2]
  <1>1. s \in Slugs /\ LessonShape
    BY DEF LessonsInv, LessonShape, CycleRec
  <1>2. /\ cycle.pc = "save"
        /\ cycle' = [cycle EXCEPT !.left = @ \ {<<k[1], s>>}, !.touched = @ \cup {s},
                          !.fresh = IF lessons[s] = 0 THEN @ \cup {s} ELSE @]
        /\ log' = log /\ mark' = mark /\ replays' = replays /\ silenced' = silenced
        /\ \/ /\ lessons[s] > 0 /\ s \in cycle.touched
              /\ lessons' = lessons /\ seen' = seen
           \/ /\ ~(lessons[s] > 0 /\ s \in cycle.touched)
              /\ lessons' = [lessons EXCEPT ![s] = @ + 1]
              /\ seen' = [seen EXCEPT ![s] = @ \cup {mark}]
    BY DEF L!Keep, L!Touched
  <1> HIDE DEF s
  <1>3. /\ cycle'.touched = cycle.touched \cup {s} /\ cycle'.pc = "save"
        /\ cycle'.newest = cycle.newest /\ cycle' \in CycleRec
    BY <1>1, <1>2 DEF LessonShape, CycleRec
  <1>4. mark \in 0..mark /\ mark \in Nat
    BY <1>1 DEF LessonShape
  <1>5. L!AuthorityIsHeard'
    BY <1>2 DEF LessonsInv, L!AuthorityIsHeard
  <1>6. CASE lessons' = lessons /\ seen' = seen
    <2>1. LessonShape'
      BY <1>1, <1>2, <1>3, <1>6 DEF LessonShape
    <2>2. NoneUntaught' /\ ReadAgain' /\ Recurred'
      BY <1>2, <1>3, <1>6 DEF LessonsInv, NoneUntaught, ReadAgain, Recurred
    <2> QED
      BY <1>5, <2>1, <2>2 DEF LessonsInv
  <1>7. CASE /\ ~(lessons[s] > 0 /\ s \in cycle.touched)
             /\ lessons' = [lessons EXCEPT ![s] = @ + 1]
             /\ seen' = [seen EXCEPT ![s] = @ \cup {mark}]
    <2>1. /\ lessons'[s] = lessons[s] + 1 /\ seen'[s] = seen[s] \cup {mark}
          /\ \A t \in Slugs : t # s => lessons'[t] = lessons[t] /\ seen'[t] = seen[t]
          /\ lessons' \in [Slugs -> Nat] /\ seen' \in [Slugs -> SUBSET (0..mark)]
      BY <1>1, <1>4, <1>7 DEF LessonShape
    <2>2. LessonShape'
      BY <1>1, <1>2, <1>3, <2>1 DEF LessonShape
    <2>3. NoneUntaught'
      BY <1>1, <2>1 DEF LessonsInv, NoneUntaught, LessonShape
    <2>4. ReadAgain'
      BY <1>2, <1>3, <2>1 DEF LessonsInv, ReadAgain
    <2>5. lessons[s] + 1 <= Cardinality(seen[s] \cup {mark}) + replays
      <3>1. /\ IsFiniteSet(seen[s]) /\ Cardinality(seen[s]) \in Nat
            /\ lessons[s] <= Cardinality(seen[s]) + replays
            /\ lessons[s] \in Nat /\ replays \in Nat
        BY <1>1, MarkersFinite DEF LessonsInv, Recurred, LessonShape
      <3>2. CASE mark \notin seen[s]
        <4>1. Cardinality(seen[s] \cup {mark}) = Cardinality(seen[s]) + 1
          BY <3>1, <3>2, FS_AddElement
        <4> QED
          BY <3>1, <4>1
      <3>3. CASE mark \in seen[s]
        <4>1. seen[s] \cup {mark} = seen[s] /\ lessons[s] > 0
          BY <1>1, <3>1, <3>3 DEF LessonsInv, NoneUntaught
        <4>2. lessons[s] < Cardinality(seen[s]) + replays
          BY <1>1, <1>7, <3>3, <4>1 DEF LessonsInv, ReadAgain
        <4>3. Cardinality(seen[s] \cup {mark}) = Cardinality(seen[s])
          BY <4>1
        <4> HIDE DEF s
        <4> QED
          BY <3>1, <4>2, <4>3
      <3> QED
        BY <3>2, <3>3
    <2>6. Recurred'
      BY <1>2, <2>1, <2>5 DEF LessonsInv, Recurred
    <2> QED
      BY <1>5, <2>2, <2>3, <2>4, <2>6 DEF LessonsInv
  <1> QED
    BY <1>2, <1>6, <1>7

LEMMA CycleEndKeeps ==
  ASSUME LessonsInv, L!Crash \/ \E written \in BOOLEAN : L!Done(written)
  PROVE  LessonsInv'
  <1>1. /\ log' = log /\ lessons' = lessons /\ seen' = seen /\ silenced' = silenced
        /\ cycle' = L!Idle /\ cycle.pc # "idle"
        /\ \/ mark' = cycle.newest /\ replays' = replays
           \/ mark' = mark /\ replays' = replays + 1
    BY DEF L!Crash, L!Done
  <1>2. replays \in Nat /\ cycle.newest \in (mark + 1)..Len(log)
    BY <1>1 DEF LessonsInv, LessonShape
  <1>3. CASE mark' = cycle.newest /\ replays' = replays
    BY <1>1, <1>2, <1>3, MarkedKeeps
  <1>4. CASE mark' = mark /\ replays' = replays + 1
    <2>1. replays' \in Nat /\ replays' > replays /\ replays' >= replays
      BY <1>2, <1>4
    <2> QED
      BY <1>1, <1>4, <2>1, MarkedKeeps
  <1> QED
    BY <1>1, <1>3, <1>4

LEMMA ArchiveKeeps ==
  ASSUME LessonsInv, NEW s \in Slugs, L!Archive(s)
  PROVE  LessonsInv'
  <1>1. /\ lessons' = [lessons EXCEPT ![s] = 0] /\ seen' = [seen EXCEPT ![s] = {}]
        /\ log' = log /\ mark' = mark /\ cycle' = cycle /\ replays' = replays
        /\ silenced' = silenced
    BY DEF L!Archive
  <1>2. LessonShape /\ replays \in Nat
    BY DEF LessonsInv, LessonShape
  <1>3. /\ lessons'[s] = 0 /\ seen'[s] = {}
        /\ \A t \in Slugs : t # s => lessons'[t] = lessons[t] /\ seen'[t] = seen[t]
    BY <1>1, <1>2 DEF LessonShape
  <1>4. LessonShape'
    BY <1>1, <1>2 DEF LessonShape
  <1>5. NoneUntaught' /\ ReadAgain' /\ L!AuthorityIsHeard'
    BY <1>1, <1>3 DEF LessonsInv, NoneUntaught, ReadAgain, L!AuthorityIsHeard
  <1>6. Recurred'
    BY <1>1, <1>2, <1>3, FS_EmptySet DEF LessonsInv, Recurred
  <1> QED
    BY <1>4, <1>5, <1>6 DEF LessonsInv

LEMMA LessonsStep == ASSUME LessonsInv, [L!Next]_lessonVars PROVE LessonsInv'
  <1>1. CASE UNCHANGED lessonVars
    BY <1>1 DEF lessonVars, LessonsInv, LessonShape, NoneUntaught, ReadAgain,
                Recurred, L!AuthorityIsHeard
  <1> QED
    BY <1>1, FailsKeeps, HarvestKeeps, SynthesizeKeeps, KeepKeeps, CycleEndKeeps,
       ArchiveKeeps DEF L!Next

(* What is learned was earned, and an owner's word is not dropped. *)
LEMMA LessonsSound == LessonsInv => L!LiveMeansRecurred /\ L!AuthorityIsHeard
  BY DEF LessonsInv, Recurred, L!LiveMeansRecurred, L!Cardinality, Cardinality

-----------------------------------------------------------------------------
(* The review of facts.  First, what is left of a list without some facts:   *)
(* those that are in it and not taken out, each as often as before.          *)

IsLeft(w, s, out) == w = [n \in 0..Len(s) |->
    IF n = 0 THEN <<>> ELSE IF s[n] \in out THEN w[n - 1] ELSE Append(w[n - 1], s[n])]

LEMMA LeftIsDefined ==
  ASSUME NEW s \in Seq(Facts), NEW out
  PROVE  \E w : IsLeft(w, s, out)
  <1> DEFINE Upto(m, f) == f = [n \in 0..m |->
                IF n = 0 THEN <<>>
                ELSE IF s[n] \in out THEN f[n - 1] ELSE Append(f[n - 1], s[n])]
             T == {m \in Nat : ~\E f : Upto(m, f)}
  <1>1. SUFFICES T = {}
    <2>1. Len(s) \in Nat /\ Len(s) \notin T
      BY <1>1
    <2> QED
      BY <2>1 DEF IsLeft
  <1>2. SUFFICES ASSUME T # {} PROVE FALSE
    OBVIOUS
  <1>3. PICK m \in T : \A y \in T : m <= y
    BY <1>2, LeastNat
  <1>4. m # 0
    <2>1. Upto(0, [n \in 0..0 |-> <<>>])
      OBVIOUS
    <2> QED
      BY <2>1, <1>3
  <1>5. PICK f : Upto(m - 1, f)
    <2>1. m \in Nat
      BY <1>3
    <2>2. m - 1 \in Nat /\ ~(m <= m - 1)
      BY <1>4, <2>1
    <2>3. m - 1 \notin T
      <3> HIDE DEF T
      <3> QED
        BY <1>3, <2>2
    <2> HIDE DEF Upto
    <2> QED
      BY <2>2, <2>3
  <1> DEFINE g == [n \in 0..m |->
                IF n = 0 THEN <<>>
                ELSE IF s[n] \in out THEN f[n - 1] ELSE Append(f[n - 1], s[n])]
  <1>6. \A n \in 0..(m - 1) : g[n] = f[n]
    <2>1. m \in Nat
      BY <1>3
    <2>2. f = [n \in 0..(m - 1) |->
                IF n = 0 THEN <<>>
                ELSE IF s[n] \in out THEN f[n - 1] ELSE Append(f[n - 1], s[n])]
      BY <1>5
    <2>3. \A n \in 0..(m - 1) : n \in 0..m
      BY <2>1
    <2> QED
      BY <2>2, <2>3
  <1>7. Upto(m, g)
    <2>1. \A n \in 0..m : n # 0 => n - 1 \in 0..(m - 1)
      BY <1>3, <1>4
    <2>2. \A n \in 0..m : n # 0 => g[n - 1] = f[n - 1]
      BY <1>6, <2>1
    <2> QED
      BY <2>2
  <1> QED
    BY <1>3, <1>7

LEMMA LeftStep ==
  ASSUME NEW s \in Seq(Facts), NEW out
  PROVE  \E w : /\ R!Without(s, out) = w[Len(s)] /\ w[0] = <<>>
                   /\ \A n \in 1..Len(s) : w[n] =
                         IF s[n] \in out THEN w[n - 1] ELSE Append(w[n - 1], s[n])
  <1> DEFINE v == CHOOSE w : IsLeft(w, s, out)
  <1>1. R!Without(s, out) = v[Len(s)]
    BY DEF R!Without, IsLeft
  <1>2. v = [n \in 0..Len(s) |->
            IF n = 0 THEN <<>>
            ELSE IF s[n] \in out THEN v[n - 1] ELSE Append(v[n - 1], s[n])]
    <2>1. \E w : IsLeft(w, s, out)
      BY LeftIsDefined
    <2>2. IsLeft(v, s, out)
      BY <2>1
    <2> HIDE DEF v
    <2> QED
      BY <2>2 DEF IsLeft
  <1> HIDE DEF v
  <1>3. v[0] = <<>> /\ \A n \in 1..Len(s) : v[n] =
                         IF s[n] \in out THEN v[n - 1] ELSE Append(v[n - 1], s[n])
    <2>1. 0 \in 0..Len(s) /\ \A n \in 1..Len(s) : n \in 0..Len(s) /\ n # 0
      OBVIOUS
    <2> QED
      BY <1>2, <2>1
  <1> QED
    BY <1>1, <1>3

LEMMA WithoutIs ==
  ASSUME NEW s \in Seq(Facts), NEW out, NEW t, t = R!Without(s, out)
  PROVE  /\ t \in Seq(Facts) /\ Len(t) <= Len(s)
         /\ \A i \in 1..Len(s) : s[i] \notin out => \E k \in 1..Len(t) : t[k] = s[i]
         /\ \A k \in 1..Len(t) : t[k] \notin out /\ \E i \in 1..Len(s) : t[k] = s[i]
         /\ R!Distinct(s) => R!Distinct(t)
  <1>1. PICK w : /\ R!Without(s, out) = w[Len(s)] /\ w[0] = <<>>
                 /\ \A n \in 1..Len(s) : w[n] =
                       IF s[n] \in out THEN w[n - 1] ELSE Append(w[n - 1], s[n])
    BY LeftStep
  <1> DEFINE Holds(n) ==
               /\ w[n] \in Seq(Facts) /\ Len(w[n]) <= n
               /\ \A i \in 1..n : s[i] \notin out => \E k \in 1..Len(w[n]) : w[n][k] = s[i]
               /\ \A k \in 1..Len(w[n]) : w[n][k] \notin out
                                          /\ \E i \in 1..n : w[n][k] = s[i]
               /\ R!Distinct(s) => R!Distinct(w[n])
             T == {n \in 0..Len(s) : ~Holds(n)}
  <1>2. Holds(0)
    <2>1. w[0] = <<>> /\ 1..Len(w[0]) = {} /\ Len(w[0]) = 0 /\ DOMAIN w[0] = {}
      BY <1>1
    <2>2. w[0] \in Seq(Facts) /\ 1..0 = {}
      BY <2>1
    <2> QED
      BY <2>1, <2>2 DEF R!Distinct
  <1>3. ASSUME NEW n \in 1..Len(s), Holds(n - 1) PROVE Holds(n)
    <2> DEFINE u == w[n - 1]
    <2>1. /\ u \in Seq(Facts) /\ Len(u) <= n - 1 /\ Len(u) \in Nat /\ n \in Nat
          /\ s[n] \in Facts /\ \A i \in 1..n : i \in 1..(n - 1) \/ i = n
          /\ \A i \in 1..(n - 1) : i \in 1..n /\ i # n /\ i \in DOMAIN s
          /\ n \in DOMAIN s
      BY <1>3
    <2>2. /\ \A i \in 1..(n - 1) : s[i] \notin out => \E k \in 1..Len(u) : u[k] = s[i]
          /\ \A k \in 1..Len(u) : u[k] \notin out /\ \E i \in 1..(n - 1) : u[k] = s[i]
          /\ R!Distinct(s) => R!Distinct(u)
      BY <1>3
    <2>3. w[n] = IF s[n] \in out THEN u ELSE Append(u, s[n])
      BY <1>1
    <2> HIDE DEF u
    <2>4. CASE s[n] \in out
      <3>1. w[n] = u /\ Len(u) <= n
        BY <2>1, <2>3, <2>4
      <3> QED
        BY <2>1, <2>2, <2>4, <3>1
    <2>5. CASE s[n] \notin out
      <3> DEFINE x == Append(u, s[n])
      <3>1. /\ x \in Seq(Facts) /\ Len(x) = Len(u) + 1 /\ Len(x) <= n
            /\ x[Len(x)] = s[n] /\ \A k \in 1..Len(u) : x[k] = u[k] /\ k \in 1..Len(x)
            /\ \A k \in 1..Len(x) : k \in 1..Len(u) \/ k = Len(x)
            /\ Len(x) \in 1..Len(x) /\ DOMAIN x = 1..Len(x) /\ DOMAIN u = 1..Len(u)
        <4>1. x \in Seq(Facts) /\ Len(x) = Len(u) + 1
          BY <2>1
        <4>2. x[Len(u) + 1] = s[n] /\ \A k \in 1..Len(u) : x[k] = u[k]
          BY <2>1
        <4>3. DOMAIN x = 1..Len(x) /\ DOMAIN u = 1..Len(u)
          BY <2>1, <4>1
        <4> HIDE DEF x
        <4> QED
          BY <2>1, <4>1, <4>2, <4>3
      <3> HIDE DEF x
      <3>2. \A i \in 1..n : s[i] \notin out => \E k \in 1..Len(x) : x[k] = s[i]
        BY <2>1, <2>2, <3>1
      <3>3. \A k \in 1..Len(x) : x[k] \notin out /\ \E i \in 1..n : x[k] = s[i]
        <4>1. SUFFICES ASSUME NEW k \in 1..Len(x)
                       PROVE  x[k] \notin out /\ \E i \in 1..n : x[k] = s[i]
          OBVIOUS
        <4>2. CASE k \in 1..Len(u)
          <5>1. x[k] = u[k] /\ u[k] \notin out /\ \E i \in 1..(n - 1) : u[k] = s[i]
            BY <2>2, <3>1, <4>2
          <5> QED
            BY <2>1, <5>1
        <4>3. CASE k = Len(x)
          <5>1. n \in 1..n
            BY <1>3
          <5> QED
            BY <2>5, <3>1, <4>3, <5>1
        <4> QED
          BY <3>1, <4>2, <4>3
      <3>4. R!Distinct(s) => R!Distinct(x)
        <4>1. SUFFICES ASSUME R!Distinct(s), NEW j \in 1..Len(x), NEW k \in 1..Len(x),
                              x[j] = x[k]
                       PROVE  j = k
          BY <3>1 DEF R!Distinct
        <4>2. \A i \in 1..(n - 1) : s[i] # s[n]
          BY <2>1, <4>1 DEF R!Distinct
        <4>3. \A i \in 1..Len(u) : u[i] # s[n]
          BY <2>2, <4>2
        <4>4. R!Distinct(u)
          BY <2>2, <4>1
        <4> QED
          BY <3>1, <4>1, <4>3, <4>4 DEF R!Distinct
      <3>5. w[n] = x
        BY <2>3, <2>5 DEF x
      <3> QED
        BY <3>1, <3>2, <3>3, <3>4, <3>5
    <2> QED
      BY <2>4, <2>5
  <1> HIDE DEF Holds
  <1>4. T = {}
    <2>1. SUFFICES ASSUME T # {} PROVE FALSE
      OBVIOUS
    <2>2. T \in SUBSET Nat
      OBVIOUS
    <2>3. PICK m \in T : \A y \in T : m <= y
      BY <2>1, <2>2, LeastNat
    <2>4. m \in 0..Len(s) /\ ~Holds(m)
      BY <2>3
    <2>5. m # 0
      BY <1>2, <2>4
    <2>6. m \in 1..Len(s) /\ m - 1 \in 0..Len(s) /\ ~(m <= m - 1)
      BY <2>4, <2>5
    <2>7. Holds(m - 1)
      BY <2>3, <2>6
    <2> QED
      BY <1>3, <2>4, <2>6, <2>7
  <1>5. Holds(Len(s))
    BY <1>4
  <1> QED
    BY <1>1, <1>5 DEF Holds

(* The invariant of the review: a file has a short list; until the owner     *)
(* answers, what the heartbeat asks is in the file under its number; and of  *)
(* what was answered, only that is in the file which a command under way     *)
(* will take out.                                                            *)

ShortList(s) == s \in Seq(Facts) /\ Len(s) \in 1..MaxPending /\ R!Distinct(s)

BeatRec == [pc : {"idle", "cleaning", "thinking", "reporting"}, asks : SUBSET (Nat \X Facts),
            touched : BOOLEAN, merged : SUBSET Facts]
CmdRec == [pc : {"idle", "one", "all"}, copy : Seq(Facts), todo : Seq(Facts)]

Answering(m) ==
    /\ m.pc = "idle" => m.todo = <<>>
    /\ m.pc = "one" => Len(m.todo) = 1
    /\ m.pc # "idle" =>
          /\ ShortList(m.copy)
          /\ \A k \in 1..Len(m.todo) : \E i \in 1..Len(m.copy) : m.todo[k] = m.copy[i]

ReviewShape ==
    /\ facts \subseteq Facts /\ (review = None \/ ShortList(review))
    /\ beat \in BeatRec /\ cmd \in [Commands -> CmdRec]
    /\ \A c \in Commands : Answering(cmd[c])

Shown(p) == /\ review # None /\ p[1] \in 1..Len(review)
            /\ p = <<p[1], review[p[1]]>> /\ p[2] \in facts \cup beat.merged

NumbersHold == beat.pc # "idle" /\ ~beat.touched => \A p \in beat.asks : Shown(p)

WillTake(m, f) == \/ m.pc = "one" /\ f = m.todo[1]
                  \/ m.pc = "all" /\ \E i \in 1..Len(m.copy) : m.copy[i] = f

GoneOrTaken ==
    ~crossed /\ review # None =>
        \A i \in 1..Len(review) : review[i] \in answered =>
            \E c \in Commands : WillTake(cmd[c], review[i])

ReviewInv == ReviewShape /\ NumbersHold /\ GoneOrTaken

LEMMA OrdersAre ==
  ASSUME NEW S, NEW s \in R!Orders(S)
  PROVE  /\ s \in Seq(Facts) /\ R!Distinct(s) /\ Len(s) \in Nat /\ DOMAIN s = 1..Len(s)
         /\ \A i \in 1..Len(s) : s[i] \in S /\ s[i] \in R!InList(s)
  <1>1. s \in R!Lists /\ R!Distinct(s) /\ R!InList(s) \subseteq S
    BY DEF R!Orders
  <1>2. Cardinality(Facts) \in Nat
    BY ReviewAssumption, FS_CardinalityType
  <1>3. PICK n \in 0..Cardinality(Facts) : s \in [1..n -> Facts]
    BY <1>1 DEF R!Lists, R!Cardinality, Cardinality
  <1>4. s \in Seq(Facts)
    BY <1>2, <1>3
  <1>5. DOMAIN s = 1..Len(s) /\ Len(s) \in Nat
    BY <1>4
  <1> QED
    BY <1>1, <1>4, <1>5 DEF R!InList

LEMMA MergedIs ==
  ASSUME NEW kept \in Seq(Facts), Len(kept) <= MaxPending, R!Distinct(kept),
         NEW matched \in Seq(Facts), R!Distinct(matched), matched # <<>>,
         NEW m, m = R!Merged(kept, matched)
  PROVE  /\ ShortList(m) /\ Len(kept) <= Len(m)
         /\ \A i \in 1..Len(kept) : m[i] = kept[i]
         /\ \A i \in 1..Len(m) : i \in 1..Len(kept)
                \/ \E k \in 1..Len(matched) : m[i] = matched[k]
  <1> DEFINE news == R!Without(matched, R!InList(kept))
             room == MaxPending - Len(kept)
             l == IF Len(news) < room THEN Len(news) ELSE room
             rest == SubSeq(news, 1, l)
  <1>1. m = kept \o rest
    BY DEF R!Merged
  <1>2. /\ news \in Seq(Facts) /\ R!Distinct(news)
        /\ \A k \in 1..Len(news) : news[k] \notin R!InList(kept)
                                   /\ \E i \in 1..Len(matched) : news[k] = matched[i]
        /\ \A i \in 1..Len(matched) : matched[i] \notin R!InList(kept) =>
               \E k \in 1..Len(news) : news[k] = matched[i]
    BY WithoutIs
  <1> HIDE DEF news
  <1>3. /\ Len(news) \in Nat /\ Len(kept) \in Nat /\ MaxPending \in Nat /\ MaxPending > 0
        /\ DOMAIN kept = 1..Len(kept) /\ DOMAIN news = 1..Len(news)
        /\ Len(matched) \in Nat /\ Len(matched) # 0
    BY <1>2, ReviewAssumption
  <1>4. l \in 0..Len(news) /\ Len(kept) + l <= MaxPending /\ l \in Nat
    BY <1>3
  <1>5. Len(kept) = 0 => l > 0
    <2>1. SUFFICES ASSUME Len(kept) = 0 PROVE Len(news) > 0
      BY <1>3
    <2>2. R!InList(kept) = {}
      BY <1>3, <2>1 DEF R!InList
    <2>3. 1 \in 1..Len(matched)
      BY <1>3
    <2>4. PICK k \in 1..Len(news) : news[k] = matched[1]
      BY <1>2, <2>2, <2>3
    <2> QED
      BY <1>3, <2>4
  <1> HIDE DEF l
  <1>6. rest \in Seq(Facts) /\ Len(rest) = l /\ \A k \in 1..l : rest[k] = news[k]
    BY <1>2, <1>3, <1>4
  <1> HIDE DEF rest
  <1>7. m \in Seq(Facts) /\ Len(m) = Len(kept) + l
    <2>1. kept \o rest \in Seq(Facts)
      BY <1>6
    <2>2. Len(kept \o rest) = Len(kept) + Len(rest)
      BY <1>6
    <2> QED
      BY <1>1, <1>6, <2>1, <2>2
  <1>8. /\ \A i \in 1..Len(kept) : m[i] = kept[i]
        /\ \A k \in 1..l : m[Len(kept) + k] = news[k]
    BY <1>1, <1>3, <1>4, <1>6
  <1>9. \A i \in 1..Len(m) : i \in 1..Len(kept)
           \/ \E k \in 1..l : i = Len(kept) + k /\ k \in 1..Len(news)
    <2>1. ASSUME NEW i \in 1..Len(m), i \notin 1..Len(kept)
          PROVE  i - Len(kept) \in 1..l /\ i = Len(kept) + (i - Len(kept))
      BY <1>3, <1>4, <1>7, <2>1
    <2>2. 1..l \subseteq 1..Len(news)
      BY <1>3, <1>4
    <2> QED
      BY <2>1, <2>2
  <1>10. R!Distinct(m)
    <2>1. SUFFICES ASSUME NEW i \in 1..Len(m), NEW j \in 1..Len(m), m[i] = m[j] PROVE i = j
      BY <1>7 DEF R!Distinct
    <2>2. \A k \in 1..Len(kept) : kept[k] \in R!InList(kept)
      BY <1>3 DEF R!InList
    <2>3. CASE i \in 1..Len(kept) /\ j \in 1..Len(kept)
      BY <1>3, <1>8, <2>1, <2>3 DEF R!Distinct
    <2>4. CASE i \notin 1..Len(kept) /\ j \notin 1..Len(kept)
      <3>1. PICK k \in 1..l : i = Len(kept) + k /\ k \in 1..Len(news)
        BY <1>9, <2>4
      <3>2. PICK n \in 1..l : j = Len(kept) + n /\ n \in 1..Len(news)
        BY <1>9, <2>4
      <3>3. news[k] = news[n]
        BY <1>8, <2>1, <3>1, <3>2
      <3> QED
        BY <1>2, <1>3, <3>1, <3>2, <3>3 DEF R!Distinct
    <2>5. ASSUME NEW x \in 1..Len(m), NEW y \in 1..Len(m), x \in 1..Len(kept),
                 y \notin 1..Len(kept)
          PROVE  m[x] # m[y]
      <3>1. PICK k \in 1..l : y = Len(kept) + k /\ k \in 1..Len(news)
        BY <1>9, <2>5
      <3> QED
        BY <1>2, <1>8, <2>2, <2>5, <3>1
    <2> QED
      BY <2>1, <2>3, <2>4, <2>5
  <1>11. Len(m) \in 1..MaxPending /\ Len(kept) <= Len(m)
    BY <1>3, <1>4, <1>5, <1>7
  <1>12. \A i \in 1..Len(m) : i \in 1..Len(kept)
                \/ \E k \in 1..Len(matched) : m[i] = matched[k]
    <2>1. ASSUME NEW i \in 1..Len(m), i \notin 1..Len(kept)
          PROVE  \E k \in 1..Len(matched) : m[i] = matched[k]
      <3>1. PICK k \in 1..l : i = Len(kept) + k /\ k \in 1..Len(news)
        BY <1>9, <2>1
      <3>2. m[i] = news[k]
        BY <1>8, <3>1
      <3> QED
        BY <1>2, <3>1, <3>2
    <2> QED
      BY <2>1
  <1> QED
    BY <1>7, <1>8, <1>10, <1>11, <1>12 DEF ShortList

LEMMA ReviewInit == R!Init => ReviewInv
  <1> SUFFICES ASSUME R!Init PROVE ReviewInv
    OBVIOUS
  <1>1. /\ facts = Facts /\ review = None /\ beat = R!Quiet /\ cmd = [c \in Commands |-> R!Idle]
        /\ answered = {}
    BY DEF R!Init
  <1>2. R!Quiet \in BeatRec /\ R!Quiet.pc = "idle" /\ R!Idle \in CmdRec /\ Answering(R!Idle)
    BY DEF R!Quiet, R!Idle, BeatRec, CmdRec, Answering
  <1>3. ReviewShape
    BY <1>1, <1>2 DEF ReviewShape
  <1> QED
    BY <1>1, <1>2, <1>3 DEF ReviewInv, NumbersHold, GoneOrTaken

LEMMA BeatStartsKeeps == ReviewInv /\ R!BeatStarts => ReviewInv'
  <1> SUFFICES ASSUME ReviewInv, R!BeatStarts PROVE ReviewInv'
    OBVIOUS
  <1>1. PICK s \in R!Orders(facts) :
           /\ Len(s) <= ReviewCount
           /\ s # <<>> => review = None
           /\ review' = IF s = <<>> THEN review ELSE s
           /\ answered' = answered \ R!InList(s)
           /\ beat' = [R!Quiet EXCEPT !.pc = "cleaning", !.asks = R!Numbered(s)]
    BY DEF R!BeatStarts
  <1>2. facts' = facts /\ cmd' = cmd /\ crossed' = crossed /\ ReviewShape
    BY DEF R!BeatStarts, ReviewInv
  <1>3. /\ s \in Seq(Facts) /\ R!Distinct(s) /\ Len(s) \in Nat /\ DOMAIN s = 1..Len(s)
        /\ \A i \in 1..Len(s) : s[i] \in facts /\ s[i] \in R!InList(s)
    BY OrdersAre
  <1>4. R!Numbered(s) \in SUBSET (Nat \X Facts)
        /\ \A p \in R!Numbered(s) : p[1] \in 1..Len(s) /\ p = <<p[1], s[p[1]]>>
    BY <1>2, <1>3 DEF R!Numbered, ReviewShape
  <1>5. /\ beat' \in BeatRec /\ beat'.asks = R!Numbered(s)
    BY <1>1, <1>4 DEF BeatRec, R!Quiet
  <1>6. CASE s = <<>>
    <2>1. review' = review /\ answered' = answered
      BY <1>1, <1>3, <1>6 DEF R!InList
    <2>2. beat'.asks = {}
      BY <1>4, <1>5, <1>6
    <2> QED
      BY <1>2, <1>5, <2>1, <2>2
      DEF ReviewInv, ReviewShape, NumbersHold, GoneOrTaken
  <1>7. CASE s # <<>>
    <2>1. review' = s /\ s # None
      BY <1>1, <1>3, <1>7, ReviewAssumption
    <2>2. Len(s) \in 1..MaxPending
      <3>1. Len(s) # 0
        BY <1>3, <1>7
      <3> QED
        BY <1>1, <1>3, <3>1, ReviewAssumption
    <2>3. ReviewShape'
      BY <1>2, <1>3, <1>5, <2>1, <2>2 DEF ReviewShape, ShortList
    <2>4. NumbersHold'
      BY <1>2, <1>3, <1>4, <1>5, <2>1 DEF NumbersHold, Shown
    <2>5. GoneOrTaken'
      BY <1>1, <1>3, <2>1 DEF GoneOrTaken
    <2> QED
      BY <2>3, <2>4, <2>5 DEF ReviewInv
  <1> QED
    BY <1>6, <1>7

LEMMA CleanedKeeps ==
  ASSUME ReviewInv, NEW gone \in SUBSET Facts, R!MergesAway(gone), beat' \in BeatRec,
         \/ /\ beat'.asks = beat.asks /\ beat'.touched = beat.touched
            /\ beat'.merged = beat.merged \cup gone /\ beat.pc # "idle"
         \/ beat' = beat /\ beat.pc = "idle"
  PROVE  ReviewInv'
  <1>1. /\ facts' = facts \ gone /\ review' = review /\ cmd' = cmd /\ answered' = answered
        /\ crossed' = crossed
    BY DEF R!MergesAway
  <1>2. ReviewShape' /\ GoneOrTaken'
    BY <1>1 DEF ReviewInv, ReviewShape, GoneOrTaken, WillTake
  <1>3. NumbersHold'
    BY <1>1 DEF ReviewInv, NumbersHold, Shown
  <1> QED
    BY <1>2, <1>3 DEF ReviewInv

LEMMA CleansKeeps ==
  ASSUME ReviewInv, NEW gone \in SUBSET Facts, NEW over \in BOOLEAN, R!Cleans(gone, over)
  PROVE  ReviewInv'
  <1>1. /\ beat.pc = "cleaning" /\ R!MergesAway(gone) /\ beat \in BeatRec
        /\ beat' = [[beat EXCEPT !.merged = beat.merged \cup gone]
                      EXCEPT !.pc = IF over THEN "thinking" ELSE beat.pc]
    BY DEF R!Cleans, ReviewInv, ReviewShape
  <1>2. /\ beat' \in BeatRec /\ beat'.asks = beat.asks /\ beat'.touched = beat.touched
        /\ beat'.merged = beat.merged \cup gone
    BY <1>1 DEF BeatRec
  <1> QED
    BY <1>1, <1>2, CleanedKeeps

LEMMA CleanUpKeeps ==
  ASSUME ReviewInv, NEW gone \in SUBSET Facts, R!CleanUp(gone)
  PROVE  ReviewInv'
  <1>1. /\ R!MergesAway(gone) /\ beat \in BeatRec
        /\ beat' = IF beat.pc = "idle" THEN beat
                   ELSE [beat EXCEPT !.merged = beat.merged \cup gone]
    BY DEF R!CleanUp, ReviewInv, ReviewShape
  <1>2. CASE beat.pc = "idle"
    BY <1>1, <1>2, CleanedKeeps
  <1>3. CASE beat.pc # "idle"
    <2>1. /\ beat' \in BeatRec /\ beat'.asks = beat.asks /\ beat'.touched = beat.touched
          /\ beat'.merged = beat.merged \cup gone
      BY <1>1, <1>3 DEF BeatRec
    <2> QED
      BY <1>1, <1>3, <2>1, CleanedKeeps
  <1> QED
    BY <1>2, <1>3

LEMMA UnexpiredIs ==
  ASSUME ReviewShape, NEW kept \in R!Unexpired
  PROVE  /\ kept \in Seq(Facts) /\ Len(kept) <= MaxPending /\ R!Distinct(kept)
         /\ \A i \in 1..Len(kept) : review # None
                                    /\ \E j \in 1..Len(review) : kept[i] = review[j]
         /\ beat.asks # {} => kept = R!Pending
  <1> DEFINE pend == R!Pending
  <1>1. /\ pend \in Seq(Facts) /\ Len(pend) \in Nat /\ Len(pend) <= MaxPending
        /\ R!Distinct(pend) /\ DOMAIN pend = 1..Len(pend)
        /\ Len(pend) # 0 => review # None /\ pend = review
    <2>1. CASE review = None
      BY <2>1, ReviewAssumption DEF R!Pending, R!Distinct
    <2>2. CASE ShortList(review) /\ review # None
      BY <2>2, ReviewAssumption DEF R!Pending, ShortList
    <2> QED
      BY <2>1, <2>2 DEF ReviewShape
  <1>2. CASE kept = pend
    BY <1>1, <1>2
  <1>3. CASE beat.asks = {} /\ \E n \in 1..Len(pend) + 1 : kept = SubSeq(pend, n, Len(pend))
    <2>1. PICK n \in 1..Len(pend) + 1 : kept = SubSeq(pend, n, Len(pend))
      BY <1>3
    <2> HIDE DEF pend
    <2>2. n \in Nat /\ n >= 1 /\ n <= Len(pend) + 1
      BY <1>1
    <2>3. kept \in Seq(Facts)
      BY <1>1, <2>1, <2>2
    <2>4. Len(kept) = Len(pend) - n + 1 /\ \A i \in 1..Len(kept) : kept[i] = pend[n + i - 1]
      BY <1>1, <2>1, <2>2
    <2>5. \A i \in 1..Len(kept) : n + i - 1 \in 1..Len(pend)
      BY <1>1, <2>2, <2>4
    <2>6. R!Distinct(kept)
      <3>1. SUFFICES ASSUME NEW i \in 1..Len(kept), NEW j \in 1..Len(kept), kept[i] = kept[j]
                     PROVE  i = j
        BY <2>3 DEF R!Distinct
      <3>2. pend[n + i - 1] = pend[n + j - 1]
        BY <2>4, <3>1
      <3>3. n + i - 1 = n + j - 1
        BY <1>1, <2>5, <3>2 DEF R!Distinct
      <3>4. i \in Int /\ j \in Int
        OBVIOUS
      <3> QED
        BY <2>2, <3>3, <3>4
    <2>7. \A i \in 1..Len(kept) : Len(pend) # 0 /\ \E j \in 1..Len(pend) : kept[i] = pend[j]
      BY <1>1, <2>4, <2>5
    <2>8. Len(kept) <= MaxPending
      BY <1>1, <2>2, <2>4, ReviewAssumption
    <2> QED
      BY <1>1, <1>3, <2>3, <2>6, <2>7, <2>8
  <1> QED
    BY <1>2, <1>3 DEF R!Unexpired

LEMMA NominatesKeeps ==
  ASSUME ReviewInv, NEW named \in SUBSET Facts, R!Nominates(named)
  PROVE  ReviewInv'
  <1>1. PICK matched \in R!Orders(named) :
           IF matched = <<>>
           THEN /\ beat' = [beat EXCEPT !.pc = "reporting"]
                /\ UNCHANGED <<review, answered>>
           ELSE \E kept \in R!Unexpired :
                LET merged_1 == R!Merged(kept, matched)
                    proposed == {p \in R!Numbered(merged_1) : p[2] \in R!InList(matched)}
                IN /\ review' = merged_1
                   /\ answered' = answered \ {p[2] : p \in proposed}
                   /\ beat' = [beat EXCEPT !.pc = "reporting", !.asks = @ \cup proposed]
    BY DEF R!Nominates
  <1>2. /\ facts' = facts /\ cmd' = cmd /\ crossed' = crossed /\ ReviewShape
        /\ beat.pc = "thinking" /\ named \subseteq facts /\ beat \in BeatRec
    BY DEF R!Nominates, ReviewInv, ReviewShape
  <1>3. /\ matched \in Seq(Facts) /\ R!Distinct(matched)
        /\ \A i \in 1..Len(matched) : matched[i] \in named /\ matched[i] \in R!InList(matched)
        /\ DOMAIN matched = 1..Len(matched)
    BY OrdersAre
  <1>4. CASE matched = <<>>
    <2>1. /\ review' = review /\ answered' = answered
          /\ beat' = [beat EXCEPT !.pc = "reporting"]
      BY <1>1, <1>4
    <2>2. beat' \in BeatRec /\ beat'.asks = beat.asks /\ beat'.touched = beat.touched
      BY <1>2, <2>1 DEF BeatRec
    <2> QED
      BY <1>2, <2>1, <2>2 DEF ReviewInv, ReviewShape, NumbersHold, Shown, GoneOrTaken
  <1>5. CASE matched # <<>>
    <2>1. PICK kept \in R!Unexpired :
             LET m == R!Merged(kept, matched)
                 proposed == {p \in R!Numbered(m) : p[2] \in R!InList(matched)}
             IN /\ review' = m
                /\ answered' = answered \ {p[2] : p \in proposed}
                /\ beat' = [beat EXCEPT !.pc = "reporting", !.asks = @ \cup proposed]
      BY <1>1, <1>5
    <2> DEFINE m == R!Merged(kept, matched)
               proposed == {p \in R!Numbered(m) : p[2] \in R!InList(matched)}
    <2>2. /\ kept \in Seq(Facts) /\ Len(kept) <= MaxPending /\ R!Distinct(kept)
          /\ \A i \in 1..Len(kept) : review # None
                                     /\ \E j \in 1..Len(review) : kept[i] = review[j]
          /\ beat.asks # {} => kept = R!Pending
      BY <1>2, UnexpiredIs
    <2>3. /\ ShortList(m) /\ Len(kept) <= Len(m)
          /\ \A i \in 1..Len(kept) : m[i] = kept[i]
          /\ \A i \in 1..Len(m) : i \in 1..Len(kept)
                 \/ \E k \in 1..Len(matched) : m[i] = matched[k]
      BY <1>3, <1>5, <2>2, MergedIs
    <2>4. /\ review' = m /\ answered' = answered \ {p[2] : p \in proposed}
          /\ beat' = [beat EXCEPT !.pc = "reporting", !.asks = @ \cup proposed]
      BY <2>1
    <2> HIDE DEF m
    <2>5. m # None /\ m \in Seq(Facts) /\ Len(m) \in Nat /\ DOMAIN m = 1..Len(m)
          /\ Len(kept) \in Nat /\ 1..Len(kept) \subseteq 1..Len(m)
      BY <2>2, <2>3, ReviewAssumption DEF ShortList
    <2>6. \A i \in 1..Len(m) : <<i, m[i]>> \in R!Numbered(m)
      BY <2>5 DEF R!Numbered
    <2>7. \A p \in proposed : /\ p \in Nat \X Facts /\ p[1] \in 1..Len(m)
                              /\ p = <<p[1], m[p[1]]>> /\ p[2] \in facts
      <3>1. SUFFICES ASSUME NEW p \in proposed
                     PROVE  /\ p \in Nat \X Facts /\ p[1] \in 1..Len(m)
                            /\ p = <<p[1], m[p[1]]>> /\ p[2] \in facts
        OBVIOUS
      <3>2. PICK i \in 1..Len(m) : p = <<i, m[i]>>
        BY <2>5 DEF R!Numbered
      <3>3. m[i] \in Facts /\ i \in Nat
        BY <2>5
      <3>4. PICK k \in 1..Len(matched) : p[2] = matched[k]
        BY <1>3 DEF R!InList
      <3> QED
        BY <1>2, <1>3, <3>2, <3>3, <3>4
    <2>8. \A i \in 1..Len(m) : m[i] \in answered' => i \in 1..Len(kept)
      <3>1. SUFFICES ASSUME NEW i \in 1..Len(m), i \notin 1..Len(kept)
                     PROVE  m[i] \notin answered'
        OBVIOUS
      <3>2. m[i] \in R!InList(matched)
        BY <1>3, <2>3, <3>1
      <3>3. <<i, m[i]>> \in proposed
        BY <2>6, <3>2
      <3> HIDE DEF proposed
      <3> QED
        BY <2>4, <3>3
    <2> HIDE DEF proposed
    <2>9. /\ beat' \in BeatRec /\ beat'.asks = beat.asks \cup proposed
          /\ beat'.touched = beat.touched /\ beat'.merged = beat.merged
      BY <1>2, <2>4, <2>7 DEF BeatRec
    <2>10. ReviewShape'
      BY <1>2, <2>3, <2>4, <2>9 DEF ReviewShape
    <2>11. NumbersHold'
      <3>1. SUFFICES ASSUME ~beat.touched, NEW p \in beat.asks \cup proposed PROVE Shown(p)'
        BY <2>9 DEF NumbersHold
      <3>2. CASE p \in proposed
        BY <1>2, <2>4, <2>5, <2>7, <2>9, <3>2 DEF Shown
      <3>3. CASE p \in beat.asks
        <4>1. Shown(p) /\ kept = R!Pending
          BY <1>2, <2>2, <3>1, <3>3 DEF ReviewInv, NumbersHold
        <4>2. /\ p[1] \in 1..Len(kept) /\ p = <<p[1], kept[p[1]]>>
              /\ p[2] \in facts \cup beat.merged
          BY <4>1 DEF Shown, R!Pending
        <4> QED
          BY <1>2, <2>3, <2>4, <2>5, <2>9, <4>2 DEF Shown
      <3> QED
        BY <3>1, <3>2, <3>3
    <2>12. GoneOrTaken'
      <3>1. SUFFICES ASSUME ~crossed, NEW i \in 1..Len(m), m[i] \in answered'
                     PROVE  \E c \in Commands : WillTake(cmd[c], m[i])
        BY <1>2, <2>4 DEF GoneOrTaken, WillTake
      <3>2. i \in 1..Len(kept) /\ m[i] = kept[i] /\ m[i] \in answered
        BY <2>3, <2>4, <2>8, <3>1
      <3>3. PICK j \in 1..Len(review) : m[i] = review[j] /\ review # None
        BY <2>2, <3>2
      <3> QED
        BY <3>1, <3>2, <3>3 DEF ReviewInv, GoneOrTaken
    <2> QED
      BY <2>10, <2>11, <2>12 DEF ReviewInv
  <1> QED
    BY <1>4, <1>5

(* An answer: the file stays, what leaves the store is counted as answered,  *)
(* and the heartbeat's report no longer has to agree.                        *)
LEMMA RemovedKeeps ==
  ASSUME ReviewInv, NEW c \in Commands, NEW f, NEW m,
         facts' = facts \ {f}, answered' = answered \cup {f}, review' = review,
         crossed' = crossed, beat' = [beat EXCEPT !.touched = TRUE],
         cmd' = [cmd EXCEPT ![c] = m], m \in CmdRec, Answering(m), WillTake(m, f),
         \A g : WillTake(cmd[c], g) => WillTake(m, g)
  PROVE  ReviewInv'
  <1>1. ReviewShape /\ beat' \in BeatRec /\ beat'.touched
    BY DEF ReviewInv, ReviewShape, BeatRec
  <1>2. /\ cmd'[c] = m /\ cmd' \in [Commands -> CmdRec]
        /\ \A d \in Commands : d # c => cmd'[d] = cmd[d]
    BY <1>1 DEF ReviewShape
  <1>3. ReviewShape'
    BY <1>1, <1>2 DEF ReviewShape
  <1>4. NumbersHold'
    BY <1>1 DEF NumbersHold
  <1>5. GoneOrTaken'
    <2>1. SUFFICES ASSUME ~crossed, review # None, NEW i \in 1..Len(review),
                          review[i] \in answered'
                   PROVE  \E d \in Commands : WillTake(cmd'[d], review[i])
      BY DEF GoneOrTaken, WillTake
    <2>2. CASE review[i] = f
      BY <1>2, <2>2
    <2>3. CASE review[i] \in answered
      <3>1. PICK d \in Commands : WillTake(cmd[d], review[i])
        BY <2>1, <2>3 DEF ReviewInv, GoneOrTaken
      <3> QED
        BY <1>2, <3>1
    <2> QED
      BY <2>1, <2>2, <2>3
  <1> QED
    BY <1>3, <1>4, <1>5 DEF ReviewInv

LEMMA NoKeeps ==
  ASSUME ReviewInv, NEW c \in Commands, NEW n \in 1..MaxPending, R!No(c, n)
  PROVE  ReviewInv'
  <1> DEFINE m == [pc |-> "one", copy |-> review, todo |-> <<review[n]>>]
  <1>1. /\ cmd[c].pc = "idle" /\ review # None /\ n \in DOMAIN review
        /\ facts' = facts \ {review[n]} /\ answered' = answered \cup {review[n]}
        /\ cmd' = [cmd EXCEPT ![c] = m] /\ review' = review /\ crossed' = crossed
        /\ beat' = [beat EXCEPT !.touched = TRUE]
    BY DEF R!No, R!Removes, R!Touched
  <1>2. ShortList(review)
    BY <1>1 DEF ReviewInv, ReviewShape
  <1>3. review \in Seq(Facts) /\ n \in 1..Len(review) /\ review[n] \in Facts
    BY <1>1, <1>2 DEF ShortList
  <1> DEFINE one == <<review[n]>>
  <1>4. one \in Seq(Facts) /\ Len(one) = 1 /\ one[1] = review[n] /\ 1..1 = {1}
    BY <1>3
  <1>5. m.pc = "one" /\ m.copy = review /\ m.todo = one
    OBVIOUS
  <1>6. m \in CmdRec
    BY <1>3, <1>4 DEF CmdRec
  <1> HIDE DEF m, one
  <1>7. Answering(m) /\ WillTake(m, review[n]) /\ \A g : ~WillTake(cmd[c], g)
    BY <1>1, <1>2, <1>3, <1>4, <1>5 DEF Answering, WillTake
  <1> QED
    BY <1>1, <1>6, <1>7, RemovedKeeps

LEMMA NoAllKeeps ==
  ASSUME ReviewInv, NEW c \in Commands, R!NoAll(c)
  PROVE  ReviewInv'
  <1> DEFINE m == [pc |-> "all", copy |-> review, todo |-> review]
  <1>1. /\ cmd[c].pc = "idle" /\ review # None
        /\ facts' = facts \ {review[1]} /\ answered' = answered \cup {review[1]}
        /\ cmd' = [cmd EXCEPT ![c] = m] /\ review' = review /\ crossed' = crossed
        /\ beat' = [beat EXCEPT !.touched = TRUE]
    BY DEF R!NoAll, R!Removes, R!Touched
  <1>2. ShortList(review)
    BY <1>1 DEF ReviewInv, ReviewShape
  <1>3. review \in Seq(Facts) /\ Len(review) \in 1..MaxPending /\ 1 \in 1..Len(review)
    BY <1>2, ReviewAssumption DEF ShortList
  <1>4. m.pc = "all" /\ m.copy = review /\ m.todo = review /\ m \in CmdRec
    BY <1>3 DEF CmdRec
  <1> HIDE DEF m
  <1>5. Answering(m) /\ WillTake(m, review[1]) /\ \A g : ~WillTake(cmd[c], g)
    BY <1>1, <1>2, <1>3, <1>4 DEF Answering, WillTake
  <1> QED
    BY <1>1, <1>4, <1>5, RemovedKeeps

LEMMA NextRemovedKeeps ==
  ASSUME ReviewInv, NEW c \in Commands, R!NextRemoved(c)
  PROVE  ReviewInv'
  <1> DEFINE old == cmd[c]
             f == old.todo[2]
             t == Tail(old.todo)
             m == [old EXCEPT !.todo = t]
  <1>1. /\ Len(old.todo) > 1 /\ facts' = facts \ {f} /\ answered' = answered \cup {f}
        /\ cmd' = [cmd EXCEPT ![c].todo = t] /\ review' = review /\ crossed' = crossed
        /\ beat' = [beat EXCEPT !.touched = TRUE]
    BY DEF R!NextRemoved, R!Removes, R!Touched
  <1>2. old \in CmdRec /\ Answering(old) /\ cmd \in [Commands -> CmdRec]
    BY DEF ReviewInv, ReviewShape
  <1>3. old.todo \in Seq(Facts) /\ old.copy \in Seq(Facts) /\ old.pc \in {"idle", "one", "all"}
    BY <1>2 DEF CmdRec
  <1>4. cmd' = [cmd EXCEPT ![c] = m]
    BY <1>1, <1>2
  <1> HIDE DEF old
  <1>5. /\ t \in Seq(Facts) /\ Len(t) = Len(old.todo) - 1 /\ Len(old.todo) \in Nat
        /\ \A k \in 1..Len(t) : t[k] = old.todo[k + 1] /\ k + 1 \in 1..Len(old.todo)
    <2>1. old.todo # <<>>
      BY <1>1, <1>3
    <2>2. t \in Seq(Facts) /\ Len(t) = Len(old.todo) - 1 /\ Len(old.todo) \in Nat
      BY <1>3, <2>1
    <2>3. \A k \in 1..Len(t) : t[k] = old.todo[k + 1]
      BY <1>3, <2>1
    <2>4. \A k \in 1..Len(t) : k + 1 \in 1..Len(old.todo)
      BY <2>2
    <2> QED
      BY <2>2, <2>3, <2>4
  <1>6. old.pc = "all"
    <2>1. old.pc # "idle"
      BY <1>1, <1>2 DEF Answering
    <2> QED
      BY <1>1, <1>2, <1>3, <2>1 DEF Answering
  <1>7. m.pc = "all" /\ m.copy = old.copy /\ m.todo = t /\ m \in CmdRec
    <2> HIDE DEF t
    <2> QED
      BY <1>2, <1>5, <1>6 DEF CmdRec
  <1> HIDE DEF m, t
  <1>8. Answering(m)
    BY <1>2, <1>5, <1>6, <1>7 DEF Answering
  <1>9. WillTake(m, f)
    <2>1. 2 \in 1..Len(old.todo)
      BY <1>1, <1>5
    <2> QED
      BY <1>2, <1>6, <1>7, <2>1 DEF Answering, WillTake
  <1>10. \A g : WillTake(old, g) => WillTake(m, g)
    BY <1>6, <1>7 DEF WillTake
  <1> HIDE DEF f
  <1> QED
    BY <1>1, <1>4, <1>7, <1>8, <1>9, <1>10, RemovedKeeps DEF old

LEMMA LastRemovedKeeps ==
  ASSUME ReviewInv, NEW c \in Commands, R!LastRemoved(c)
  PROVE  ReviewInv'
  <1> DEFINE old == cmd[c]
             rest == R!Rest(c)
  <1>1. /\ Len(old.todo) = 1 /\ crossed' = (crossed \/ review # old.copy)
        /\ review' = rest /\ cmd' = [cmd EXCEPT ![c] = R!Idle]
        /\ facts' = facts /\ answered' = answered
        /\ beat' = [beat EXCEPT !.touched = TRUE]
    BY DEF R!LastRemoved, R!Touched
  <1>2. /\ old \in CmdRec /\ Answering(old) /\ cmd \in [Commands -> CmdRec] /\ ReviewShape
        /\ beat' \in BeatRec /\ beat'.touched
    BY <1>1 DEF ReviewInv, ReviewShape, BeatRec
  <1>3. R!Idle \in CmdRec /\ Answering(R!Idle)
    BY DEF R!Idle, CmdRec, Answering
  <1>4. /\ cmd' \in [Commands -> CmdRec] /\ \A d \in Commands : d # c => cmd'[d] = cmd[d]
        /\ cmd'[c] = R!Idle
    BY <1>1, <1>2, <1>3
  <1>5. old.pc # "idle" /\ ShortList(old.copy)
    BY <1>1, <1>2 DEF Answering
  <1>6. rest = None \/ ( /\ old.pc = "one" /\ ShortList(rest) /\ rest # None
                         /\ \A k \in 1..Len(rest) : rest[k] # old.todo[1] /\
                               \E i \in 1..Len(old.copy) : rest[k] = old.copy[i])
    <2> DEFINE first == old.todo[1]
               list == old.copy
               out == {first}
               w == R!Without(list, out)
    <2>1. old.copy \in Seq(Facts) /\ R!Distinct(old.copy) /\ Len(old.copy) \in 1..MaxPending
      BY <1>5 DEF ShortList
    <2>2. /\ w \in Seq(Facts) /\ Len(w) <= Len(old.copy) /\ R!Distinct(w)
          /\ \A k \in 1..Len(w) : w[k] # old.todo[1] /\
                               \E i \in 1..Len(old.copy) : w[k] = old.copy[i]
      <3>1. list \in Seq(Facts) /\ R!Distinct(list)
        BY <2>1
      <3> HIDE DEF first, list, out
      <3>2. /\ w \in Seq(Facts) /\ Len(w) <= Len(list) /\ R!Distinct(w)
            /\ \A k \in 1..Len(w) : w[k] \notin out /\
                                 \E i \in 1..Len(list) : w[k] = list[i]
        BY <3>1, WithoutIs
      <3> HIDE DEF w
      <3> QED
        BY <3>2 DEF first, list, out
    <2>3. rest = IF old.pc = "all" \/ w = <<>> THEN None ELSE w
      BY DEF R!Rest
    <2> HIDE DEF w, rest
    <2>4. CASE rest = w /\ w # <<>> /\ old.pc # "all"
      <3>1. Len(w) \in Nat /\ Len(w) # 0 /\ w # None
        BY <2>2, <2>4, ReviewAssumption
      <3>2. ShortList(w)
        BY <2>1, <2>2, <3>1, ReviewAssumption DEF ShortList
      <3> QED
        BY <1>2, <1>5, <2>2, <2>4, <3>1, <3>2 DEF CmdRec
    <2> QED
      BY <2>3, <2>4
  <1> HIDE DEF rest
  <1>7. ReviewShape'
    BY <1>1, <1>2, <1>3, <1>4, <1>6 DEF ReviewShape
  <1>8. NumbersHold'
    BY <1>2 DEF NumbersHold
  <1>9. GoneOrTaken'
    <2>1. SUFFICES ASSUME ~crossed, review = old.copy, rest # None,
                          NEW k \in 1..Len(rest), rest[k] \in answered
                   PROVE  \E d \in Commands : WillTake(cmd'[d], rest[k])
      <3>1. ~crossed' => ~crossed /\ review = old.copy
        BY <1>1
      <3> HIDE DEF old
      <3> QED
        BY <1>1, <2>1, <3>1 DEF GoneOrTaken, WillTake
    <2>2. /\ old.pc = "one" /\ rest[k] # old.todo[1]
          /\ \E i \in 1..Len(old.copy) : rest[k] = old.copy[i]
      BY <1>6, <2>1
    <2>3. review # None
      BY <1>5, <2>1, ReviewAssumption DEF ShortList
    <2>4. PICK d \in Commands : WillTake(cmd[d], rest[k])
      BY <2>1, <2>2, <2>3 DEF ReviewInv, GoneOrTaken
    <2>5. d # c
      BY <2>2, <2>4 DEF WillTake
    <2> QED
      BY <1>4, <2>4, <2>5
  <1> QED
    BY <1>7, <1>8, <1>9 DEF ReviewInv

LEMMA RestartKeeps == ReviewInv /\ R!Restart => ReviewInv'
  <1> SUFFICES ASSUME ReviewInv, R!Restart PROVE ReviewInv'
    OBVIOUS
  <1>1. /\ beat' = R!Quiet /\ cmd' = [c \in Commands |-> R!Idle]
        /\ crossed' = (crossed \/ \E c \in Commands : cmd[c] # R!Idle)
        /\ facts' = facts /\ review' = review /\ answered' = answered
    BY DEF R!Restart
  <1>2. R!Quiet \in BeatRec /\ R!Quiet.pc = "idle" /\ R!Idle \in CmdRec /\ Answering(R!Idle)
    BY DEF R!Quiet, R!Idle, BeatRec, CmdRec, Answering
  <1>3. ReviewShape' /\ NumbersHold'
    BY <1>1, <1>2 DEF ReviewInv, ReviewShape, NumbersHold
  <1>4. GoneOrTaken'
    <2>1. SUFFICES ASSUME ~crossed' PROVE GoneOrTaken'
      BY DEF GoneOrTaken
    <2>2. ~crossed /\ \A c \in Commands : cmd[c] = R!Idle /\ cmd'[c] = R!Idle
      BY <1>1, <2>1
    <2> QED
      BY <1>1, <2>2 DEF ReviewInv, GoneOrTaken
  <1> QED
    BY <1>3, <1>4 DEF ReviewInv

LEMMA OtherReviewKeeps ==
  ASSUME ReviewInv, R!Yes \/ R!List \/ \E sent \in BOOLEAN : R!Reported(sent)
  PROVE  ReviewInv'
  <1>1. R!Quiet \in BeatRec /\ R!Quiet.pc = "idle"
    BY DEF R!Quiet, BeatRec
  <1>2. CASE R!Yes
    <2>1. /\ review' = None /\ facts' = facts /\ cmd' = cmd /\ crossed' = crossed
          /\ beat' = [beat EXCEPT !.touched = TRUE]
      BY <1>2 DEF R!Yes, R!Touched
    <2>2. beat' \in BeatRec /\ beat'.touched
      BY <2>1 DEF ReviewInv, ReviewShape, BeatRec
    <2> QED
      BY <2>1, <2>2 DEF ReviewInv, ReviewShape, NumbersHold, GoneOrTaken
  <1>3. CASE R!List
    BY <1>3 DEF R!List, ReviewInv, ReviewShape, NumbersHold, GoneOrTaken, Shown, WillTake
  <1>4. CASE \E sent \in BOOLEAN : R!Reported(sent)
    BY <1>1, <1>4 DEF R!Reported, ReviewInv, ReviewShape, NumbersHold, GoneOrTaken, WillTake
  <1> QED
    BY <1>2, <1>3, <1>4

LEMMA ReviewStep == ASSUME ReviewInv, [R!Next]_reviewVars PROVE ReviewInv'
  <1>1. CASE UNCHANGED reviewVars
    BY <1>1 DEF reviewVars, ReviewInv, ReviewShape, NumbersHold, GoneOrTaken, Shown, WillTake
  <1> QED
    BY <1>1, BeatStartsKeeps, CleansKeeps, CleanUpKeeps, NominatesKeeps, NoKeeps, NoAllKeeps, NextRemovedKeeps,
       LastRemovedKeeps, RestartKeeps, OtherReviewKeeps DEF R!Next

(* An answered fact is gone, the numbers are true and the list is short.     *)
LEMMA ReviewSound == ReviewInv => R!AnsweredIsGone /\ R!NumbersAreTrue /\ R!ListIsShort
  <1> SUFFICES ASSUME ReviewInv PROVE R!AnsweredIsGone /\ R!NumbersAreTrue /\ R!ListIsShort
    OBVIOUS
  <1>1. review # None => review \in Seq(Facts) /\ DOMAIN review = 1..Len(review)
    BY DEF ReviewInv, ReviewShape, ShortList
  <1>2. R!ListIsShort
    BY DEF ReviewInv, ReviewShape, ShortList, R!ListIsShort
  <1>3. R!NumbersAreTrue
    <2>1. SUFFICES ASSUME beat.pc = "reporting", ~beat.touched, NEW p \in beat.asks
                   PROVE  p \in R!Numbered(R!Pending) /\ p[2] \in facts \cup beat.merged
      BY DEF R!NumbersAreTrue
    <2>2. Shown(p)
      BY <2>1 DEF ReviewInv, NumbersHold
    <2> QED
      BY <1>1, <2>2 DEF Shown, R!Pending, R!Numbered
  <1>4. R!AnsweredIsGone
    <2>1. SUFFICES ASSUME ~crossed, \A c \in Commands : cmd[c] = R!Idle,
                          NEW f \in answered, f \in R!InList(R!Pending)
                   PROVE  FALSE
      BY DEF R!AnsweredIsGone
    <2>2. review # None
      BY <2>1 DEF R!InList, R!Pending
    <2>3. PICK i \in 1..Len(review) : f = review[i]
      BY <1>1, <2>1, <2>2 DEF R!InList, R!Pending
    <2>4. PICK c \in Commands : WillTake(cmd[c], f)
      BY <2>1, <2>2, <2>3 DEF ReviewInv, GoneOrTaken
    <2> QED
      BY <2>1, <2>4 DEF WillTake, R!Idle
  <1> QED
    BY <1>2, <1>3, <1>4

-----------------------------------------------------------------------------
(* The preparation of events.  Until an event begins, the store remembers of *)
(* it what was asked; a model is asked about events that have not begun, and *)
(* no half day passes meanwhile.                                             *)

CtxRec == [asked : SUBSET Nat, answer : Nat \cup {None}]
RunRec == [stage : {"idle", "assess", "send"}, at : Nat, events : SUBSET Events,
           known : SUBSET Events, question : BOOLEAN]

Assessing(r) == r.at = now /\ \A e \in r.events : Start[e] > now

PrepShape ==
    /\ now \in Nat /\ ctx \in [Events -> CtxRec] /\ briefing \in [Briefings -> RunRec]
    /\ asked \in [Events -> Seq(Nat)] /\ told \subseteq Events /\ replies \subseteq SUBSET Events
    /\ \A b \in Briefings : briefing[b].stage = "assess" => Assessing(briefing[b])

AskedAt(s) == {s[n] : n \in 1..Len(s)}

Remembered == \A e \in Events : Start[e] > now => ctx[e].asked = AskedAt(asked[e])

(* Two questions that would be one too many. *)
Doubled(e, t, u) ==
    \/ P!Day(t) = P!Day(Start[e]) /\ P!Day(u) = P!Day(Start[e])
    \/ P!Day(t) < P!Day(Start[e]) /\ P!Day(u) < P!Day(Start[e])

Sparing(e, s) == \A m, n \in 1..Len(s) : Doubled(e, s[m], s[n]) => m = n

PrepInv == /\ PrepShape /\ Remembered /\ P!AnswersAreKept
           /\ \A e \in Events : Sparing(e, asked[e])

LEMMA StartIsNat == \A e \in Events : Start[e] \in Nat
  BY PrepAssumption

LEMMA DayIsInt == \A t \in Nat : P!Day(t) \in Int
  BY DEF P!Day

(* What is not too old is found in the store as it is; the rest is dropped.  *)
LEMMA LoadedIs ==
  ASSUME PrepShape, NEW e \in Events
  PROVE  /\ P!Loaded(now)[e] \in CtxRec
         /\ Start[e] > now => P!Loaded(now)[e] = ctx[e]
         /\ ctx[e].answer # None /\ Start[e] + KeepAnswered > now => P!Loaded(now)[e] = ctx[e]
  <1> DEFINE keep == IF ctx[e].answer # None THEN KeepAnswered ELSE KeepOpen
  <1>1. P!Loaded(now)[e] = IF Start[e] > now - keep THEN ctx[e] ELSE P!Nothing
    BY DEF P!Loaded
  <1>2. ctx[e] \in CtxRec /\ P!Nothing \in CtxRec /\ now \in Nat /\ Start[e] \in Nat
    BY StartIsNat DEF PrepShape, CtxRec, P!Nothing
  <1>3. keep \in Nat /\ (ctx[e].answer # None => keep = KeepAnswered)
    BY PrepAssumption
  <1> HIDE DEF keep
  <1>4. Start[e] > now => Start[e] > now - keep
    BY <1>2, <1>3
  <1>5. KeepAnswered \in Nat
    BY PrepAssumption
  <1>6. Start[e] + KeepAnswered > now => Start[e] > now - KeepAnswered
    BY <1>2, <1>5
  <1> QED
    BY <1>1, <1>2, <1>3, <1>4, <1>6

LEMMA PrepInit == P!Init => PrepInv
  <1> SUFFICES ASSUME P!Init PROVE PrepInv
    OBVIOUS
  <1>1. /\ now = 0 /\ ctx = [e \in Events |-> P!Nothing] /\ told = {} /\ replies = {}
        /\ briefing = [b \in Briefings |-> P!Idle] /\ asked = [e \in Events |-> <<>>]
    BY DEF P!Init
  <1>2. P!Nothing \in CtxRec /\ P!Nothing.asked = {} /\ P!Idle \in RunRec
        /\ P!Idle.stage = "idle"
    BY DEF P!Nothing, P!Idle, CtxRec, RunRec
  <1>3. <<>> \in Seq(Nat) /\ AskedAt(<<>>) = {} /\ \A e : Sparing(e, <<>>)
    BY DEF AskedAt, Sparing
  <1>4. asked \in [Events -> Seq(Nat)]
    BY <1>1, <1>3
  <1>5. PrepShape
    BY <1>1, <1>2, <1>4 DEF PrepShape
  <1>6. P!AnswersAreKept
    BY <1>1 DEF P!AnswersAreKept
  <1> QED
    BY <1>1, <1>2, <1>3, <1>5, <1>6 DEF PrepInv, Remembered

(* A step that writes neither the store nor the clock. *)
LEMMA UnwrittenKeeps ==
  ASSUME PrepInv, now' = now, ctx' = ctx, asked' = asked, told' = told,
         replies' \subseteq SUBSET Events, briefing' \in [Briefings -> RunRec],
         \A b \in Briefings : briefing'[b].stage = "assess" =>
             \/ briefing'[b] = briefing[b] /\ briefing[b].stage = "assess"
             \/ briefing'[b].at = now /\ \A e \in briefing'[b].events : Start[e] > now
  PROVE  PrepInv'
  <1>1. PrepShape'
    BY DEF PrepInv, PrepShape, Assessing
  <1>2. Remembered' /\ P!AnswersAreKept'
    BY DEF PrepInv, Remembered, P!AnswersAreKept
  <1>3. \A e \in Events : Sparing(e, asked'[e])
    BY DEF PrepInv
  <1>4. (\A e \in Events : Sparing(e, asked[e]))'
    BY <1>3 DEF Sparing, Doubled, P!Day
  <1> QED
    BY <1>1, <1>2, <1>4 DEF PrepInv

LEMMA OpenAreEvents == \A t : P!OpenQuestions(t) \subseteq Events
  BY DEF P!OpenQuestions

LEMMA QuietPrepKeeps ==
  ASSUME PrepInv,
         \/ \E b \in Briefings :
               P!Begin(b) \/ P!NoAnswer(b) \/ \E sent \in BOOLEAN : P!Deliver(b, sent)
         \/ P!Message \/ \E open_1 \in replies : P!NotCaptured(open_1)
         \/ \E o \in offers : P!Confirm(o) \/ P!Deny(o)
  PROVE  PrepInv'
  <1>1. PrepShape /\ now \in Nat /\ replies \subseteq SUBSET Events
        /\ briefing \in [Briefings -> RunRec]
    BY DEF PrepInv, PrepShape
  <1>2. ASSUME NEW b \in Briefings, P!Begin(b) PROVE PrepInv'
    <2> DEFINE soon == {e \in Events : Start[e] > now /\ Start[e] < now + Horizon}
               known == {e \in soon : P!Known(P!Loaded(now), e)}
               r == [stage |-> "assess", at |-> now, events |-> soon, known |-> known,
                     question |-> FALSE]
    <2>1. briefing' = [briefing EXCEPT ![b] = r]
      BY <1>2 DEF P!Begin
    <2>2. /\ now' = now /\ ctx' = ctx /\ asked' = asked /\ told' = told /\ replies' = replies
      BY <1>2 DEF P!Begin
    <2>3. soon \in SUBSET Events /\ known \in SUBSET Events /\ \A e \in soon : Start[e] > now
      OBVIOUS
    <2> HIDE DEF soon, known
    <2>4. r \in RunRec /\ r.at = now /\ r.events = soon
      BY <1>1, <2>3 DEF RunRec
    <2> HIDE DEF r
    <2>5. briefing' \in [Briefings -> RunRec] /\ briefing'[b] = r
          /\ \A c \in Briefings : c # b => briefing'[c] = briefing[c]
      BY <1>1, <2>1, <2>4
    <2> QED
      BY <1>1, <2>2, <2>3, <2>4, <2>5, UnwrittenKeeps
  <1>3. ASSUME NEW b \in Briefings, P!NoAnswer(b) \/ \E sent \in BOOLEAN : P!Deliver(b, sent)
        PROVE  PrepInv'
    <2>1. P!Idle \in RunRec /\ P!Idle.stage = "idle"
      BY DEF P!Idle, RunRec
    <2>2. /\ now' = now /\ ctx' = ctx /\ asked' = asked /\ told' = told /\ replies' = replies
          /\ \/ briefing' = [briefing EXCEPT ![b].stage = "send"]
             \/ briefing' = [briefing EXCEPT ![b] = P!Idle]
      BY <1>3 DEF P!NoAnswer, P!Deliver
    <2>3. briefing' \in [Briefings -> RunRec] /\ briefing'[b].stage # "assess"
          /\ \A c \in Briefings : c # b => briefing'[c] = briefing[c]
      BY <1>1, <2>1, <2>2 DEF RunRec
    <2> QED
      BY <1>1, <2>2, <2>3, UnwrittenKeeps
  <1>4. ASSUME \/ P!Message \/ \E open_1 \in replies : P!NotCaptured(open_1)
               \/ \E o \in offers : P!Confirm(o) \/ P!Deny(o)
        PROVE  PrepInv'
    <2>1. /\ now' = now /\ ctx' = ctx /\ asked' = asked /\ told' = told /\ briefing' = briefing
          /\ replies' \subseteq replies \cup {P!OpenQuestions(now)}
      BY <1>4 DEF P!Message, P!NotCaptured, P!Confirm, P!Deny
    <2>2. replies' \subseteq SUBSET Events
      BY <1>1, <2>1, OpenAreEvents
    <2> QED
      BY <1>1, <2>1, <2>2, UnwrittenKeeps
  <1> QED
    BY <1>2, <1>3, <1>4

LEMMA TickKeeps == PrepInv /\ P!Tick => PrepInv'
  <1> SUFFICES ASSUME PrepInv, P!Tick PROVE PrepInv'
    OBVIOUS
  <1>1. /\ now' = now + 1 /\ \A b \in Briefings : briefing[b].stage # "assess"
        /\ ctx' = ctx /\ asked' = asked /\ told' = told /\ replies' = replies
        /\ briefing' = briefing
    BY DEF P!Tick
  <1>2. PrepShape /\ now \in Nat /\ now' \in Nat /\ KeepAnswered \in Nat
    BY <1>1, PrepAssumption DEF PrepInv, PrepShape
  <1>3. PrepShape'
    BY <1>1, <1>2 DEF PrepShape
  <1>4. \A e \in Events : (Start[e] > now' => Start[e] > now)
            /\ (Start[e] + KeepAnswered > now' => Start[e] + KeepAnswered > now)
    BY <1>1, <1>2, StartIsNat
  <1>5. Remembered' /\ P!AnswersAreKept'
    BY <1>1, <1>2, <1>4 DEF PrepInv, PrepShape, Remembered, P!AnswersAreKept
  <1>6. (\A e \in Events : Sparing(e, asked[e]))'
    BY <1>1 DEF PrepInv, Sparing, Doubled, P!Day
  <1> QED
    BY <1>3, <1>5, <1>6 DEF PrepInv

LEMMA CapturedKeeps ==
  ASSUME PrepInv, NEW open_1 \in replies, NEW e \in open_1, P!Captured(open_1, e)
  PROVE  PrepInv'
  <1>1. PrepShape /\ e \in Events /\ now \in Nat
    BY DEF PrepInv, PrepShape
  <1>2. /\ ctx' = [P!Loaded(now) EXCEPT ![e].answer = now]
        /\ told' = told \cup {e} /\ replies' \subseteq replies
        /\ now' = now /\ briefing' = briefing /\ asked' = asked
    BY DEF P!Captured, P!Answered
  <1>3. P!Loaded(now) \in [Events -> CtxRec]
    <2>1. \A f \in Events : P!Loaded(now)[f] \in CtxRec
      BY <1>1, LoadedIs
    <2>2. DOMAIN P!Loaded(now) = Events
          /\ P!Loaded(now) = [f \in DOMAIN P!Loaded(now) |-> P!Loaded(now)[f]]
      BY DEF P!Loaded
    <2> QED
      BY <2>1, <2>2
  <1> DEFINE c == P!Loaded(now)
  <1>4. \A f \in Events : /\ Start[f] > now => c[f] = ctx[f]
                          /\ ctx[f].answer # None /\ Start[f] + KeepAnswered > now => c[f] = ctx[f]
    BY <1>1, LoadedIs
  <1>5. ctx' = [c EXCEPT ![e].answer = now] /\ c \in [Events -> CtxRec]
    BY <1>2, <1>3
  <1> HIDE DEF c
  <1>6. /\ ctx' \in [Events -> CtxRec] /\ ctx'[e].answer = now
        /\ \A f \in Events : ctx'[f].asked = c[f].asked /\ (f # e => ctx'[f] = c[f])
    BY <1>1, <1>5 DEF CtxRec
  <1>7. PrepShape'
    BY <1>1, <1>2, <1>6 DEF PrepShape, Assessing
  <1>8. Remembered'
    BY <1>2, <1>4, <1>6 DEF PrepInv, Remembered
  <1>9. P!AnswersAreKept'
    <2>1. SUFFICES ASSUME NEW f \in told', Start[f] + KeepAnswered > now
                   PROVE  ctx'[f].answer # None
      BY <1>2 DEF P!AnswersAreKept
    <2>2. now # None
      BY <1>1, PrepAssumption
    <2>3. CASE f = e
      BY <1>6, <2>2, <2>3
    <2>4. CASE f # e
      <3>1. f \in told /\ f \in Events /\ ctx[f].answer # None
        BY <1>1, <1>2, <2>1, <2>4 DEF PrepInv, PrepShape, P!AnswersAreKept
      <3> QED
        BY <1>4, <1>6, <2>1, <2>4, <3>1
    <2> QED
      BY <2>3, <2>4
  <1>10. (\A f \in Events : Sparing(f, asked[f]))'
    BY <1>2 DEF PrepInv, Sparing, Doubled, P!Day
  <1> QED
    BY <1>7, <1>8, <1>9, <1>10 DEF PrepInv

LEMMA DoubledBySymmetry ==
  ASSUME NEW e \in Events, NEW t \in Nat, NEW u \in Nat, Doubled(e, t, u)
  PROVE  Doubled(e, u, t)
  BY DEF Doubled

LEMMA AskedOnceMore ==
  ASSUME NEW e \in Events, NEW s \in Seq(Nat), NEW t \in Nat, Sparing(e, s),
         \A u \in AskedAt(s) : ~Doubled(e, u, t)
  PROVE  /\ Append(s, t) \in Seq(Nat) /\ Sparing(e, Append(s, t))
         /\ AskedAt(Append(s, t)) = AskedAt(s) \cup {t}
  <1> DEFINE x == Append(s, t)
  <1>1. /\ x \in Seq(Nat) /\ Len(x) = Len(s) + 1 /\ Len(s) \in Nat
        /\ x[Len(s) + 1] = t /\ \A n \in 1..Len(s) : x[n] = s[n] /\ s[n] \in Nat
    BY DEF x
  <1> HIDE DEF x
  <1>2. \A n \in 1..Len(x) : n \in 1..Len(s) \/ n = Len(x)
    BY <1>1
  <1>3. 1..Len(s) \subseteq 1..Len(x) /\ Len(x) \in 1..Len(x) /\ x[Len(x)] = t
    BY <1>1
  <1>4. AskedAt(x) = AskedAt(s) \cup {t}
    BY <1>1, <1>2, <1>3 DEF AskedAt
  <1>5. Sparing(e, x)
    <2>1. SUFFICES ASSUME NEW m \in 1..Len(x), NEW n \in 1..Len(x), Doubled(e, x[m], x[n])
                   PROVE  m = n
      BY DEF Sparing
    <2>2. ASSUME NEW k \in 1..Len(s) PROVE ~Doubled(e, x[k], t) /\ ~Doubled(e, t, x[k])
      <3>1. x[k] \in AskedAt(s) /\ x[k] \in Nat
        BY <1>1 DEF AskedAt
      <3> QED
        BY <3>1, DoubledBySymmetry
    <2>3. CASE m \in 1..Len(s) /\ n \in 1..Len(s)
      BY <1>1, <2>1, <2>3 DEF Sparing
    <2> QED
      BY <1>2, <1>3, <2>1, <2>2, <2>3
  <1> QED
    BY <1>1, <1>4, <1>5 DEF x

LEMMA AssessKeeps ==
  ASSUME PrepInv, NEW b \in Briefings, NEW wish \in SUBSET Events, NEW remind \in SUBSET Events,
         NEW ahead \in 1..MaxAhead, P!Assess(b, wish, remind, ahead)
  PROVE  PrepInv'
  <1> DEFINE ask == P!Questions(b, wish)
             c == P!Loaded(now)
  <1>1. PrepShape /\ now \in Nat /\ b \in Briefings
    BY DEF PrepInv, PrepShape
  <1>2. /\ briefing[b].stage = "assess" /\ wish \subseteq briefing[b].events
        /\ briefing' = [briefing EXCEPT ![b].stage = "send", ![b].question = (ask # {})]
        /\ ctx' = IF ask = {} THEN ctx
                  ELSE [e \in Events |-> IF e \in ask
                           THEN [P!Loaded(briefing[b].at)[e] EXCEPT
                                    !.asked = @ \cup {briefing[b].at}]
                           ELSE P!Loaded(briefing[b].at)[e]]
        /\ asked' = [e \in Events |-> IF e \in ask THEN Append(asked[e], briefing[b].at)
                                                   ELSE asked[e]]
        /\ now' = now /\ told' = told /\ replies' = replies
    BY DEF P!Assess
  <1>3. briefing[b].at = now /\ \A e \in wish : Start[e] > now
    BY <1>1, <1>2 DEF PrepShape, Assessing
  <1>4. \A e \in ask : e \in Events /\ Start[e] > now /\ P!ShouldAsk(c, e, now)
    BY <1>3 DEF P!Questions
  <1>5. \A e \in Events : /\ c[e] \in CtxRec
                          /\ Start[e] > now => c[e] = ctx[e]
                          /\ ctx[e].answer # None /\ Start[e] + KeepAnswered > now => c[e] = ctx[e]
    BY <1>1, LoadedIs
  <1>6. /\ ctx' = IF ask = {} THEN ctx
                  ELSE [e \in Events |-> IF e \in ask
                           THEN [c[e] EXCEPT !.asked = @ \cup {now}] ELSE c[e]]
        /\ asked' = [e \in Events |-> IF e \in ask THEN Append(asked[e], now) ELSE asked[e]]
    BY <1>2, <1>3
  <1>7. briefing' \in [Briefings -> RunRec] /\ briefing'[b].stage = "send"
        /\ \A d \in Briefings : d # b => briefing'[d] = briefing[d]
    <2>1. (ask # {}) \in BOOLEAN
      OBVIOUS
    <2> DEFINE some == ask # {}
    <2> HIDE DEF ask, some
    <2>2. some \in BOOLEAN
      BY <2>1 DEF some
    <2>3. briefing' = [briefing EXCEPT ![b].stage = "send", ![b].question = some]
      BY <1>2 DEF some
    <2> DEFINE r == [briefing[b] EXCEPT !.stage = "send", !.question = some]
    <2>4. briefing[b] \in RunRec /\ briefing \in [Briefings -> RunRec]
      BY <1>1 DEF PrepShape
    <2>5. r \in RunRec /\ r.stage = "send"
      BY <2>2, <2>4 DEF RunRec
    <2>6. briefing' = [briefing EXCEPT ![b] = r]
      BY <2>3, <2>4
    <2> HIDE DEF r
    <2> QED
      BY <2>4, <2>5, <2>6
  <1> HIDE DEF c, ask
  <1>8. \A e \in Events : asked[e] \in Seq(Nat) /\ Sparing(e, asked[e])
    BY <1>1 DEF PrepInv, PrepShape
  <1>9. ASSUME NEW e \in ask
        PROVE  /\ asked'[e] \in Seq(Nat) /\ Sparing(e, asked'[e])
               /\ AskedAt(asked'[e]) = AskedAt(asked[e]) \cup {now}
    <2>1. e \in Events /\ Start[e] > now /\ P!ShouldAsk(c, e, now) /\ asked'[e] = Append(asked[e], now)
      BY <1>4, <1>6
    <2>2. c[e].asked = AskedAt(asked[e])
      BY <1>5, <2>1 DEF PrepInv, Remembered
    <2>3. \A u \in AskedAt(asked[e]) : ~Doubled(e, u, now)
      <3>1. SUFFICES ASSUME NEW u \in AskedAt(asked[e]), Doubled(e, u, now) PROVE FALSE
        OBVIOUS
      <3>2. P!Day(now) = P!Day(Start[e]) /\ P!Day(u) # P!Day(now)
        BY <2>1, <2>2, <3>1 DEF P!ShouldAsk, P!Held
      <3>3. P!Day(now) \in Int
        BY <1>1, DayIsInt
      <3> QED
        BY <3>1, <3>2, <3>3 DEF Doubled
    <2> QED
      BY <1>1, <1>8, <2>1, <2>3, AskedOnceMore
  <1>10. \A e \in Events : e \notin ask => asked'[e] = asked[e]
    BY <1>6
  <1>11. CASE ask = {}
    <2>1. ctx' = ctx
      BY <1>6, <1>11
    <2>2. asked' = asked
      BY <1>1, <1>6, <1>11 DEF PrepShape
    <2>3. replies' \subseteq SUBSET Events
      BY <1>1, <1>2 DEF PrepShape
    <2> QED
      BY <1>2, <1>7, <2>1, <2>2, <2>3, UnwrittenKeeps
  <1>12. CASE ask # {}
    <2>1. /\ ctx' \in [Events -> CtxRec]
          /\ \A e \in Events : ctx'[e].answer = c[e].answer
                  /\ ctx'[e].asked = IF e \in ask THEN c[e].asked \cup {now} ELSE c[e].asked
      <3>1. \A e \in Events : ctx'[e] = IF e \in ask THEN [c[e] EXCEPT !.asked = @ \cup {now}]
                                                     ELSE c[e]
        BY <1>6, <1>12
      <3>2. ASSUME NEW e \in Events
            PROVE  /\ ctx'[e] \in CtxRec /\ ctx'[e].answer = c[e].answer
                   /\ ctx'[e].asked = IF e \in ask THEN c[e].asked \cup {now} ELSE c[e].asked
        <4>1. c[e] \in CtxRec /\ now \in Nat
          BY <1>1, <1>5
        <4>2. [c[e] EXCEPT !.asked = @ \cup {now}] \in CtxRec
          BY <4>1 DEF CtxRec
        <4> QED
          BY <3>1, <4>1, <4>2 DEF CtxRec
      <3>3. DOMAIN ctx' = Events /\ ctx' = [e \in DOMAIN ctx' |-> ctx'[e]]
        BY <1>6, <1>12
      <3> QED
        BY <3>2, <3>3
    <2>2. asked' \in [Events -> Seq(Nat)]
      <3>1. \A e \in Events : asked'[e] \in Seq(Nat)
        BY <1>8, <1>9, <1>10
      <3>2. DOMAIN asked' = Events /\ asked' = [e \in DOMAIN asked' |-> asked'[e]]
        BY <1>6
      <3> QED
        BY <3>1, <3>2
    <2>3. PrepShape'
      BY <1>1, <1>2, <1>7, <2>1, <2>2 DEF PrepShape, Assessing
    <2>4. Remembered'
      <3>1. SUFFICES ASSUME NEW e \in Events, Start[e] > now
                     PROVE  ctx'[e].asked = AskedAt(asked'[e])
        BY <1>2 DEF Remembered, AskedAt
      <3>2. c[e].asked = AskedAt(asked[e])
        BY <1>5, <3>1 DEF PrepInv, Remembered
      <3> QED
        BY <1>9, <1>10, <2>1, <3>2
    <2>5. P!AnswersAreKept'
      BY <1>1, <1>2, <1>5, <2>1 DEF PrepInv, PrepShape, P!AnswersAreKept
    <2>6. \A e \in Events : Sparing(e, asked'[e])
      BY <1>8, <1>9, <1>10
    <2>7. (\A e \in Events : Sparing(e, asked[e]))'
      BY <2>6 DEF Sparing, Doubled, P!Day
    <2> QED
      BY <2>3, <2>4, <2>5, <2>7 DEF PrepInv
  <1> QED
    BY <1>11, <1>12

LEMMA PrepStep == ASSUME PrepInv, [P!Next]_prepVars PROVE PrepInv'
  <1>1. CASE UNCHANGED prepVars
    BY <1>1 DEF prepVars, PrepInv, PrepShape, Assessing, Remembered, AskedAt, Sparing, Doubled,
                P!Day, P!AnswersAreKept
  <1>2. CASE \E b \in Briefings, wish, remind \in SUBSET Events, ahead \in 1..MaxAhead :
                P!Assess(b, wish, remind, ahead)
    BY <1>2, AssessKeeps
  <1>3. CASE \E open_1 \in replies : \E e \in open_1 : P!Captured(open_1, e)
    BY <1>3, CapturedKeeps
  <1>4. CASE P!Tick
    BY <1>4, TickKeeps
  <1>5. CASE \/ \E b \in Briefings :
                   P!Begin(b) \/ P!NoAnswer(b) \/ \E sent \in BOOLEAN : P!Deliver(b, sent)
             \/ P!Message \/ \E open_1 \in replies : P!NotCaptured(open_1)
             \/ \E o \in offers : P!Confirm(o) \/ P!Deny(o)
    BY <1>5, QuietPrepKeeps
  <1> QED
    BY <1>1, <1>2, <1>3, <1>4, <1>5 DEF P!Next

LEMMA AtMostOne ==
  ASSUME NEW S, \A m, n \in S : m = n
  PROVE  Cardinality(S) <= 1
  <1>1. CASE S = {}
    BY <1>1, FS_EmptySet
  <1>2. CASE S # {}
    <2>1. PICK n \in S : TRUE
      BY <1>2
    <2>2. S = {n}
      BY <2>1
    <2>3. Cardinality({n}) = 1
      BY FS_Singleton
    <2> QED
      BY <2>2, <2>3
  <1> QED
    BY <1>1, <1>2

(* The owner is asked of an event once before its day and once on it, and an *)
(* answer stays.                                                             *)
LEMMA PrepSound == PrepInv => P!AskedSparingly /\ P!AnswersAreKept
  <1> SUFFICES ASSUME PrepInv PROVE P!AskedSparingly
    BY DEF PrepInv
  <1>1. SUFFICES ASSUME NEW e \in Events
                 PROVE  /\ Cardinality({n \in DOMAIN asked[e] :
                               P!Day(asked[e][n]) = P!Day(Start[e])}) <= 1
                        /\ Cardinality({n \in DOMAIN asked[e] :
                               P!Day(asked[e][n]) < P!Day(Start[e])}) <= 1
    BY DEF P!AskedSparingly, P!Count, P!Cardinality, Cardinality
  <1>2. DOMAIN asked[e] = 1..Len(asked[e]) /\ Sparing(e, asked[e])
    BY DEF PrepInv, PrepShape
  <1> DEFINE S == {n \in DOMAIN asked[e] : P!Day(asked[e][n]) = P!Day(Start[e])}
             B == {n \in DOMAIN asked[e] : P!Day(asked[e][n]) < P!Day(Start[e])}
  <1>3. \A m, n \in S : m = n
    BY <1>2 DEF Sparing, Doubled
  <1>4. \A m, n \in B : m = n
    BY <1>2 DEF Sparing, Doubled
  <1> HIDE DEF S, B
  <1>5. Cardinality(S) <= 1 /\ Cardinality(B) <= 1
    BY <1>3, <1>4, AtMostOne
  <1> QED
    BY <1>5 DEF S, B

-----------------------------------------------------------------------------
(* The document vault.  A reindex that is about to write a file has its text *)
(* of the time it took, or the file is newer; the row it saw is not of the   *)
(* file's time.  One reindex writes at a time, and when it writes the row    *)
(* the chunks are of its text.                                               *)

FileRec == [text : Texts \cup {"blank"}, at : Nat]
VaultRun == [step : {"idle", "walking", "reading", "embedding", "adding", "added", "recording"},
             left : SUBSET Paths, seen : SUBSET Paths, path : Paths \cup {None}, at : Nat,
             saw : FileRec \cup {None}, text : Texts \cup {"blank", None}]

Taking == {"embedding", "adding", "added", "recording"}

Timed(f) == f # None => f.at <= edits

FilesFine ==
    /\ edits \in Nat /\ file \in [Paths -> FileRec \cup {None}]
    /\ row \in [Paths -> FileRec \cup {None}]
    /\ chunks \in [Paths -> Texts \cup {"blank", "part", None}]
    /\ \A p \in Paths : Timed(file[p]) /\ Timed(row[p])

RunFine(m) ==
    /\ m \in VaultRun /\ m.at <= edits /\ Timed(m.saw)
    /\ m.step \in Taking \cup {"reading"} =>
          /\ m.path \in Paths
          /\ m.saw # None /\ file[m.path] # None => m.saw.at # file[m.path].at
    /\ m.step \in Taking =>
          /\ m.text \in Texts \cup {"blank"}
          /\ file[m.path] # None /\ file[m.path].at = m.at => file[m.path].text = m.text
    /\ m.step = "recording" => chunks[m.path] = m.text

RunsFine == run = [r \in Runs |-> run[r]] /\ \A r \in Runs : RunFine(run[r])

OneWriter == \A q, r \in Runs : run[q].step \in V!Writing /\ run[r].step \in V!Writing => q = r

WrittenOn(p) == \E r \in Runs : run[r].step \in V!Writing /\ run[r].path = p

Served == \A p \in Paths \ disturbed :
    ~WrittenOn(p) /\ file[p] # None /\ row[p] # None /\ row[p].at = file[p].at =>
        chunks[p] = file[p].text

VaultInv == FilesFine /\ RunsFine /\ OneWriter /\ Served

LEMMA IdleIsFine == edits \in Nat => RunFine(V!Idle) /\ V!Idle.step = "idle"
  BY DEF RunFine, V!Idle, VaultRun, Timed, Taking

LEMMA VaultInit == V!Init => VaultInv
  <1> SUFFICES ASSUME V!Init PROVE VaultInv
    OBVIOUS
  <1>1. /\ file = [p \in Paths |-> None] /\ row = [p \in Paths |-> None]
        /\ chunks = [p \in Paths |-> None] /\ run = [r \in Runs |-> V!Idle] /\ edits = 0
    BY DEF V!Init
  <1>2. FilesFine
    BY <1>1 DEF FilesFine, Timed
  <1>3. RunsFine
    BY <1>1, IdleIsFine DEF RunsFine
  <1>4. OneWriter
    BY <1>1, IdleIsFine DEF OneWriter, V!Writing
  <1>5. Served
    BY <1>1 DEF Served
  <1> QED
    BY <1>2, <1>3, <1>4, <1>5 DEF VaultInv

(* The owner writes or removes a file: its time is one no row has.           *)
LEMMA OwnerKeeps ==
  ASSUME VaultInv, NEW p \in Paths, NEW f \in FileRec \cup {None},
         file' = [file EXCEPT ![p] = f], edits' = edits + 1, f # None => f.at = edits + 1,
         UNCHANGED <<row, chunks, run, disturbed>>
  PROVE  VaultInv'
  <1>1. FilesFine /\ RunsFine /\ edits \in Nat
    BY DEF VaultInv, FilesFine
  <1>2. file'[p] = f /\ \A q \in Paths : q # p => file'[q] = file[q]
    BY <1>1 DEF FilesFine
  <1>3. ASSUME NEW g \in FileRec \cup {None}, Timed(g)
        PROVE  Timed(g)' /\ (g # None /\ f # None => g.at # f.at)
    BY <1>1, <1>3 DEF Timed, FileRec
  <1>4. FilesFine'
    <2>1. file' \in [Paths -> FileRec \cup {None}]
      BY <1>1 DEF FilesFine
    <2>2. Timed(f)'
      BY <1>1 DEF Timed
    <2>3. \A q \in Paths : Timed(file[q])' /\ Timed(row[q])'
      <3>1. SUFFICES ASSUME NEW q \in Paths PROVE Timed(file[q])' /\ Timed(row[q])'
        OBVIOUS
      <3>2. file[q] \in FileRec \cup {None} /\ row[q] \in FileRec \cup {None}
            /\ Timed(file[q]) /\ Timed(row[q])
        BY <1>1 DEF FilesFine
      <3> QED
        BY <1>1, <1>2, <3>2 DEF Timed, FileRec
    <2> QED
      BY <1>1, <2>1, <2>3 DEF FilesFine
  <1>5. RunsFine'
    <2>1. ASSUME NEW r \in Runs PROVE RunFine(run[r])'
      <3> DEFINE m == run[r]
      <3>1. RunFine(m)
        BY <1>1 DEF RunsFine
      <3>2. m \in VaultRun /\ m.at <= edits /\ m.at \in Nat /\ m.saw \in FileRec \cup {None}
            /\ Timed(m.saw)
        BY <3>1 DEF RunFine, VaultRun
      <3>3. m.at <= edits' /\ Timed(m.saw)' /\ (f # None => m.at # f.at)
            /\ (m.saw # None /\ f # None => m.saw.at # f.at)
        BY <1>1, <3>2, <1>3 DEF Timed, FileRec
      <3>4. m' = m
        OBVIOUS
      <3> HIDE DEF m
      <3>5. RunFine(m)'
        <4>1. CASE m.path = p
          BY <1>2, <3>1, <3>2, <3>3, <3>4, <4>1 DEF RunFine
        <4>2. CASE m.path # p
          BY <1>2, <3>1, <3>2, <3>3, <3>4, <4>2 DEF RunFine, Taking
        <4> QED
          BY <4>1, <4>2
      <3> QED
        BY <3>5 DEF m
    <2> QED
      BY <1>1, <2>1 DEF RunsFine
  <1>6. OneWriter'
    BY DEF VaultInv, OneWriter, V!Writing
  <1>7. Served'
    <2>1. SUFFICES ASSUME NEW q \in Paths \ disturbed, ~WrittenOn(q), file'[q] # None,
                          row[q] # None, row[q].at = file'[q].at
                   PROVE  chunks[q] = file'[q].text
      BY DEF Served, WrittenOn, V!Writing
    <2>2. q # p
      BY <1>1, <1>2, <1>3, <2>1 DEF FilesFine
    <2> QED
      BY <1>2, <2>1, <2>2 DEF VaultInv, Served
  <1> QED
    BY <1>4, <1>5, <1>6, <1>7 DEF VaultInv

(* A reindex goes on without writing anything. *)
LEMMA GoesOn ==
  ASSUME VaultInv, NEW r \in Runs, NEW m, RunFine(m), m.step \notin V!Writing,
         run[r].step \notin V!Writing, run' = [run EXCEPT ![r] = m],
         UNCHANGED <<file, row, chunks, edits, disturbed>>
  PROVE  VaultInv'
  <1>1. FilesFine' /\ RunsFine
    BY DEF VaultInv, FilesFine, Timed
  <1>2. run'[r] = m /\ \A q \in Runs : q # r => run'[q] = run[q]
    BY <1>1 DEF RunsFine
  <1>3. ASSUME NEW x, RunFine(x) PROVE RunFine(x)'
    BY <1>3 DEF RunFine, Timed
  <1>4. \A q \in Runs : RunFine(run'[q])
    BY <1>1, <1>2 DEF RunsFine
  <1>5. \A q \in Runs : RunFine(run[q])'
    BY <1>4 DEF RunFine, Timed
  <1>6. RunsFine'
    BY <1>1, <1>5 DEF RunsFine
  <1>7. OneWriter'
    BY <1>2 DEF VaultInv, OneWriter, V!Writing
  <1>8. Served'
    <2>1. \A p : WrittenOn(p)' <=> WrittenOn(p)
      BY <1>2 DEF WrittenOn, V!Writing
    <2> QED
      BY <2>1 DEF VaultInv, Served
  <1> QED
    BY <1>1, <1>6, <1>7, <1>8 DEF VaultInv

LEMMA StartsKeeps ==
  ASSUME VaultInv, NEW r \in Runs, V!Begin(r) \/ V!EmbedFails(r)
  PROVE  VaultInv'
  <1>1. RunFine(V!Idle) /\ V!Idle.step = "idle" /\ RunFine(run[r])
    BY IdleIsFine DEF VaultInv, FilesFine, RunsFine
  <1>2. CASE V!Begin(r)
    <2> DEFINE there == {p \in Paths : file[p] # None}
               m == [V!Idle EXCEPT !.step = "walking", !.left = there, !.seen = there]
    <2>1. run' = [run EXCEPT ![r] = m] /\ run[r].step = "idle"
          /\ UNCHANGED <<file, row, chunks, edits, disturbed>>
      BY <1>2 DEF V!Begin
    <2>2. there \in SUBSET Paths
      OBVIOUS
    <2> HIDE DEF there
    <2>3. m \in VaultRun /\ m.step = "walking" /\ m.at = V!Idle.at /\ m.saw = V!Idle.saw
      BY <1>1, <2>2 DEF RunFine, VaultRun
    <2> HIDE DEF m
    <2>4. RunFine(m)
      BY <1>1, <2>3 DEF RunFine, Taking
    <2> QED
      BY <2>1, <2>3, <2>4, GoesOn DEF V!Writing
  <1>3. CASE V!EmbedFails(r)
    BY <1>1, <1>3, GoesOn DEF V!EmbedFails, V!Writing
  <1> QED
    BY <1>2, <1>3

LEMMA VisitKeeps ==
  ASSUME VaultInv, NEW r \in Runs, NEW p \in Paths, V!Visit(r, p)
  PROVE  VaultInv'
  <1> DEFINE old == run[r]
             gone == old.left \ {p}
  <1>1. /\ old.step = "walking" /\ UNCHANGED <<file, row, chunks, edits, disturbed>>
        /\ RunFine(old) /\ FilesFine
    BY DEF V!Visit, VaultInv, RunsFine
  <1>2. RunFine(V!Idle) /\ V!Idle.step = "idle"
    BY <1>1, IdleIsFine DEF FilesFine
  <1>3. old \in VaultRun /\ gone \in SUBSET Paths
    BY <1>1 DEF RunFine, VaultRun
  <1> HIDE DEF gone
  <1>4. CASE file[p] = None
    <2>1. run' = [run EXCEPT ![r] = V!Idle]
      BY <1>4 DEF V!Visit
    <2> QED
      BY <1>1, <1>2, <2>1, GoesOn DEF V!Writing
  <1>5. CASE file[p] # None /\ V!Unchanged(p)
    <2> DEFINE m == [old EXCEPT !.left = gone]
    <2>1. run' = [run EXCEPT ![r] = m]
      BY <1>1, <1>5 DEF V!Visit, gone
    <2>2. RunFine(m) /\ m.step = "walking"
      BY <1>1, <1>3 DEF RunFine, VaultRun, Taking
    <2> QED
      BY <1>1, <2>1, <2>2, GoesOn DEF V!Writing
  <1>6. CASE file[p] # None /\ ~V!Unchanged(p)
    <2> DEFINE m == [[old EXCEPT !.left = gone] EXCEPT !.step = "reading", !.path = p,
                        !.at = file[p].at, !.saw = row[p]]
    <2>1. run' = [run EXCEPT ![r] = m]
      BY <1>1, <1>6 DEF V!Visit, gone
    <2>2. /\ file[p] \in FileRec /\ row[p] \in FileRec \cup {None} /\ Timed(row[p])
          /\ file[p].at <= edits /\ file[p].at \in Nat
      BY <1>1, <1>6 DEF FilesFine, Timed, FileRec
    <2>3. row[p] # None => row[p].at # file[p].at
      BY <1>6 DEF V!Unchanged
    <2> DEFINE at == file[p].at
               saw == row[p]
    <2>4. m = [[old EXCEPT !.left = gone] EXCEPT !.step = "reading", !.path = p, !.at = at,
                  !.saw = saw]
          /\ at \in Nat /\ saw \in FileRec \cup {None}
      BY <2>2
    <2> HIDE DEF at, saw, m
    <2>5. m \in VaultRun
      BY <1>3, <2>4 DEF VaultRun
    <2>6. m.step = "reading" /\ m.path = p /\ m.at = at /\ m.saw = saw
      BY <1>3, <2>4 DEF VaultRun
    <2>7. RunFine(m)
      BY <2>2, <2>3, <2>5, <2>6 DEF RunFine, Taking, at, saw
    <2> QED
      BY <1>1, <2>1, <2>6, <2>7, GoesOn DEF V!Writing
  <1> QED
    BY <1>4, <1>5, <1>6

LEMMA ReadKeeps ==
  ASSUME VaultInv, NEW r \in Runs, V!Read(r), V!NobodyWrites
  PROVE  VaultInv'
  <1> DEFINE old == run[r]
             p == old.path
             back == [old EXCEPT !.step = "walking"]
  <1>1. /\ old.step = "reading" /\ UNCHANGED <<file, chunks, edits>>
        /\ RunFine(old) /\ FilesFine /\ RunsFine
    BY DEF V!Read, VaultInv, RunsFine
  <1>2. p \in Paths /\ old \in VaultRun /\ old.at \in Nat /\ old.at <= edits
    BY <1>1 DEF RunFine, VaultRun
  <1>3. RunFine(back) /\ back.step = "walking"
    BY <1>1 DEF RunFine, VaultRun, Taking
  <1>4. CASE file[p] # None /\ V!SameAsRow(r)
    <2> DEFINE w == [at |-> old.at, text |-> file[p].text]
    <2>1. /\ row' = [row EXCEPT ![p] = w] /\ run' = [run EXCEPT ![r] = back]
          /\ disturbed' = IF chunks[p] = file[p].text THEN disturbed ELSE disturbed \cup {p}
      BY <1>4 DEF V!Read, V!TimeOf
    <2>2. w \in FileRec /\ w.at <= edits
      BY <1>1, <1>2, <1>4 DEF FilesFine, FileRec
    <2> HIDE DEF w, back
    <2>3. /\ row' \in [Paths -> FileRec \cup {None}] /\ row'[p] = w
          /\ \A q \in Paths : q # p => row'[q] = row[q]
      BY <1>1, <1>2, <2>1, <2>2 DEF FilesFine
    <2>4. FilesFine'
      BY <1>1, <2>2, <2>3 DEF FilesFine, Timed
    <2>5. run'[r] = back /\ \A q \in Runs : q # r => run'[q] = run[q]
      BY <1>1, <2>1 DEF RunsFine
    <2>6. \A q \in Runs : RunFine(run'[q])
      BY <1>1, <1>3, <2>5 DEF RunsFine
    <2>7. \A q \in Runs : RunFine(run[q])'
      BY <1>1, <2>6 DEF RunFine, Timed
    <2>8. RunsFine'
      BY <1>1, <2>1, <2>7 DEF RunsFine
    <2>9. OneWriter'
      BY <1>3, <2>5 DEF VaultInv, OneWriter, V!Writing
    <2>10. Served'
      <3>1. SUFFICES ASSUME NEW q \in Paths \ disturbed', file[q] # None, row'[q] # None,
                            row'[q].at = file[q].at
                     PROVE  chunks[q] = file[q].text
        BY <1>1 DEF Served
      <3>2. CASE q = p
        BY <2>1, <3>1, <3>2
      <3>3. CASE q # p
        <4>1. ~WrittenOn(q) /\ q \notin disturbed /\ row'[q] = row[q]
          BY <2>1, <2>3, <3>1, <3>3 DEF V!NobodyWrites, WrittenOn
        <4> QED
          BY <3>1, <4>1 DEF VaultInv, Served
      <3> QED
        BY <3>2, <3>3
    <2> QED
      BY <2>4, <2>8, <2>9, <2>10 DEF VaultInv
  <1>5. CASE ~(file[p] # None /\ V!SameAsRow(r))
    <2>1. UNCHANGED <<file, row, chunks, edits, disturbed>>
      BY <1>1, <1>5 DEF V!Read
    <2>2. CASE file[p] = None \/ file[p].text = "blank"
      <3>1. run' = [run EXCEPT ![r] = back]
        BY <1>5, <2>2 DEF V!Read
      <3> QED
        BY <1>1, <1>3, <2>1, <3>1, GoesOn DEF V!Writing
    <2>3. CASE ~(file[p] = None \/ file[p].text = "blank")
      <3> DEFINE t == file[p].text
                 m == [old EXCEPT !.step = "embedding", !.text = t]
      <3>1. run' = [run EXCEPT ![r] = m]
        BY <1>1, <1>5, <2>3 DEF V!Read, RunsFine
      <3>2. t \in Texts \cup {"blank"}
        BY <1>1, <1>2, <2>3 DEF FilesFine, FileRec
      <3> HIDE DEF t
      <3>3. /\ m \in VaultRun /\ m.step = "embedding" /\ m.text = t /\ m.path = p
            /\ m.at = old.at /\ m.saw = old.saw
        BY <1>2, <3>2 DEF VaultRun
      <3> HIDE DEF m
      <3>4. RunFine(m)
        BY <1>1, <3>2, <3>3 DEF RunFine, Taking, t
      <3> QED
        BY <1>1, <2>1, <3>1, <3>3, <3>4, GoesOn DEF V!Writing
    <2> QED
      BY <2>2, <2>3
  <1> QED
    BY <1>4, <1>5

(* While a file is written, no other is, and nothing is said of its chunks.  *)
LEMMA WritesOn ==
  ASSUME VaultInv, NEW r \in Runs, NEW m, NEW x \in Texts \cup {"blank", "part", None},
         run[r].step \in V!Writing \/ (run[r].step \in Taking /\ V!NobodyWrites),
         m.step \in V!Writing,
         m = [run[r] EXCEPT !.step = m.step], m.step = "recording" => x = run[r].text,
         run' = [run EXCEPT ![r] = m], chunks' = [chunks EXCEPT ![run[r].path] = x],
         UNCHANGED <<file, row, edits, disturbed>>
  PROVE  VaultInv'
  <1> DEFINE p == run[r].path
  <1>1. FilesFine /\ RunsFine /\ RunFine(run[r]) /\ run[r].step \in Taking
    BY DEF VaultInv, RunsFine, V!Writing, Taking
  <1>2. p \in Paths /\ run[r] \in VaultRun
    BY <1>1 DEF RunFine
  <1>3. \A q \in Runs : q # r => run[q].step \notin V!Writing
    BY DEF VaultInv, OneWriter, V!NobodyWrites
  <1>4. /\ m \in VaultRun /\ m.path = p /\ m.at = run[r].at /\ m.saw = run[r].saw
        /\ m.text = run[r].text
    <2> DEFINE s == m.step
    <2>1. s \in {"adding", "added", "recording"} /\ m = [run[r] EXCEPT !.step = s]
      BY DEF V!Writing
    <2> HIDE DEF s
    <2> QED
      BY <1>2, <2>1 DEF VaultRun
  <1>5. run'[r] = m /\ \A q \in Runs : q # r => run'[q] = run[q]
    BY <1>1 DEF RunsFine
  <1>6. /\ chunks' \in [Paths -> Texts \cup {"blank", "part", None}] /\ chunks'[p] = x
        /\ \A q \in Paths : q # p => chunks'[q] = chunks[q]
    BY <1>1, <1>2 DEF FilesFine
  <1>7. FilesFine'
    BY <1>1, <1>6 DEF FilesFine, Timed
  <1>8. ASSUME NEW q \in Runs PROVE RunFine(run[q])'
    <2>1. CASE q = r
      BY <1>1, <1>4, <1>5, <1>6, <2>1 DEF RunFine, Timed, V!Writing, Taking
    <2>2. CASE q # r
      BY <1>1, <1>3, <1>5, <2>2 DEF RunsFine, RunFine, Timed, V!Writing
    <2> QED
      BY <2>1, <2>2
  <1>9. RunsFine'
    BY <1>1, <1>8 DEF RunsFine
  <1>10. OneWriter'
    BY <1>3, <1>5 DEF OneWriter, V!Writing
  <1>11. Served'
    <2>1. SUFFICES ASSUME NEW q \in Paths \ disturbed, ~WrittenOn(q)', file[q] # None,
                          row[q] # None, row[q].at = file[q].at
                   PROVE  chunks'[q] = file[q].text
      BY DEF Served
    <2>2. q # p
      BY <1>4, <1>5, <2>1 DEF WrittenOn, V!Writing
    <2>3. ~WrittenOn(q)
      BY <1>3, <2>2 DEF WrittenOn
    <2> QED
      BY <1>6, <2>1, <2>2, <2>3 DEF VaultInv, Served
  <1> QED
    BY <1>7, <1>9, <1>10, <1>11 DEF VaultInv

LEMMA WriteKeeps ==
  ASSUME VaultInv, NEW r \in Runs,
         (V!ClearChunks(r) /\ V!NobodyWrites) \/ V!AddSome(r) \/ V!AddRest(r)
  PROVE  VaultInv'
  <1>1. RunFine(run[r]) /\ run[r] \in VaultRun /\ run[r].text \in Texts \cup {"blank", None}
    BY DEF VaultInv, RunsFine, RunFine, VaultRun
  <1>2. ASSUME NEW s \in V!Writing
        PROVE  LET m == [run[r] EXCEPT !.step = s]
               IN  m.step = s /\ m = [run[r] EXCEPT !.step = m.step]
    BY <1>1 DEF VaultRun
  <1>3. CASE V!ClearChunks(r) /\ V!NobodyWrites
    <2>1. /\ run[r].step \in Taking
          /\ chunks' = [chunks EXCEPT ![run[r].path] = None]
          /\ run' = [run EXCEPT ![r] = [run[r] EXCEPT !.step = "adding"]]
          /\ UNCHANGED <<file, row, edits, disturbed>>
      BY <1>3 DEF V!ClearChunks, Taking, VaultInv, RunsFine
    <2> DEFINE m == [run[r] EXCEPT !.step = "adding"]
    <2>2. m.step = "adding" /\ m = [run[r] EXCEPT !.step = m.step] /\ m.step \in V!Writing
      BY <1>2 DEF V!Writing
    <2> HIDE DEF m
    <2> QED
      BY <1>3, <2>1, <2>2, WritesOn DEF m
  <1>4. CASE V!AddSome(r)
    <2>1. /\ run[r].step \in V!Writing
          /\ chunks' = [chunks EXCEPT ![run[r].path] = "part"]
          /\ run' = [run EXCEPT ![r] = [run[r] EXCEPT !.step = "added"]]
          /\ UNCHANGED <<file, row, edits, disturbed>>
      BY <1>4 DEF V!AddSome, V!Writing, VaultInv, RunsFine
    <2> DEFINE m == [run[r] EXCEPT !.step = "added"]
    <2>2. m.step = "added" /\ m = [run[r] EXCEPT !.step = m.step] /\ m.step \in V!Writing
      BY <1>2 DEF V!Writing
    <2> HIDE DEF m
    <2> QED
      BY <2>1, <2>2, WritesOn DEF m
  <1>5. CASE V!AddRest(r)
    <2>1. /\ run[r].step \in V!Writing
          /\ chunks' = [chunks EXCEPT ![run[r].path] = run[r].text]
          /\ run' = [run EXCEPT ![r] = [run[r] EXCEPT !.step = "recording"]]
          /\ UNCHANGED <<file, row, edits, disturbed>>
      BY <1>5 DEF V!AddRest, V!Writing, VaultInv, RunsFine
    <2> DEFINE m == [run[r] EXCEPT !.step = "recording"]
    <2>2. m.step = "recording" /\ m = [run[r] EXCEPT !.step = m.step] /\ m.step \in V!Writing
      BY <1>2 DEF V!Writing
    <2>3. run[r].text \in Texts \cup {"blank", "part", None}
      BY <1>1
    <2> HIDE DEF m
    <2> QED
      BY <2>1, <2>2, <2>3, WritesOn DEF m
  <1> QED
    BY <1>3, <1>4, <1>5

LEMMA RecordKeeps ==
  ASSUME VaultInv, NEW r \in Runs, V!UpsertDocFile(r)
  PROVE  VaultInv'
  <1> DEFINE old == run[r]
             p == old.path
             w == [at |-> old.at, text |-> old.text]
             m == [old EXCEPT !.step = "walking"]
  <1>1. /\ old.step = "recording" /\ row' = [row EXCEPT ![p] = w]
        /\ run' = [run EXCEPT ![r] = m] /\ UNCHANGED <<file, chunks, edits, disturbed>>
        /\ RunFine(old) /\ FilesFine /\ RunsFine /\ OneWriter
    BY DEF V!UpsertDocFile, V!TimeOf, VaultInv, RunsFine
  <1>2. /\ p \in Paths /\ old \in VaultRun /\ old.at \in Nat /\ old.at <= edits
        /\ chunks[p] = old.text /\ old.text \in Texts \cup {"blank", None}
        /\ (file[p] # None /\ file[p].at = old.at => file[p].text = old.text)
    BY <1>1 DEF RunFine, VaultRun, Taking
  <1>3. RunFine(m) /\ m.step = "walking"
    BY <1>1 DEF RunFine, VaultRun, Taking
  <1> HIDE DEF m
  <1>4. old.text \in Texts \cup {"blank"}
    BY <1>1 DEF RunFine, Taking
  <1>5. w \in FileRec /\ w.at = old.at /\ w.text = old.text
    BY <1>2, <1>4 DEF FileRec
  <1> HIDE DEF w
  <1>6. /\ row' \in [Paths -> FileRec \cup {None}] /\ row'[p] = w
        /\ \A q \in Paths : q # p => row'[q] = row[q]
    BY <1>1, <1>2, <1>5 DEF FilesFine
  <1>7. FilesFine'
    BY <1>1, <1>2, <1>5, <1>6 DEF FilesFine, Timed
  <1>8. run'[r] = m /\ \A q \in Runs : q # r => run'[q] = run[q]
    BY <1>1 DEF RunsFine
  <1>9. \A q \in Runs : RunFine(run'[q])
    BY <1>1, <1>3, <1>8 DEF RunsFine
  <1>10. \A q \in Runs : RunFine(run[q])'
    BY <1>1, <1>9 DEF RunFine, Timed
  <1>11. RunsFine'
    BY <1>1, <1>10 DEF RunsFine
  <1>12. OneWriter'
    BY <1>3, <1>8 DEF VaultInv, OneWriter, V!Writing, Taking
  <1>13. Served'
    <2>1. SUFFICES ASSUME NEW q \in Paths \ disturbed, file[q] # None, row'[q] # None,
                          row'[q].at = file[q].at
                   PROVE  chunks[q] = file[q].text
      BY <1>1 DEF Served
    <2>2. CASE q = p
      BY <1>2, <1>5, <1>6, <2>1, <2>2
    <2>3. CASE q # p
      <3>1. \A d \in Runs : run[d].step \in V!Writing => d = r
        BY <1>1 DEF OneWriter, V!Writing
      <3>2. ~WrittenOn(q) /\ row'[q] = row[q]
        BY <1>6, <2>3, <3>1 DEF WrittenOn
      <3> QED
        BY <2>1, <3>2 DEF VaultInv, Served
    <2> QED
      BY <2>2, <2>3
  <1> QED
    BY <1>7, <1>11, <1>12, <1>13 DEF VaultInv

LEMMA PurgeKeeps ==
  ASSUME VaultInv, NEW r \in Runs, V!Purge(r), V!NobodyWrites
  PROVE  VaultInv'
  <1>1. /\ chunks' = [p \in Paths |-> IF p \in V!Gone(r) THEN None ELSE chunks[p]]
        /\ row' = [p \in Paths |-> IF p \in V!Gone(r) THEN None ELSE row[p]]
        /\ run' = [run EXCEPT ![r] = V!Idle] /\ UNCHANGED <<file, edits, disturbed>>
        /\ FilesFine /\ RunsFine /\ edits \in Nat
    BY DEF V!Purge, VaultInv, FilesFine
  <1>2. RunFine(V!Idle) /\ V!Idle.step = "idle"
    BY <1>1, IdleIsFine
  <1>3. FilesFine'
    BY <1>1 DEF FilesFine, Timed
  <1>4. run'[r] = V!Idle /\ \A q \in Runs : q # r => run'[q] = run[q]
    BY <1>1 DEF RunsFine
  <1>5. \A q \in Runs : run'[q].step \notin V!Writing /\ RunFine(run'[q])
    BY <1>1, <1>2, <1>4 DEF V!NobodyWrites, V!Writing, RunsFine
  <1>6. \A q \in Runs : RunFine(run[q])'
    BY <1>1, <1>5 DEF RunFine, Timed, V!Writing
  <1>7. RunsFine' /\ OneWriter'
    BY <1>1, <1>5, <1>6 DEF RunsFine, OneWriter, V!Writing
  <1>9. Served'
    <2>1. SUFFICES ASSUME NEW q \in Paths \ disturbed, file[q] # None, row'[q] # None,
                          row'[q].at = file[q].at
                   PROVE  chunks'[q] = file[q].text
      BY <1>1 DEF Served
    <2>2. row'[q] = row[q] /\ chunks'[q] = chunks[q]
      BY <1>1, <2>1
    <2>3. ~WrittenOn(q)
      BY DEF V!NobodyWrites, WrittenOn
    <2> QED
      BY <2>1, <2>2, <2>3 DEF VaultInv, Served
  <1> QED
    BY <1>3, <1>7, <1>9 DEF VaultInv

LEMMA CrashKeeps == VaultInv /\ V!Crash => VaultInv'
  <1> SUFFICES ASSUME VaultInv, V!Crash PROVE VaultInv'
    OBVIOUS
  <1>1. /\ run' = [r \in Runs |-> V!Idle] /\ UNCHANGED <<file, row, chunks, edits>>
        /\ disturbed' = disturbed \cup
             {run[r].path : r \in {q \in Runs : run[q].step \in V!Writing
                                        /\ row[run[q].path] \notin {None, run[q].saw}}}
        /\ FilesFine /\ RunsFine /\ edits \in Nat
    BY DEF V!Crash, VaultInv, FilesFine
  <1>2. RunFine(V!Idle) /\ V!Idle.step = "idle"
    BY <1>1, IdleIsFine
  <1>3. FilesFine' /\ \A r \in Runs : run'[r] = V!Idle
    BY <1>1 DEF FilesFine, Timed
  <1>4. \A r \in Runs : RunFine(run[r])'
    BY <1>1, <1>2, <1>3 DEF RunFine, Timed, Taking
  <1>5. RunsFine' /\ OneWriter'
    BY <1>1, <1>2, <1>3, <1>4 DEF RunsFine, OneWriter, Taking, V!Writing
  <1>6. Served'
    <2>1. SUFFICES ASSUME NEW q \in Paths \ disturbed', file[q] # None, row[q] # None,
                          row[q].at = file[q].at
                   PROVE  chunks[q] = file[q].text
      BY <1>1 DEF Served
    <2>2. ~WrittenOn(q)
      <3>1. SUFFICES ASSUME NEW r \in Runs, run[r].step \in V!Writing, run[r].path = q
                     PROVE  FALSE
        BY DEF WrittenOn
      <3>2. q \in disturbed' \/ row[q] = run[r].saw
        BY <1>1, <2>1, <3>1
      <3>3. row[q] = run[r].saw
        BY <2>1, <3>2
      <3>4. RunFine(run[r])
        BY <1>1 DEF RunsFine
      <3>5. run[r].saw.at # file[q].at
        BY <2>1, <3>1, <3>3, <3>4 DEF RunFine, V!Writing, Taking
      <3> QED
        BY <2>1, <3>3, <3>5
    <2> QED
      BY <1>1, <2>1, <2>2 DEF VaultInv, Served
  <1> QED
    BY <1>3, <1>5, <1>6 DEF VaultInv

LEMMA VaultStep == ASSUME VaultInv, [V!Next]_vaultVars PROVE VaultInv'
  <1>1. CASE UNCHANGED vaultVars
    BY <1>1 DEF vaultVars, VaultInv, FilesFine, RunsFine, RunFine, Timed, OneWriter,
                Served, WrittenOn, V!Writing
  <1>2. FilesFine /\ edits \in Nat
    BY DEF VaultInv, FilesFine
  <1>3. ASSUME NEW p \in Paths, NEW t \in Texts \cup {"blank"}, V!Edit(p, t) PROVE VaultInv'
    <2> DEFINE f == [text |-> t, at |-> edits + 1]
    <2>1. /\ file' = [file EXCEPT ![p] = f] /\ edits' = edits + 1
          /\ UNCHANGED <<row, chunks, run, disturbed>>
      BY <1>3 DEF V!Edit
    <2>2. f \in FileRec \cup {None} /\ f.at = edits + 1
      BY <1>2 DEF FileRec
    <2> HIDE DEF f
    <2> QED
      BY <2>1, <2>2, OwnerKeeps
  <1>4. ASSUME NEW p \in Paths, V!Touch(p) PROVE VaultInv'
    <2>1. file[p].text \in Texts \cup {"blank"}
      BY <1>2, <1>4 DEF V!Touch, FilesFine, FileRec
    <2> QED
      BY <1>3, <1>4, <2>1 DEF V!Touch
  <1>5. ASSUME NEW p \in Paths, V!RemoveFile(p) PROVE VaultInv'
    BY <1>5, OwnerKeeps DEF V!RemoveFile
  <1>6. ASSUME V!NobodyWrites, NEW r \in Runs, V!Step(r) PROVE VaultInv'
    BY <1>6, StartsKeeps, VisitKeeps, ReadKeeps, WriteKeeps, PurgeKeeps DEF V!Step
  <1>7. ASSUME NEW r \in Runs, V!Write(r) PROVE VaultInv'
    BY <1>7, WriteKeeps, RecordKeeps DEF V!Write
  <1> QED
    BY <1>1, <1>3, <1>4, <1>5, <1>6, <1>7, CrashKeeps DEF V!Next, V!Owner

(* What every later reindex passes over is served as it is.                  *)
LEMMA VaultSound == VaultInv => V!PassedOverIsCurrent
  BY DEF VaultInv, Served, V!PassedOverIsCurrent, V!NobodyWrites, V!Unchanged, WrittenOn

-----------------------------------------------------------------------------
(* The web index.  A page being embedded is stored as pending and has no     *)
(* chunks; what a cycle found pending stays so until its turn.  When the     *)
(* etag is the feed's, an item that is not stored was passed by for a        *)
(* reason, or is still to do.                                                *)

DocRec == [hash : Nat, status : {"pending", "embedded"}]

PagesFine ==
    /\ published \subseteq Items /\ version \in [I!Pages -> Nat]
    /\ docs \in [I!Pages -> DocRec \cup {None}]
    /\ vectors \in [I!Pages -> Nat \cup {None}]
    /\ etag \in 0..Cardinality(published) \cup {None}
    /\ todo \subseteq I!Pages /\ pending \subseteq I!Pending
    /\ step \notin {"backfill", "backfilling"} => pending = {}

BeingEmbedded ==
    step \in I!Embedding =>
        /\ page \in I!Pages /\ page \notin pending /\ page \in I!Pending
        /\ vectors[page] = None

AccountedFor ==
    etag = Cardinality(published) =>
        \A i \in published : docs[i] = None =>
            i \in left \/ (step \in {"items", "embed_item"} /\ i \in todo)

IndexInv == PagesFine /\ BeingEmbedded /\ AccountedFor /\ I!FoundAsStored

LEMMA PublishedFinite ==
  ASSUME published \subseteq Items
  PROVE  IsFiniteSet(published) /\ Cardinality(published) \in Nat
  BY IndexAssumption, FS_Subset, FS_CardinalityType

LEMMA IndexInit == I!Init => IndexInv
  <1> SUFFICES ASSUME I!Init PROVE IndexInv
    OBVIOUS
  <1>1. /\ published = {} /\ version = [p \in I!Pages |-> 1] /\ etag = None
        /\ docs = [p \in I!Pages |-> None] /\ vectors = [p \in I!Pages |-> None]
        /\ step = "idle" /\ todo = {} /\ pending = {}
    BY DEF I!Init
  <1>2. PagesFine
    BY <1>1 DEF PagesFine
  <1> QED
    BY <1>1, <1>2 DEF IndexInv, BeingEmbedded, AccountedFor, I!Embedding, I!FoundAsStored,
                      I!Embedded

LEMMA PublishKeeps == IndexInv /\ I!Publish => IndexInv'
  <1> SUFFICES ASSUME IndexInv, I!Publish PROVE IndexInv'
    OBVIOUS
  <1> DEFINE rest == Items \ published
             i == I!Min(rest)
  <1>1. /\ rest # {} /\ published' = published \cup {i}
        /\ UNCHANGED <<version, etag, docs, vectors, step, todo, page, pending, left>>
    BY DEF I!Publish
  <1>2. PagesFine /\ IsFiniteSet(published) /\ Cardinality(published) \in Nat
    BY PublishedFinite DEF IndexInv, PagesFine
  <1>3. i \in rest
    <2>1. rest \in SUBSET Nat
      BY IndexAssumption
    <2> HIDE DEF rest
    <2>2. \E x \in rest : \A y \in rest : x <= y
      BY <1>1, <2>1, LeastNat
    <2>3. (CHOOSE x \in rest : \A y \in rest : x <= y) \in rest
      BY <2>2
    <2> QED
      BY <2>3 DEF I!Min
  <1> HIDE DEF i
  <1>4. Cardinality(published') = Cardinality(published) + 1
    BY <1>1, <1>2, <1>3, FS_AddElement
  <1>5. etag # Cardinality(published') /\ etag \in 0..Cardinality(published') \cup {None}
    BY <1>2, <1>4, PrepAssumption DEF PagesFine
  <1>6. PagesFine'
    BY <1>1, <1>2, <1>3, <1>5 DEF PagesFine, I!Pending, I!Pages
  <1> QED
    BY <1>1, <1>5, <1>6 DEF IndexInv, BeingEmbedded, AccountedFor, I!FoundAsStored, I!Embedded,
                            I!Embedding, I!Pending

LEMMA ChangeKeeps == ASSUME IndexInv, NEW p \in I!Pages, I!Change(p) PROVE IndexInv'
  <1>1. /\ version' = [version EXCEPT ![p] = @ + 1]
        /\ UNCHANGED <<published, etag, docs, vectors, step, todo, page, pending, left>>
    BY DEF I!Change
  <1>2. PagesFine'
    BY <1>1 DEF IndexInv, PagesFine, I!Pending, I!Pages
  <1> QED
    BY <1>1, <1>2 DEF IndexInv, BeingEmbedded, AccountedFor, I!FoundAsStored, I!Embedded,
                      I!Embedding, I!Pending

(* A step that stores nothing, and passes by no item without a reason.       *)
LEMMA NothingStored ==
  ASSUME IndexInv, UNCHANGED <<published, version, docs, vectors>>,
         etag' \in {etag, None}, step' \notin I!Embedding,
         pending' \subseteq I!Pending,
         step' \notin {"backfill", "backfilling"} => pending' = {},
         todo' \subseteq todo, left \subseteq left',
         step \in {"items", "embed_item"} => \A i \in todo :
             docs[i] = None => i \in left' \/ (step' \in {"items", "embed_item"} /\ i \in todo')
  PROVE  IndexInv'
  <1>1. PagesFine /\ Cardinality(published) \in Nat
    BY PublishedFinite DEF IndexInv, PagesFine
  <1>2. PagesFine'
    BY <1>1 DEF PagesFine, I!Pending, I!Pages
  <1>3. AccountedFor'
    BY <1>1, PrepAssumption DEF IndexInv, AccountedFor
  <1>4. BeingEmbedded' /\ I!FoundAsStored'
    BY DEF IndexInv, BeingEmbedded, I!FoundAsStored, I!Embedded, I!Embedding
  <1> QED
    BY <1>2, <1>3, <1>4 DEF IndexInv

LEMMA TakenIsAll ==
  ASSUME published \subseteq Items, NEW new \in SUBSET published, ~(Cardinality(new) > PerCycle)
  PROVE  I!Taken(new) = new
  <1>1. IsFiniteSet(new) /\ Cardinality(new) \in Nat
    BY PublishedFinite, FS_Subset, FS_CardinalityType
  <1>2. ASSUME NEW i \in new PROVE Cardinality({j \in new : j < i}) < PerCycle
    <2> DEFINE before == {j \in new : j < i}
    <2>1. i \in Nat /\ before \subseteq new \ {i}
      BY IndexAssumption
    <2> HIDE DEF before
    <2>2. IsFiniteSet(new \ {i}) /\ Cardinality(new \ {i}) = Cardinality(new) - 1
      BY <1>1, FS_RemoveElement
    <2>3. IsFiniteSet(before) /\ Cardinality(before) <= Cardinality(new \ {i})
      BY <2>1, <2>2, FS_Subset
    <2>4. Cardinality(before) \in Nat
      BY <2>3, FS_CardinalityType
    <2>5. Cardinality(before) < PerCycle
      BY <1>1, <2>2, <2>3, <2>4, IndexAssumption
    <2> QED
      BY <2>5 DEF before
  <1> QED
    BY <1>2 DEF I!Taken, I!Cardinality, Cardinality

LEMMA FeedKeeps == IndexInv /\ I!IngestFeed => IndexInv'
  <1> SUFFICES ASSUME IndexInv, I!IngestFeed PROVE IndexInv'
    OBVIOUS
  <1>1. /\ step = "feed" /\ step' = "items" /\ etag' = Cardinality(published)
        /\ todo' = IF I!NotModified THEN {} ELSE I!Taken(I!Unknown)
        /\ left' = IF I!NotModified THEN left
                   ELSE left \cup (IF Cardinality(I!Unknown) > PerCycle
                                     THEN I!Unknown \ todo' ELSE {})
        /\ UNCHANGED <<published, version, docs, vectors, page, pending>>
    BY DEF I!IngestFeed, I!web, I!Cardinality, Cardinality
  <1>2. PagesFine /\ Cardinality(published) \in Nat
    BY PublishedFinite DEF IndexInv, PagesFine
  <1>3. I!Unknown \subseteq published /\ I!Taken(I!Unknown) \subseteq I!Unknown
        /\ published \subseteq I!Pages
    BY <1>2 DEF I!Unknown, I!Taken, PagesFine, I!Pages
  <1>4. todo' \subseteq I!Pages
    BY <1>1, <1>3
  <1>5. PagesFine'
    BY <1>1, <1>2, <1>4 DEF PagesFine, I!Pending, I!Pages
  <1>6. AccountedFor'
    <2>1. SUFFICES ASSUME NEW i \in published, docs[i] = None
                   PROVE  i \in left' \/ i \in todo'
      BY <1>1 DEF AccountedFor
    <2>2. CASE I!NotModified
      <3>1. etag = Cardinality(published)
        BY <2>2 DEF I!NotModified, I!Cardinality, Cardinality
      <3> QED
        BY <1>1, <2>1, <2>2, <3>1 DEF IndexInv, AccountedFor
    <2>3. CASE ~I!NotModified
      <3>1. i \in I!Unknown
        BY <2>1 DEF I!Unknown
      <3>2. CASE Cardinality(I!Unknown) > PerCycle
        BY <1>1, <2>3, <3>1, <3>2
      <3>3. CASE ~(Cardinality(I!Unknown) > PerCycle)
        <4>1. I!Taken(I!Unknown) = I!Unknown
          BY <1>2, <1>3, <3>3, TakenIsAll DEF PagesFine
        <4> QED
          BY <1>1, <2>3, <3>1, <4>1
      <3> QED
        BY <3>2, <3>3
    <2> QED
      BY <2>2, <2>3
  <1>7. BeingEmbedded' /\ I!FoundAsStored'
    BY <1>1 DEF IndexInv, BeingEmbedded, I!FoundAsStored, I!Embedded, I!Embedding
  <1> QED
    BY <1>5, <1>6, <1>7 DEF IndexInv

(* Embedding of a document begins: it is stored as pending, and its chunks   *)
(* go.                                                                       *)
LEMMA EmbeddingBegins ==
  ASSUME IndexInv, NEW p \in I!Pages, NEW d \in DocRec, d.status = "pending",
         docs' = [docs EXCEPT ![p] = d], vectors' = [vectors EXCEPT ![p] = None],
         page' = p, step' \in I!Embedding, step' = "backfilling" \/ pending' = {},
         pending' \subseteq pending \ {p}, todo' \subseteq todo, left' = left,
         \A i \in todo : i # p => i \in todo',
         step' = "embed_item" \/ step \notin {"items", "embed_item"},
         UNCHANGED <<published, version, etag>>
  PROVE  IndexInv'
  <1>1. PagesFine
    BY DEF IndexInv
  <1>2. d # None
    BY IndexAssumption DEF DocRec
  <1>3. /\ docs'[p] = d /\ vectors'[p] = None
        /\ \A q \in I!Pages : q # p => docs'[q] = docs[q] /\ vectors'[q] = vectors[q]
        /\ docs' \in [I!Pages -> DocRec \cup {None}]
        /\ vectors' \in [I!Pages -> Nat \cup {None}]
    BY <1>1 DEF PagesFine
  <1>4. pending' \subseteq I!Pending' /\ p \in I!Pending'
    BY <1>1, <1>2, <1>3 DEF PagesFine, I!Pending, I!Pages
  <1>5. PagesFine'
    BY <1>1, <1>3, <1>4 DEF PagesFine, I!Pages, I!Embedding
  <1>6. BeingEmbedded'
    BY <1>3, <1>4 DEF BeingEmbedded, I!Embedding, I!Pages
  <1>7. AccountedFor'
    <2>1. SUFFICES ASSUME etag = Cardinality(published), NEW i \in published, docs'[i] = None
                   PROVE  i \in left' \/ (step' \in {"items", "embed_item"} /\ i \in todo')
      BY DEF AccountedFor
    <2>2. i \in I!Pages /\ i # p /\ docs[i] = None
      BY <1>1, <1>2, <1>3, <2>1 DEF PagesFine, I!Pages
    <2> QED
      BY <2>1, <2>2 DEF IndexInv, AccountedFor
  <1>8. I!FoundAsStored'
    <2>1. SUFFICES ASSUME NEW q \in I!Pages
                   PROVE  /\ vectors'[q] # None => docs'[q] # None /\ vectors'[q] = docs'[q].hash
                          /\ docs'[q] # None /\ docs'[q].status = "embedded" =>
                                vectors'[q] = docs'[q].hash
      BY DEF I!FoundAsStored, I!Embedded, I!Pages
    <2>2. CASE q = p
      BY <1>3, <2>2
    <2>3. CASE q # p
      BY <1>3, <2>3 DEF IndexInv, I!FoundAsStored, I!Embedded
    <2> QED
      BY <2>2, <2>3
  <1> QED
    BY <1>5, <1>6, <1>7, <1>8 DEF IndexInv

LEMMA BackfillKeeps ==
  ASSUME IndexInv, NEW p \in I!Pages, I!Backfill(p)
  PROVE  IndexInv'
  <1>1. /\ step = "backfill" /\ p \in pending /\ pending' = pending \ {p}
        /\ vectors' = [vectors EXCEPT ![p] = None] /\ page' = p /\ step' = "backfilling"
        /\ UNCHANGED <<published, version, etag, docs, todo, left>>
    BY DEF I!Backfill, I!Cleared, I!web
  <1>2. docs[p] \in DocRec /\ docs[p].status = "pending"
    BY <1>1 DEF IndexInv, PagesFine, I!Pending
  <1>3. docs' = [docs EXCEPT ![p] = docs[p]]
    BY <1>1 DEF IndexInv, PagesFine
  <1> QED
    BY <1>1, <1>2, <1>3, EmbeddingBegins DEF I!Embedding

LEMMA IngestKeeps ==
  ASSUME IndexInv, NEW p \in I!Pages, I!Ingest(p)
  PROVE  IndexInv'
  <1>1. /\ (step = "items" /\ p \in todo) \/ (step = "seed" /\ p = Seed)
        /\ todo' = todo \ {p} /\ UNCHANGED <<published, version, etag, pending, left>>
        /\ pending = {}
    BY DEF I!Ingest, I!web, IndexInv, PagesFine
  <1>2. CASE I!Same(p)
    <2>1. /\ step' = I!AfterPage /\ UNCHANGED <<docs, vectors, page>> /\ docs[p] # None
      BY <1>2 DEF I!Ingest, I!Same
    <2>2. step' = "items" \/ (step' = "end" /\ step = "seed")
      BY <1>1, <2>1 DEF I!AfterPage
    <2>3. step' \notin I!Embedding /\ step' \notin {"backfill", "backfilling"}
      BY <2>2 DEF I!Embedding
    <2> QED
      BY <1>1, <2>1, <2>2, <2>3, NothingStored
  <1>3. CASE ~I!Same(p)
    <2> DEFINE d == [hash |-> version[p], status |-> "pending"]
    <2>1. /\ docs' = [docs EXCEPT ![p] = d] /\ vectors' = [vectors EXCEPT ![p] = None]
          /\ page' = p /\ step' = IF step = "items" THEN "embed_item" ELSE "embed_seed"
      BY <1>3 DEF I!Ingest, I!Stored, I!Cleared
    <2>2. d \in DocRec /\ d.status = "pending"
      BY DEF DocRec, IndexInv, PagesFine
    <2> HIDE DEF d
    <2>3. step' \in I!Embedding /\ (step' = "embed_item" \/ step \notin {"items", "embed_item"})
      BY <1>1, <2>1 DEF I!Embedding
    <2> QED
      BY <1>1, <2>1, <2>2, <2>3, EmbeddingBegins
  <1> QED
    BY <1>2, <1>3

LEMMA EmbedDocKeeps == IndexInv /\ I!EmbedDoc => IndexInv'
  <1> SUFFICES ASSUME IndexInv, I!EmbedDoc PROVE IndexInv'
    OBVIOUS
  <1> DEFINE d == [docs[page] EXCEPT !.status = "embedded"]
  <1>1. /\ step \in I!Embedding /\ vectors' = [vectors EXCEPT ![page] = docs[page].hash]
        /\ docs' = [docs EXCEPT ![page].status = "embedded"] /\ step' = I!AfterEmbed
        /\ UNCHANGED <<published, version, etag, todo, page, pending, left>>
    BY DEF I!EmbedDoc, I!web
  <1>2. /\ PagesFine /\ page \in I!Pages /\ page \notin pending
        /\ docs[page] \in DocRec /\ docs[page].hash \in Nat
    BY <1>1 DEF IndexInv, BeingEmbedded, PagesFine, I!Pending, DocRec
  <1>3. docs' = [docs EXCEPT ![page] = d]
    BY <1>1, <1>2 DEF PagesFine
  <1>4. d \in DocRec /\ d.hash = docs[page].hash /\ d # None
    BY <1>2, IndexAssumption DEF DocRec
  <1> HIDE DEF d
  <1>5. /\ docs'[page] = d /\ vectors'[page] = d.hash
        /\ \A q \in I!Pages : q # page => docs'[q] = docs[q] /\ vectors'[q] = vectors[q]
        /\ docs' \in [I!Pages -> DocRec \cup {None}]
        /\ vectors' \in [I!Pages -> Nat \cup {None}]
    BY <1>1, <1>2, <1>3, <1>4 DEF PagesFine
  <1>6. \/ step = "backfilling" /\ step' = "backfill"
        \/ step = "embed_item" /\ step' = "items"
        \/ step = "embed_seed" /\ step' = "end"
    BY <1>1 DEF I!Embedding, I!AfterEmbed
  <1>7. pending' \subseteq I!Pending'
    BY <1>1, <1>2, <1>5 DEF PagesFine, I!Pending, I!Pages
  <1>8. PagesFine'
    BY <1>1, <1>2, <1>5, <1>6, <1>7 DEF PagesFine, I!Pages
  <1>9. BeingEmbedded'
    BY <1>6 DEF BeingEmbedded, I!Embedding
  <1>10. AccountedFor'
    <2>1. SUFFICES ASSUME etag = Cardinality(published), NEW i \in published, docs'[i] = None
                   PROVE  i \in left \/ (step' \in {"items", "embed_item"} /\ i \in todo)
      BY <1>1 DEF AccountedFor
    <2>2. docs[i] = None
      BY <1>2, <1>4, <1>5, <2>1 DEF PagesFine, I!Pages
    <2> QED
      BY <1>6, <2>1, <2>2 DEF IndexInv, AccountedFor
  <1>11. I!FoundAsStored'
    <2>1. SUFFICES ASSUME NEW q \in I!Pages
                   PROVE  /\ vectors'[q] # None => docs'[q] # None /\ vectors'[q] = docs'[q].hash
                          /\ docs'[q] # None /\ docs'[q].status = "embedded" =>
                                vectors'[q] = docs'[q].hash
      BY DEF I!FoundAsStored, I!Embedded, I!Pages
    <2>2. CASE q = page
      BY <1>4, <1>5, <2>2
    <2>3. CASE q # page
      BY <1>5, <2>3 DEF IndexInv, I!FoundAsStored, I!Embedded
    <2> QED
      BY <2>2, <2>3
  <1> QED
    BY <1>8, <1>9, <1>10, <1>11 DEF IndexInv

LEMMA EmbeddingFailsKeeps == IndexInv /\ I!EmbedFails => IndexInv'
  <1> SUFFICES ASSUME IndexInv, I!EmbedFails PROVE IndexInv'
    OBVIOUS
  <1>1. /\ step \in I!Embedding /\ step' = I!AfterEmbed
        /\ docs' = [docs EXCEPT ![page].status = docs[page].status]
        /\ UNCHANGED <<published, version, etag, vectors, todo, page, pending, left>>
    BY DEF I!EmbedFails, I!web, I!StatusAfterFailure
  <1>2. PagesFine /\ page \in I!Pages /\ docs[page] \in DocRec
    BY <1>1 DEF IndexInv, BeingEmbedded, PagesFine, I!Pending
  <1>3. [docs[page] EXCEPT !.status = docs[page].status] = docs[page]
    BY <1>2 DEF DocRec
  <1>4. docs' = [docs EXCEPT ![page] = [docs[page] EXCEPT !.status = docs[page].status]]
    BY <1>1, <1>2 DEF PagesFine
  <1>5. docs' = docs
    BY <1>2, <1>3, <1>4 DEF PagesFine
  <1>6. \/ step = "backfilling" /\ step' = "backfill"
        \/ step = "embed_item" /\ step' = "items"
        \/ step = "embed_seed" /\ step' = "end"
    BY <1>1 DEF I!Embedding, I!AfterEmbed
  <1>7. /\ step' \notin I!Embedding
        /\ step' \notin {"backfill", "backfilling"} => pending = {}
        /\ step \in {"items", "embed_item"} => step' = "items"
    BY <1>2, <1>6 DEF I!Embedding, PagesFine
  <1> QED
    BY <1>1, <1>2, <1>5, <1>7, NothingStored DEF PagesFine

LEMMA OtherIndexKeeps ==
  ASSUME IndexInv,
         \/ I!Refresh \/ I!BackfillEnds \/ I!FeedFails \/ I!ItemsEnd \/ I!CycleEnds \/ I!Crash
         \/ \E p \in I!Pages : I!FetchFails(p)
  PROVE  IndexInv'
  <1>1. PagesFine
    BY DEF IndexInv
  <1>2. CASE I!Refresh
    BY <1>2, NothingStored DEF I!Refresh, I!web, I!Embedding
  <1>3. CASE I!BackfillEnds
    BY <1>1, <1>3, NothingStored DEF I!BackfillEnds, I!web, I!Embedding, PagesFine
  <1>4. CASE I!FeedFails
    BY <1>1, <1>4, NothingStored DEF I!FeedFails, I!web, I!Embedding, PagesFine
  <1>5. CASE I!ItemsEnd
    BY <1>1, <1>5, NothingStored DEF I!ItemsEnd, I!web, I!Embedding, PagesFine
  <1>6. CASE I!CycleEnds
    BY <1>1, <1>6, NothingStored DEF I!CycleEnds, I!web, I!Embedding, PagesFine
  <1>7. CASE I!Crash
    BY <1>1, <1>7, NothingStored DEF I!Crash, I!web, I!Embedding, PagesFine
  <1>8. ASSUME NEW p \in I!Pages, I!FetchFails(p) PROVE IndexInv'
    <2>1. /\ (step = "items" /\ p \in todo) \/ (step = "seed" /\ p = Seed)
          /\ todo' = todo \ {p} /\ step' = I!AfterPage
          /\ left' = IF docs[p] = None THEN left \cup {p} ELSE left
          /\ UNCHANGED <<published, version, etag, docs, vectors, page, pending>>
      BY <1>8 DEF I!FetchFails, I!web
    <2>2. step' = "items" \/ (step' = "end" /\ step = "seed")
      BY <2>1 DEF I!AfterPage
    <2>3. /\ step' \notin I!Embedding /\ step' \notin {"backfill", "backfilling"}
          /\ pending = {} /\ left \subseteq left'
      BY <1>1, <2>1, <2>2 DEF I!Embedding, PagesFine
    <2>4. \A i \in todo : docs[i] = None => i \in left' \/ i \in todo'
      BY <2>1
    <2> QED
      BY <2>1, <2>2, <2>3, <2>4, NothingStored
  <1> QED
    BY <1>2, <1>3, <1>4, <1>5, <1>6, <1>7, <1>8

LEMMA IndexStep == ASSUME IndexInv, [I!Next]_indexVars PROVE IndexInv'
  <1>1. CASE UNCHANGED indexVars
    BY <1>1 DEF indexVars, IndexInv, PagesFine, BeingEmbedded, AccountedFor, I!FoundAsStored,
                I!Embedded, I!Embedding, I!Pending, I!Pages
  <1> QED
    BY <1>1, PublishKeeps, ChangeKeeps, FeedKeeps, BackfillKeeps, IngestKeeps, EmbedDocKeeps,
       EmbeddingFailsKeeps, OtherIndexKeeps DEF I!Next, I!Cycle

(* What is found is what is stored, and an item is missing for a reason.     *)
LEMMA IndexSound == IndexInv => I!FoundAsStored /\ I!MissingForAReason
  BY DEF IndexInv, AccountedFor, I!MissingForAReason, I!Cardinality, Cardinality

-----------------------------------------------------------------------------
(* Experiences.  Evidence is counted in units: as a set that has as many     *)
(* elements as the sum.  As long as no cycle was cut off, the experiences    *)
(* have no more of it than the merges and rollbacks recorded and the signals *)
(* that were counted: those up to the marker, and, when the model answered,  *)
(* those this cycle has done with.                                           *)

Node == [text : (Shapes \cup Commits) \X BOOLEAN, ev : Nat \ {0}, live : BOOLEAN]

Cycles == [pc : {"idle", "synth", "save"}, newest : Nat, cands : SUBSET Nat,
           left : SUBSET (Nat \X Shapes), heard : BOOLEAN, new : Int]

NodesFine ==
    signals \in Seq(X!Signals) /\ experiences \in Seq(Node) /\ deployed \in Nat

HarvestFine ==
    /\ reached \in 0..Len(signals) /\ harvest \in Cycles /\ again \in Nat
    /\ harvest.pc # "idle" =>
          /\ harvest.newest \in reached..Len(signals)
          /\ harvest.cands \subseteq (reached + 1)..harvest.newest
    /\ \A k, l \in harvest.left : k[1] \in harvest.cands /\ (k[1] = l[1] => k = l)
    /\ harvest.pc = "save" /\ ~harvest.heard => harvest.left = {}

(* What was rolled back does not live on. *)
NotRevived == again = 0 =>
    \A c \in Commits : \A i, j \in DOMAIN experiences :
        experiences[i].text = <<c, FALSE>> /\ experiences[j].text = <<c, TRUE>>
        => ~experiences[j].live

(* The merge of a commit is one experience. *)
OneEach == \A c \in Commits : \A i, j \in DOMAIN experiences :
    experiences[i].text = <<c, TRUE>> /\ experiences[j].text = <<c, TRUE>> => i = j

(* A marker names no other node than the one that says the merge worked, as  *)
(* long as that one lives.                                                   *)
CreditFine ==
    /\ credit \in [Commits -> Nat]
    /\ \A c \in Commits : credit[c] # 0 => credit[c] \in DOMAIN experiences
    /\ again = 0 => \A c \in Commits : \A i \in DOMAIN experiences :
          experiences[i].live /\ experiences[i].text = <<c, TRUE>> => credit[c] \in {0, i}

EvUnits == UNION {{i} \X (1..experiences[i].ev) : i \in DOMAIN experiences}
SigUnits(S) == UNION {{i} \X (1..X!Strength(i)) : i \in S}

Counted == (1..reached) \cup
    IF harvest.pc = "save" /\ harvest.heard
    THEN {i \in harvest.cands : \A k \in harvest.left : k[1] # i} ELSE {}

EvidenceCounted ==
    /\ IsFiniteSet(EvUnits)
    /\ again = 0 => Cardinality(EvUnits) <= deployed + Cardinality(SigUnits(Counted))

ExperiencesInv == /\ NodesFine /\ HarvestFine /\ NotRevived /\ EvidenceCounted
                  /\ X!LiveOnce /\ OneEach /\ CreditFine /\ passed = {}

LEMMA ExpCardinality == ASSUME NEW S PROVE X!Cardinality(S) = Cardinality(S)
  BY DEF X!Cardinality, Cardinality

LEMMA StrengthIs ==
  ASSUME NodesFine, NEW i \in 1..Len(signals)
  PROVE  X!Strength(i) \in 1..2
  BY DEF NodesFine, X!Strength

LEMMA SigUnitsFinite ==
  ASSUME NodesFine, NEW S \in SUBSET (1..Len(signals))
  PROVE  /\ IsFiniteSet(SigUnits(S)) /\ Cardinality(SigUnits(S)) \in Nat
         /\ \A T \in SUBSET S : Cardinality(SigUnits(T)) <= Cardinality(SigUnits(S))
  <1>1. SigUnits(S) \subseteq (1..Len(signals)) \X (1..2)
    <2>1. \A i \in S : {i} \X (1..X!Strength(i)) \subseteq (1..Len(signals)) \X (1..2)
      BY StrengthIs
    <2> QED
      BY <2>1 DEF SigUnits
  <1>2. Len(signals) \in Nat
    BY DEF NodesFine
  <1>3. IsFiniteSet((1..Len(signals)) \X (1..2))
    <2> DEFINE all_1 == 1..Len(signals) two == 1..2
    <2>1. \A n \in Nat : IsFiniteSet(1..n)
      BY FS_Interval
    <2>2. IsFiniteSet(all_1) /\ IsFiniteSet(two)
      BY <1>2, <2>1
    <2> HIDE DEF all_1, two
    <2>3. IsFiniteSet(all_1 \X two)
      BY <2>2, FS_Product
    <2> QED
      BY <2>3 DEF all_1, two
  <1>4. IsFiniteSet(SigUnits(S))
    BY <1>1, <1>3, FS_Subset
  <1>5. \A T \in SUBSET S : SigUnits(T) \in SUBSET SigUnits(S)
    BY DEF SigUnits
  <1> HIDE DEF SigUnits
  <1>6. ASSUME NEW T \in SUBSET S
        PROVE  Cardinality(SigUnits(T)) <= Cardinality(SigUnits(S))
    BY <1>4, <1>5, FS_Subset
  <1>7. Cardinality(SigUnits(S)) \in Nat
    BY <1>4, FS_CardinalityType
  <1> QED
    BY <1>4, <1>6, <1>7

(* One signal that was not counted adds its strength. *)
LEMMA SigUnitsAdd ==
  ASSUME NodesFine, NEW S \in SUBSET (1..Len(signals)), NEW k \in (1..Len(signals)) \ S
  PROVE  Cardinality(SigUnits(S \cup {k})) = Cardinality(SigUnits(S)) + X!Strength(k)
  <1> DEFINE more == {k} \X (1..X!Strength(k))
  <1>1. SigUnits(S \cup {k}) = SigUnits(S) \cup more
    BY DEF SigUnits
  <1>2. SigUnits(S) \cap more = {}
    BY DEF SigUnits
  <1>3. X!Strength(k) \in 1..2
    BY StrengthIs
  <1>4. IsFiniteSet(more) /\ Cardinality(more) = X!Strength(k)
    <2>1. IsFiniteSet({k}) /\ Cardinality({k}) = 1
      BY FS_Singleton
    <2>2. IsFiniteSet(1..X!Strength(k)) /\ Cardinality(1..X!Strength(k)) = X!Strength(k)
      BY <1>3, FS_Interval
    <2>3. IsFiniteSet(more) /\ Cardinality(more) = 1 * X!Strength(k)
      BY <2>1, <2>2, FS_Product
    <2> HIDE DEF more
    <2> QED
      BY <2>3, <1>3
  <1> HIDE DEF more
  <1>5. IsFiniteSet(SigUnits(S)) /\ Cardinality(SigUnits(S)) \in Nat
    BY SigUnitsFinite
  <1>6. Cardinality(SigUnits(S) \cup more) =
          Cardinality(SigUnits(S)) + Cardinality(more) - Cardinality(SigUnits(S) \cap more)
    BY <1>4, <1>5, FS_Union
  <1>7. Cardinality(SigUnits(S) \cap more) = 0
    BY <1>2, FS_EmptySet
  <1>8. Cardinality(SigUnits(S) \cup more) = Cardinality(SigUnits(S)) + X!Strength(k) - 0
    BY <1>4, <1>6, <1>7, Zenon
  <1>9. Cardinality(SigUnits(S)) + X!Strength(k) - 0 = Cardinality(SigUnits(S)) + X!Strength(k)
    BY <1>3, <1>5
  <1> QED
    BY <1>1, <1>8, <1>9, Zenon

LEMMA CountedIsKnown ==
  ASSUME NodesFine, HarvestFine
  PROVE  Counted \in SUBSET (1..Len(signals))
  BY DEF NodesFine, HarvestFine, Counted

LEMMA ExperiencesInit == X!Init => ExperiencesInv
  <1> SUFFICES ASSUME X!Init PROVE ExperiencesInv
    OBVIOUS
  <1>1. /\ signals = <<>> /\ reached = 0 /\ experiences = <<>> /\ again = 0 /\ passed = {}
        /\ deployed = 0 /\ credit = [c \in Commits |-> 0]
        /\ harvest = [pc |-> "idle", newest |-> 0, cands |-> {}, left |-> {},
                      heard |-> FALSE, new |-> 0]
    BY DEF X!Init, X!Idle
  <1>2. NodesFine
    BY <1>1 DEF NodesFine
  <1>3. HarvestFine
    BY <1>1 DEF HarvestFine, Cycles
  <1>4. DOMAIN experiences = {}
    BY <1>1
  <1>5. NotRevived /\ X!LiveOnce /\ OneEach
    BY <1>4 DEF NotRevived, X!LiveOnce, OneEach, X!Live
  <1>9. CreditFine
    BY <1>1, <1>4 DEF CreditFine
  <1>6. EvUnits = {}
    BY <1>4 DEF EvUnits
  <1>7. Counted \in SUBSET (1..Len(signals))
    BY <1>2, <1>3, CountedIsKnown
  <1>8. EvidenceCounted
    BY <1>1, <1>2, <1>6, <1>7, SigUnitsFinite, FS_EmptySet DEF EvidenceCounted
  <1> QED
    BY <1>1, <1>2, <1>3, <1>5, <1>8, <1>9 DEF ExperiencesInv

(* A node has more evidence; a node is made, others may be superseded. *)
SameBut(n, i, ev) ==
    /\ n \in Seq(Node) /\ Len(n) = Len(experiences)
    /\ \A j \in DOMAIN experiences :
          /\ n[j].text = experiences[j].text /\ n[j].live = experiences[j].live
          /\ n[j].ev = IF j = i THEN experiences[j].ev + ev ELSE experiences[j].ev

Made(n, text, ev) ==
    /\ n \in Seq(Node) /\ Len(n) = Len(experiences) + 1
    /\ n[Len(n)] = [text |-> text, ev |-> ev, live |-> TRUE]
    /\ \A j \in DOMAIN experiences :
          /\ n[j].text = experiences[j].text /\ n[j].ev = experiences[j].ev
          /\ n[j].live => experiences[j].live

LEMMA NodesAre ==
  ASSUME NodesFine
  PROVE  /\ DOMAIN experiences = 1..Len(experiences) /\ Len(experiences) \in Nat
         /\ \A i \in DOMAIN experiences : experiences[i] \in Node
  BY DEF NodesFine

LEMMA AppendMakes ==
  ASSUME NodesFine, NEW base, NEW text \in (Shapes \cup Commits) \X BOOLEAN,
         NEW ev \in Nat \ {0}, base \in Seq(Node), Len(base) = Len(experiences),
         \A j \in DOMAIN experiences :
            /\ base[j].text = experiences[j].text /\ base[j].ev = experiences[j].ev
            /\ base[j].live => experiences[j].live
  PROVE  Made(Append(base, [text |-> text, ev |-> ev, live |-> TRUE]), text, ev)
  <1> DEFINE new == [text |-> text, ev |-> ev, live |-> TRUE]
             n == Append(base, new)
  <1>1. new \in Node
    BY DEF Node
  <1> HIDE DEF new
  <1>2. /\ n \in Seq(Node) /\ Len(n) = Len(base) + 1 /\ n[Len(base) + 1] = new
        /\ \A j \in 1..Len(base) : n[j] = base[j]
    BY <1>1
  <1> HIDE DEF n
  <1>3. \A j \in DOMAIN experiences : n[j] = base[j]
    BY <1>2, NodesAre
  <1>4. n[Len(n)] = [text |-> text, ev |-> ev, live |-> TRUE]
    BY <1>2, NodesAre DEF new
  <1>5. Made(n, text, ev)
    BY <1>2, <1>3, <1>4 DEF Made
  <1> QED
    BY <1>5 DEF n, new

(* save adds to a live node with that verdict, or makes one, and a second    *)
(* that says the same only when many are superseded or say the opposite.     *)
Full(text) == Cardinality(X!Others(text)) >= Near

LEMMA SavedIs ==
  ASSUME NodesFine, NEW text \in (Shapes \cup Commits) \X BOOLEAN, NEW ev \in Nat \ {0},
         NEW id, X!Saved(text, ev, id)
  PROVE  \/ id \in X!Live /\ SameBut(experiences', id, ev)
         \/ /\ id = Len(experiences) + 1 /\ Made(experiences', text, ev)
            /\ (\A i \in X!Live : experiences[i].text # text) \/ Full(text)
  <1>1. CASE id \in X!Alike(text) /\ experiences' = [experiences EXCEPT ![id].ev = @ + ev]
    <2> DEFINE r == [experiences[id] EXCEPT !.ev = @ + ev]
    <2>1. id \in X!Live
      BY <1>1 DEF X!Alike
    <2>3. id \in DOMAIN experiences /\ experiences[id] \in Node
      BY <2>1, NodesAre DEF X!Live
    <2>4. /\ r \in Node /\ r.text = experiences[id].text /\ r.live = experiences[id].live
          /\ r.ev = experiences[id].ev + ev
      BY <2>3 DEF Node
    <2>5. experiences' = [experiences EXCEPT ![id] = r]
      BY <1>1
    <2> HIDE DEF r
    <2>6. /\ experiences' \in Seq(Node) /\ Len(experiences') = Len(experiences)
          /\ \A j \in DOMAIN experiences : experiences'[j] = IF j = id THEN r ELSE experiences[j]
      <3>1. experiences' \in [1..Len(experiences) -> Node]
        BY <2>3, <2>4, <2>5, NodesAre
      <3> QED
        BY <3>1, <2>3, <2>5, NodesAre
    <2>7. SameBut(experiences', id, ev)
      BY <2>4, <2>6 DEF SameBut
    <2> QED
      BY <2>1, <2>7
  <1>2. CASE /\ (\A i \in X!Live : experiences[i].text # text) \/ X!Cardinality(X!Others(text)) >= Near
             /\ id = Len(experiences) + 1
             /\ \E over \in {0} \cup (X!Live \ X!Alike(text)) :
                   experiences' = Append([i \in DOMAIN experiences |->
                                            [experiences[i] EXCEPT !.live = @ /\ i # over]],
                                         X!New(text, ev))
    <2>0. PICK over : experiences' = Append([i \in DOMAIN experiences |->
                                            [experiences[i] EXCEPT !.live = @ /\ i # over]],
                                         [text |-> text, ev |-> ev, live |-> TRUE])
      BY <1>2 DEF X!New
    <2> DEFINE base == [j \in DOMAIN experiences |->
                          [experiences[j] EXCEPT !.live = @ /\ j # over]]
    <2>1. experiences' = Append(base, [text |-> text, ev |-> ev, live |-> TRUE])
      BY <2>0
    <2>3. ASSUME NEW j \in DOMAIN experiences
          PROVE  /\ base[j] \in Node /\ base[j].text = experiences[j].text
                 /\ base[j].ev = experiences[j].ev
                 /\ base[j].live => experiences[j].live
      <3>1. experiences[j] \in Node
        BY NodesAre
      <3> DEFINE b == experiences[j].live /\ j # over
      <3>2. base[j] = [experiences[j] EXCEPT !.live = b] /\ b \in BOOLEAN
                /\ (b => experiences[j].live)
        OBVIOUS
      <3> HIDE DEF b, base
      <3> QED
        BY <3>1, <3>2 DEF Node
    <2>4. base \in [1..Len(experiences) -> Node]
      BY <2>3, NodesAre
    <2> HIDE DEF base
    <2>5. base \in Seq(Node) /\ Len(base) = Len(experiences)
      BY <2>4, NodesAre
    <2>6. Made(Append(base, [text |-> text, ev |-> ev, live |-> TRUE]), text, ev)
      BY <2>3, <2>5, AppendMakes
    <2>7. X!Cardinality(X!Others(text)) = Cardinality(X!Others(text))
      BY ExpCardinality
    <2> QED
      BY <1>2, <2>1, <2>6, <2>7 DEF Full
  <1> QED
    BY <1>1, <1>2 DEF X!Saved

(* What does not count for a text is only ever more. *)
LEMMA OthersGrow ==
  ASSUME NodesFine, NodesFine', NEW text, DOMAIN experiences \subseteq DOMAIN experiences',
         \A j \in DOMAIN experiences :
            /\ experiences'[j].text = experiences[j].text
            /\ experiences'[j].live => experiences[j].live
  PROVE  Full(text) => Full(text)'
  <1>1. X!Others(text) \subseteq X!Others(text)'
    BY DEF X!Others, X!Alike, X!Live
  <1>2. IsFiniteSet(X!Others(text)')
    <2>1. DOMAIN experiences' = 1..Len(experiences') /\ Len(experiences') \in Nat
      BY DEF NodesFine
    <2>2. IsFiniteSet(1..Len(experiences'))
      <3>1. \A n \in Nat : IsFiniteSet(1..n)
        BY FS_Interval
      <3> QED
        BY <2>1, <3>1
    <2>3. X!Others(text)' \in SUBSET (1..Len(experiences'))
      BY <2>1 DEF X!Others
    <2> QED
      BY <2>2, <2>3, FS_Subset
  <1> DEFINE old == X!Others(text) more == X!Others(text)'
  <1>3. old \in SUBSET more /\ IsFiniteSet(more)
    BY <1>1, <1>2
  <1> HIDE DEF old, more
  <1>4. IsFiniteSet(old) /\ Cardinality(old) <= Cardinality(more)
    BY <1>3, FS_Subset
  <1>5. Cardinality(old) \in Nat /\ Cardinality(more) \in Nat
    BY <1>3, <1>4, FS_CardinalityType
  <1>6. Cardinality(old) >= Near => Cardinality(more) >= Near
    BY <1>4, <1>5, ExperiencesAssumption
  <1> QED
    BY <1>6 DEF old, more, Full

(* LiveOnce, in other words. *)
Once == \A i, j \in X!Live :
    experiences[i].text[1] \in Shapes /\ experiences[i].text = experiences[j].text =>
        i = j \/ Full(experiences[i].text)

LEMMA OnceIs == X!LiveOnce <=> Once
  BY ExpCardinality DEF X!LiveOnce, Once, Full

LEMMA EvUnitsGrow ==
  ASSUME NodesFine, IsFiniteSet(EvUnits), NEW text,
         NEW ev \in Nat \ {0},
         \/ \E i \in X!Live : SameBut(experiences', i, ev)
         \/ Made(experiences', text, ev)
  PROVE  /\ IsFiniteSet(EvUnits')
         /\ Cardinality(EvUnits') = Cardinality(EvUnits) + ev
  <1>1. ASSUME NEW i, NEW a \in Nat,
               EvUnits' = EvUnits \cup ({i} \X ((a + 1)..(a + ev))),
               EvUnits \cap ({i} \X ((a + 1)..(a + ev))) = {}
        PROVE  /\ IsFiniteSet(EvUnits')
               /\ Cardinality(EvUnits') = Cardinality(EvUnits) + ev
    <2> DEFINE more == {i} \X ((a + 1)..(a + ev))
    <2>0. ev \in Nat
      OBVIOUS
    <2>1. IsFiniteSet(more) /\ Cardinality(more) = ev
      <3>1. IsFiniteSet({i}) /\ Cardinality({i}) = 1
        BY FS_Singleton
      <3>2. /\ IsFiniteSet((a + 1)..(a + ev))
            /\ Cardinality((a + 1)..(a + ev)) = ev
        <4>1. \A m \in Int : \A n \in Int :
                 IsFiniteSet(m..n) /\ Cardinality(m..n) = IF m > n THEN 0 ELSE n - m + 1
          BY FS_Interval
        <4>2. a + 1 \in Int /\ a + ev \in Int /\ ~(a + 1 > a + ev)
                /\ (a + ev) - (a + 1) + 1 = ev
          BY <2>0
        <4> QED
          BY <4>1, <4>2
      <3>3. IsFiniteSet(more) /\ Cardinality(more) = 1 * ev
        <4> DEFINE one == {i} those == (a + 1)..(a + ev)
        <4>1. /\ IsFiniteSet(one) /\ Cardinality(one) = 1
              /\ IsFiniteSet(those) /\ Cardinality(those) = ev
          BY <3>1, <3>2
        <4> HIDE DEF one, those
        <4>2. IsFiniteSet(one \X those) /\ Cardinality(one \X those) = 1 * ev
          BY <4>1, FS_Product
        <4> QED
          BY <4>2 DEF one, those
      <3> HIDE DEF more
      <3> QED
        BY <2>0, <3>3
    <2>2. EvUnits' = EvUnits \cup more /\ EvUnits \cap more = {}
      BY <1>1
    <2> HIDE DEF more
    <2>3. /\ IsFiniteSet(EvUnits \cup more)
          /\ Cardinality(EvUnits \cup more) =
                Cardinality(EvUnits) + Cardinality(more) - Cardinality(EvUnits \cap more)
      BY <2>1, FS_Union
    <2>4. Cardinality(EvUnits \cap more) = 0
      BY <2>2, FS_EmptySet
    <2>5. Cardinality(EvUnits) \in Nat
      BY FS_CardinalityType
    <2>6. Cardinality(EvUnits \cup more) = Cardinality(EvUnits) + ev - 0
      BY <2>1, <2>3, <2>4, Zenon
    <2>7. Cardinality(EvUnits) + ev - 0 = Cardinality(EvUnits) + ev
      BY <2>5
    <2> QED
      BY <2>2, <2>3, <2>6, <2>7, Zenon
  <1>2. ASSUME NEW i \in X!Live, SameBut(experiences', i, ev)
        PROVE  /\ IsFiniteSet(EvUnits')
               /\ Cardinality(EvUnits') = Cardinality(EvUnits) + ev
    <2> DEFINE a == experiences[i].ev
    <2>0. i \in DOMAIN experiences /\ experiences[i] \in Node
      BY <1>2, NodesAre DEF X!Live
    <2>1. a \in Nat /\ i \in DOMAIN experiences
      BY <2>0 DEF Node
    <2>2. DOMAIN experiences' = DOMAIN experiences
      BY <1>2, NodesAre DEF SameBut
    <2>3. \A j \in DOMAIN experiences :
             experiences'[j].ev = IF j = i THEN a + ev ELSE experiences[j].ev
      BY <1>2 DEF SameBut
    <2> HIDE DEF a
    <2>4. 1..(a + ev) = (1..a) \cup ((a + 1)..(a + ev)) /\ (1..a) \cap ((a + 1)..(a + ev)) = {}
      BY <2>1
    <2>5. EvUnits' = EvUnits \cup ({i} \X ((a + 1)..(a + ev)))
      <3> DEFINE more == (a + 1)..(a + ev)  all_1 == 1..(a + ev)  old == 1..a
      <3>1. all_1 = old \cup more
        BY <2>4
      <3>2. EvUnits' = UNION {{j} \X (1..experiences'[j].ev) : j \in DOMAIN experiences}
        BY <2>2 DEF EvUnits
      <3>3. \A j \in DOMAIN experiences : {j} \X (1..experiences'[j].ev) =
               IF j = i THEN {j} \X all_1 ELSE {j} \X (1..experiences[j].ev)
        BY <2>3
      <3>4. {i} \X (1..experiences[i].ev) = {i} \X old
        BY DEF a
      <3> HIDE DEF more, all_1, old
      <3>5. {i} \X all_1 = ({i} \X old) \cup ({i} \X more)
        BY <3>1
      <3>6. EvUnits' \subseteq EvUnits \cup ({i} \X more)
        BY <3>2, <3>3, <3>4, <3>5 DEF EvUnits
      <3>7. EvUnits \cup ({i} \X more) \subseteq EvUnits'
        BY <2>1, <3>2, <3>3, <3>4, <3>5 DEF EvUnits
      <3> QED
        BY <3>6, <3>7 DEF more
    <2>6. EvUnits \cap ({i} \X ((a + 1)..(a + ev))) = {}
      <3>1. \A u \in EvUnits : u[1] = i => u[2] \in 1..a
        BY DEF EvUnits, a
      <3> QED
        BY <2>4, <3>1
    <2> QED
      BY <1>1, <2>1, <2>5, <2>6
  <1>3. ASSUME Made(experiences', text, ev)
        PROVE  /\ IsFiniteSet(EvUnits')
               /\ Cardinality(EvUnits') = Cardinality(EvUnits) + ev
    <2> DEFINE i == Len(experiences) + 1
    <2>1. /\ i \in Nat /\ i \notin DOMAIN experiences
          /\ DOMAIN experiences' = DOMAIN experiences \cup {i}
      BY <1>3, NodesAre DEF Made
    <2>2. /\ experiences'[i].text = text /\ experiences'[i].ev = ev
      BY <1>3, NodesAre DEF Made
    <2> HIDE DEF i
    <2>4. \A j \in DOMAIN experiences : experiences'[j].ev = experiences[j].ev
      BY <1>3 DEF Made
    <2>5. EvUnits' = EvUnits \cup ({i} \X (1..ev))
      BY <2>1, <2>2, <2>4 DEF EvUnits
    <2>6. EvUnits \cap ({i} \X (1..ev)) = {}
      BY <2>1 DEF EvUnits
    <2>7. (0 + 1)..(0 + ev) = 1..ev
      OBVIOUS
    <2> QED
      BY <1>1, <2>5, <2>6, <2>7
  <1> QED
    BY <1>2, <1>3

(* No text lives twice, whether a node has more evidence or is made. *)
Kept(text) ==
    /\ DOMAIN experiences \subseteq DOMAIN experiences'
    /\ \A j \in DOMAIN experiences : /\ experiences'[j].text = experiences[j].text
                                     /\ experiences'[j].live => experiences[j].live
    /\ \A i \in DOMAIN experiences' \ DOMAIN experiences : experiences'[i].text = text

(* What stays so when only nodes with a given text are new, and none revives.*)
LEMMA CreditStays ==
  ASSUME CreditFine, NotRevived, OneEach, NEW text, Kept(text),
         \A c \in Commits : text # <<c, TRUE>> /\ text # <<c, FALSE>>,
         again' = 0 => again = 0, credit' = credit
  PROVE  NotRevived' /\ OneEach' /\ CreditFine'
  <1>1. \A c \in Commits : \A i \in DOMAIN experiences' :
           experiences'[i].text = <<c, TRUE>> \/ experiences'[i].text = <<c, FALSE>>
           => i \in DOMAIN experiences /\ experiences[i].text = experiences'[i].text
                /\ (experiences'[i].live => experiences[i].live)
    BY DEF Kept
  <1>2. NotRevived'
    <2> SUFFICES ASSUME again = 0, NEW c \in Commits,
                        NEW i \in DOMAIN experiences', NEW j \in DOMAIN experiences',
                        experiences'[i].text = <<c, FALSE>>,
                        experiences'[j].text = <<c, TRUE>>
                 PROVE  ~experiences'[j].live
      BY DEF NotRevived
    <2>1. i \in DOMAIN experiences /\ experiences[i].text = <<c, FALSE>>
      BY <1>1
    <2>2. /\ j \in DOMAIN experiences /\ experiences[j].text = <<c, TRUE>>
          /\ experiences'[j].live => experiences[j].live
      BY <1>1
    <2>3. ~experiences[j].live
      BY <2>1, <2>2 DEF NotRevived
    <2> QED
      BY <2>2, <2>3
  <1>3. OneEach'
    BY <1>1 DEF OneEach
  <1>4. CreditFine'
    <2>1. \A c \in Commits : credit'[c] # 0 => credit'[c] \in DOMAIN experiences'
      BY DEF CreditFine, Kept
    <2>2. again' = 0 => \A c \in Commits : \A i \in DOMAIN experiences' :
             experiences'[i].live /\ experiences'[i].text = <<c, TRUE>> => credit'[c] \in {0, i}
      BY <1>1 DEF CreditFine
    <2> QED
      BY <2>1, <2>2 DEF CreditFine
  <1> QED
    BY <1>2, <1>3, <1>4

LEMMA LiveOnceStays ==
  ASSUME NodesFine, NodesFine', X!LiveOnce, NEW text, Kept(text),
         DOMAIN experiences' \ DOMAIN experiences = {}
         \/ \E n : DOMAIN experiences' \ DOMAIN experiences = {n},
         DOMAIN experiences' = DOMAIN experiences \/ text[1] \notin Shapes
         \/ (\A i \in X!Live : experiences[i].text # text) \/ Full(text)
  PROVE  X!LiveOnce'
  <1>0. Once
    BY OnceIs
  <1>1. \A x : Full(x) => Full(x)'
    <2> SUFFICES ASSUME NEW x PROVE Full(x) => Full(x)'
      OBVIOUS
    <2> QED
      BY OthersGrow DEF Kept
  <1>2. \A i \in X!Live' : /\ i \in DOMAIN experiences'
                           /\ i \in DOMAIN experiences =>
                                 i \in X!Live /\ experiences'[i].text = experiences[i].text
                           /\ i \notin DOMAIN experiences => experiences'[i].text = text
    BY DEF X!Live, Kept
  <1>3. ASSUME NEW i \in X!Live', NEW j \in X!Live', experiences'[i].text[1] \in Shapes,
               experiences'[i].text = experiences'[j].text, i # j
        PROVE  \E x : x = experiences'[i].text /\ Full(x)
    <2>1. CASE i \in DOMAIN experiences /\ j \in DOMAIN experiences
      <3>1. i \in X!Live /\ j \in X!Live /\ experiences'[i].text = experiences[i].text
            /\ experiences'[j].text = experiences[j].text
        BY <1>2, <2>1
      <3> QED
        BY <1>0, <1>3, <3>1 DEF Once
    <2>2. CASE i \in DOMAIN experiences /\ j \notin DOMAIN experiences
      <3>1. i \in X!Live /\ experiences[i].text = text /\ experiences'[i].text = text
        BY <1>2, <1>3, <2>2
      <3>2. j \in DOMAIN experiences' /\ text[1] \in Shapes
        BY <1>2, <1>3, <2>2
      <3> QED
        BY <2>2, <3>1, <3>2
    <2>3. CASE i \notin DOMAIN experiences /\ j \in DOMAIN experiences
      <3>1. j \in X!Live /\ experiences[j].text = text /\ experiences'[i].text = text
        BY <1>2, <1>3, <2>3
      <3>2. i \in DOMAIN experiences' /\ text[1] \in Shapes
        BY <1>2, <1>3, <2>3
      <3> QED
        BY <2>3, <3>1, <3>2
    <2>4. CASE i \notin DOMAIN experiences /\ j \notin DOMAIN experiences
      BY <1>2, <1>3, <2>4
    <2> QED
      BY <2>1, <2>2, <2>3, <2>4
  <1>4. Once'
    <2> SUFFICES ASSUME NEW i \in X!Live', NEW j \in X!Live', experiences'[i].text[1] \in Shapes,
                        experiences'[i].text = experiences'[j].text, i # j
                 PROVE  Full(experiences[i].text)'
      BY DEF Once
    <2>1. PICK x : x = experiences'[i].text /\ Full(x)
      BY <1>3
    <2>2. Full(x)'
      BY <1>1, <2>1
    <2> QED
      BY <2>1, <2>2 DEF Full, X!Others, X!Alike
  <1> QED
    BY <1>4, OnceIs, PTL

LEMMA SavedKeeps ==
  ASSUME NodesFine, X!LiveOnce, signals' = signals, deployed' \in Nat,
         NEW text, NEW ev \in Nat \ {0},
         \/ \E i \in X!Live : SameBut(experiences', i, ev)
         \/ /\ Made(experiences', text, ev)
            /\ (\A i \in X!Live : experiences[i].text # text) \/ Full(text) \/ text[1] \notin Shapes
  PROVE  NodesFine' /\ X!LiveOnce' /\ Kept(text)
  <1>1. ASSUME NEW i \in X!Live, SameBut(experiences', i, ev)
        PROVE  NodesFine' /\ X!LiveOnce' /\ Kept(text)
    <2>1. NodesFine'
      BY <1>1 DEF NodesFine, SameBut
    <2>2. DOMAIN experiences' = DOMAIN experiences
      BY <1>1, NodesAre DEF SameBut
    <2>3. Kept(text)
      BY <1>1, <2>2 DEF Kept, SameBut
    <2> QED
      BY <2>1, <2>2, <2>3, LiveOnceStays
  <1>2. ASSUME Made(experiences', text, ev),
               (\A i \in X!Live : experiences[i].text # text) \/ Full(text) \/ text[1] \notin Shapes
        PROVE  NodesFine' /\ X!LiveOnce' /\ Kept(text)
    <2> DEFINE n == Len(experiences) + 1
    <2>1. NodesFine'
      BY <1>2 DEF NodesFine, Made
    <2>2. DOMAIN experiences' = DOMAIN experiences \cup {n} /\ n \notin DOMAIN experiences
      BY <1>2, NodesAre DEF Made
    <2>3. experiences'[n].text = text
      BY <1>2, NodesAre DEF Made
    <2> HIDE DEF n
    <2>4. Kept(text)
      BY <1>2, <2>2, <2>3 DEF Kept, Made
    <2>5. DOMAIN experiences' \ DOMAIN experiences = {n}
      BY <2>2
    <2> QED
      BY <1>2, <2>1, <2>4, <2>5, LiveOnceStays
  <1> QED
    BY <1>1, <1>2

(* Commits and the owner's archive take no part in the cycle's count. *)
LEMMA CountStays ==
  ASSUME ExperiencesInv, UNCHANGED <<signals, reached, harvest>>,
         again' = again \/ again' = again + 1,
         NEW n \in {0, 1}, deployed' = deployed + n, IsFiniteSet(EvUnits'),
         Cardinality(EvUnits') = Cardinality(EvUnits) + n
  PROVE  HarvestFine' /\ EvidenceCounted'
  <1>0. again \in Nat /\ deployed \in Nat
    BY DEF ExperiencesInv, HarvestFine, NodesFine
  <1>1. HarvestFine'
    BY <1>0 DEF ExperiencesInv, HarvestFine
  <1>2. Counted' = Counted
    BY DEF Counted
  <1>3. SigUnits(Counted)' = SigUnits(Counted)
    BY <1>2 DEF SigUnits, X!Strength
  <1>4. Cardinality(EvUnits) \in Nat /\ Cardinality(SigUnits(Counted)) \in Nat
    BY CountedIsKnown, SigUnitsFinite, FS_CardinalityType DEF ExperiencesInv, EvidenceCounted
  <1>5. again' = 0 => Cardinality(EvUnits') <= deployed' + Cardinality(SigUnits(Counted))
    BY <1>0, <1>4 DEF ExperiencesInv, EvidenceCounted
  <1>6. EvidenceCounted'
    BY <1>3, <1>5 DEF EvidenceCounted
  <1> QED
    BY <1>1, <1>6

LEMMA MergeKeeps == ASSUME ExperiencesInv, NEW c \in Commits, X!Merge(c) PROVE ExperiencesInv'
  <1> USE DEF ExperiencesInv
  <1>0. UNCHANGED <<signals, reached, harvest, passed>> /\ c \notin Shapes
        /\ again \in Nat /\ deployed \in Nat /\ credit \in [Commits -> Nat]
    BY ExperiencesAssumption DEF X!Merge, HarvestFine, NodesFine, CreditFine
  <1>1. CASE /\ \E id \in {0} \cup X!Known(c) : credit' = [credit EXCEPT ![c] = id]
             /\ UNCHANGED <<experiences, deployed, again>>
    <2>1. PICK id \in {0} \cup X!Known(c) : credit' = [credit EXCEPT ![c] = id]
      BY <1>1
    <2>2. EvUnits' = EvUnits
      BY <1>1 DEF EvUnits
    <2>3. IsFiniteSet(EvUnits) /\ Cardinality(EvUnits) \in Nat
      BY FS_CardinalityType DEF EvidenceCounted
    <2>4. deployed' = deployed + 0 /\ Cardinality(EvUnits') = Cardinality(EvUnits) + 0
      BY <1>0, <1>1, <2>2, <2>3
    <2>5. HarvestFine' /\ EvidenceCounted'
      BY <1>0, <1>1, <2>2, <2>3, <2>4, CountStays
    <2>6. NodesFine' /\ NotRevived' /\ OneEach'
      BY <1>0, <1>1 DEF NodesFine, NotRevived, OneEach
    <2>7. X!LiveOnce'
      BY <1>1 DEF X!LiveOnce, X!Live, X!Others, X!Alike
    <2>8. id = 0 \/ (id \in DOMAIN experiences /\ experiences[id].text[1] = c)
      BY DEF X!Known
    <2>9. id \in Nat
      BY <2>8, NodesAre
    <2>10. /\ credit' \in [Commits -> Nat] /\ credit'[c] = id
           /\ \A d \in Commits \ {c} : credit'[d] = credit[d]
      BY <1>0, <2>1, <2>9
    <2>11. ASSUME again = 0, NEW i \in DOMAIN experiences, experiences[i].live,
                  experiences[i].text = <<c, TRUE>>
           PROVE  id \in {0, i}
      <3>1. CASE id # 0
        <4>1. id \in DOMAIN experiences /\ experiences[id].text[1] = c /\ experiences[id] \in Node
          BY <2>8, <3>1, NodesAre
        <4>2. PICK d \in Shapes \cup Commits, b \in BOOLEAN : experiences[id].text = <<d, b>>
          BY <4>1 DEF Node
        <4>3. experiences[id].text = <<c, b>>
          BY <4>1, <4>2
        <4>4. experiences[id].text = <<c, TRUE>>
          BY <2>11, <4>1, <4>3 DEF NotRevived
        <4> QED
          BY <2>11, <4>1, <4>4 DEF OneEach
      <3> QED
        BY <3>1
    <2>12. CreditFine'
      <3>1. \A d \in Commits : credit'[d] # 0 => credit'[d] \in DOMAIN experiences'
        BY <1>1, <2>8, <2>10 DEF CreditFine
      <3>2. again' = 0 => \A d \in Commits : \A i \in DOMAIN experiences' :
               experiences'[i].live /\ experiences'[i].text = <<d, TRUE>> => credit'[d] \in {0, i}
        BY <1>1, <2>10, <2>11 DEF CreditFine
      <3> QED
        BY <2>10, <3>1, <3>2 DEF CreditFine
    <2> QED
      BY <1>0, <2>5, <2>6, <2>7, <2>12
  <1>2. CASE /\ X!Known(c) = {} /\ deployed' = deployed + 1
             /\ \E id \in 1..(Len(experiences) + 1) :
                   /\ X!Saved(<<c, TRUE>>, 1, id)
                   /\ \/ (\E n \in {0, id} : credit' = [credit EXCEPT ![c] = n]) /\ UNCHANGED again
                      \/ again' = again + 1 /\ UNCHANGED credit
    <2> DEFINE text == <<c, TRUE>>
    <2>1. PICK id \in 1..(Len(experiences) + 1) :
             /\ X!Saved(text, 1, id)
             /\ \/ (\E n \in {0, id} : credit' = [credit EXCEPT ![c] = n]) /\ UNCHANGED again
                \/ again' = again + 1 /\ UNCHANGED credit
      BY <1>2
    <2>2. text \in (Shapes \cup Commits) \X BOOLEAN /\ text[1] = c /\ text[2] = TRUE
      OBVIOUS
    <2>20. \A d \in Commits : text = <<d, TRUE>> => d = c
      OBVIOUS
    <2>21. \A d \in Commits : text # <<d, FALSE>>
      OBVIOUS
    <2> HIDE DEF text
    <2>3. \A j \in DOMAIN experiences : experiences[j].text[1] # c
      BY <1>2 DEF X!Known
    <2>4. \A j \in DOMAIN experiences : experiences[j].text # <<c, TRUE>>
                                       /\ experiences[j].text # <<c, FALSE>>
      <3>1. ASSUME NEW j \in DOMAIN experiences, NEW b \in BOOLEAN,
                   experiences[j].text = <<c, b>>
            PROVE  FALSE
        <4>1. <<c, b>>[1] = c
          OBVIOUS
        <4>2. experiences[j].text[1] = c
          BY <3>1, <4>1
        <4> QED
          BY <2>3, <4>2
      <3> QED
        BY <3>1
    <2>5. 1 \in Nat \ {0}
      OBVIOUS
    <2>6. \/ id \in X!Live /\ SameBut(experiences', id, 1)
          \/ id = Len(experiences) + 1 /\ Made(experiences', text, 1)
      BY <2>1, <2>2, <2>5, SavedIs
    <2>7. NodesFine' /\ X!LiveOnce' /\ Kept(text)
      <3>1. signals' = signals /\ deployed' \in Nat /\ text[1] \notin Shapes
        BY <1>0, <1>2, <2>2
      <3>2. \/ \E i \in X!Live : SameBut(experiences', i, 1)
            \/ /\ Made(experiences', text, 1)
               /\ (\A i \in X!Live : experiences[i].text # text) \/ Full(text)
                  \/ text[1] \notin Shapes
        BY <2>6, <3>1
      <3> QED
        BY <2>5, <3>1, <3>2, SavedKeeps
    <2>8. IsFiniteSet(EvUnits') /\ Cardinality(EvUnits') = Cardinality(EvUnits) + 1
      <3>1. IsFiniteSet(EvUnits)
        BY DEF EvidenceCounted
      <3> QED
        BY <2>5, <2>6, <3>1, EvUnitsGrow
    <2>9. HarvestFine' /\ EvidenceCounted'
      BY <1>0, <1>2, <2>1, <2>8, CountStays
    <2>10. \A i \in DOMAIN experiences' : experiences'[i].text = <<c, TRUE>> =>
              i \notin DOMAIN experiences /\ i = id
      <3>1. ASSUME NEW i \in DOMAIN experiences', experiences'[i].text = <<c, TRUE>>
            PROVE  i \notin DOMAIN experiences
        BY <2>4, <2>7, <3>1 DEF Kept
      <3>2. ASSUME NEW i \in DOMAIN experiences', i \notin DOMAIN experiences
            PROVE  i = id
        <4>1. CASE id \in X!Live /\ SameBut(experiences', id, 1)
          <5>1. DOMAIN experiences' = DOMAIN experiences
            BY <4>1, NodesAre DEF SameBut
          <5> QED
            BY <3>2, <5>1
        <4>2. CASE id = Len(experiences) + 1 /\ Made(experiences', text, 1)
          <5>1. DOMAIN experiences' = 1..(Len(experiences) + 1)
            BY <4>2, NodesAre DEF Made
          <5> QED
            BY <3>2, <4>2, <5>1, NodesAre
        <4> QED
          BY <2>6, <4>1, <4>2
      <3> QED
        BY <3>1, <3>2
    <2>11. \A d \in Commits \ {c} : \A i \in DOMAIN experiences' :
              experiences'[i].text = <<d, TRUE>> \/ experiences'[i].text = <<d, FALSE>>
              => i \in DOMAIN experiences /\ experiences[i].text = experiences'[i].text
                   /\ (experiences'[i].live => experiences[i].live)
      BY <2>7, <2>20, <2>21 DEF Kept
    <2>12. \A i \in DOMAIN experiences' : experiences'[i].text # <<c, FALSE>>
      BY <2>4, <2>7, <2>21 DEF Kept
    <2>13. again' = 0 => again = 0
      BY <1>0, <2>1
    <2>14. NotRevived'
      <3> SUFFICES ASSUME again' = 0, NEW d \in Commits, NEW n \in DOMAIN experiences',
                          NEW j \in DOMAIN experiences', experiences'[n].text = <<d, FALSE>>,
                          experiences'[j].text = <<d, TRUE>>, experiences'[j].live
                   PROVE  FALSE
        BY DEF NotRevived
      <3>1. d \in Commits \ {c}
        BY <2>12
      <3>2. /\ n \in DOMAIN experiences /\ experiences[n].text = <<d, FALSE>>
            /\ j \in DOMAIN experiences /\ experiences[j].text = <<d, TRUE>>
            /\ experiences[j].live
        BY <2>11, <3>1
      <3> QED
        BY <2>13, <3>2 DEF NotRevived
    <2>15. OneEach'
      BY <2>10, <2>11 DEF OneEach
    <2>16. id \in DOMAIN experiences' /\ id \in Nat
      <3>1. CASE id \in X!Live /\ SameBut(experiences', id, 1)
        BY <3>1, NodesAre DEF SameBut, X!Live
      <3>2. CASE id = Len(experiences) + 1 /\ Made(experiences', text, 1)
        BY <3>2, NodesAre DEF Made
      <3> QED
        BY <2>6, <3>1, <3>2
    <2>17. /\ credit' \in [Commits -> Nat]
           /\ \A d \in Commits \ {c} : credit'[d] = credit[d]
           /\ credit'[c] \in {0, id, credit[c]}
           /\ again' = 0 => credit'[c] \in {0, id}
      <3>1. CASE (\E n \in {0, id} : credit' = [credit EXCEPT ![c] = n]) /\ UNCHANGED again
        BY <1>0, <2>16, <3>1
      <3>2. CASE again' = again + 1 /\ UNCHANGED credit
        BY <1>0, <3>2
      <3> QED
        BY <2>1, <3>1, <3>2
    <2>18. CreditFine'
      <3>1. \A d \in Commits : credit'[d] # 0 => credit'[d] \in DOMAIN experiences'
        BY <2>7, <2>16, <2>17 DEF CreditFine, Kept
      <3>2. again' = 0 => \A d \in Commits : \A i \in DOMAIN experiences' :
               experiences'[i].live /\ experiences'[i].text = <<d, TRUE>> => credit'[d] \in {0, i}
        BY <2>10, <2>11, <2>13, <2>17 DEF CreditFine
      <3> QED
        BY <2>17, <3>1, <3>2 DEF CreditFine
    <2> QED
      BY <1>0, <2>7, <2>9, <2>14, <2>15, <2>18
  <1> QED
    BY <1>1, <1>2 DEF X!Merge

LEMMA RollbackKeeps ==
  ASSUME ExperiencesInv, NEW c \in Commits, X!Rollback(c) PROVE ExperiencesInv'
  <1> USE DEF ExperiencesInv
  <1>0. UNCHANGED <<signals, reached, harvest, credit, again, passed>> /\ c \notin Shapes
        /\ deployed' = deployed + 1 /\ deployed \in Nat
    BY ExperiencesAssumption DEF X!Rollback, NodesFine
  <1> DEFINE text == <<c, FALSE>>
             i == credit[c]
  <1>1. experiences' = Append([experiences EXCEPT ![i].live = FALSE],
                              [text |-> text, ev |-> 1, live |-> TRUE])
    BY DEF X!Rollback, X!New
  <1>2. text \in (Shapes \cup Commits) \X BOOLEAN /\ text[1] = c /\ text[2] = FALSE
    OBVIOUS
  <1>20. \A d \in Commits : text # <<d, TRUE>>
    OBVIOUS
  <1>21. \A d \in Commits : text = <<d, FALSE>> => d = c
    OBVIOUS
  <1>22. i \in DOMAIN experiences
    BY DEF X!Rollback, CreditFine
  <1>24. i # 0 /\ i = credit[c]
    BY DEF X!Rollback
  <1>23. again = 0 => \A j \in DOMAIN experiences :
            experiences[j].live /\ experiences[j].text = <<c, TRUE>> => j = i
    <2>1. again = 0 => \A j \in DOMAIN experiences :
            experiences[j].live /\ experiences[j].text = <<c, TRUE>> => credit[c] \in {0, j}
      BY DEF CreditFine
    <2> HIDE DEF i
    <2> QED
      BY <1>24, <2>1
  <1> HIDE DEF i
  <1> DEFINE base == [experiences EXCEPT ![i].live = FALSE]
             r == [experiences[i] EXCEPT !.live = FALSE]
  <1>3. i \in DOMAIN experiences /\ experiences[i] \in Node
    BY <1>22, NodesAre
  <1>4. /\ r \in Node /\ r.text = experiences[i].text /\ r.ev = experiences[i].ev
        /\ r.live = FALSE
    BY <1>3 DEF Node
  <1>5. base = [experiences EXCEPT ![i] = r]
    OBVIOUS
  <1>6. experiences' = Append(base, [text |-> text, ev |-> 1, live |-> TRUE])
    BY <1>1
  <1> HIDE DEF text, base, r
  <1>7. base \in [1..Len(experiences) -> Node]
    BY <1>3, <1>4, <1>5, NodesAre
  <1>8. base \in Seq(Node) /\ Len(base) = Len(experiences)
    BY <1>7, NodesAre
  <1>9. \A j \in DOMAIN experiences : base[j] = IF j = i THEN r ELSE experiences[j]
    BY <1>3, <1>5
  <1>10. \A j \in DOMAIN experiences :
            /\ base[j].text = experiences[j].text /\ base[j].ev = experiences[j].ev
            /\ base[j].live => experiences[j].live /\ j # i
    BY <1>4, <1>9
  <1>11. Made(experiences', text, 1)
    BY <1>2, <1>6, <1>8, <1>10, AppendMakes
  <1>12. \A j \in DOMAIN experiences : experiences'[j] = base[j]
    <2>1. [text |-> text, ev |-> 1, live |-> TRUE] \in Node
      BY <1>2 DEF Node
    <2> QED
      BY <1>6, <1>8, <2>1, NodesAre
  <1>13. NodesFine' /\ X!LiveOnce' /\ Kept(text)
    <2>1. 1 \in Nat \ {0} /\ deployed' \in Nat /\ text[1] \notin Shapes /\ signals' = signals
      BY <1>0, <1>2
    <2> QED
      BY <1>11, <2>1, SavedKeeps
  <1>14. \A d \in Commits : \A j \in DOMAIN experiences' : experiences'[j].text = <<d, TRUE>> =>
            /\ j \in DOMAIN experiences /\ experiences[j].text = <<d, TRUE>>
            /\ experiences'[j].live => experiences[j].live /\ j # i
    <2>1. ASSUME NEW d \in Commits, NEW j \in DOMAIN experiences',
                 experiences'[j].text = <<d, TRUE>>
          PROVE  j \in DOMAIN experiences /\ experiences[j].text = <<d, TRUE>>
      BY <1>13, <1>20, <2>1 DEF Kept
    <2>2. \A j \in DOMAIN experiences : experiences'[j].live => experiences[j].live /\ j # i
      BY <1>10, <1>12
    <2> QED
      BY <2>1, <2>2
  <1>15. OneEach'
    BY <1>14 DEF OneEach
  <1>16. NotRevived'
    <2> SUFFICES ASSUME again = 0, NEW d \in Commits, NEW n \in DOMAIN experiences',
                        NEW j \in DOMAIN experiences', experiences'[n].text = <<d, FALSE>>,
                        experiences'[j].text = <<d, TRUE>>, experiences'[j].live
                 PROVE  FALSE
      BY <1>0 DEF NotRevived
    <2>1. /\ j \in DOMAIN experiences /\ experiences[j].text = <<d, TRUE>>
          /\ experiences[j].live /\ j # i
      BY <1>14
    <2>2. CASE d = c
      BY <1>23, <2>1, <2>2
    <2>3. CASE d # c
      <3>1. n \in DOMAIN experiences /\ experiences[n].text = <<d, FALSE>>
        BY <1>13, <1>21, <2>3 DEF Kept
      <3> QED
        BY <2>1, <3>1 DEF NotRevived
    <2> QED
      BY <2>2, <2>3
  <1>17. CreditFine'
    <2>1. \A d \in Commits : credit'[d] # 0 => credit'[d] \in DOMAIN experiences'
      BY <1>0, <1>13 DEF CreditFine, Kept
    <2>2. again' = 0 => \A d \in Commits : \A j \in DOMAIN experiences' :
             experiences'[j].live /\ experiences'[j].text = <<d, TRUE>> => credit'[d] \in {0, j}
      BY <1>0, <1>14 DEF CreditFine
    <2> QED
      BY <1>0, <2>1, <2>2 DEF CreditFine
  <1>18. IsFiniteSet(EvUnits') /\ Cardinality(EvUnits') = Cardinality(EvUnits) + 1
    <2>1. IsFiniteSet(EvUnits) /\ 1 \in Nat \ {0}
      BY DEF EvidenceCounted
    <2> QED
      BY <1>11, <2>1, EvUnitsGrow
  <1>19. HarvestFine' /\ EvidenceCounted'
    BY <1>0, <1>18, CountStays
  <1> QED
    BY <1>0, <1>13, <1>15, <1>16, <1>17, <1>19

LEMMA ExpArchiveKeeps ==
  ASSUME ExperiencesInv, NEW i \in DOMAIN experiences, X!Archive(i) PROVE ExperiencesInv'
  <1> USE DEF ExperiencesInv
  <1> DEFINE r == [experiences[i] EXCEPT !.live = FALSE]
  <1>0. /\ UNCHANGED <<signals, reached, harvest, credit, deployed, again, passed>>
        /\ experiences' = [experiences EXCEPT ![i] = r]
    BY DEF X!Archive
  <1>1. /\ r \in Node /\ r.text = experiences[i].text /\ r.ev = experiences[i].ev
        /\ r.live = FALSE
    BY NodesAre DEF Node
  <1> HIDE DEF r
  <1>2. experiences' \in [1..Len(experiences) -> Node]
    BY <1>0, <1>1, NodesAre
  <1>3. /\ DOMAIN experiences' = DOMAIN experiences
        /\ \A j \in DOMAIN experiences :
              /\ experiences'[j].text = experiences[j].text
              /\ experiences'[j].ev = experiences[j].ev
              /\ experiences'[j].live => experiences[j].live
    BY <1>0, <1>1
  <1>4. NodesFine'
    BY <1>0, <1>2, NodesAre DEF NodesFine
  <1>5. Kept(<<>>)
    BY <1>3 DEF Kept
  <1>6. X!LiveOnce'
    BY <1>3, <1>4, <1>5, LiveOnceStays
  <1>7. NotRevived' /\ OneEach' /\ CreditFine'
    BY <1>0, <1>5, CreditStays
  <1>8. EvUnits' = EvUnits
    BY <1>3 DEF EvUnits
  <1>9. IsFiniteSet(EvUnits) /\ Cardinality(EvUnits) \in Nat /\ deployed \in Nat
    BY FS_CardinalityType DEF EvidenceCounted, NodesFine
  <1>10. deployed' = deployed + 0 /\ Cardinality(EvUnits') = Cardinality(EvUnits) + 0
    BY <1>0, <1>8, <1>9
  <1>11. HarvestFine' /\ EvidenceCounted'
    BY <1>0, <1>8, <1>9, <1>10, CountStays
  <1> QED
    BY <1>0, <1>4, <1>6, <1>7, <1>11

(* The count of a cycle goes on: what is counted after a step holds what was *)
(* counted before it. *)
LEMMA CountGrows ==
  ASSUME ExperiencesInv, UNCHANGED <<signals, experiences, deployed>>, HarvestFine',
         Counted \subseteq Counted', again' = again \/ again' = again + 1
  PROVE  EvidenceCounted'
  <1> USE DEF ExperiencesInv
  <1>1. EvUnits' = EvUnits
    BY DEF EvUnits
  <1>2. NodesFine'
    BY DEF NodesFine
  <1>3. Counted' \in SUBSET (1..Len(signals))
    BY <1>2 DEF NodesFine, HarvestFine, Counted
  <1>4. SigUnits(Counted)' = SigUnits(Counted')
    BY DEF SigUnits, X!Strength
  <1>5. /\ Cardinality(SigUnits(Counted)) <= Cardinality(SigUnits(Counted'))
        /\ Cardinality(SigUnits(Counted)) \in Nat
        /\ Cardinality(SigUnits(Counted')) \in Nat
    <2>1. Counted \in SUBSET (1..Len(signals)) /\ Counted \in SUBSET Counted'
      BY <1>3
    <2> QED
      BY <1>3, <2>1, SigUnitsFinite
  <1>6. IsFiniteSet(EvUnits) /\ Cardinality(EvUnits) \in Nat
    BY FS_CardinalityType DEF EvidenceCounted
  <1>7. again' = 0 => again = 0
    BY DEF HarvestFine
  <1>8. again' = 0 => Cardinality(EvUnits) <= deployed + Cardinality(SigUnits(Counted'))
    BY <1>5, <1>6, <1>7 DEF EvidenceCounted, NodesFine
  <1> QED
    BY <1>1, <1>4, <1>6, <1>8 DEF EvidenceCounted

LEMMA NodesStay ==
  ASSUME ExperiencesInv, UNCHANGED <<signals, experiences, deployed, credit>>,
         again' = again \/ again' = again + 1
  PROVE  NodesFine' /\ NotRevived' /\ X!LiveOnce' /\ OneEach' /\ CreditFine'
  <1>1. again' = 0 => again = 0
    BY DEF ExperiencesInv, HarvestFine
  <1>2. NodesFine' /\ OneEach'
    BY DEF ExperiencesInv, NodesFine, OneEach
  <1>3. X!LiveOnce'
    BY DEF ExperiencesInv, X!LiveOnce, X!Live, X!Others, X!Alike
  <1>4. NotRevived'
    BY <1>1 DEF ExperiencesInv, NotRevived
  <1>5. CreditFine'
    BY <1>1 DEF ExperiencesInv, CreditFine
  <1> QED
    BY <1>2, <1>3, <1>4, <1>5

LEMMA SignalKeeps == ASSUME ExperiencesInv, NEW s \in X!Signals, X!Signal(s) PROVE ExperiencesInv'
  <1> USE DEF ExperiencesInv
  <1>0. /\ UNCHANGED <<reached, experiences, harvest, credit, deployed, again, passed>>
        /\ signals' = Append(signals, s)
    BY DEF X!Signal
  <1>1. /\ signals' \in Seq(X!Signals) /\ Len(signals') = Len(signals) + 1
        /\ \A i \in 1..Len(signals) : signals'[i] = signals[i]
        /\ Len(signals) \in Nat
    BY <1>0 DEF NodesFine
  <1>2. NodesFine'
    BY <1>0, <1>1 DEF NodesFine
  <1>3. HarvestFine'
    BY <1>0, <1>1 DEF HarvestFine
  <1>4. Counted' = Counted
    BY <1>0 DEF Counted
  <1>5. \A i \in Counted : X!Strength(i)' = X!Strength(i)
    BY <1>1, CountedIsKnown DEF X!Strength
  <1>6. SigUnits(Counted)' = SigUnits(Counted)
    BY <1>4, <1>5 DEF SigUnits
  <1>7. EvUnits' = EvUnits
    BY <1>0 DEF EvUnits
  <1>8. EvidenceCounted'
    BY <1>0, <1>6, <1>7 DEF EvidenceCounted
  <1>9. NotRevived' /\ X!LiveOnce' /\ OneEach' /\ CreditFine'
    <2>1. X!LiveOnce'
      BY <1>0 DEF X!LiveOnce, X!Live, X!Others, X!Alike
    <2>2. NotRevived' /\ OneEach'
      BY <1>0 DEF NotRevived, OneEach
    <2>3. CreditFine'
      BY <1>0 DEF CreditFine
    <2> QED
      BY <2>1, <2>2, <2>3
  <1> QED
    BY <1>0, <1>2, <1>3, <1>8, <1>9

(* The newest of the new signals are taken, so none passes an older one by. *)
LEMMA NewestFirst ==
  ASSUME NEW a \in Nat, NEW b \in Nat, NEW i \in (a..b) \ X!Newest(a..b),
         NEW j \in X!Newest(a..b), j < i
  PROVE  FALSE
  <1> DEFINE over == {n \in a..b : n > i} past == {n \in a..b : n > j}
  <1>1. i \in a..b /\ j \in a..b
    BY DEF X!Newest
  <1>2. ~(Cardinality(over) < Window) /\ Cardinality(past) < Window
    BY DEF X!Newest, X!Cardinality, Cardinality
  <1>3. over \in SUBSET past
    BY <1>1
  <1>4. past \in SUBSET (a..b)
    OBVIOUS
  <1> HIDE DEF over, past
  <1>5. IsFiniteSet(a..b)
    <2>1. \A m \in Int : \A n \in Int : IsFiniteSet(m..n)
      BY FS_Interval
    <2> QED
      BY <2>1
  <1>6. IsFiniteSet(past)
    BY <1>4, <1>5, FS_Subset
  <1>7. Cardinality(over) <= Cardinality(past) /\ IsFiniteSet(over)
    BY <1>3, <1>6, FS_Subset
  <1>8. Cardinality(over) \in Nat /\ Cardinality(past) \in Nat
    BY <1>6, <1>7, FS_CardinalityType
  <1> QED
    BY <1>2, <1>7, <1>8, ExperiencesAssumption

LEMMA ExpHarvestKeeps == ExperiencesInv /\ X!Harvest => ExperiencesInv'
  <1> SUFFICES ASSUME ExperiencesInv, X!Harvest PROVE ExperiencesInv'
    OBVIOUS
  <1> USE DEF ExperiencesInv
  <1> DEFINE new == (reached + 1)..Len(signals)
             taken == X!Newest(new)
  <1>0. /\ UNCHANGED <<signals, reached, experiences, credit, deployed, again>>
        /\ harvest.pc = "idle"
        /\ reached < Len(signals)
        /\ harvest' = [pc |-> "synth", newest |-> Len(signals), cands |-> taken,
                       left |-> {}, heard |-> FALSE, new |-> 0]
        /\ passed' = passed \cup {i \in new \ taken : \E j \in taken : j < i}
    BY DEF X!Harvest, X!Idle
  <1>1. Len(signals) \in Nat /\ reached \in 0..Len(signals)
    BY DEF NodesFine, HarvestFine
  <1>2. passed' = {}
    <2>1. \A i \in new \ taken : \A j \in taken : ~(j < i)
      BY <1>1, NewestFirst
    <2> HIDE DEF new, taken
    <2> QED
      BY <1>0, <2>1
  <1>3. taken \subseteq (reached + 1)..Len(signals) /\ taken \subseteq Nat
    BY <1>1 DEF X!Newest
  <1> HIDE DEF taken
  <1>4. /\ harvest'.pc = "synth" /\ harvest'.newest = Len(signals)
        /\ harvest'.cands = taken /\ harvest'.left = {} /\ harvest' \in Cycles
    BY <1>0, <1>1, <1>3 DEF Cycles
  <1>5. HarvestFine'
    BY <1>0, <1>1, <1>3, <1>4 DEF HarvestFine
  <1>6. Counted' = Counted
    BY <1>0, <1>4 DEF Counted
  <1>7. EvidenceCounted'
    BY <1>0, <1>5, <1>6, CountGrows
  <1> QED
    BY <1>0, <1>2, <1>5, <1>7, NodesStay

LEMMA IdleIsCycle == X!Idle \in Cycles /\ X!Idle.pc = "idle" /\ X!Idle.left = {}
  BY DEF X!Idle, Cycles

(* A cycle that is over leaves what it counted below the marker. *)
LEMMA CycleOver ==
  ASSUME ExperiencesInv, UNCHANGED <<signals, experiences, credit, deployed, passed>>, harvest' = X!Idle,
         \/ /\ again' = again /\ reached' = harvest.newest /\ harvest.pc # "idle"
         \/ /\ again' = again /\ reached' = reached /\ ~(harvest.pc = "save" /\ harvest.heard)
         \/ again' = again + 1 /\ reached' = reached
  PROVE  ExperiencesInv'
  <1> USE DEF ExperiencesInv
  <1>1. Len(signals) \in Nat /\ reached \in 0..Len(signals) /\ again \in Nat
    BY DEF NodesFine, HarvestFine
  <1>2. reached' \in 0..Len(signals) /\ reached <= reached' /\ again' \in Nat
    BY <1>1 DEF HarvestFine
  <1>3. HarvestFine'
    BY <1>2, IdleIsCycle DEF HarvestFine
  <1>4. Counted' = 1..reached'
    BY IdleIsCycle DEF Counted
  <1>5. again' = again => Counted \subseteq Counted'
    <2>1. 1..reached \subseteq 1..reached'
      BY <1>1, <1>2
    <2>2. CASE harvest.pc = "save" /\ harvest.heard /\ again' = again
      <3>1. reached' = harvest.newest
        BY <1>1, <2>2
      <3>2. harvest.cands \subseteq 1..reached'
        BY <1>1, <2>2, <3>1 DEF HarvestFine
      <3> QED
        BY <2>1, <3>2, <1>4 DEF Counted
    <2>3. CASE ~(harvest.pc = "save" /\ harvest.heard)
      BY <2>1, <2>3, <1>4 DEF Counted
    <2> QED
      BY <2>2, <2>3
  <1>6. EvidenceCounted'
    <2>1. CASE again' = again
      BY <2>1, <1>3, <1>5, CountGrows
    <2>2. CASE again' = again + 1
      <3>1. EvUnits' = EvUnits
        BY DEF EvUnits
      <3> QED
        BY <2>2, <3>1, <1>1 DEF EvidenceCounted
    <2> QED
      BY <2>1, <2>2
  <1> QED
    BY <1>3, <1>6, NodesStay

LEMMA ExpSynthesizeKeeps == ExperiencesInv /\ X!Synthesize => ExperiencesInv'
  <1> SUFFICES ASSUME ExperiencesInv, X!Synthesize PROVE ExperiencesInv'
    OBVIOUS
  <1> USE DEF ExperiencesInv
  <1>0. /\ UNCHANGED <<signals, experiences, credit, deployed, again, passed>> /\ harvest.pc = "synth"
    BY DEF X!Synthesize
  <1>1. PICK says \in [harvest.cands -> [shape : Shapes, is : {"failed", "worth", "worthless"}]] :
           IF X!Distrusted(says)
           THEN reached' = harvest.newest /\ harvest' = X!Idle
           ELSE /\ harvest' = [harvest EXCEPT !.pc = "save", !.heard = X!Judged(says) # {},
                                !.left = {<<i, says[i].shape>> : i \in X!Kept(says)}]
                /\ UNCHANGED reached
    BY DEF X!Synthesize
  <1>2. CASE X!Distrusted(says)
    BY <1>0, <1>1, <1>2, CycleOver
  <1>3. CASE ~X!Distrusted(says)
    <2> DEFINE keepers == {<<i, says[i].shape>> : i \in X!Kept(says)}
               heard == X!Judged(says) # {}
    <2>1. harvest' = [harvest EXCEPT !.pc = "save", !.heard = heard, !.left = keepers]
          /\ reached' = reached
      BY <1>1, <1>3
    <2>2. X!Kept(says) \subseteq harvest.cands /\ (~heard => X!Kept(says) = {})
      BY DEF X!Kept, X!Judged
    <2>3. harvest \in Cycles /\ harvest.cands \subseteq Nat
      BY DEF HarvestFine, Cycles
    <2>4. keepers \in SUBSET (Nat \X Shapes)
      BY <2>2, <2>3
    <2>5. \A k, l \in keepers : k[1] \in harvest.cands /\ (k[1] = l[1] => k = l)
      BY <2>2
    <2>6. ~heard => keepers = {}
      BY <2>2
    <2>7. heard \in BOOLEAN
      OBVIOUS
    <2> HIDE DEF keepers, heard
    <2>8. /\ harvest'.pc = "save" /\ harvest'.newest = harvest.newest
          /\ harvest'.cands = harvest.cands /\ harvest'.left = keepers
          /\ harvest'.heard = heard /\ harvest' \in Cycles
      BY <2>1, <2>3, <2>4, <2>7 DEF Cycles
    <2>9. HarvestFine'
      BY <1>0, <2>1, <2>5, <2>6, <2>8 DEF HarvestFine
    <2>10. Counted \subseteq Counted'
      BY <1>0, <2>1 DEF Counted
    <2>11. EvidenceCounted'
      BY <1>0, <2>9, <2>10, CountGrows
    <2> QED
      BY <1>0, <2>9, <2>11, NodesStay
  <1> QED
    BY <1>2, <1>3

LEMMA ExpDoneKeeps == ExperiencesInv /\ X!Done => ExperiencesInv'
  <1> SUFFICES ASSUME ExperiencesInv, X!Done PROVE ExperiencesInv'
    OBVIOUS
  <1>1. CASE harvest.heard
    BY <1>1, CycleOver DEF X!Done, X!Reached
  <1>2. CASE ~harvest.heard
    BY <1>2, CycleOver DEF X!Done, X!Reached
  <1> QED
    BY <1>1, <1>2

LEMMA ExpCrashKeeps == ExperiencesInv /\ X!Crash => ExperiencesInv'
  BY CycleOver DEF X!Crash

(* A keeper is saved, passed over, or saved as the process ends. *)
LEMMA ExpSavedKeeps ==
  ASSUME ExperiencesInv, UNCHANGED <<signals, reached, credit, deployed, passed>>,
         harvest.pc = "save", NEW k \in harvest.left, NEW id,
         X!Saved(<<k[2], signals[k[1]].up>>, X!Strength(k[1]), id),
         \/ /\ again' = again
            /\ harvest' = [harvest EXCEPT !.left = @ \ {k},
                               !.new = @ + Len(experiences') - Len(experiences)]
         \/ again' = again + 1 /\ harvest' = X!Idle
  PROVE  ExperiencesInv'
  <1> USE DEF ExperiencesInv
  <1> DEFINE text == <<k[2], signals[k[1]].up>>
             ev == X!Strength(k[1])
  <1>1. /\ k[1] \in harvest.cands /\ k[1] \in 1..Len(signals) /\ k[2] \in Shapes
        /\ Len(signals) \in Nat /\ harvest.heard /\ reached \in 0..Len(signals)
        /\ harvest \in Cycles /\ again \in Nat
        /\ harvest.newest \in reached..Len(signals)
        /\ harvest.cands \subseteq (reached + 1)..harvest.newest
    <2>1. harvest \in Cycles /\ k \in Nat \X Shapes
      BY DEF HarvestFine, Cycles
    <2>2. Len(signals) \in Nat /\ k[1] \in harvest.cands /\ harvest.heard
      BY DEF NodesFine, HarvestFine
    <2> QED
      BY <2>1, <2>2 DEF HarvestFine
  <1>2. text \in Shapes \X BOOLEAN /\ text[1] \in Shapes
    <2>1. signals[k[1]] \in X!Signals
      BY <1>1 DEF NodesFine
    <2>2. signals[k[1]].up \in BOOLEAN
      BY <2>1 DEF X!Signals
    <2> QED
      BY <1>1, <2>2
  <1>3. ev \in 1..2 /\ ev \in Nat \ {0}
    BY <1>1, StrengthIs
  <1>4. X!Saved(text, ev, id)
    OBVIOUS
  <1> HIDE DEF text, ev
  <1>5. text \in (Shapes \cup Commits) \X BOOLEAN /\ text[1] \notin Commits
    BY <1>2, ExperiencesAssumption
  <1>6. \/ id \in X!Live /\ SameBut(experiences', id, ev)
        \/ /\ Made(experiences', text, ev)
           /\ (\A i \in X!Live : experiences[i].text # text) \/ Full(text)
    BY <1>3, <1>4, <1>5, SavedIs
  <1>70. NodesFine' /\ X!LiveOnce' /\ Kept(text)
    <2>1. signals' = signals /\ deployed' \in Nat
      BY DEF NodesFine
    <2>2. \/ \E i \in X!Live : SameBut(experiences', i, ev)
          \/ /\ Made(experiences', text, ev)
             /\ (\A i \in X!Live : experiences[i].text # text) \/ Full(text)
                \/ text[1] \notin Shapes
      BY <1>6
    <2> QED
      BY <1>3, <2>1, <2>2, SavedKeeps
  <1>71. NotRevived' /\ OneEach' /\ CreditFine'
    <2>1. \A c \in Commits : text # <<c, TRUE>> /\ text # <<c, FALSE>>
      <3>1. ASSUME NEW c \in Commits, NEW b \in BOOLEAN, text = <<c, b>> PROVE FALSE
        <4>1. <<c, b>>[1] = c
          OBVIOUS
        <4>2. text[1] = c
          BY <3>1, <4>1
        <4> QED
          BY <1>5, <4>2
      <3> QED
        BY <3>1
    <2>2. again' = 0 => again = 0
      BY <1>1
    <2> QED
      BY <1>70, <2>1, <2>2, CreditStays
  <1>7. NodesFine' /\ NotRevived' /\ X!LiveOnce' /\ OneEach' /\ CreditFine'
    BY <1>70, <1>71
  <1>8. /\ IsFiniteSet(EvUnits) /\ IsFiniteSet(EvUnits')
        /\ Cardinality(EvUnits') = Cardinality(EvUnits) + ev
    <2>1. IsFiniteSet(EvUnits)
      BY DEF EvidenceCounted
    <2> QED
      BY <1>3, <1>6, <2>1, EvUnitsGrow
  <1>9. CASE /\ again' = again
             /\ harvest' = [harvest EXCEPT !.left = @ \ {k},
                                !.new = @ + Len(experiences') - Len(experiences)]
    <2> DEFINE more == harvest.new + Len(experiences') - Len(experiences)
    <2>1. more \in Int
      <3>1. Len(experiences) \in Nat /\ Len(experiences') \in Nat
        BY <1>7 DEF NodesFine
      <3>2. harvest.new \in Int
        BY <1>1 DEF Cycles
      <3> QED
        BY <3>1, <3>2
    <2>2. harvest' = [harvest EXCEPT !.left = harvest.left \ {k}, !.new = more]
      BY <1>9
    <2> HIDE DEF more
    <2>3. /\ harvest'.pc = "save" /\ harvest'.newest = harvest.newest
          /\ harvest'.cands = harvest.cands /\ harvest'.left = harvest.left \ {k}
          /\ harvest'.heard /\ harvest' \in Cycles
      BY <1>1, <2>1, <2>2 DEF Cycles
    <2>4. HarvestFine'
      BY <1>1, <1>9, <2>3 DEF HarvestFine
    <2>5. k[1] \notin Counted
      BY <1>1 DEF Counted
    <2>6. Counted' = Counted \cup {k[1]}
      <3> DEFINE Over(i) == \A l \in harvest.left : l[1] # i
      <3>1. Counted = (1..reached) \cup {i \in harvest.cands : Over(i)}
        BY <1>1 DEF Counted
      <3>2. Counted' = (1..reached) \cup
               {i \in harvest.cands : \A l \in harvest.left \ {k} : l[1] # i}
        BY <2>3 DEF Counted
      <3>3. \A l \in harvest.left \ {k} : l[1] # k[1]
        BY DEF HarvestFine
      <3>4. \A i \in harvest.cands :
               (\A l \in harvest.left \ {k} : l[1] # i) <=> Over(i) \/ i = k[1]
        BY <3>3
      <3> HIDE DEF Over
      <3> QED
        BY <1>1, <3>1, <3>2, <3>4
    <2>7. SigUnits(Counted)' = SigUnits(Counted \cup {k[1]})
      BY <2>6 DEF SigUnits, X!Strength
    <2>8. Counted \in SUBSET (1..Len(signals))
      BY CountedIsKnown
    <2>9. Cardinality(SigUnits(Counted \cup {k[1]})) = Cardinality(SigUnits(Counted)) + ev
      BY <1>1, <2>5, <2>8, SigUnitsAdd DEF ev
    <2>10. Cardinality(SigUnits(Counted)) \in Nat /\ Cardinality(EvUnits) \in Nat
      BY <1>8, <2>8, SigUnitsFinite, FS_CardinalityType
    <2>11. again' = 0 =>
             Cardinality(EvUnits') <= deployed' + Cardinality(SigUnits(Counted \cup {k[1]}))
      BY <1>3, <1>8, <1>9, <2>9, <2>10 DEF EvidenceCounted, NodesFine
    <2>12. EvidenceCounted'
      BY <1>8, <2>7, <2>11 DEF EvidenceCounted
    <2> QED
      BY <1>7, <2>4, <2>12
  <1>10. CASE again' = again + 1 /\ harvest' = X!Idle
    <2>1. HarvestFine'
      BY <1>1, <1>10, IdleIsCycle DEF HarvestFine
    <2>2. EvidenceCounted'
      BY <1>1, <1>8, <1>10 DEF EvidenceCounted
    <2> QED
      BY <1>7, <2>1, <2>2
  <1> QED
    BY <1>9, <1>10

LEMMA ExpKeepKeeps == ExperiencesInv /\ X!Keep => ExperiencesInv'
  <1> SUFFICES ASSUME ExperiencesInv, X!Keep PROVE ExperiencesInv'
    OBVIOUS
  <1> USE DEF ExperiencesInv
  <1>0. UNCHANGED <<signals, reached, credit, deployed, passed>> /\ harvest.pc = "save"
    BY DEF X!Keep
  <1>1. PICK k \in harvest.left :
          LET Saves == \E id \in 1..(Len(experiences) + 1) :
                          X!Saved(<<k[2], signals[k[1]].up>>, X!Strength(k[1]), id)
          IN \/ /\ Saves
                /\ harvest' = [harvest EXCEPT !.left = @ \ {k},
                                  !.new = @ + Len(experiences') - Len(experiences)]
                /\ UNCHANGED again
             \/ harvest' = [harvest EXCEPT !.left = @ \ {k}] /\ UNCHANGED <<experiences, again>>
             \/ Saves /\ again' = again + 1 /\ harvest' = X!Idle
    BY DEF X!Keep
  <1>2. CASE /\ \E id \in 1..(Len(experiences) + 1) :
                   X!Saved(<<k[2], signals[k[1]].up>>, X!Strength(k[1]), id)
             /\ \/ /\ UNCHANGED again
                   /\ harvest' = [harvest EXCEPT !.left = @ \ {k},
                                     !.new = @ + Len(experiences') - Len(experiences)]
                \/ again' = again + 1 /\ harvest' = X!Idle
    <2>1. PICK id : X!Saved(<<k[2], signals[k[1]].up>>, X!Strength(k[1]), id)
      BY <1>2
    <2> QED
      BY <1>0, <1>2, <2>1, ExpSavedKeeps
  <1>3. CASE /\ harvest' = [harvest EXCEPT !.left = @ \ {k}]
             /\ UNCHANGED <<experiences, again>>
    <2>1. harvest \in Cycles
      BY DEF HarvestFine
    <2>2. /\ harvest'.pc = "save" /\ harvest'.newest = harvest.newest
          /\ harvest'.cands = harvest.cands /\ harvest'.left = harvest.left \ {k}
          /\ harvest'.heard = harvest.heard /\ harvest' \in Cycles
      BY <1>0, <1>3, <2>1 DEF Cycles
    <2>3. HarvestFine'
      BY <1>0, <1>3, <2>2 DEF HarvestFine
    <2>4. Counted \subseteq Counted'
      BY <1>0, <2>2 DEF Counted
    <2>5. EvidenceCounted'
      BY <1>0, <1>3, <2>3, <2>4, CountGrows
    <2> QED
      BY <1>0, <1>3, <2>3, <2>5, NodesStay
  <1> QED
    BY <1>1, <1>2, <1>3

LEMMA ExperiencesStep == ASSUME ExperiencesInv, [X!Next]_experienceVars PROVE ExperiencesInv'
  <1>1. CASE UNCHANGED experienceVars
    <2>1. HarvestFine' /\ Counted' = Counted /\ EvUnits' = EvUnits /\ passed' = {}
      BY <1>1 DEF experienceVars, ExperiencesInv, HarvestFine, Counted, EvUnits
    <2>2. EvidenceCounted'
      BY <1>1, <2>1, CountGrows DEF experienceVars
    <2> QED
      BY <1>1, <2>1, <2>2, NodesStay DEF experienceVars, ExperiencesInv
  <1>2. ASSUME NEW c \in Commits, X!Merge(c) \/ X!Rollback(c) PROVE ExperiencesInv'
    BY <1>2, MergeKeeps, RollbackKeeps
  <1> QED
    BY <1>1, <1>2, SignalKeeps, ExpArchiveKeeps, ExpHarvestKeeps, ExpSynthesizeKeeps,
       ExpKeepKeeps, ExpDoneKeeps, ExpCrashKeeps DEF X!Next

(* All evidence is of signals and deployments, each counted once. *)
LEMMA ExperiencesSound ==
  ExperiencesInv => X!EvidenceIsSignals /\ X!CommitOnce /\ X!LiveOnce /\ X!RecentFirst
  <1> SUFFICES ASSUME ExperiencesInv PROVE X!EvidenceIsSignals /\ X!CommitOnce
    BY DEF ExperiencesInv, X!RecentFirst
  <1>9. X!CommitOnce
    <2> SUFFICES ASSUME NEW i \in DOMAIN experiences, NEW j \in DOMAIN experiences,
                        experiences[i].text[1] \in Commits, experiences[i].text[2]
                 PROVE  /\ experiences[i].text = experiences[j].text => i = j
                        /\ again = 0 /\ experiences[j].text = <<experiences[i].text[1], FALSE>>
                              => ~experiences[i].live
      BY DEF X!CommitOnce
    <2>1. experiences[i] \in Node
      BY NodesAre DEF ExperiencesInv
    <2>2. PICK c \in Shapes \cup Commits, b \in BOOLEAN : experiences[i].text = <<c, b>>
      BY <2>1 DEF Node
    <2>3. experiences[i].text = <<c, TRUE>> /\ c \in Commits /\ experiences[i].text[1] = c
      BY <2>2
    <2> QED
      BY <2>3 DEF ExperiencesInv, OneEach, NotRevived
  <1> USE DEF ExperiencesInv
  <1> DEFINE known == 1..(IF harvest.pc = "save" THEN harvest.newest ELSE reached)
  <1>1. Len(signals) \in Nat /\ reached \in 0..Len(signals)
    BY DEF NodesFine, HarvestFine
  <1>2. Counted \subseteq known
    <2>1. CASE harvest.pc = "save"
      BY <1>1, <2>1 DEF Counted, HarvestFine
    <2>2. CASE harvest.pc # "save"
      BY <2>2 DEF Counted
    <2> QED
      BY <2>1, <2>2
  <1>3. known \in SUBSET (1..Len(signals))
    BY <1>1 DEF HarvestFine
  <1> HIDE DEF known
  <1>4. Counted \in SUBSET known /\ Counted \in SUBSET (1..Len(signals))
    BY <1>2, <1>3
  <1>5. /\ Cardinality(SigUnits(Counted)) <= Cardinality(SigUnits(known))
        /\ Cardinality(SigUnits(Counted)) \in Nat /\ Cardinality(SigUnits(known)) \in Nat
        /\ Cardinality(EvUnits) \in Nat
    BY <1>3, <1>4, SigUnitsFinite, FS_CardinalityType DEF EvidenceCounted
  <1>6. again = 0 => Cardinality(EvUnits) <= deployed + Cardinality(SigUnits(known))
    BY <1>5 DEF EvidenceCounted, NodesFine
  <1>7. X!Sum(DOMAIN experiences, X!Evidence) = Cardinality(EvUnits)
    BY DEF X!Sum, X!Evidence, EvUnits, X!Cardinality, Cardinality
  <1>8. X!Sum(known, X!Strength) = Cardinality(SigUnits(known))
    BY DEF X!Sum, SigUnits, X!Cardinality, Cardinality
  <1> QED
    BY <1>6, <1>7, <1>8, <1>9 DEF X!EvidenceIsSignals, known
-----------------------------------------------------------------------------
(* All of them.  A behaviour is of one side, and keeps that side's invariant.*)

KeepInv ==
    /\ side = "prep" => PrepInv
    /\ side = "vault" => VaultInv
    /\ side = "index" => IndexInv
    /\ side = "proposals" => ProposalsInv
    /\ side = "review" => ReviewInv
    /\ side \in {"fast", "judged"} => MailInv
    /\ side = "lessons" => LessonsInv
    /\ side = "experiences" => ExperiencesInv

LEMMA KeepInit == AllInit => KeepInv
  BY PrepInit, VaultInit, IndexInit, ProposalsInit, ReviewInit, MailInit, LessonsInit,
     ExperiencesInit DEF AllInit, KeepInv

(* A step is of one side: its own action for that side, and none for others. *)
LEMMA SideStays == [AllNext]_all => side' = side
  BY DEF AllNext, all, OfBoard, OfPrep, OfVault, OfIndex, OfProposals, OfReview, OfMail,
         OfLessons, OfExperiences

LEMMA EachMoves ==
  ASSUME [AllNext]_all
  PROVE  /\ side = "prep" => [P!Next]_prepVars
         /\ side = "vault" => [V!Next]_vaultVars
         /\ side = "index" => [I!Next]_indexVars
         /\ side = "proposals" => [A!Next]_proposalVars
         /\ side = "review" => [R!Next]_reviewVars
         /\ side \in {"fast", "judged"} => F!Next \/ J!Next \/ UNCHANGED mailVars
         /\ side = "lessons" => [L!Next]_lessonVars
         /\ side = "experiences" => [X!Next]_experienceVars
  <1> USE DEF AllNext, all, OfBoard, OfPrep, OfVault, OfIndex, OfProposals, OfReview,
              OfMail, OfLessons, OfExperiences
  <1>1. side = "prep" => [P!Next]_prepVars
    OBVIOUS
  <1>2. side = "vault" => [V!Next]_vaultVars
    OBVIOUS
  <1>3. side = "index" => [I!Next]_indexVars
    OBVIOUS
  <1>4. side = "proposals" => [A!Next]_proposalVars
    OBVIOUS
  <1>5. side = "review" => [R!Next]_reviewVars
    OBVIOUS
  <1>6. side \in {"fast", "judged"} => F!Next \/ J!Next \/ UNCHANGED mailVars
    OBVIOUS
  <1>7. side = "lessons" => [L!Next]_lessonVars
    OBVIOUS
  <1>8. side = "experiences" => [X!Next]_experienceVars
    OBVIOUS
  <1> QED
    BY <1>1, <1>2, <1>3, <1>4, <1>5, <1>6, <1>7, <1>8

LEMMA KeepStep == KeepInv /\ [AllNext]_all => KeepInv'
  <1> SUFFICES ASSUME KeepInv, [AllNext]_all PROVE KeepInv'
    OBVIOUS
  <1>0. side' = side
    BY SideStays
  <1>1. side = "prep" => PrepInv'
    BY EachMoves, PrepStep DEF KeepInv
  <1>2. side = "vault" => VaultInv'
    BY EachMoves, VaultStep DEF KeepInv
  <1>3. side = "index" => IndexInv'
    BY EachMoves, IndexStep DEF KeepInv
  <1>4. side = "proposals" => ProposalsInv'
    BY EachMoves, ProposalsStep DEF KeepInv
  <1>5. side = "review" => ReviewInv'
    BY EachMoves, ReviewStep DEF KeepInv
  <1>6. side \in {"fast", "judged"} => MailInv'
    BY EachMoves, MailStep DEF KeepInv
  <1>7. side = "lessons" => LessonsInv'
    BY EachMoves, LessonsStep DEF KeepInv
  <1>8. side = "experiences" => ExperiencesInv'
    BY EachMoves, ExperiencesStep DEF KeepInv
  <1> QED
    BY <1>0, <1>1, <1>2, <1>3, <1>4, <1>5, <1>6, <1>7, <1>8 DEF KeepInv

LEMMA KeepAlways == AllSpec => []KeepInv
  BY KeepInit, KeepStep, PTL DEF AllSpec

(* The owner is not bothered twice: with an event before its day or on it,   *)
(* with a proposal that was denied or is open, with a fact that was          *)
(* answered, or with a mail, as long as polls do not overlap.                *)
THEOREM OwnerNotBotheredTwice == AllSpec => []NotBotheredTwice
  <1>1. KeepInv => NotBotheredTwice
    BY PrepSound, ProposedOnce, ReviewSound, MailSound DEF KeepInv, NotBotheredTwice
  <1> QED
    BY <1>1, KeepAlways, PTL

(* What is kept is found again as it is: documents and pages, answers about  *)
(* events, the numbers of a fact review (whose facts only the cleanup of the *)
(* same heartbeat may have merged away), flagged mails.                      *)
THEOREM KeptThingsAreFound == AllSpec => []KeptIsFound
  <1>1. KeepInv => KeptIsFound
    BY VaultSound, IndexSound, PrepSound, ReviewSound, MailSound DEF KeepInv, KeptIsFound
  <1> QED
    BY <1>1, KeepAlways, PTL

(* What is learned was earned: a live lesson recurred, what the owner said   *)
(* is heard, and evidence is of signals and deployments, each counted once;  *)
(* a commit has one experience that praises it, which no rollback leaves.    *)
THEOREM LearningIsEarned == AllSpec => []LearnedIsEarned
  <1>1. KeepInv => LearnedIsEarned
    BY LessonsSound, ExperiencesSound DEF KeepInv, LearnedIsEarned
  <1> QED
    BY <1>1, KeepAlways, PTL
=============================================================================
