------------------------- MODULE ConfirmLedgerProofs -------------------------
(* The confirmation gate's safety, for any people, channels, calls, policies *)
(* and lifetimes.                                                            *)
EXTENDS ConfirmLedger, TLAPS

(* Every stored entry carries an id of its own that was handed out and never *)
(* run, and only ids that were handed out have run: what makes AtMostOnce    *)
(* inductive, for the step that runs an id is also the one that removes it.  *)
StoredUnrun == \A e \in ledger : e.id <= issued /\ runs[e.id] = 0
OneEntryPerId == \A e, f \in ledger : e.id = f.id => e = f
UnissuedUnrun == \A i \in Ids : i > issued => runs[i] = 0

IInv == TypeOK /\ StoredUnrun /\ OneEntryPerId /\ UnissuedUnrun /\ AtMostOnce

USE CallAssumption, TimeAssumption, BoundAssumption

(* The initial state satisfies the invariant. *)
LEMMA InitIInv == Init => IInv
  BY DEF Init, IInv, TypeOK, StoredUnrun, OneEntryPerId, UnissuedUnrun,
         AtMostOnce, Ids, Time, GrantIds

(* Recording a preview stores one fresh entry beside some of the old ones. *)
LEMMA RecordFacts ==
  ASSUME IInv, NEW x \in Calls, NEW p \in Principals, NEW c \in Channels,
         NEW ttl \in Nat \ {0}, NEW ok \in BOOLEAN,
         Record(x, p, c, ttl, ok)
  PROVE  /\ issued' \in 0..MaxIds
         /\ issued' = issued + 1
         /\ \E e \in PendingAction : /\ e.id = issued + 1
                                     /\ ledger' \subseteq ledger \cup {e}
         /\ ledger' \in SUBSET PendingAction
  <1> DEFINE e == [id |-> issued + 1, call |-> x, sender |-> p, channel |-> c,
                   created |-> now, expires |-> now + ttl]
  <1>1. e \in PendingAction /\ issued' \in 0..MaxIds /\ issued' = issued + 1
    BY DEF Record, IInv, TypeOK, PendingAction, Ids, Time
  <1>2. ledger' \subseteq ledger \cup {e}
    BY DEF Record, Loaded, Live
  <1>3. e.id = issued + 1
    OBVIOUS
  <1>4. ledger' \in SUBSET PendingAction
    BY <1>1, <1>2 DEF IInv, TypeOK
  <1> QED
    BY <1>1, <1>2, <1>3, <1>4

(* A step that only records a preview keeps the invariant's ledger part. *)
LEMMA RecordKeeps ==
  ASSUME IInv, NEW x \in Calls, NEW p \in Principals, NEW c \in Channels,
         NEW ttl \in Nat \ {0}, NEW ok \in BOOLEAN,
         Record(x, p, c, ttl, ok), UNCHANGED runs
  PROVE  (StoredUnrun /\ OneEntryPerId /\ UnissuedUnrun /\ AtMostOnce)'
  <1>1. PICK e \in PendingAction : /\ e.id = issued + 1
                                   /\ ledger' \subseteq ledger \cup {e}
    BY RecordFacts
  <1>2. issued' = issued + 1 /\ issued \in Nat /\ issued + 1 \in Ids
    BY RecordFacts DEF IInv, TypeOK, Ids
  <1>3. runs[issued + 1] = 0
    BY <1>2 DEF IInv, UnissuedUnrun
  <1>4. \A f \in ledger : f.id \in Ids /\ f.id # issued + 1
    BY <1>2 DEF IInv, TypeOK, StoredUnrun, PendingAction, Ids
  <1>5. StoredUnrun'
    BY <1>1, <1>2, <1>3, <1>4 DEF IInv, StoredUnrun, Ids
  <1>6. OneEntryPerId'
    BY <1>1, <1>4 DEF IInv, OneEntryPerId
  <1>7. UnissuedUnrun' /\ AtMostOnce'
    BY <1>2 DEF IInv, UnissuedUnrun, AtMostOnce, Ids
  <1> QED
    BY <1>5, <1>6, <1>7

(* Entries that only leave the ledger, with no run, keep it too. *)
LEMMA ShrinkKeeps ==
  ASSUME IInv, ledger' \subseteq ledger, UNCHANGED <<issued, runs>>
  PROVE  (StoredUnrun /\ OneEntryPerId /\ UnissuedUnrun /\ AtMostOnce)'
  BY DEF IInv, StoredUnrun, OneEntryPerId, UnissuedUnrun, AtMostOnce

LEMMA PreviewIInv ==
  ASSUME IInv, NEW p \in Principals, NEW c \in Channels, NEW x \in Calls,
         NEW o \in Targets, NEW ok \in BOOLEAN, Preview(p, c, x, o, ok)
  PROVE  IInv'
  <1>1. Record(x, p, c, TTL, ok) /\ UNCHANGED runs
    BY DEF Preview
  <1>2. TypeOK'
    BY <1>1, RecordFacts DEF Preview, IInv, TypeOK
  <1> QED
    BY <1>1, <1>2, RecordKeeps DEF IInv

LEMMA ProposeIInv ==
  ASSUME IInv, NEW p \in Principals, NEW c \in Channels, NEW x \in Calls,
         NEW ok \in BOOLEAN, Propose(p, c, x, ok)
  PROVE  IInv'
  <1>1. Record(x, p, c, LongTTL, ok) /\ UNCHANGED runs
    BY DEF Propose
  <1>2. TypeOK'
    BY <1>1, RecordFacts DEF Propose, IInv, TypeOK
  <1> QED
    BY <1>1, <1>2, RecordKeeps DEF IInv

(* The one step that runs something: the entry it runs leaves the ledger in  *)
(* the same step, and had not run before.                                    *)
LEMMA ExecuteIInv ==
  ASSUME IInv, NEW e \in Live, NEW p \in Principals, NEW c \in Channels,
         NEW a \in BOOLEAN, NEW ok \in BOOLEAN, Execute(e, p, c, a, ok)
  PROVE  IInv'
  <1>1. e \in ledger /\ e \in PendingAction /\ e.id \in Ids
    BY DEF Live, IInv, TypeOK, PendingAction
  <1>2. ledger' \subseteq ledger
    BY DEF Execute, Consume, Save, Live
  <1>3. CASE ok /\ ToolOf[e.call] \notin blocked
    <2>1. /\ runs' = [runs EXCEPT ![e.id] = @ + 1]
          /\ running' = running \cup
               {[entry |-> e, by |-> p, channel |-> c, always |-> a,
                 stage |-> "tool", own |-> {}]}
      BY <1>3 DEF Execute
    <2>2. [entry |-> e, by |-> p, channel |-> c, always |-> a,
           stage |-> "tool", own |-> {}] \in Confirmation
      BY <1>1 DEF Confirmation
    <2>3. TypeOK'
      <3>1. runs' \in [Ids -> Nat]
        BY <1>1, <2>1 DEF IInv, TypeOK
      <3>2. running' \in SUBSET Confirmation
        BY <2>1, <2>2 DEF IInv, TypeOK
      <3>3. ledger' \in SUBSET PendingAction
        BY <1>2 DEF IInv, TypeOK
      <3> QED
        BY <3>1, <3>2, <3>3 DEF Execute, IInv, TypeOK
    <2>4. ledger' = Live \ {e}
      BY <1>3 DEF Execute, Consume, Save
    <2>5. \A f \in ledger' : f \in ledger /\ f.id # e.id
      BY <1>1, <2>4 DEF IInv, OneEntryPerId, Live
    <2>6. runs[e.id] = 0 /\ e.id <= issued
      BY <1>1 DEF IInv, StoredUnrun
    <2>7. \A i \in Ids : runs'[i] = IF i = e.id THEN 1 ELSE runs[i]
      BY <1>1, <2>1, <2>6 DEF IInv, TypeOK
    <2>8. StoredUnrun'
      BY <2>5, <2>7 DEF IInv, StoredUnrun, TypeOK, PendingAction, Execute
    <2>9. OneEntryPerId'
      BY <2>5 DEF IInv, OneEntryPerId
    <2>10. UnissuedUnrun'
      BY <2>6, <2>7 DEF IInv, UnissuedUnrun, Execute, TypeOK, Ids
    <2>11. AtMostOnce'
      BY <2>7 DEF IInv, AtMostOnce
    <2> QED
      BY <2>3, <2>8, <2>9, <2>10, <2>11 DEF IInv
  <1>4. CASE ~(ok /\ ToolOf[e.call] \notin blocked)
    <2>1. UNCHANGED <<runs, running, issued>>
      BY <1>4 DEF Execute
    <2>2. TypeOK'
      BY <1>2, <2>1 DEF Execute, IInv, TypeOK
    <2> QED
      BY <1>2, <2>1, <2>2, ShrinkKeeps DEF IInv
  <1> QED
    BY <1>3, <1>4

LEMMA ConfirmByIdIInv ==
  ASSUME IInv, NEW p \in Principals, NEW c \in Channels, NEW i \in Ids,
         NEW a \in BOOLEAN, NEW ok \in BOOLEAN, ConfirmById(p, c, i, a, ok)
  PROVE  IInv'
  BY ExecuteIInv DEF ConfirmById, FindById

LEMMA BareConfirmIInv ==
  ASSUME IInv, NEW p \in Principals, NEW c \in Channels, NEW ok \in BOOLEAN,
         BareConfirm(p, c, ok)
  PROVE  IInv'
  <1>1. PICK e \in Live : Execute(e, p, c, FALSE, ok)
    BY DEF BareConfirm, LatestFor
  <1> QED
    BY <1>1, ExecuteIInv

LEMMA DenyIInv ==
  ASSUME IInv, NEW p \in Principals, NEW i \in Ids, NEW ok \in BOOLEAN,
         Deny(p, i, ok)
  PROVE  IInv'
  <1>1. ledger' \subseteq ledger /\ UNCHANGED <<issued, runs>>
    BY DEF Deny, Consume, Save, Live
  <1>2. TypeOK'
    BY <1>1 DEF Deny, IInv, TypeOK
  <1> QED
    BY <1>1, <1>2, ShrinkKeeps DEF IInv

LEMMA ToolFailedIInv ==
  ASSUME IInv, NEW r \in running, ToolFailed(r)
  PROVE  IInv'
  <1>1. TypeOK'
    BY DEF ToolFailed, IInv, TypeOK
  <1> QED
    BY <1>1, ShrinkKeeps DEF ToolFailed, IInv

(* What minting a grant leaves in the two grant variables is well typed. *)
LEMMA MintGrantType ==
  ASSUME TypeOK, NEW x \in Calls, NEW p \in Principals, NEW ok \in BOOLEAN,
         MintGrant(x, p, ok)
  PROVE  /\ grants' \in SUBSET StandingGrant
         /\ minted' \in 0..MaxGrants
         /\ permitted' \in SUBSET Permission
  <1> DEFINE q == [tool |-> ToolOf[x], target |-> TargetOf[x], principal |-> p]
             g == [id |-> minted + 1, tool |-> q.tool, target |-> q.target,
                   principal |-> q.principal]
  <1>1. q \in Permission
    BY DEF Permission
  <1>2. permitted' \in SUBSET Permission
    BY <1>1 DEF MintGrant, TypeOK
  <1>3. CASE UNCHANGED <<grants, minted>>
    BY <1>2, <1>3 DEF TypeOK
  <1>4. CASE ~UNCHANGED <<grants, minted>>
    <2>1. minted < MaxGrants /\ minted' = minted + 1
      BY <1>4 DEF MintGrant
    <2>2. grants' \subseteq grants \cup {g}
      BY <1>4 DEF MintGrant
    <2>3. g \in StandingGrant /\ minted' \in 0..MaxGrants
      BY <2>1 DEF StandingGrant, GrantIds, TypeOK
    <2> QED
      BY <1>2, <2>2, <2>3 DEF TypeOK
  <1> QED
    BY <1>3, <1>4

LEMMA ToolSucceededIInv ==
  ASSUME IInv, NEW r \in running, NEW ok \in BOOLEAN, ToolSucceeded(r, ok)
  PROVE  IInv'
  <1>1. r \in Confirmation /\ r.entry.call \in Calls /\ r.by \in Principals
    BY DEF IInv, TypeOK, Confirmation, PendingAction
  <1>2. [r EXCEPT !.stage = "continuation"] \in Confirmation
    BY <1>1 DEF Confirmation
  <1>3. running' \in SUBSET Confirmation
    BY <1>2 DEF ToolSucceeded, IInv, TypeOK
  <1>4. /\ grants' \in SUBSET StandingGrant
        /\ minted' \in 0..MaxGrants
        /\ permitted' \in SUBSET Permission
    BY <1>1, MintGrantType DEF ToolSucceeded, IInv, TypeOK
  <1>5. TypeOK'
    BY <1>3, <1>4 DEF ToolSucceeded, IInv, TypeOK
  <1> QED
    BY <1>5, ShrinkKeeps DEF ToolSucceeded, IInv

LEMMA ContinuationPreviewIInv ==
  ASSUME IInv, NEW r \in running, NEW x \in Calls, NEW o \in Targets,
         NEW ok \in BOOLEAN, ContinuationPreview(r, x, o, ok)
  PROVE  IInv'
  <1>1. r \in Confirmation
    BY DEF IInv, TypeOK
  <1>2. r.by \in Principals /\ r.channel \in Channels
    BY <1>1 DEF Confirmation
  <1>3. Record(x, r.by, r.channel, TTL, ok) /\ UNCHANGED runs
    BY DEF ContinuationPreview
  <1>4. issued + 1 \in Ids
    BY <1>3 DEF Record, IInv, TypeOK, Ids
  <1>5. [r EXCEPT !.own = @ \cup {issued + 1}] \in Confirmation
    BY <1>1, <1>4 DEF Confirmation
  <1>6. running' \in SUBSET Confirmation
    BY <1>5 DEF ContinuationPreview, IInv, TypeOK
  <1>7. TypeOK'
    BY <1>2, <1>3, <1>6, RecordFacts DEF ContinuationPreview, IInv, TypeOK
  <1> QED
    BY <1>2, <1>3, <1>7, RecordKeeps DEF IInv

LEMMA ContinuationEndIInv ==
  ASSUME IInv, NEW r \in running, NEW S \in SUBSET Replays(r),
         ContinuationEnd(r, S)
  PROVE  IInv'
  <1>1. ledger' \subseteq ledger /\ UNCHANGED <<issued, runs>>
    BY DEF ContinuationEnd, Save, Live
  <1>2. TypeOK'
    BY <1>1 DEF ContinuationEnd, IInv, TypeOK
  <1> QED
    BY <1>1, <1>2, ShrinkKeeps DEF IInv

LEMMA OtherStepsIInv ==
  ASSUME IInv,
         (\E p \in Principals, g \in grants : Revoke(p, g)) \/ Tick \/ Restart
         \/ UNCHANGED vars
  PROVE  IInv'
  <1>1. UNCHANGED <<ledger, issued, runs>>
    BY DEF Revoke, Tick, Restart, vars
  <1>2. TypeOK'
    BY DEF Revoke, Tick, Restart, vars, IInv, TypeOK, Time
  <1> QED
    BY <1>1, <1>2, ShrinkKeeps DEF IInv

(* Every step keeps the invariant. *)
LEMMA NextIInv == IInv /\ [Next]_vars => IInv'
  BY PreviewIInv, ProposeIInv, ConfirmByIdIInv, BareConfirmIInv, DenyIInv,
     ToolFailedIInv, ToolSucceededIInv, ContinuationPreviewIInv,
     ContinuationEndIInv, OtherStepsIInv DEF Next

(* The inductive invariant holds in every behaviour of the gate. *)
THEOREM Inductive == Spec => []IInv
  BY InitIInv, NextIInv, PTL DEF Spec

(* The gate's state stays well typed. *)
THEOREM TypeCorrect == Spec => []TypeOK
  <1>1. IInv => TypeOK
    BY DEF IInv
  <1> QED
    BY <1>1, Inductive, PTL

(* No stored action ever runs twice, whatever write is lost and wherever the *)
(* process dies.                                                             *)
THEOREM RunsAtMostOnce == Spec => []AtMostOnce
  <1>1. IInv => AtMostOnce
    BY DEF IInv
  <1> QED
    BY <1>1, Inductive, PTL
-----------------------------------------------------------------------------
(* What a step can do to the open offers, in the terms of ConfirmContract.   *)
OffersOne == /\ issued' = issued + 1
             /\ Open' \subseteq Open \cup {issued + 1}
             /\ issued + 1 \in Open'
             /\ runs' = runs
StartsOne == \E i \in Open : /\ i \in Ids
                             /\ runs' = [runs EXCEPT ![i] = @ + 1]
                             /\ Open' \subseteq Open \ {i}
                             /\ issued' = issued
WithdrawsSome == Open' \subseteq Open /\ issued' = issued /\ runs' = runs

LEMMA RecordOffers ==
  ASSUME IInv, NEW x \in Calls, NEW p \in Principals, NEW c \in Channels,
         NEW ttl \in Nat \ {0}, NEW ok \in BOOLEAN,
         Record(x, p, c, ttl, ok), UNCHANGED <<now, runs>>
  PROVE  OffersOne
  <1> DEFINE e == [id |-> issued + 1, call |-> x, sender |-> p, channel |-> c,
                   created |-> now, expires |-> now + ttl]
  <1>1. e.id = issued + 1 /\ e.expires > now
    BY DEF IInv, TypeOK, Time
  <1>2. ledger' = Loaded(ok) \cup {e} /\ issued' = issued + 1
    BY DEF Record
  <1>3. e \in Live'
    BY <1>1, <1>2 DEF Live
  <1>4. Live' \subseteq Live \cup {e}
    BY <1>2 DEF Live, Loaded
  <1>5. issued + 1 \in Open'
    BY <1>1, <1>3 DEF Open
  <1>6. Open' \subseteq Open \cup {issued + 1}
    BY <1>1, <1>4 DEF Open
  <1> QED
    BY <1>2, <1>5, <1>6 DEF OffersOne

LEMMA ShrinkWithdraws ==
  ASSUME ledger' \subseteq ledger, UNCHANGED <<now, issued, runs>>
  PROVE  WithdrawsSome
  <1>1. Live' \subseteq Live
    BY DEF Live
  <1> QED
    BY <1>1 DEF WithdrawsSome, Open

LEMMA ExecuteStarts ==
  ASSUME IInv, NEW e \in Live, NEW p \in Principals, NEW c \in Channels,
         NEW a \in BOOLEAN, NEW ok \in BOOLEAN, Execute(e, p, c, a, ok)
  PROVE  StartsOne \/ WithdrawsSome
  <1>1. e \in ledger /\ e.id \in Ids /\ e.id \in Open
    BY DEF Live, Open, IInv, TypeOK, PendingAction
  <1>2. CASE ok /\ ToolOf[e.call] \notin blocked
    <2>1. ledger' = Live \ {e} /\ now' = now /\ issued' = issued
      BY <1>2 DEF Execute, Consume, Save
    <2>2. \A f \in Live' : f \in Live /\ f.id # e.id
      BY <1>1, <2>1 DEF Live, IInv, OneEntryPerId
    <2>3. Open' \subseteq Open \ {e.id}
      BY <2>2 DEF Open
    <2>4. runs' = [runs EXCEPT ![e.id] = @ + 1]
      BY <1>2 DEF Execute
    <2> QED
      BY <1>1, <2>1, <2>3, <2>4 DEF StartsOne
  <1>3. CASE ~(ok /\ ToolOf[e.call] \notin blocked)
    <2>1. ledger' \subseteq ledger /\ UNCHANGED <<now, issued, runs>>
      BY <1>3 DEF Execute, Consume, Save, Live
    <2> QED
      BY <2>1, ShrinkWithdraws
  <1> QED
    BY <1>2, <1>3

LEMMA TickWithdraws ==
  ASSUME IInv, Tick
  PROVE  WithdrawsSome
  <1>1. \A e \in ledger : e.expires \in Nat
    BY DEF IInv, TypeOK, PendingAction
  <1>2. now \in Nat /\ now' = now + 1 /\ UNCHANGED <<ledger, issued, runs>>
    BY DEF Tick, IInv, TypeOK, Time
  <1>3. Live' \subseteq Live
    BY <1>1, <1>2 DEF Live
  <1> QED
    BY <1>2, <1>3 DEF WithdrawsSome, Open

(* Every step makes one offer, starts one, or at most withdraws some. *)
LEMMA StepKinds ==
  ASSUME IInv, [Next]_vars
  PROVE  OffersOne \/ StartsOne \/ WithdrawsSome
  <1>1. ASSUME NEW p \in Principals, NEW c \in Channels, NEW x \in Calls,
               NEW o \in Targets, NEW ok \in BOOLEAN, Preview(p, c, x, o, ok)
        PROVE  OffersOne
    <2>1. Record(x, p, c, TTL, ok) /\ UNCHANGED <<now, runs>>
      BY <1>1 DEF Preview
    <2> QED
      BY <2>1, RecordOffers
  <1>2. ASSUME NEW p \in Principals, NEW c \in Channels, NEW x \in Calls,
               NEW ok \in BOOLEAN, Propose(p, c, x, ok)
        PROVE  OffersOne
    <2>1. Record(x, p, c, LongTTL, ok) /\ UNCHANGED <<now, runs>>
      BY <1>2 DEF Propose
    <2> QED
      BY <2>1, RecordOffers
  <1>3. ASSUME NEW p \in Principals, NEW c \in Channels, NEW i \in Ids,
               NEW a \in BOOLEAN, NEW ok \in BOOLEAN,
               ConfirmById(p, c, i, a, ok)
        PROVE  StartsOne \/ WithdrawsSome
    BY <1>3, ExecuteStarts DEF ConfirmById, FindById
  <1>4. ASSUME NEW p \in Principals, NEW c \in Channels, NEW ok \in BOOLEAN,
               BareConfirm(p, c, ok)
        PROVE  StartsOne \/ WithdrawsSome
    <2>1. PICK e \in Live : Execute(e, p, c, FALSE, ok)
      BY <1>4 DEF BareConfirm, LatestFor
    <2> QED
      BY <2>1, ExecuteStarts
  <1>5. ASSUME NEW p \in Principals, NEW i \in Ids, NEW ok \in BOOLEAN,
               Deny(p, i, ok)
        PROVE  WithdrawsSome
    BY <1>5, ShrinkWithdraws DEF Deny, Consume, Save, Live
  <1>6. ASSUME NEW r \in running, ToolFailed(r)
        PROVE  WithdrawsSome
    BY <1>6, ShrinkWithdraws DEF ToolFailed
  <1>7. ASSUME NEW r \in running, NEW ok \in BOOLEAN, ToolSucceeded(r, ok)
        PROVE  WithdrawsSome
    BY <1>7, ShrinkWithdraws DEF ToolSucceeded
  <1>8. ASSUME NEW r \in running, NEW x \in Calls, NEW o \in Targets,
               NEW ok \in BOOLEAN, ContinuationPreview(r, x, o, ok)
        PROVE  OffersOne
    <2>1. Record(x, r.by, r.channel, TTL, ok) /\ UNCHANGED <<now, runs>>
      BY <1>8 DEF ContinuationPreview
    <2>2. r.by \in Principals /\ r.channel \in Channels
      BY DEF IInv, TypeOK, Confirmation
    <2> QED
      BY <2>1, <2>2, RecordOffers
  <1>9. ASSUME NEW r \in running, NEW S \in SUBSET Replays(r),
               ContinuationEnd(r, S)
        PROVE  WithdrawsSome
    BY <1>9, ShrinkWithdraws DEF ContinuationEnd, Save, Live
  <1>10. ASSUME (\E p \in Principals, g \in grants : Revoke(p, g)) \/ Restart
                \/ UNCHANGED vars
         PROVE  WithdrawsSome
    BY <1>10, ShrinkWithdraws DEF Revoke, Restart, vars
  <1> QED
    BY <1>1, <1>2, <1>3, <1>4, <1>5, <1>6, <1>7, <1>8, <1>9, <1>10,
       TickWithdraws DEF Next

(* An id that stopped being confirmable never is again, and never runs.      *)
THEOREM SpentForever == Spec => SpentStaysSpent
  <1>1. ASSUME IInv, [Next]_vars
        PROVE  \A i \in 1..issued :
                  i \notin Open => i \notin Open' /\ runs'[i] = runs[i]
    <2> SUFFICES ASSUME NEW i \in 1..issued, i \notin Open
                 PROVE  i \notin Open' /\ runs'[i] = runs[i]
      OBVIOUS
    <2>1. issued \in Nat /\ i # issued + 1
      BY <1>1 DEF IInv, TypeOK
    <2>2. CASE OffersOne
      BY <2>1, <2>2 DEF OffersOne
    <2>3. CASE StartsOne
      BY <1>1, <2>3 DEF StartsOne, IInv, TypeOK
    <2>4. CASE WithdrawsSome
      BY <2>4 DEF WithdrawsSome
    <2> QED
      BY <1>1, <2>2, <2>3, <2>4, StepKinds
  <1> QED
    BY <1>1, Inductive, PTL DEF Spec, SpentStaysSpent

(* The gate, files, failures and crashes included, behaves like one-shot     *)
(* offers.                                                                   *)
THEOREM Refinement == Spec => ImplementsContract
  <1> DEFINE Started == {i \in Ids : runs[i] > 0}
  <1>1. Init => Contract!Init
    BY DEF Init, Contract!Init, Open, Live, Ids
  <1>2. ASSUME IInv, [Next]_vars
        PROVE  [Contract!Next]_Contract!cvars
    <2>1. CASE OffersOne
      <3>1. Started' = Started
        BY <2>1 DEF OffersOne
      <3>2. Open' = (Open \cap Open') \cup {issued + 1}
        BY <2>1 DEF OffersOne
      <3>3. Contract!Offer
        BY <2>1, <3>1, <3>2 DEF OffersOne, Contract!Offer
      <3> QED
        BY <3>3 DEF Contract!Next
    <2>2. CASE StartsOne
      <3>1. PICK i \in Open : /\ i \in Ids
                              /\ runs' = [runs EXCEPT ![i] = @ + 1]
                              /\ Open' \subseteq Open \ {i}
                              /\ issued' = issued
        BY <2>2 DEF StartsOne
      <3>2. \A j \in Ids : runs[j] \in Nat
                           /\ runs'[j] = IF j = i THEN runs[j] + 1 ELSE runs[j]
        BY <1>2, <3>1 DEF IInv, TypeOK
      <3>3. Started' = Started \cup {i}
        BY <3>1, <3>2
      <3>4. Contract!Start
        BY <3>1, <3>3 DEF Contract!Start
      <3> QED
        BY <3>4 DEF Contract!Next
    <2>3. CASE WithdrawsSome
      BY <2>3 DEF WithdrawsSome, Contract!Withdraw, Contract!Next
    <2> QED
      BY <1>2, <2>1, <2>2, <2>3, StepKinds
  <1> QED
    BY <1>1, <1>2, Inductive, PTL DEF Spec, ImplementsContract, Contract!Spec
-----------------------------------------------------------------------------
(* Standing grants.  A revocation drops one grant and the permission behind  *)
(* it, so a grant stays justified only because no second grant for the same  *)
(* tool, target and principal is left on disk: what mint-or-match maintains. *)
Key(g) == [tool |-> g.tool, target |-> g.target, principal |-> g.principal]
OneGrantPerKey == \A g, h \in grants : Key(g) = Key(h) => g = h

GrantInv == GrantsJustified /\ OneGrantPerKey

LEMMA MintKeeps ==
  ASSUME GrantInv, NEW x, NEW p, NEW ok \in BOOLEAN, MintGrant(x, p, ok)
  PROVE  GrantInv'
  <1> DEFINE q == [tool |-> ToolOf[x], target |-> TargetOf[x], principal |-> p]
             n == [id |-> minted + 1, tool |-> q.tool, target |-> q.target,
                   principal |-> q.principal]
  <1>1. permitted' = permitted \cup {q}
    BY DEF MintGrant
  <1>2. CASE grants' = grants
    BY <1>1, <1>2 DEF GrantInv, GrantsJustified, OneGrantPerKey
  <1>3. CASE grants' # grants
    <2>1. /\ FindMatch(q.tool, q.target, q.principal) = {}
          /\ grants' = grants \cup {n}
      BY <1>3 DEF MintGrant
    <2>2. Key(n) = q
      BY DEF Key
    <2>3. \A g \in grants : Key(g) # q
      BY <2>1 DEF FindMatch, Key
    <2>4. GrantsJustified'
      BY <1>1, <2>1, <2>2 DEF GrantInv, GrantsJustified, Key
    <2>5. OneGrantPerKey'
      BY <2>1, <2>2, <2>3 DEF GrantInv, OneGrantPerKey
    <2> QED
      BY <2>4, <2>5 DEF GrantInv
  <1> QED
    BY <1>2, <1>3

LEMMA RevokeKeeps ==
  ASSUME GrantInv, NEW p \in Principals, NEW g \in grants, Revoke(p, g)
  PROVE  GrantInv'
  <1>1. grants' = grants \ {g} /\ permitted' = permitted \ {Key(g)}
    BY DEF Revoke, Key
  <1>2. \A h \in grants' : h \in grants /\ Key(h) # Key(g)
    BY <1>1 DEF GrantInv, OneGrantPerKey
  <1>3. \A h \in grants' : Key(h) \in permitted'
    BY <1>1, <1>2 DEF GrantInv, GrantsJustified, Key
  <1> QED
    BY <1>2, <1>3 DEF GrantInv, GrantsJustified, OneGrantPerKey, Key

LEMMA NextGrantInv == GrantInv /\ [Next]_vars => GrantInv'
  <1> SUFFICES ASSUME GrantInv, [Next]_vars PROVE GrantInv'
    OBVIOUS
  <1>1. CASE UNCHANGED <<grants, permitted>>
    BY <1>1 DEF GrantInv, GrantsJustified, OneGrantPerKey, Key
  <1>2. ASSUME NEW r \in running, NEW ok \in BOOLEAN, ToolSucceeded(r, ok)
        PROVE  GrantInv'
    <2>1. CASE MintGrant(r.entry.call, r.by, ok)
      BY <2>1, MintKeeps
    <2>2. CASE ~MintGrant(r.entry.call, r.by, ok)
      BY <1>1, <1>2, <2>2 DEF ToolSucceeded
    <2> QED
      BY <2>1, <2>2
  <1>3. \/ UNCHANGED <<grants, permitted>>
        \/ \E r \in running, ok \in BOOLEAN : ToolSucceeded(r, ok)
        \/ \E p \in Principals, g \in grants : Revoke(p, g)
    BY DEF Next, Preview, Propose, ConfirmById, BareConfirm, Execute, Deny,
           ToolFailed, ContinuationPreview, ContinuationEnd, Tick, Restart, vars
  <1> QED
    BY <1>1, <1>2, <1>3, RevokeKeeps

(* Every grant on disk is one its principal asked for and has not revoked.   *)
THEOREM GrantsStayJustified == Spec => []GrantsJustified
  <1>1. Init => GrantInv
    BY DEF Init, GrantInv, GrantsJustified, OneGrantPerKey
  <1>2. GrantInv => GrantsJustified
    BY DEF GrantInv
  <1> QED
    BY <1>1, <1>2, NextGrantInv, PTL DEF Spec
-----------------------------------------------------------------------------
(* A bare confirm.  It looks at the young entries only; that the one it runs *)
(* is the newest of all is because the file's order is the order in which    *)
(* the entries were recorded.                                                *)
FileOrder ==
    /\ \A e \in ledger : e.created <= now
    /\ \A e, f \in ledger : e.id <= f.id => e.created <= f.created

LEMMA FileOrderKept == IInv /\ FileOrder /\ [Next]_vars => FileOrder'
  <1> SUFFICES ASSUME IInv, FileOrder, [Next]_vars PROVE FileOrder'
    OBVIOUS
  <1>1. /\ now \in Nat
        /\ issued \in Nat
        /\ \A e \in ledger : /\ e.id \in Nat /\ e.created \in Nat
                             /\ e.id <= issued
    BY DEF IInv, TypeOK, StoredUnrun, PendingAction, Ids, Time
  <1>2. ASSUME NEW x, NEW p, NEW c, NEW ttl, NEW ok, Record(x, p, c, ttl, ok),
               UNCHANGED now
        PROVE  FileOrder'
    <2> DEFINE n == [id |-> issued + 1, call |-> x, sender |-> p,
                     channel |-> c, created |-> now, expires |-> now + ttl]
    <2>1. ledger' \subseteq ledger \cup {n}
      BY <1>2 DEF Record, Loaded, Live
    <2>2. n.id = issued + 1 /\ n.created = now
      OBVIOUS
    <2>3. \A e \in ledger' : e.created <= now'
      BY <1>1, <1>2, <2>1, <2>2 DEF FileOrder
    <2>4. \A e, f \in ledger' : e.id <= f.id => e.created <= f.created
      <3> TAKE e, f \in ledger'
      <3>1. CASE e \in ledger /\ f \in ledger
        BY <3>1 DEF FileOrder
      <3>2. CASE e = n /\ f \in ledger
        BY <1>1, <2>2, <3>2
      <3>3. CASE f = n
        BY <1>1, <2>1, <2>2, <3>3 DEF FileOrder
      <3> QED
        BY <2>1, <3>1, <3>2, <3>3
    <2> QED
      BY <2>3, <2>4 DEF FileOrder
  <1>3. ASSUME ledger' \subseteq ledger, now' \in {now, now + 1}
        PROVE  FileOrder'
    BY <1>1, <1>3 DEF FileOrder
  <1>4. ASSUME \/ \E p \in Principals, c \in Channels, x \in Calls,
                     o \in Targets, ok \in BOOLEAN : Preview(p, c, x, o, ok)
               \/ \E p \in Principals, c \in Channels, x \in Calls,
                     ok \in BOOLEAN : Propose(p, c, x, ok)
               \/ \E r \in running, x \in Calls, o \in Targets,
                     ok \in BOOLEAN : ContinuationPreview(r, x, o, ok)
        PROVE  FileOrder'
    BY <1>2, <1>4 DEF Preview, Propose, ContinuationPreview
  <1>5. ASSUME NEW e \in Live, NEW p, NEW c, NEW a, NEW ok,
               Execute(e, p, c, a, ok)
        PROVE  FileOrder'
    BY <1>3, <1>5 DEF Execute, Consume, Save, Live
  <1>6. ASSUME \/ \E p \in Principals, c \in Channels, i \in Ids,
                     a, ok \in BOOLEAN : ConfirmById(p, c, i, a, ok)
               \/ \E p \in Principals, c \in Channels, ok \in BOOLEAN :
                     BareConfirm(p, c, ok)
        PROVE  FileOrder'
    BY <1>5, <1>6 DEF ConfirmById, FindById, BareConfirm, LatestFor
  <1>7. ASSUME \/ \E p \in Principals, i \in Ids, ok \in BOOLEAN :
                     Deny(p, i, ok)
               \/ \E r \in running : \E S \in SUBSET Replays(r) :
                     ContinuationEnd(r, S)
        PROVE  FileOrder'
    BY <1>3, <1>7 DEF Deny, ContinuationEnd, Consume, Save, Live
  <1>8. ASSUME \/ \E r \in running : ToolFailed(r)
               \/ \E r \in running, ok \in BOOLEAN : ToolSucceeded(r, ok)
               \/ \E p \in Principals, g \in grants : Revoke(p, g)
               \/ Tick \/ Restart \/ UNCHANGED vars
        PROVE  FileOrder'
    BY <1>3, <1>8 DEF ToolFailed, ToolSucceeded, Revoke, Tick, Restart, vars
  <1> QED
    BY <1>4, <1>6, <1>7, <1>8 DEF Next

(* "go ahead" runs the newest preview its sender was shown there, or none.   *)
THEOREM BareConfirmIsNewest == Spec => BareRunsNewest
  <1>1. Init => FileOrder
    BY DEF Init, FileOrder
  <1>2. ASSUME IInv, FileOrder, NEW p \in Principals, NEW c \in Channels,
               NEW ok \in BOOLEAN, BareConfirm(p, c, ok),
               NEW r \in running' \ running
        PROVE  /\ r.entry.created >= now - BareAge
               /\ r.entry.sender = p
               /\ \A e \in Live : e.sender = p /\ e.channel = c
                                     => e.id <= r.entry.id
    <2>1. PICK f \in LatestFor(p, c) : Execute(f, p, c, FALSE, ok)
      BY <1>2 DEF BareConfirm
    <2>2. r.entry = f
      BY <1>2, <2>1 DEF Execute
    <2>3. /\ f \in ledger /\ f.sender = p /\ f.created >= now - BareAge
          /\ \A e \in Live : e.sender = p /\ e.channel = c
                             /\ e.created >= now - BareAge => e.id <= f.id
      BY DEF LatestFor, Live
    <2>4. ASSUME NEW e \in Live, e.sender = p, e.channel = c
          PROVE  e.id <= f.id
      <3>1. /\ e \in ledger /\ now \in Nat
            /\ e.id \in Nat /\ e.created \in Nat
            /\ f.id \in Nat /\ f.created \in Nat
        BY <1>2, <2>3 DEF Live, IInv, TypeOK, PendingAction, Ids, Time
      <3>2. CASE e.id > f.id
        <4>1. e.created >= f.created
          BY <1>2, <2>3, <3>1, <3>2 DEF FileOrder
        <4>2. e.created >= now - BareAge
          BY <2>3, <3>1, <4>1
        <4> QED
          BY <2>3, <2>4, <4>2
      <3> QED
        BY <3>1, <3>2
    <2> QED
      BY <2>2, <2>3, <2>4
  <1>3. Spec => [](IInv /\ FileOrder)
    BY <1>1, Inductive, FileOrderKept, PTL DEF Spec
  <1>4. IInv /\ FileOrder /\ [Next]_vars =>
          [\A p \in Principals, c \in Channels, ok \in BOOLEAN :
             BareConfirm(p, c, ok) =>
                \A r \in running' \ running :
                   /\ r.entry.created >= now - BareAge
                   /\ r.entry.sender = p
                   /\ \A e \in Live : e.sender = p /\ e.channel = c
                                        => e.id <= r.entry.id]_vars
    BY <1>2
  <1> QED
    BY <1>3, <1>4, PTL DEF Spec, BareRunsNewest
=============================================================================
