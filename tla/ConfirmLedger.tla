---------------------------- MODULE ConfirmLedger ----------------------------
(* The confirmation gate: dispatch's gated executor (dispatch.ts), the       *)
(* pending-action ledger (security/pending-actions.ts), the standing grants  *)
(* (security/grants.ts), the confirm handler shared by every channel         *)
(* (security/confirm-handler.ts) and the continuation turn the orchestrator  *)
(* runs after a confirmed action (orchestrator.ts).                          *)
(*                                                                           *)
(* A handler is one step up to its first await: handleConfirmation finds,    *)
(* consumes and re-authorises without yielding, then awaits the tool.  What  *)
(* interleaves is everything else: other messages, other confirmations whose *)
(* tool is still running, the clock, and a crash.  ledger and grants are the *)
(* two files under data/; they survive a crash, running does not.            *)
EXTENDS Integers

CONSTANTS
    Principals,   \* resolved identities (identity/principal.ts)
    Channels,     \* delivery surfaces
    Continues,    \* channels whose confirmations get a continuation turn:
                  \*   the orchestrator's, when continueAfterConfirm is on
    Calls,        \* a tool with its parameters, as one value
    Tools,
    ToolOf,       \* [Calls -> Tools]
    TargetOf,     \* [Calls -> Targets], what grantTargetFor answers for a call
    Targets,
    NoTarget,     \* grantTargetFor's null: no targetArgs, or an empty one
    TTL,          \* lifetime of an interactive preview (TTL_MS)
    LongTTL,      \* lifetime of a briefing, heartbeat or self-mod proposal
    BareAge,      \* BARE_CONFIRM_MAX_AGE_MS
    MaxIds,       \* bound: previews recorded in a behaviour
    MaxGrants,    \* bound: grants minted in a behaviour
    MaxTime       \* bound: clock ticks

ASSUME CallAssumption == /\ ToolOf \in [Calls -> Tools]
                         /\ TargetOf \in [Calls -> Targets]
                         /\ Continues \subseteq Channels
ASSUME TimeAssumption == /\ TTL \in Nat \ {0} /\ LongTTL \in Nat \ {0}
                         /\ BareAge \in Nat /\ MaxTime \in Nat
ASSUME BoundAssumption == MaxIds \in Nat /\ MaxGrants \in Nat

VARIABLES
    now,       \* Date.now()
    blocked,   \* tools the loaded configuration refuses (checkToolPolicy)
    ledger,    \* data/pending-actions.json; ids number the entries in file order
    issued,    \* ids handed out so far
    grants,    \* data/grants.json
    minted,    \* grant ids handed out so far
    running,   \* confirmations past consume(): awaiting the tool, or continuing
    runs,      \* history: how often the call stored under an id was executed
    told,      \* history: ids whose sender was told "will not run"
    permitted  \* history: what "always" replies promised, less what was revoked

files == <<ledger, grants>>
vars == <<now, blocked, ledger, issued, grants, minted, running, runs, told,
          permitted>>

Ids == 1..MaxIds
GrantIds == 1..MaxGrants
Time == 0..MaxTime

PendingAction ==
    [id : Ids, call : Calls, sender : Principals, channel : Channels,
     created : Time, expires : Nat]
StandingGrant ==
    [id : GrantIds, tool : Tools, target : Targets, principal : Principals]
Permission == [tool : Tools, target : Targets, principal : Principals]
(* own: the previews this confirmation's continuation turn has recorded. *)
Confirmation ==
    [entry : PendingAction, by : Principals, channel : Channels,
     always : BOOLEAN, stage : {"tool", "continuation"}, own : SUBSET Ids]

TypeOK ==
    /\ now \in Time
    /\ blocked \in SUBSET Tools
    /\ ledger \in SUBSET PendingAction
    /\ issued \in 0..MaxIds
    /\ grants \in SUBSET StandingGrant
    /\ minted \in 0..MaxGrants
    /\ running \in SUBSET Confirmation
    /\ runs \in [Ids -> Nat]
    /\ told \in SUBSET Ids
    /\ permitted \in SUBSET Permission

Init ==
    /\ now = 0
    /\ blocked \in SUBSET Tools
    /\ ledger = {}
    /\ issued = 0
    /\ grants = {}
    /\ minted = 0
    /\ running = {}
    /\ runs = [i \in Ids |-> 0]
    /\ told = {}
    /\ permitted = {}
-----------------------------------------------------------------------------
(* The ledger file *)

(* load(): expired entries are pruned on every read. *)
Live == {e \in ledger : e.expires > now}

(* load() answers the empty list when the file cannot be read. *)
Loaded(readable) == IF readable THEN Live ELSE {}

(* save() replaces the file, or changes nothing and answers false. *)
Save(actions, written) == ledger' = IF written THEN actions ELSE ledger

(* record(): TRUE of the id when it was stored. *)
Record(call, sender, channel, ttl, readable) ==
    /\ issued < MaxIds
    /\ now + ttl <= MaxTime
    /\ issued' = issued + 1
    /\ ledger' = Loaded(readable) \cup
          {[id |-> issued + 1, call |-> call, sender |-> sender,
            channel |-> channel, created |-> now, expires |-> now + ttl]}

(* Mutant: a bare confirm without the age cutoff. *)
LatestForAnyAge(sender, channel) ==
    LET mine == {e \in Live : e.sender = sender /\ e.channel = channel}
    IN  {e \in mine : \A f \in mine : f.id <= e.id}

(* latestFor(sender, channel, maxAge): the last matching entry of the file. *)
LatestFor(sender, channel) ==
    LET recent == {e \in Live : /\ e.sender = sender
                                /\ e.channel = channel
                                /\ e.created >= now - BareAge}
    IN  {e \in recent : \A f \in recent : f.id <= e.id}

(* findById(id, sender) *)
FindById(i, sender) == {e \in Live : e.id = i /\ e.sender = sender}

(* consume(id): every live entry but this one is written back. *)
Consume(e, written) == Save(Live \ {e}, written)
-----------------------------------------------------------------------------
(* Standing grants *)

FindMatch(tool, target, principal) ==
    {g \in grants : /\ g.tool = tool
                    /\ g.target = target
                    /\ g.principal = principal}

(* resolveGrantApproval: a standing grant, or the call answers the very      *)
(* conversation (origin) it came from.                                       *)
Approved(call, principal, origin) ==
    /\ TargetOf[call] # NoTarget
    /\ \/ FindMatch(ToolOf[call], TargetOf[call], principal) # {}
       \/ TargetOf[call] = origin

(* GrantStore.record: an existing match is returned, otherwise a new grant   *)
(* is appended; the reply promises it whether or not save() landed.          *)
MintGrant(call, principal, written) ==
    LET p == [tool |-> ToolOf[call], target |-> TargetOf[call],
              principal |-> principal]
    IN  /\ permitted' = permitted \cup {p}
        /\ IF FindMatch(p.tool, p.target, p.principal) # {}
           THEN UNCHANGED <<grants, minted>>
           ELSE /\ minted < MaxGrants
                /\ minted' = minted + 1
                /\ grants' = IF written
                             THEN grants \cup
                                    {[id |-> minted + 1, tool |-> p.tool,
                                      target |-> p.target,
                                      principal |-> p.principal]}
                             ELSE grants
-----------------------------------------------------------------------------
(* The gate *)

(* A model turn asks for a confirm-gated call in its scope: without an       *)
(* approval it is recorded and previewed instead of run.  A call that is     *)
(* approved runs at once and leaves this module's state alone; so does a     *)
(* preview whose record could not be saved.                                  *)
Preview(principal, channel, call, origin, readable) ==
    /\ ToolOf[call] \notin blocked
    /\ ~Approved(call, principal, origin)
    /\ Record(call, principal, channel, TTL, readable)
    /\ UNCHANGED <<now, blocked, grants, minted, running, runs, told, permitted>>

(* Briefing, heartbeat and self-mod proposals go straight to the ledger. *)
Propose(principal, channel, call, readable) ==
    /\ Record(call, principal, channel, LongTTL, readable)
    /\ UNCHANGED <<now, blocked, grants, minted, running, runs, told, permitted>>
-----------------------------------------------------------------------------
(* handleConfirmation *)

(* Mutant: the tool is started although the removal did not persist. *)
ExecuteUnsaved(e, principal, channel, always, written) ==
    /\ Consume(e, written)
    /\ IF ToolOf[e.call] \notin blocked
       THEN /\ runs' = [runs EXCEPT ![e.id] = @ + 1]
            /\ running' = running \cup
                 {[entry |-> e, by |-> principal, channel |-> channel,
                   always |-> always, stage |-> "tool", own |-> {}]}
       ELSE UNCHANGED <<runs, running>>
    /\ UNCHANGED <<now, blocked, issued, grants, minted, told, permitted>>

(* From consume() to the start of the tool.  A removal that did not persist  *)
(* runs nothing; a call the policy now refuses is consumed and not run.      *)
Execute(e, principal, channel, always, written) ==
    /\ Consume(e, written)
    /\ IF written /\ ToolOf[e.call] \notin blocked
       THEN /\ runs' = [runs EXCEPT ![e.id] = @ + 1]
            /\ running' = running \cup
                 {[entry |-> e, by |-> principal, channel |-> channel,
                   always |-> always, stage |-> "tool", own |-> {}]}
       ELSE UNCHANGED <<runs, running>>
    /\ UNCHANGED <<now, blocked, issued, grants, minted, told, permitted>>

(* "confirm <id>" and "always <id>": principal-bound, from any channel. *)
ConfirmById(principal, channel, i, always, written) ==
    \E e \in FindById(i, principal) :
        Execute(e, principal, channel, always, written)

(* "go ahead" *)
BareConfirm(principal, channel, written) ==
    \E e \in LatestFor(principal, channel) :
        Execute(e, principal, channel, FALSE, written)

(* "deny <id>": consume's answer is not looked at. *)
Deny(principal, i, written) ==
    \E e \in FindById(i, principal) :
        /\ Consume(e, written)
        /\ told' = told \cup {i}
        /\ UNCHANGED <<now, blocked, issued, grants, minted, running, runs,
                       permitted>>

(* Mutant: a failed tool puts its entry back for another try. *)
ToolFailedRequeues(r) ==
    /\ r.stage = "tool"
    /\ running' = running \ {r}
    /\ ledger' = ledger \cup {r.entry}
    /\ UNCHANGED <<now, blocked, issued, grants, minted, runs, told, permitted>>

(* The tool answered.  A reported failure or an exception ends the           *)
(* confirmation; a success mints the grant of an "always" and, where the     *)
(* channel continues, dispatches one more turn in the originating session.   *)
ToolFailed(r) ==
    /\ r.stage = "tool"
    /\ running' = running \ {r}
    /\ UNCHANGED <<now, blocked, ledger, issued, grants, minted, runs, told,
                   permitted>>

ToolSucceeded(r, written) ==
    /\ r.stage = "tool"
    /\ running' = (running \ {r}) \cup
          (IF r.channel \in Continues
           THEN {[r EXCEPT !.stage = "continuation"]} ELSE {})
    /\ IF r.always /\ TargetOf[r.entry.call] # NoTarget
       THEN MintGrant(r.entry.call, r.by, written)
       ELSE UNCHANGED <<grants, minted, permitted>>
    /\ UNCHANGED <<now, blocked, ledger, issued, runs, told>>

(* A gated call of the continuation turn is gated again. *)
ContinuationPreview(r, call, origin, readable) ==
    /\ r.stage = "continuation"
    /\ ToolOf[call] \notin blocked
    /\ ~Approved(call, r.by, origin)
    /\ Record(call, r.by, r.channel, TTL, readable)
    /\ running' = (running \ {r}) \cup
                    {[r EXCEPT !.own = @ \cup {issued + 1}]}
    /\ UNCHANGED <<now, blocked, grants, minted, runs, told, permitted>>

(* Replay circuit breaker: previews the continuation recorded for the tool   *)
(* that just ran are consumed, each write landing or not.                    *)
Replays(r) == {e \in Live : /\ e.id \in r.own
                            /\ ToolOf[e.call] = ToolOf[r.entry.call]}

ContinuationEnd(r, cancelled) ==
    /\ r.stage = "continuation"
    /\ cancelled \subseteq Replays(r)
    /\ Save(Live \ cancelled, cancelled # {})
    /\ running' = running \ {r}
    /\ UNCHANGED <<now, blocked, issued, grants, minted, runs, told, permitted>>

(* Mutant: a revocation is acknowledged although it did not persist. *)
RevokeUnsaved(principal, g) ==
    /\ g \in grants
    /\ g.principal = principal
    /\ permitted' = permitted \ {[tool |-> g.tool, target |-> g.target,
                                  principal |-> g.principal]}
    /\ UNCHANGED <<now, blocked, ledger, issued, grants, minted, running, runs,
                   told>>

(* !grants revoke <id>: a revocation that did not persist answers null and   *)
(* promises nothing.                                                         *)
Revoke(principal, g) ==
    /\ g \in grants
    /\ g.principal = principal
    /\ grants' = grants \ {g}
    /\ permitted' = permitted \ {[tool |-> g.tool, target |-> g.target,
                                  principal |-> g.principal]}
    /\ UNCHANGED <<now, blocked, ledger, issued, minted, running, runs, told>>
-----------------------------------------------------------------------------
(* Environment *)

Tick ==
    /\ now < MaxTime
    /\ now' = now + 1
    /\ UNCHANGED <<blocked, ledger, issued, grants, minted, running, runs,
                   told, permitted>>

(* Mutant: the confirmations a crash interrupted become confirmable again. *)
RestartRequeues ==
    /\ running' = {}
    /\ ledger' = ledger \cup {r.entry : r \in running}
    /\ blocked' \in SUBSET Tools
    /\ UNCHANGED <<now, issued, grants, minted, runs, told, permitted>>

(* The process dies and comes back, with an edited configuration or the same. *)
Restart ==
    /\ running' = {}
    /\ blocked' \in SUBSET Tools
    /\ UNCHANGED <<now, ledger, issued, grants, minted, runs, told, permitted>>

Next ==
    \/ \E p \in Principals, c \in Channels, x \in Calls, o \in Targets,
          ok \in BOOLEAN : Preview(p, c, x, o, ok)
    \/ \E p \in Principals, c \in Channels, x \in Calls, ok \in BOOLEAN :
          Propose(p, c, x, ok)
    \/ \E p \in Principals, c \in Channels, ok \in BOOLEAN :
          BareConfirm(p, c, ok)
    \/ \E p \in Principals, c \in Channels, i \in Ids, a, ok \in BOOLEAN :
          ConfirmById(p, c, i, a, ok)
    \/ \E p \in Principals, i \in Ids, ok \in BOOLEAN : Deny(p, i, ok)
    \/ \E r \in running : ToolFailed(r)
    \/ \E r \in running, ok \in BOOLEAN : ToolSucceeded(r, ok)
    \/ \E r \in running, x \in Calls, o \in Targets, ok \in BOOLEAN :
          ContinuationPreview(r, x, o, ok)
    \/ \E r \in running : \E S \in SUBSET Replays(r) : ContinuationEnd(r, S)
    \/ \E p \in Principals, g \in grants : Revoke(p, g)
    \/ Tick
    \/ Restart

Spec == Init /\ [][Next]_vars
-----------------------------------------------------------------------------
(* Properties *)

(* A confirmed action has its side effect at most once: however the messages *)
(* interleave, whichever ledger write is lost and wherever the process dies, *)
(* the call stored under an id is executed no more than one time (the reason *)
(* confirm-handler.ts consumes durably before it executes).                  *)
AtMostOnce == \A i \in Ids : runs[i] <= 1

Open == {e.id : e \in Live}

(* Once an id stopped being confirmable - run, denied with the write landed, *)
(* refused by policy, expired, dropped with an unreadable file - it never    *)
(* becomes confirmable or runs again, not even after a restart that relaxed  *)
(* the policy (single-use semantics of consume()).                           *)
SpentStaysSpent ==
    [][\A i \in 1..issued :
          i \notin Open => i \notin Open' /\ runs'[i] = runs[i]]_vars

(* A bare "go ahead" never runs anything but the newest offer its sender was *)
(* made on that channel, and never one recorded longer ago than BareAge      *)
(* (BARE_CONFIRM_MAX_AGE_MS).  The offer may be a proposal of a briefing: the*)
(* code looks at the age alone (LongNeedId).                                 *)
BareRunsNewest ==
    [][\A p \in Principals, c \in Channels, ok \in BOOLEAN :
          BareConfirm(p, c, ok) =>
             \A r \in running' \ running :
                /\ r.entry.created >= now - BareAge
                /\ r.entry.sender = p
                /\ \A e \in Live : e.sender = p /\ e.channel = c
                                     => e.id <= r.entry.id]_vars

(* "Long-TTL proposals always require confirm <id>" (pending-actions.ts:48): *)
(* a bare "go ahead" runs interactive previews only.                         *)
LongNeedId ==
    [][\A p \in Principals, c \in Channels, ok \in BOOLEAN :
          BareConfirm(p, c, ok) =>
             \A r \in running' \ running :
                r.entry.expires - r.entry.created <= TTL]_vars

(* Whatever a grant on disk lets through unasked, its principal said         *)
(* "always" about that very tool and target, that run succeeded, and no      *)
(* revocation was acknowledged since.                                        *)
GrantsJustified ==
    \A g \in grants :
       [tool |-> g.tool, target |-> g.target, principal |-> g.principal]
          \in permitted

(* What confirm-handler.ts:76 replies to "deny <id>": it "will not run".     *)
CancelledNeverRuns == \A i \in told : runs[i] = 0

(* The gate keeps the abstract promise: previews are one-shot offers. *)
Contract == INSTANCE ConfirmContract
               WITH offered <- issued,
                    open <- Open,
                    started <- {i \in Ids : runs[i] > 0}
ImplementsContract == Contract!Spec
=============================================================================
