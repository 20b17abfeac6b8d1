------------------------------ MODULE Proposals ------------------------------
(* Improvements of its own code that the program proposes to its owner       *)
(* (coding/improvement-proposals.ts, the heartbeat's step and the tool       *)
(* self_improve): the failure that recurs is drafted by a model, recorded in *)
(* the confirmation ledger and in a history of proposals; what the owner     *)
(* denies reaches that history through the metrics, at the next heartbeat.   *)
EXTENDS Integers, FiniteSets

CONSTANTS
    Signatures, \* failures that recur often enough
    MaxId,      \* bound: proposals recorded
    None

VARIABLES
    history,    \* proposal-history.jsonl: the last entry of each signature
    open,       \* entries of the ledger: <<id, signature>>
    rows,       \* denials in the metrics after the cursor: ids
    drafting,   \* the signature the heartbeat waits for the model with
    last,       \* the newest id
    denied,     \* history: what the owner denied
    orphans     \* history: signatures recorded in the ledger alone

vars == <<history, open, rows, drafting, last, denied, orphans>>

NoEntry == [outcome |-> "none", id |-> 0, cooled |-> TRUE]

TypeOK ==
    /\ \A s \in Signatures : /\ history[s].outcome \in {"none", "proposed", "denied", "confirmed"}
                             /\ history[s].id \in 0..MaxId /\ history[s].cooled \in BOOLEAN
    /\ open \subseteq (1..MaxId) \X Signatures /\ rows \subseteq 1..MaxId
    /\ drafting \in Signatures \cup {None} /\ denied \cup orphans \subseteq Signatures

Init ==
    /\ history = [s \in Signatures |-> NoEntry] /\ open = {} /\ rows = {}
    /\ drafting = None /\ last = 0 /\ denied = {} /\ orphans = {}
-----------------------------------------------------------------------------
(* Mutant: the id is cut off the row, and no entry matches. *)
AbsorbedNone == history

(* The denials since the cursor, matched by the id of the ledger entry. *)
Absorbed == [s \in Signatures |->
    IF history[s].outcome = "proposed" /\ history[s].id \in rows
    THEN [history[s] EXCEPT !.outcome = "denied"] ELSE history[s]]

(* Never again what was denied; all else after the cooldown. *)
Eligible(entry) == entry.outcome # "denied" /\ entry.cooled

(* The heartbeat: denials first, then the first candidate that is eligible   *)
(* is drafted.                                                               *)
Beat ==
    /\ drafting = None /\ history' = Absorbed /\ rows' = {}
    /\ \/ \E s \in Signatures : Eligible(history'[s]) /\ drafting' = s
       \/ drafting' = None
    /\ UNCHANGED <<open, last, denied, orphans>>

(* The draft is rejected, or the ledger cannot be written. *)
NotProposed == /\ drafting # None /\ drafting' = None
               /\ UNCHANGED <<history, open, rows, last, denied, orphans>>

(* Recorded in the ledger, then in the history, unless that fails. *)
Proposed(written) ==
    /\ drafting # None /\ drafting' = None /\ last < MaxId /\ last' = last + 1
    /\ open' = open \cup {<<last', drafting>>}
    /\ IF written
       THEN /\ history' = [history EXCEPT ![drafting] =
                  [outcome |-> "proposed", id |-> last', cooled |-> FALSE]]
            /\ UNCHANGED orphans
       ELSE orphans' = orphans \cup {drafting} /\ UNCHANGED history
    /\ UNCHANGED <<rows, denied>>

Deny(p) ==
    /\ p \in open /\ open' = open \ {p} /\ rows' = rows \cup {p[1]}
    /\ denied' = denied \cup {p[2]} /\ UNCHANGED <<history, drafting, last, orphans>>

(* The tool notes it in the history, and starts the work. *)
Confirm(p) ==
    /\ p \in open /\ open' = open \ {p}
    /\ history' = [history EXCEPT ![p[2]] =
          [outcome |-> "confirmed", id |-> 0, cooled |-> FALSE]]
    /\ UNCHANGED <<rows, drafting, last, denied, orphans>>

(* Twelve hours: the entry of the ledger expires. *)
Expire(p) == /\ p \in open /\ open' = open \ {p}
             /\ UNCHANGED <<history, rows, drafting, last, denied, orphans>>

(* Days after, the cooldown ends. *)
Cool(s) ==
    /\ ~history[s].cooled /\ \A p \in open : p[2] # s \/ s \in orphans
    /\ history' = [history EXCEPT ![s].cooled = TRUE]
    /\ UNCHANGED <<open, rows, drafting, last, denied, orphans>>

Next ==
    \/ Beat \/ NotProposed \/ \E written \in BOOLEAN : Proposed(written)
    \/ \E p \in open : Deny(p) \/ Confirm(p) \/ Expire(p)
    \/ \E s \in Signatures : Cool(s)

Spec == Init /\ [][Next]_vars
-----------------------------------------------------------------------------
(* Properties *)

(* "a denial is permanent": what the owner denied is not put to them again,  *)
(* whenever they denied it; unless the history could not be written.         *)
DeniedForGood == \A p \in open : p[2] \in denied => p[2] \in orphans

(* No two proposals for one failure are open. *)
AskedOnce == \A p, q \in open : p[2] = q[2] => p = q \/ p[2] \in orphans
=============================================================================
