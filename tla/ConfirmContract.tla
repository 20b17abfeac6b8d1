--------------------------- MODULE ConfirmContract ---------------------------
(* What the confirmation gate promises, with nothing of how it is stored: a  *)
(* previewed action is a one-shot offer.  It can be withdrawn at any moment  *)
(* (denied, expired, refused by policy, lost with the ledger file), it can   *)
(* start running at most once, and a spent or withdrawn offer never returns. *)
(* The header of security/pending-actions.ts states this promise: entries    *)
(* are "single-use, and expire".                                             *)
EXTENDS Naturals

VARIABLES
    offered,    \* how many offers were ever made; offer i is the i-th one
    open,       \* the offers a confirmation can still start
    started     \* the offers whose action was started

cvars == <<offered, open, started>>

Init == /\ offered = 0
        /\ open = {}
        /\ started = {}

(* A new preview; the write that stores it may drop older offers. *)
Offer == \E kept \in SUBSET open :
            /\ offered' = offered + 1
            /\ open' = kept \cup {offered + 1}
            /\ UNCHANGED started

(* A confirmation starts an open offer, which is spent by that. *)
Start == \E i \in open :
            /\ started' = started \cup {i}
            /\ open' \in SUBSET (open \ {i})
            /\ UNCHANGED offered

(* Offers go away unrun. *)
Withdraw == /\ open' \in SUBSET open
            /\ UNCHANGED <<offered, started>>

Next == Offer \/ Start \/ Withdraw

Spec == Init /\ [][Next]_cvars
=============================================================================
