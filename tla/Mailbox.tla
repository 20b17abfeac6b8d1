------------------------------- MODULE Mailbox -------------------------------
(* The Gmail adapter (channels/gmail/adapter.ts): every half minute the      *)
(* unread mail is listed and each mail is handed to the message handler,     *)
(* which takes as long as a dispatch; only then is it marked as read.  The   *)
(* timer does not wait for a poll under way.                                 *)
EXTENDS Integers, Sequences, FiniteSets

CONSTANTS
    Mails,      \* a set of numbers, the newer the larger
    Allowed,    \* of the senders the channel takes mail from
    Polls,      \* polls that may be under way at once
    Page,       \* mails listed at most
    MaxFails    \* bound: calls and handlers that fail

ASSUME MailAssumption == Mails \subseteq Nat /\ Allowed \subseteq Mails /\ Page \in Nat \ {0}

VARIABLES
    arrived, unread,
    queue,      \* [Polls -> the mails of the poll not yet done]
    stage,      \* [Polls -> "idle", "list" (read next), "handle"]
    done,       \* history: mails whose handler came to its end
    errors,     \* polls in a row that failed
    fails

mailVars == <<arrived, unread, queue, stage, done, errors, fails>>

TypeOK ==
    /\ arrived \subseteq Mails /\ unread \subseteq arrived /\ done \subseteq Allowed
    /\ \A p \in Polls : /\ queue[p] \in Seq(Mails)
                        /\ stage[p] \in {"idle", "list", "handle"}
                        /\ stage[p] = "handle" => queue[p] # <<>>
    /\ errors \in Nat /\ fails \in 0..MaxFails

Init ==
    /\ arrived = {} /\ unread = {} /\ queue = [p \in Polls |-> <<>>]
    /\ stage = [p \in Polls |-> "idle"] /\ done = {}
    /\ errors = 0 /\ fails = 0
-----------------------------------------------------------------------------
(* How many came since, with itself; the newest ones, a page of them. *)
Rank(m, mails) == Cardinality({n \in mails : n >= m})

Newest(mails) ==
    [i \in 1..(IF Cardinality(mails) < Page THEN Cardinality(mails) ELSE Page) |->
        CHOOSE m \in mails : Rank(m, mails) = i]

Arrive(m) ==
    /\ m \notin arrived /\ \A n \in arrived : n < m
    /\ arrived' = arrived \cup {m} /\ unread' = unread \cup {m}
    /\ UNCHANGED <<queue, stage, done, errors, fails>>

(* The timer: whatever polls are under way. *)
List(p) ==
    /\ stage[p] = "idle" /\ unread # {}
    /\ queue' = [queue EXCEPT ![p] = Newest(unread)] /\ stage' = [stage EXCEPT ![p] = "list"]
    /\ UNCHANGED <<arrived, unread, done, errors, fails>>

(* Mail of others is marked as read and never handled. *)
Filter(p) ==
    /\ stage[p] = "list" /\ queue[p] # <<>> /\ Head(queue[p]) \notin Allowed
    /\ unread' = unread \ {Head(queue[p])} /\ queue' = [queue EXCEPT ![p] = Tail(@)]
    /\ UNCHANGED <<arrived, stage, done, errors, fails>>

(* Mutant: marked as read when it is taken. *)
UnreadOnTaking(m) == unread \ {m}

UnreadAfterTaking(m) == unread

Handle(p) ==
    /\ stage[p] = "list" /\ queue[p] # <<>> /\ Head(queue[p]) \in Allowed
    /\ unread' = UnreadAfterTaking(Head(queue[p]))
    /\ stage' = [stage EXCEPT ![p] = "handle"]
    /\ UNCHANGED <<arrived, queue, done, errors, fails>>

Handled(p) ==
    /\ stage[p] = "handle" /\ done' = done \cup {Head(queue[p])}
    /\ unread' = unread \ {Head(queue[p])}
    /\ queue' = [queue EXCEPT ![p] = Tail(@)] /\ stage' = [stage EXCEPT ![p] = "list"]
    /\ UNCHANGED <<arrived, errors, fails>>

(* The list, a mail, its handler or the mark fails: the poll ends there. *)
Fail(p) ==
    /\ stage[p] \in {"list", "handle"} /\ queue[p] # <<>> /\ fails < MaxFails /\ fails' = fails + 1
    /\ errors' = errors + 1
    /\ queue' = [queue EXCEPT ![p] = <<>>] /\ stage' = [stage EXCEPT ![p] = "idle"]
    /\ UNCHANGED <<arrived, unread, done>>

(* A poll that comes to its end sets the channel right again. *)
End(p) ==
    /\ stage[p] = "list" /\ queue[p] = <<>> /\ errors' = 0
    /\ stage' = [stage EXCEPT ![p] = "idle"]
    /\ UNCHANGED <<arrived, unread, queue, done, fails>>

Step(p) == List(p) \/ Filter(p) \/ Handle(p) \/ Handled(p) \/ End(p)

Next == \/ \E m \in Mails : Arrive(m)
        \/ \E p \in Polls : Step(p) \/ Fail(p)

(* The timer goes on, and calls and handlers end. *)
Fairness == \A p \in Polls : WF_mailVars(Step(p))

Spec == Init /\ [][Next]_mailVars /\ Fairness
-----------------------------------------------------------------------------
(* Properties *)

(* A mail is read when it was handled to its end, or is of no concern. *)
MailIsKept == arrived \ unread \subseteq done \cup (Mails \ Allowed)

(* All that arrived is handled.  A mail arrives once: if this is true again  *)
(* and again, each is handled in the end, though polls fail now and then.    *)
AllHandled == arrived \cap Allowed \subseteq done
=============================================================================
