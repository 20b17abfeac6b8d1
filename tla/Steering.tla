------------------------------- MODULE Steering -------------------------------
(* orchestrator.ts, handleMessage, for one session: rate limit, !stop, the   *)
(* confirm path, and the steering queue that lets a message written while a  *)
(* dispatch runs fold into its tool loop instead of starting another one.    *)
(*                                                                           *)
(* A session key contains the sender, so one sender's messages are all there *)
(* is.  A handler is one step up to its next await: transcription, vision or *)
(* the confirm handler; the dispatch; the delivery of the reply.             *)
EXTENDS Integers, Sequences, FiniteSets

CONSTANTS
    Msgs,
    Stops,      \* the messages that are !stop
    Confirms,   \* the messages that read as a confirmation
    MaxHits     \* RateLimiter max, messages per window

ASSUME MsgAssumption == /\ Stops \subseteq Msgs
                        /\ Confirms \subseteq Msgs \ Stops
                        /\ MaxHits \in Nat

VARIABLES
    where,      \* [Msgs -> Places]: how far the handler of a message is
    open,       \* steeringQueues has the session's key
    queue,      \* its value, when it has
    cancel,     \* cancelRequests has the key
    hits,       \* the sender's timestamps inside the limiter's window
    aimed,      \* history: runs a !stop was pressed on
    cancelled,  \* history: runs that ended as cancelled
    reached     \* history: how often a message was put before a model

vars == <<where, open, queue, cancel, hits, aimed, cancelled, reached>>

Waiting == {"entering", "queued"}
Working == {"running", "replying", "confirmed", "continuing"}
Settled == {"folded", "done", "limited"}
Places == {"outside"} \cup Waiting \cup Working \cup Settled

At(places) == {m \in Msgs : where[m] \in places}
Live == At({"running", "replying"})

TypeOK ==
    /\ where \in [Msgs -> Places]
    /\ open \in BOOLEAN /\ cancel \in BOOLEAN
    /\ queue \in Seq(Msgs)
    /\ hits \in Nat
    /\ aimed \in SUBSET Msgs /\ cancelled \in SUBSET Msgs
    /\ reached \in [Msgs -> Nat]

Init ==
    /\ where = [m \in Msgs |-> "outside"]
    /\ open = FALSE /\ queue = <<>> /\ cancel = FALSE
    /\ hits = 0
    /\ aimed = {} /\ cancelled = {}
    /\ reached = [m \in Msgs |-> 0]

Move(m, place) == where' = [where EXCEPT ![m] = place]
-----------------------------------------------------------------------------
(* A message arrives: it counts against the limit, refused or not, and a     *)
(* !stop is answered on the spot.                                            *)
Receive(m) ==
    /\ where[m] = "outside"
    /\ hits' = hits + 1
    /\ \/ /\ hits >= MaxHits
          /\ Move(m, "limited")
          /\ UNCHANGED <<cancel, aimed>>
       \/ /\ hits < MaxHits /\ m \in Stops
          /\ Move(m, "done")
          /\ cancel' = (cancel \/ open)
          /\ aimed' = aimed \cup Live
       \/ /\ hits < MaxHits /\ m \notin Stops
          /\ Move(m, "entering")
          /\ UNCHANGED <<cancel, aimed>>
    /\ UNCHANGED <<open, queue, cancelled, reached>>

(* Mutant: timestamps leave the window that never were in it. *)
ExpireAny ==
    /\ hits' = hits - 1
    /\ UNCHANGED <<where, open, queue, cancel, aimed, cancelled, reached>>

(* A timestamp leaves the sliding window. *)
Expire ==
    /\ hits > 0
    /\ hits' = hits - 1
    /\ UNCHANGED <<where, open, queue, cancel, aimed, cancelled, reached>>

(* The upload of a text file is answered with a question: import or read? *)
AskAboutFile(m) ==
    /\ where[m] = "entering" /\ m \notin Confirms
    /\ Move(m, "done")
    /\ UNCHANGED <<open, queue, cancel, hits, aimed, cancelled, reached>>

(* A confirmation with a pending action runs the stored call.  It neither    *)
(* looks at the steering queue nor opens one.                                *)
Confirm(m) ==
    /\ where[m] = "entering" /\ m \in Confirms
    /\ Move(m, "confirmed")
    /\ UNCHANGED <<open, queue, cancel, hits, aimed, cancelled, reached>>

(* The tool ran: a continuation turn is dispatched; or it did not run. *)
ToolReturns(m, executed) ==
    /\ where[m] = "confirmed"
    /\ Move(m, IF executed THEN "continuing" ELSE "done")
    /\ UNCHANGED <<open, queue, cancel, hits, aimed, cancelled, reached>>

ContinuationEnds(m) ==
    /\ where[m] = "continuing"
    /\ Move(m, "done")
    /\ UNCHANGED <<open, queue, cancel, hits, aimed, cancelled, reached>>

(* The session is busy: the message waits to be folded in. *)
Steer(m) ==
    /\ where[m] = "entering" /\ open
    /\ queue' = Append(queue, m)
    /\ Move(m, "queued")
    /\ UNCHANGED <<open, cancel, hits, aimed, cancelled, reached>>

(* The session is free: the handler opens the queue and dispatches. *)
Start(m) ==
    /\ where[m] = "entering" /\ ~open
    /\ open' = TRUE /\ queue' = <<>>
    /\ Move(m, "running")
    /\ reached' = [reached EXCEPT ![m] = @ + 1]
    /\ UNCHANGED <<cancel, hits, aimed, cancelled>>

InQueue == {queue[k] : k \in 1..Len(queue)}

(* Mutant: the loop reads the queue without taking the messages out. *)
DrainReads ==
    /\ \E m \in Msgs : where[m] = "running"
    /\ ~cancel /\ queue # <<>>
    /\ where' = [m \in Msgs |-> IF m \in InQueue THEN "folded" ELSE where[m]]
    /\ reached' = [m \in Msgs |-> IF m \in InQueue THEN reached[m] + 1
                                                   ELSE reached[m]]
    /\ UNCHANGED <<queue, open, cancel, hits, aimed, cancelled>>

(* An iteration of the running tool loop takes what is queued.  The loop     *)
(* looks at the stop flag first; a dispatch without a loop never comes here. *)
Drain ==
    /\ \E m \in Msgs : where[m] = "running"
    /\ ~cancel /\ queue # <<>>
    /\ queue' = <<>>
    /\ where' = [m \in Msgs |-> IF m \in InQueue THEN "folded" ELSE where[m]]
    /\ reached' = [m \in Msgs |-> IF m \in InQueue THEN reached[m] + 1
                                                   ELSE reached[m]]
    /\ UNCHANGED <<open, cancel, hits, aimed, cancelled>>

(* Mutant: the queue is dropped when the answer is there, before delivery. *)
RunEndsUnregisters(m, byStop) ==
    /\ where[m] = "running"
    /\ byStop => cancel
    /\ Move(m, "replying")
    /\ open' = FALSE
    /\ cancelled' = IF byStop THEN cancelled \cup {m} ELSE cancelled
    /\ UNCHANGED <<queue, cancel, hits, aimed, reached>>

(* The dispatch returns or throws; the answer or the apology is delivered.   *)
(* A pipeline stage in progress does not look at the stop flag.              *)
RunEnds(m, byStop) ==
    /\ where[m] = "running"
    /\ byStop => cancel
    /\ Move(m, "replying")
    /\ cancelled' = IF byStop THEN cancelled \cup {m} ELSE cancelled
    /\ UNCHANGED <<open, queue, cancel, hits, aimed, reached>>

(* What the loop did not take goes through handleMessage again, from the     *)
(* rate limit on.                                                            *)
Replayed(m) ==
    [x \in Msgs |-> IF x = m THEN "done"
                    ELSE IF x \notin InQueue THEN where[x]
                    ELSE IF \E k \in 1..Len(queue) :
                               queue[k] = x /\ hits + k <= MaxHits
                    THEN "entering" ELSE "limited"]

(* Mutant: the stop flag outlives the run. *)
FinishKeepsCancel(m) ==
    /\ where[m] = "replying"
    /\ where' = Replayed(m)
    /\ hits' = hits + Len(queue)
    /\ open' = FALSE /\ queue' = <<>>
    /\ UNCHANGED <<cancel, aimed, cancelled, reached>>

(* Mutant: what is left in the queue is dropped with it. *)
FinishDrops(m) ==
    /\ where[m] = "replying"
    /\ Move(m, "done")
    /\ open' = FALSE /\ cancel' = FALSE /\ queue' = <<>>
    /\ UNCHANGED <<hits, aimed, cancelled, reached>>

(* The finally block: the session is free again. *)
Finish(m) ==
    /\ where[m] = "replying"
    /\ where' = Replayed(m)
    /\ hits' = hits + Len(queue)
    /\ open' = FALSE /\ cancel' = FALSE /\ queue' = <<>>
    /\ UNCHANGED <<aimed, cancelled, reached>>

Handle(m) ==
    \/ AskAboutFile(m) \/ Confirm(m) \/ Steer(m) \/ Start(m)
    \/ \E executed \in BOOLEAN : ToolReturns(m, executed)
    \/ ContinuationEnds(m)
    \/ \E byStop \in BOOLEAN : RunEnds(m, byStop)
    \/ Finish(m)

Quiet == (\A m \in Msgs : where[m] \in Settled) /\ UNCHANGED vars

Next ==
    \/ \E m \in Msgs : Receive(m) \/ Handle(m)
    \/ Drain \/ Expire \/ Quiet

(* Every await of a handler comes back: model calls, tools and sends have    *)
(* time limits.  Nobody has to write, and no loop has to look at its queue.  *)
Spec == Init /\ [][Next]_vars /\ \A m \in Msgs : WF_vars(Handle(m))
-----------------------------------------------------------------------------
(* Properties *)

(* A queue is there exactly while one handler dispatches or delivers, and it *)
(* holds exactly the messages that were told "folding that into the task":   *)
(* no second dispatch through this path, nobody waiting on a queue that is   *)
(* gone (orchestrator.ts:858, "MUST clear it or the session reads as busy    *)
(* forever").                                                                *)
QueueHasOwner ==
    /\ \A m1, m2 \in Live : m1 = m2
    /\ open <=> Live # {}
    /\ InQueue = At({"queued"})

(* A message is put before a model at most once: folded in, or a turn of its *)
(* own, never both, however often it was queued and replayed.                *)
ReachesOnce == \A m \in Msgs : reached[m] <= 1

(* A stop ends the run it was pressed on, never a later one of the session.  *)
StopHitsItsRun == cancelled \subseteq aimed

(* Every message that arrives is answered, folded in or refused; none is     *)
(* left waiting (orchestrator.ts:1443, "queued input is never silently       *)
(* dropped").                                                                *)
EverySettles ==
    \A m \in Msgs : where[m] # "outside" ~> where[m] \in Settled

=============================================================================
