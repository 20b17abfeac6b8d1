-------------------------- MODULE ConversationProofs --------------------------
(* The way of a message is safe: the handler with its steering queue, for    *)
(* any number of messages, stops and confirmations; the debouncers, for any  *)
(* number of parts; and the dispatch that finds its specialist, for any      *)
(* categories, tools and channel policies.                                   *)
EXTENDS MCConversation, TLAPS, SequenceTheorems

(* Nobody but a registered run leaves anything behind. *)
IdleIsClean == ~open => queue = <<>> /\ ~cancel

(* What has not reached a model yet. *)
Unread == {"outside", "entering", "queued", "confirmed", "continuing", "limited"}
ReadOnce == /\ \A m \in Msgs : reached[m] <= 1
            /\ \A m \in At(Unread) : reached[m] = 0

(* The stop flag is there for the run it was pressed on. *)
FlagIsAimed == /\ cancelled \subseteq aimed
               /\ cancel => Live \subseteq aimed

IInv == TypeOK /\ QueueHasOwner /\ IdleIsClean /\ ReadOnce /\ FlagIsAimed

LEMMA InitIInv == Init => IInv
  <1> SUFFICES ASSUME Init PROVE IInv
    OBVIOUS
  <1>1. TypeOK
    <2>1. where \in [Msgs -> Places]
      BY DEF Init, Places
    <2>2. queue \in Seq(Msgs) /\ reached \in [Msgs -> Nat]
      BY DEF Init
    <2> QED
      BY <2>1, <2>2 DEF Init, TypeOK
  <1>2. Live = {} /\ At({"queued"}) = {}
    BY DEF Init, Live, At
  <1>3. InQueue = {}
    BY DEF Init, InQueue
  <1>4. ReadOnce
    BY DEF Init, ReadOnce, At
  <1> QED
    BY <1>1, <1>2, <1>3, <1>4
       DEF Init, IInv, QueueHasOwner, IdleIsClean, FlagIsAimed

(* A handler that moves from one place to another, neither of them a run or  *)
(* the queue, and reads nothing.                                             *)
LEMMA MoveAside ==
  ASSUME IInv, NEW m \in Msgs, NEW place \in Places,
         where[m] \in {"outside", "entering", "confirmed", "continuing"},
         place \in {"entering", "confirmed", "continuing", "done", "limited"},
         Move(m, place), hits' \in Nat,
         UNCHANGED <<open, queue, cancelled, reached>>,
         cancel' \in BOOLEAN, aimed' \in SUBSET Msgs, aimed \subseteq aimed',
         cancel' => open, cancel' => (cancel \/ Live \subseteq aimed')
  PROVE  IInv'
  <1>1. where' \in [Msgs -> Places]
    BY DEF IInv, TypeOK, Move
  <1>2. /\ \A x \in Msgs : x # m => where'[x] = where[x]
        /\ where'[m] = place
    BY DEF IInv, TypeOK, Move
  <1>3. Live' = Live /\ At({"queued"})' = At({"queued"}) /\ InQueue' = InQueue
    BY <1>2 DEF Live, At, InQueue
  <1>4. \A x \in Msgs : where'[x] \in Unread => where[x] \in Unread
    BY <1>2 DEF Unread
  <1>5. ReadOnce'
    BY <1>4 DEF IInv, ReadOnce, At
  <1> QED
    BY <1>1, <1>3, <1>5
       DEF IInv, TypeOK, QueueHasOwner, IdleIsClean, FlagIsAimed

LEMMA ReceiveIInv ==
  ASSUME IInv, NEW m \in Msgs, Receive(m)
  PROVE  IInv'
  <1>1. hits' \in Nat /\ where[m] = "outside"
    BY DEF Receive, IInv, TypeOK
  <1>2. Live \subseteq Msgs /\ aimed \subseteq Msgs
    BY DEF Live, At, IInv, TypeOK
  <1>3. /\ cancel' \in BOOLEAN /\ aimed' \in SUBSET Msgs /\ aimed \subseteq aimed'
        /\ cancel' => open
        /\ cancel' => (cancel \/ Live \subseteq aimed')
    BY <1>2 DEF Receive, IInv, TypeOK, IdleIsClean
  <1>4. UNCHANGED <<open, queue, cancelled, reached>>
    BY DEF Receive
  <1>5. CASE Move(m, "limited")
    BY <1>1, <1>3, <1>4, <1>5, MoveAside DEF Places, Settled
  <1>6. CASE Move(m, "done")
    BY <1>1, <1>3, <1>4, <1>6, MoveAside DEF Places, Settled
  <1>7. CASE Move(m, "entering")
    BY <1>1, <1>3, <1>4, <1>7, MoveAside DEF Places, Waiting
  <1> QED
    BY <1>5, <1>6, <1>7 DEF Receive

(* The confirm path and the file question. *)
LEMMA AsideIInv ==
  ASSUME IInv, NEW m \in Msgs, NEW executed \in BOOLEAN,
         \/ AskAboutFile(m) \/ Confirm(m) \/ ToolReturns(m, executed)
         \/ ContinuationEnds(m)
  PROVE  IInv'
  <1>1. /\ cancel' \in BOOLEAN /\ aimed' \in SUBSET Msgs /\ aimed \subseteq aimed'
        /\ cancel' => open
        /\ cancel' => (cancel \/ Live \subseteq aimed')
        /\ hits' \in Nat
        /\ UNCHANGED <<open, queue, cancelled, reached>>
    BY DEF AskAboutFile, Confirm, ToolReturns, ContinuationEnds, IInv, TypeOK,
           IdleIsClean
  <1>2. where[m] \in {"outside", "entering", "confirmed", "continuing"}
    BY DEF AskAboutFile, Confirm, ToolReturns, ContinuationEnds
  <1>3. PICK place \in {"confirmed", "continuing", "done"} : Move(m, place)
    BY DEF AskAboutFile, Confirm, ToolReturns, ContinuationEnds
  <1> QED
    BY <1>1, <1>2, <1>3, MoveAside DEF Places, Working, Settled

LEMMA SteerIInv ==
  ASSUME IInv, NEW m \in Msgs, Steer(m)
  PROVE  IInv'
  <1>1. /\ \A x \in Msgs : x # m => where'[x] = where[x]
        /\ where'[m] = "queued" /\ where[m] = "entering"
        /\ where' \in [Msgs -> Places]
    BY DEF Steer, Move, IInv, TypeOK, Places, Waiting
  <1>2. queue' = Append(queue, m) /\ queue' \in Seq(Msgs)
    BY DEF Steer, IInv, TypeOK
  <1>3. InQueue' = InQueue \cup {m}
    <2>1. Len(queue') = Len(queue) + 1 /\ Len(queue) \in Nat
      BY <1>2 DEF IInv, TypeOK
    <2>2. \A k \in 1..Len(queue) : queue'[k] = queue[k]
      BY <1>2 DEF IInv, TypeOK
    <2>3. queue'[Len(queue) + 1] = m
      BY <1>2 DEF IInv, TypeOK
    <2> QED
      BY <2>1, <2>2, <2>3 DEF InQueue
  <1>4. At({"queued"})' = At({"queued"}) \cup {m} /\ Live' = Live
    BY <1>1 DEF At, Live
  <1>5. ReadOnce'
    BY <1>1 DEF IInv, ReadOnce, At, Unread, Steer
  <1> QED
    BY <1>1, <1>2, <1>3, <1>4, <1>5
       DEF Steer, IInv, TypeOK, QueueHasOwner, IdleIsClean, FlagIsAimed

LEMMA StartIInv ==
  ASSUME IInv, NEW m \in Msgs, Start(m)
  PROVE  IInv'
  <1>1. /\ \A x \in Msgs : x # m => where'[x] = where[x]
        /\ where'[m] = "running" /\ where[m] = "entering"
        /\ where' \in [Msgs -> Places]
    BY DEF Start, Move, IInv, TypeOK, Places, Working
  <1>2. ~open /\ open' /\ queue = <<>> /\ queue' = <<>> /\ ~cancel /\ ~cancel'
    BY DEF Start, IInv, IdleIsClean
  <1>3. Live = {}
    BY <1>2 DEF IInv, QueueHasOwner
  <1>4. Live' = {m}
    BY <1>1, <1>3 DEF Live, At
  <1>5. InQueue' = InQueue /\ At({"queued"})' = At({"queued"})
    BY <1>1, <1>2 DEF InQueue, At
  <1>6. reached' \in [Msgs -> Nat] /\ ReadOnce'
    <2>1. reached[m] = 0 /\ reached \in [Msgs -> Nat]
      BY <1>1 DEF IInv, ReadOnce, At, Unread, TypeOK
    <2>2. reached' = [reached EXCEPT ![m] = reached[m] + 1]
      BY DEF Start
    <2> QED
      BY <1>1, <2>1, <2>2 DEF IInv, ReadOnce, At, Unread
  <1> QED
    BY <1>1, <1>2, <1>4, <1>5, <1>6
       DEF Start, IInv, TypeOK, QueueHasOwner, IdleIsClean, FlagIsAimed

LEMMA DrainIInv == IInv /\ Drain => IInv'
  <1> SUFFICES ASSUME IInv, Drain PROVE IInv'
    OBVIOUS
  <1>1. InQueue = At({"queued"}) /\ InQueue \subseteq Msgs
    BY DEF IInv, QueueHasOwner, At
  <1>2. \A x \in Msgs : where'[x] = IF x \in InQueue THEN "folded" ELSE where[x]
    BY DEF Drain
  <1>3. where' \in [Msgs -> Places]
    BY DEF Drain, IInv, TypeOK, Places, Settled
  <1>4. Live' = Live /\ At({"queued"})' = {} /\ InQueue' = {}
    <2>1. Live' = Live /\ At({"queued"})' = {}
      BY <1>1, <1>2 DEF Live, At
    <2>2. queue' = <<>>
      BY DEF Drain
    <2> QED
      BY <2>1, <2>2 DEF InQueue
  <1>5. \A x \in Msgs : reached'[x] = IF x \in InQueue THEN reached[x] + 1
                                                      ELSE reached[x]
    BY DEF Drain
  <1>6. reached' \in [Msgs -> Nat]
    BY DEF Drain, IInv, TypeOK
  <1>7. ReadOnce'
    <2>1. \A x \in InQueue : reached[x] = 0
      BY <1>1 DEF IInv, ReadOnce, At, Unread
    <2> QED
      BY <1>1, <1>2, <1>5, <2>1 DEF IInv, ReadOnce, At, Unread
  <1> QED
    BY <1>3, <1>4, <1>6, <1>7
       DEF Drain, IInv, TypeOK, QueueHasOwner, IdleIsClean, FlagIsAimed

LEMMA RunEndsIInv ==
  ASSUME IInv, NEW m \in Msgs, NEW byStop \in BOOLEAN, RunEnds(m, byStop)
  PROVE  IInv'
  <1>1. /\ \A x \in Msgs : x # m => where'[x] = where[x]
        /\ where'[m] = "replying" /\ where[m] = "running"
        /\ where' \in [Msgs -> Places]
    BY DEF RunEnds, Move, IInv, TypeOK, Places, Working
  <1>2. /\ Live' = Live /\ m \in Live
        /\ At({"queued"})' = At({"queued"}) /\ InQueue' = InQueue
    BY <1>1 DEF Live, At, InQueue, RunEnds
  <1>3. ReadOnce'
    BY <1>1 DEF IInv, ReadOnce, At, Unread, RunEnds
  <1>4. cancelled' \subseteq aimed /\ cancelled' \in SUBSET Msgs
    BY <1>2 DEF RunEnds, IInv, FlagIsAimed, TypeOK
  <1> QED
    BY <1>1, <1>2, <1>3, <1>4
       DEF RunEnds, IInv, TypeOK, QueueHasOwner, IdleIsClean, FlagIsAimed

LEMMA FinishIInv ==
  ASSUME IInv, NEW m \in Msgs, Finish(m)
  PROVE  IInv'
  <1>1. InQueue = At({"queued"}) /\ m \in Live /\ m \notin InQueue
    BY DEF IInv, QueueHasOwner, At, Live, Finish
  <1>2. Live = {m}
    BY <1>1 DEF IInv, QueueHasOwner
  <1>3. /\ where'[m] = "done"
        /\ \A x \in InQueue : x # m => where'[x] \in {"entering", "limited"}
        /\ \A x \in Msgs : x # m /\ x \notin InQueue => where'[x] = where[x]
        /\ where' \in [Msgs -> Places]
    <2>1. where' = Replayed(m)
      BY DEF Finish
    <2> QED
      BY <1>1, <2>1 DEF Replayed, IInv, TypeOK, Places, Waiting, Settled, At
  <1>4. Live' = {} /\ At({"queued"})' = {}
    BY <1>1, <1>2, <1>3 DEF Live, At
  <1>5. queue' = <<>> /\ ~open' /\ ~cancel' /\ hits' \in Nat
    BY DEF Finish, IInv, TypeOK
  <1>6. InQueue' = {} /\ queue' \in Seq(Msgs)
    BY <1>5 DEF InQueue
  <1>7. ReadOnce'
    <2>1. \A x \in InQueue : reached[x] = 0
      BY <1>1 DEF IInv, ReadOnce, At, Unread
    <2> QED
      BY <1>1, <1>3, <2>1 DEF IInv, ReadOnce, At, Unread, Finish
  <1>8. TypeOK'
    BY <1>3, <1>5, <1>6 DEF Finish, IInv, TypeOK
  <1>9. QueueHasOwner' /\ IdleIsClean'
    BY <1>4, <1>5, <1>6 DEF QueueHasOwner, IdleIsClean
  <1>10. FlagIsAimed'
    BY <1>5 DEF Finish, IInv, FlagIsAimed
  <1> QED
    BY <1>7, <1>8, <1>9, <1>10 DEF IInv

LEMMA ExpireIInv == IInv /\ (Expire \/ UNCHANGED vars) => IInv'
  <1> SUFFICES ASSUME IInv, Expire \/ UNCHANGED vars PROVE IInv'
    OBVIOUS
  <1>1. hits' \in Nat
    BY DEF Expire, vars, IInv, TypeOK
  <1>2. UNCHANGED <<where, open, queue, cancel, aimed, cancelled, reached>>
    BY DEF Expire, vars
  <1> QED
    BY <1>1, <1>2 DEF IInv, TypeOK, QueueHasOwner, IdleIsClean, ReadOnce,
                      FlagIsAimed, InQueue, At, Live

LEMMA NextIInv == IInv /\ [Next]_vars => IInv'
  BY ReceiveIInv, AsideIInv, SteerIInv, StartIInv, DrainIInv, RunEndsIInv,
     FinishIInv, ExpireIInv
  DEF Next, Handle, Quiet

(* The inductive invariant holds in every behaviour of the session. *)
THEOREM Inductive == Spec => []IInv
  BY InitIInv, NextIInv, PTL DEF Spec

(* The session's state stays well typed. *)
THEOREM TypeCorrect == Spec => []TypeOK
  <1>1. IInv => TypeOK
    BY DEF IInv
  <1> QED
    BY <1>1, Inductive, PTL

(* One run per queue, and every queued message is in the queue of that run.  *)
THEOREM OneOwner == Spec => []QueueHasOwner
  <1>1. IInv => QueueHasOwner
    BY DEF IInv
  <1> QED
    BY <1>1, Inductive, PTL

(* No message is both folded in and replayed. *)
THEOREM HandledOnce == Spec => []ReachesOnce
  <1>1. IInv => ReachesOnce
    BY DEF IInv, ReadOnce, ReachesOnce
  <1> QED
    BY <1>1, Inductive, PTL

(* No stop ever cancels a run that started after it. *)
THEOREM StopIsAimed == Spec => []StopHitsItsRun
  <1>1. IInv => StopHitsItsRun
    BY DEF IInv, FlagIsAimed, StopHitsItsRun
  <1> QED
    BY <1>1, Inductive, PTL
-----------------------------------------------------------------------------
(* The dispatch of a message.  What is routed is inside the policy; a second *)
(* dispatch is made with "again", for which nothing is armed and which no    *)
(* way into a second dispatch takes; a note is made with "keeps".            *)

(* Where a dispatch is, and how many specialists ran for its message.        *)
RunsCounted ==
    /\ runs \in 0..2
    /\ call # None =>
          runs = (IF call.req.again THEN 1 ELSE 0)
                 + (IF call.pc = "answered" THEN 1 ELSE 0)

CallOK ==
    call # None =>
        /\ call \in [req : D!Request, pc : {"routing", "running", "answered"},
                     to : D!Routed \cup {None}, answer : D!Answers \cup {None}]
        /\ call.pc # "routing" => call.to \in D!Routed
        /\ call.pc = "answered" => call.answer \in D!Answers
        /\ call.pc = "answered" /\ call.answer = "sentinel"
              => call.to.cat = "research"
        /\ call.pc # "routing" /\ call.to.armed => ~call.req.again
        /\ call.req.text = "note" => call.req.keeps
        /\ Len(recorded) + failed < MaxMessages

RouteInv == /\ policy \in Policies /\ recorded \in Seq(D!Exchange)
            /\ failed \in Nat /\ failed <= MaxMessages
            /\ CallOK /\ RunsCounted /\ D!StaysInPolicy /\ D!NoteIsNotSaid

(* Whatever the cascade reads off a text, it ends in a category there is.    *)
LEMMA ClassifiedIsRoute ==
  ASSUME NEW previous
  PROVE  D!Classified(previous) \subseteq [cat : Categories, sticky : BOOLEAN]
  <1> SUFFICES ASSUME NEW look \in D!Look
               PROVE  D!Classify(look, previous)
                         \in [cat : Categories, sticky : BOOLEAN]
    BY DEF D!Classified
  <1>1. /\ look.pattern \in Hinted \cup {None}
        /\ look.keyword \in Hinted \cup {None}
        /\ look.model \in Categories \cup {None}
    BY DEF D!Look, D!Maybe
  <1>2. D!Asked(look) \in Categories
    BY <1>1, RouteAssumption DEF D!Asked, D!FirstOf
  <1>3. D!Sticks(look, previous) => D!Target(previous) \in Categories
    BY DEF D!Sticks
  <1> QED
    BY <1>1, <1>2, <1>3, RouteAssumption DEF D!Classify

(* The category a message is routed to is one the policy has, or chat, and   *)
(* its tools are those the policy leaves.                                    *)
LEMMA RoutedInPolicy ==
  ASSUME policy \in D!Policy, NEW route \in [cat : Categories, sticky : BOOLEAN],
         NEW req \in D!Request, NEW browsing
  PROVE  LET to == D!Routing(route, req, browsing)
         IN  /\ to \in D!Routed
             /\ policy.allowed # None => to.cat \in policy.allowed \cup {"chat"}
             /\ to.cat \in policy.restricted => to.cat = "chat"
             /\ to.tools \cap policy.denied = {}
             /\ to.armed => ~req.again
  <1> DEFINE cat == D!Enforced(route.cat, req)
             final == IF D!Guarded(cat, route.sticky, req) THEN "chat" ELSE cat
             tools == IF final = cat THEN ToolsOf[cat] \ policy.denied
                                     ELSE ToolsOf[final]
             to == D!Routing(route, req, browsing)
  <1>1. /\ policy.allowed # None => policy.allowed # {}
                                    /\ policy.allowed \subseteq Categories
        /\ policy.denied \subseteq Tools
    BY DEF D!Policy, D!Maybe
  <1>2. /\ cat \in Categories
        /\ policy.allowed # None => cat \in policy.allowed \cup {"chat"}
        /\ cat \in policy.restricted => cat = "chat"
    BY <1>1, RouteAssumption DEF D!Enforced
  <1>3. final \in {cat, "chat"} /\ final \in Categories
    BY <1>2, RouteAssumption
  <1>4. tools \subseteq Tools /\ tools \cap policy.denied = {}
    BY <1>2, <1>3, RouteAssumption
  <1>5. to = [cat |-> final, tools |-> tools,
              mode |-> D!Mode(final, tools, browsing), armed |-> D!Armed(cat, req)]
    BY DEF D!Routing
  <1>6. D!Mode(final, tools, browsing) \in {"bare", "loop", "pipeline"}
    BY DEF D!Mode
  <1>7. D!Armed(cat, req) \in BOOLEAN /\ (D!Armed(cat, req) => ~req.again)
    BY DEF D!Armed
  <1> HIDE DEF final, tools, cat
  <1>8. to \in D!Routed
    BY <1>3, <1>4, <1>5, <1>6, <1>7 DEF D!Routed
  <1> QED
    BY <1>2, <1>3, <1>4, <1>5, <1>7, <1>8

(* A dispatch begins: a new message, or a message handed on.                 *)
LEMMA DispatchBegins ==
  ASSUME RouteInv, UNCHANGED <<policy, recorded, failed>>,
         NEW req \in D!Request, call' = D!Dispatched(req),
         req.text = "note" => req.keeps,
         runs' = IF req.again THEN 1 ELSE 0,
         Len(recorded) + failed < MaxMessages
  PROVE  RouteInv'
  <1>1. /\ call' \in [req : D!Request, pc : {"routing", "running", "answered"},
                      to : D!Routed \cup {None}, answer : D!Answers \cup {None}]
        /\ call'.req = req /\ call'.pc = "routing"
    BY DEF D!Dispatched
  <1>2. CallOK' /\ RunsCounted'
    BY <1>1 DEF CallOK, RunsCounted
  <1> QED
    BY <1>1, <1>2 DEF RouteInv, D!StaysInPolicy, D!NoteIsNotSaid

LEMMA ReceiveRoute == RouteInv /\ D!Receive => RouteInv'
  <1> SUFFICES ASSUME RouteInv, D!Receive PROVE RouteInv'
    OBVIOUS
  <1>1. PICK override \in Categories \cup {None}, short \in BOOLEAN :
           call' = D!Dispatched([text |-> "own", keeps |-> FALSE,
                       override |-> override, again |-> FALSE, short |-> short])
    BY DEF D!Receive, D!Maybe
  <1> DEFINE req == [text |-> "own", keeps |-> FALSE, override |-> override,
                     again |-> FALSE, short |-> short]
  <1>2. req \in D!Request
    BY DEF D!Request, D!Texts, D!Maybe
  <1> QED
    BY <1>1, <1>2, DispatchBegins DEF D!Receive

LEMMA RouteRoute == RouteInv /\ D!Route => RouteInv'
  <1> SUFFICES ASSUME RouteInv, D!Route PROVE RouteInv'
    OBVIOUS
  <1>1. /\ call # None /\ call.pc = "routing"
        /\ UNCHANGED <<policy, recorded, runs, failed>>
    BY DEF D!Route
  <1>2. PICK route, browsing :
           /\ call' = [call EXCEPT !.pc = "running",
                                   !.to = D!Routing(route, call.req, browsing)]
           /\ route \in IF call.req.override # None
                        THEN {[cat |-> call.req.override, sticky |-> FALSE]}
                        ELSE D!Classified(D!Previous)
    BY DEF D!Route
  <1>3. call.req \in D!Request /\ policy \in D!Policy
    BY <1>1, RouteAssumption DEF RouteInv, CallOK
  <1>4. route \in [cat : Categories, sticky : BOOLEAN]
    <2>1. CASE call.req.override # None
      <3>1. call.req.override \in Categories
        BY <1>3, <2>1 DEF D!Request, D!Maybe
      <3>2. route = [cat |-> call.req.override, sticky |-> FALSE]
        BY <1>2, <2>1
      <3> QED
        BY <3>1, <3>2
    <2>2. CASE call.req.override = None
      <3>1. route \in D!Classified(D!Previous)
        BY <1>2, <2>2
      <3> QED
        BY <3>1, ClassifiedIsRoute
    <2> QED
      BY <2>1, <2>2
  <1> DEFINE to == D!Routing(route, call.req, browsing)
  <1>5. /\ to \in D!Routed
        /\ policy.allowed # None => to.cat \in policy.allowed \cup {"chat"}
        /\ to.cat \in policy.restricted => to.cat = "chat"
        /\ to.tools \cap policy.denied = {}
        /\ to.armed => ~call.req.again
    BY <1>3, <1>4, RoutedInPolicy
  <1> HIDE DEF to
  <1>6. /\ call' \in [req : D!Request, pc : {"routing", "running", "answered"},
                      to : D!Routed \cup {None}, answer : D!Answers \cup {None}]
        /\ call'.req = call.req /\ call'.pc = "running" /\ call'.to = to
    BY <1>1, <1>2, <1>5 DEF RouteInv, CallOK, to
  <1>7. CallOK'
    BY <1>1, <1>5, <1>6 DEF RouteInv, CallOK
  <1>8. RunsCounted'
    BY <1>1, <1>6 DEF RouteInv, RunsCounted
  <1>9. D!StaysInPolicy'
    BY <1>1, <1>5, <1>6 DEF D!StaysInPolicy
  <1> QED
    BY <1>1, <1>7, <1>8, <1>9 DEF RouteInv, D!NoteIsNotSaid

LEMMA RunRoute == RouteInv /\ D!Run => RouteInv'
  <1> SUFFICES ASSUME RouteInv, D!Run PROVE RouteInv'
    OBVIOUS
  <1>1. /\ call # None /\ call.pc = "running" /\ UNCHANGED <<policy, recorded>>
        /\ runs \in {0, 1} /\ runs' = runs + 1
    BY DEF D!Run, RouteInv, RunsCounted
  <1>2. CASE call' = None /\ failed' = failed + 1
    <2>1. failed' \in Nat /\ failed' <= MaxMessages
      BY <1>1, <1>2, RouteAssumption DEF RouteInv, CallOK
    <2> QED
      BY <1>1, <1>2, <2>1
         DEF RouteInv, CallOK, RunsCounted, D!StaysInPolicy, D!NoteIsNotSaid
  <1>3. ASSUME NEW a \in {"plain", "gap", "sentinel"}, UNCHANGED failed,
               a = "sentinel" => D!MayDecline(call.to),
               call' = [call EXCEPT !.pc = "answered", !.answer = a]
        PROVE  RouteInv'
    <2>1. /\ call' \in [req : D!Request, pc : {"routing", "running", "answered"},
                        to : D!Routed \cup {None}, answer : D!Answers \cup {None}]
          /\ call'.req = call.req /\ call'.pc = "answered" /\ call'.to = call.to
          /\ call'.answer \in D!Answers /\ call'.answer = a
      BY <1>1, <1>3 DEF RouteInv, CallOK, D!Answers
    <2>2. CallOK'
      BY <1>1, <1>3, <2>1 DEF RouteInv, CallOK, D!MayDecline
    <2>3. RunsCounted'
      BY <1>1, <2>1 DEF RouteInv, RunsCounted
    <2>4. D!StaysInPolicy'
      BY <1>1, <2>1 DEF RouteInv, D!StaysInPolicy
    <2> QED
      BY <1>1, <1>3, <2>2, <2>3, <2>4 DEF RouteInv, D!NoteIsNotSaid
  <1> QED
    BY <1>2, <1>3 DEF D!Run

(* Only a dispatch that was not handed on is handed on.                      *)
LEMMA HandedOn ==
  ASSUME RouteInv, D!Answered, UNCHANGED <<policy, recorded, runs, failed>>,
         ~call.req.again, NEW words \in D!Texts, NEW cat \in Categories,
         call' = D!Again(words, cat)
  PROVE  RouteInv'
  <1> DEFINE req == [text |-> words, keeps |-> words = "note", override |-> cat,
                     again |-> TRUE, short |-> FALSE]
  <1>1. req \in D!Request
    BY DEF D!Request, D!Maybe
  <1>2. runs' = 1 /\ Len(recorded) + failed < MaxMessages
    BY DEF RouteInv, RunsCounted, CallOK, D!Answered
  <1> QED
    BY <1>1, <1>2, DispatchBegins DEF D!Again

LEMMA HandOnRoute ==
  RouteInv /\ (D!Downgrade \/ D!SilentReroute \/ D!Reroute) => RouteInv'
  <1> SUFFICES ASSUME RouteInv, D!Downgrade \/ D!SilentReroute \/ D!Reroute
               PROVE  RouteInv'
    OBVIOUS
  <1> USE DEF D!Texts
  <1>1. D!Answered /\ UNCHANGED <<policy, recorded, runs, failed>>
    BY DEF D!Downgrade, D!SilentReroute, D!Reroute
  <1>2. D!Summaries \subseteq D!Texts
    BY DEF D!Summaries
  <1>3. CASE D!Downgrade
    <2>1. PICK words \in D!Texts : call' = D!Again(words, "web_search")
      BY <1>2, <1>3 DEF D!Downgrade
    <2>2. ~call.req.again
      BY <1>3 DEF D!Downgrade, D!Declined
    <2>3. "web_search" \in Categories
      BY <1>1, <1>3, RouteAssumption
         DEF D!Downgrade, D!Declined, D!Answered, RouteInv, CallOK, D!Routed
    <2> QED
      BY <1>1, <2>1, <2>2, <2>3, HandedOn
  <1>4. CASE D!SilentReroute
    <2>1. PICK words \in D!Texts, route \in D!Classified(None) :
             call' = D!Again(words, route.cat)
      BY <1>2, <1>4 DEF D!SilentReroute
    <2>2. ~call.req.again /\ route.cat \in Categories
      BY <1>4, ClassifiedIsRoute DEF D!SilentReroute, D!ChatGap
    <2> QED
      BY <1>1, <2>1, <2>2, HandedOn
  <1>5. CASE D!Reroute
    <2>1. PICK route \in D!Classified(None) : call' = D!Again("note", route.cat)
      BY <1>5 DEF D!Reroute
    <2>2. ~call.req.again /\ route.cat \in Categories
      BY <1>1, <1>5, ClassifiedIsRoute
         DEF D!Reroute, D!ArenaGap, D!Answered, RouteInv, CallOK
    <2> QED
      BY <1>1, <2>1, <2>2, HandedOn
  <1> QED
    BY <1>3, <1>4, <1>5

LEMMA FinishRoute == RouteInv /\ D!Finish => RouteInv'
  <1> SUFFICES ASSUME RouteInv, D!Finish PROVE RouteInv'
    OBVIOUS
  <1>1. call # None /\ call.pc = "answered" /\ call.answer \in D!Answers
    BY DEF D!Finish, D!Answered, RouteInv, CallOK
  <1>2. PICK answer \in D!Answers : D!Record(answer)
    BY <1>1 DEF D!Finish, D!Answers
  <1> DEFINE words == IF call.req.keeps THEN "own" ELSE call.req.text
             e == [text |-> words, cat |-> call.to.cat, answer |-> answer]
  <1>3. words \in D!Texts /\ words # "note"
    BY <1>1 DEF RouteInv, CallOK, D!Request, D!Texts
  <1>4. e \in D!Exchange /\ e.text # "note"
    BY <1>1, <1>2, <1>3 DEF RouteInv, CallOK, D!Routed, D!Exchange
  <1> HIDE DEF words
  <1>5. /\ recorded' = Append(recorded, e) /\ call' = None
        /\ UNCHANGED <<policy, runs, failed>>
    BY <1>2 DEF D!Record, words
  <1>6. recorded' \in Seq(D!Exchange) /\ D!NoteIsNotSaid'
    <2>1. recorded \in Seq(D!Exchange) /\ D!NoteIsNotSaid
      BY DEF RouteInv
    <2> QED
      BY <1>4, <1>5, <2>1 DEF D!NoteIsNotSaid
  <1> QED
    BY <1>5, <1>6 DEF RouteInv, CallOK, RunsCounted, D!StaysInPolicy

LEMMA InitRoute == D!Init => RouteInv
  <1> SUFFICES ASSUME D!Init PROVE RouteInv
    OBVIOUS
  <1>1. recorded = <<>> /\ recorded \in Seq(D!Exchange) /\ call = None
    BY DEF D!Init
  <1> QED
    BY <1>1, RouteAssumption DEF D!Init, RouteInv, CallOK, RunsCounted,
       D!StaysInPolicy, D!NoteIsNotSaid

LEMMA NextRoute == RouteInv /\ [D!Next]_routeVars => RouteInv'
  <1>1. RouteInv /\ UNCHANGED routeVars => RouteInv'
    BY DEF routeVars, RouteInv, CallOK, RunsCounted, D!StaysInPolicy,
       D!NoteIsNotSaid
  <1> QED
    BY <1>1, ReceiveRoute, RouteRoute, RunRoute, HandOnRoute, FinishRoute
       DEF D!Next
-----------------------------------------------------------------------------
(* The debouncers keep their types.                                          *)

LEMMA Handled ==
  ASSUME B!TypeOK, NEW x \in B!Item
  PROVE  /\ B!CollectText(x) => text' \in Seq(B!Item) /\ Len(text') <= 1
         /\ B!CollectMedia(x) => media' \in Seq(B!Item) /\ Len(media') <= 1
         /\ Append(handled, x) \in Seq(B!Item)
  <1>1. /\ text \in Seq(B!Item) /\ media \in Seq(B!Item)
        /\ handled \in Seq(B!Item)
    BY DEF B!TypeOK
  <1>3. /\ text # <<>> => text[1] \in B!Item
        /\ media # <<>> => media[1] \in B!Item
    BY <1>1
  <1>4. ASSUME text # <<>>
        PROVE  [text[1] EXCEPT !.texts = @ \o x.texts] \in B!Item
    <2>1. text[1].texts \o x.texts \in Seq(Parts)
      BY <1>3, <1>4 DEF B!Item
    <2> QED
      BY <1>3, <1>4, <2>1 DEF B!Item
  <1>5. ASSUME media # <<>>
        PROVE  [media[1] EXCEPT !.photos = @ \o x.photos] \in B!Item
    <2>1. media[1].photos \o x.photos \in Seq(Parts)
      BY <1>3, <1>5 DEF B!Item
    <2> QED
      BY <1>3, <1>5, <2>1 DEF B!Item
  <1> DEFINE joined == [text[1] EXCEPT !.texts = @ \o x.texts]
             album == [media[1] EXCEPT !.photos = @ \o x.photos]
  <1>6. /\ B!CollectText(x) => text' = IF text = <<>> THEN <<x>> ELSE <<joined>>
        /\ B!CollectMedia(x) => media' = IF media = <<>> THEN <<x>> ELSE <<album>>
    BY DEF B!CollectText, B!CollectMedia
  <1> HIDE DEF joined, album
  <1>7. /\ text # <<>> => joined \in B!Item
        /\ media # <<>> => album \in B!Item
    BY <1>4, <1>5 DEF joined, album
  <1>8. /\ <<x>> \in Seq(B!Item) /\ Len(<<x>>) <= 1
        /\ text # <<>> => <<joined>> \in Seq(B!Item) /\ Len(<<joined>>) <= 1
        /\ media # <<>> => <<album>> \in Seq(B!Item) /\ Len(<<album>>) <= 1
    BY <1>7
  <1>9. B!CollectText(x) => text' \in Seq(B!Item) /\ Len(text') <= 1
    BY <1>6, <1>8
  <1>10. B!CollectMedia(x) => media' \in Seq(B!Item) /\ Len(media') <= 1
    BY <1>6, <1>8
  <1>11. Append(handled, x) \in Seq(B!Item)
    BY <1>1
  <1> QED
    BY <1>9, <1>10, <1>11

LEMMA SplitTypes == B!TypeOK /\ [B!Next]_splitVars => B!TypeOK'
  <1> SUFFICES ASSUME B!TypeOK, [B!Next]_splitVars PROVE B!TypeOK'
    OBVIOUS
  <1>1. /\ sent \in Seq(B!Message) /\ handled \in Seq(B!Item)
        /\ media \in Seq(B!Item) /\ text \in Seq(B!Item)
        /\ Len(media) <= 1 /\ Len(text) <= 1
    BY DEF B!TypeOK
  <1>2. /\ text # <<>> => text[1] \in B!Item
        /\ media # <<>> => media[1] \in B!Item
    BY <1>1
  <1>3. ASSUME NEW m \in B!Message, B!Receive(m) PROVE B!TypeOK'
    <2>1. sent' \in Seq(B!Message)
      BY <1>1, <1>3 DEF B!Receive
    <2>2. B!AsItem(m) \in B!Item
      BY DEF B!AsItem, B!Item, B!Message, B!Sizes
    <2>3. \/ B!CollectMedia(B!AsItem(m)) /\ UNCHANGED <<text, handled>>
          \/ B!CollectText(B!AsItem(m)) /\ UNCHANGED <<media, handled>>
          \/ handled' = Append(handled, B!AsItem(m)) /\ UNCHANGED <<media, text>>
      BY <1>3 DEF B!Receive, B!Handle
    <2> QED
      BY <1>1, <2>1, <2>2, <2>3, Handled DEF B!TypeOK
  <1>4. CASE B!MediaFires
    <2> DEFINE x == [media[1] EXCEPT !.debounced = TRUE]
    <2>1. x \in B!Item /\ UNCHANGED sent
      BY <1>2, <1>4 DEF B!MediaFires, B!Item
    <2>2. \/ media' = <<x>> /\ UNCHANGED <<text, handled>>
          \/ media' = <<>> /\ B!CollectText(x) /\ UNCHANGED handled
          \/ media' = <<>> /\ handled' = Append(handled, x) /\ UNCHANGED text
      BY <1>4 DEF B!MediaFires
    <2> HIDE DEF x
    <2>3. /\ <<x>> \in Seq(B!Item) /\ Len(<<x>>) <= 1
          /\ <<>> \in Seq(B!Item) /\ Len(<<>>) <= 1
      BY <2>1
    <2>4. /\ B!CollectText(x) => text' \in Seq(B!Item) /\ Len(text') <= 1
          /\ Append(handled, x) \in Seq(B!Item)
      BY <2>1, Handled
    <2>5. media' \in Seq(B!Item) /\ Len(media') <= 1
      BY <2>2, <2>3
    <2>6. text' \in Seq(B!Item) /\ Len(text') <= 1 /\ handled' \in Seq(B!Item)
      BY <1>1, <2>2, <2>4
    <2> QED
      BY <1>1, <2>1, <2>5, <2>6 DEF B!TypeOK
  <1>5. CASE B!TextFires
    <2>1. [text[1] EXCEPT !.textBatched = TRUE] \in B!Item
      BY <1>2, <1>5 DEF B!TextFires, B!Item
    <2> QED
      BY <1>1, <1>5, <2>1 DEF B!TextFires, B!TypeOK
  <1>6. CASE UNCHANGED splitVars
    BY <1>6 DEF splitVars, B!TypeOK
  <1> QED
    BY <1>3, <1>4, <1>5, <1>6 DEF B!Next
-----------------------------------------------------------------------------
(* The parts of a message.  Of a sequence s of ids and the messages q that   *)
(* came: each is known; the texts in s are before those in t, or in their    *)
(* order, as they were written.                                              *)
Known(q, s) == \A k \in 1..Len(s) : \E n \in 1..Len(q) : q[n].id = s[k]

RealIn(q, n) == q[n].size \in {"long", "plain"}

Before(q, s, t) ==
    \A k \in 1..Len(s), l \in 1..Len(t) : \A n, m \in 1..Len(q) :
        RealIn(q, n) /\ q[n].id = s[k] /\ RealIn(q, m) /\ q[m].id = t[l] => n < m

Rising(q, s) ==
    \A k, l \in 1..Len(s) : k < l => \A n, m \in 1..Len(q) :
        RealIn(q, n) /\ q[n].id = s[k] /\ RealIn(q, m) /\ q[m].id = s[l] => n < m

Apart(s, t) == \A k \in 1..Len(s), l \in 1..Len(t) : s[k] # t[l]
Once(s) == \A k, l \in 1..Len(s) : s[k] = s[l] => k = l

Unique(q) == \A n, m \in 1..Len(q) : q[n].id = q[m].id => n = m

IsNew(q, m) == \A n \in 1..Len(q) : q[n].id # m.id

LEMMA Grown ==
  ASSUME NEW q \in Seq(B!Message), NEW m \in B!Message
  PROVE  /\ Append(q, m) \in Seq(B!Message) /\ Len(Append(q, m)) = Len(q) + 1
         /\ \A n \in 1..Len(q) : Append(q, m)[n] = q[n]
         /\ Append(q, m)[Len(q) + 1] = m
         /\ 1..(Len(q) + 1) = (1..Len(q)) \cup {Len(q) + 1} /\ Len(q) \in Nat
  OBVIOUS

(* A new message leaves the order of the others and comes after them.        *)
LEMMA NewIsLast ==
  ASSUME NEW q \in Seq(B!Message), NEW m \in B!Message, IsNew(q, m), Unique(q)
  PROVE  /\ Unique(Append(q, m))
         /\ Known(Append(q, m), <<m.id>>) /\ Rising(Append(q, m), <<m.id>>)
         /\ \A s : Known(q, s) => /\ Known(Append(q, m), s) /\ Apart(s, <<m.id>>)
                                  /\ Before(Append(q, m), s, <<m.id>>)
         /\ \A s, t : Known(q, s) /\ Known(q, t) /\ Before(q, s, t)
                      => Before(Append(q, m), s, t)
         /\ \A s : Known(q, s) /\ Rising(q, s) => Rising(Append(q, m), s)
  <1> DEFINE p == Append(q, m)
  <1>1. /\ Len(p) = Len(q) + 1 /\ \A n \in 1..Len(q) : p[n] = q[n]
        /\ p[Len(q) + 1] = m /\ 1..Len(p) = (1..Len(q)) \cup {Len(q) + 1} /\ Len(q) \in Nat
    BY Grown
  <1> HIDE DEF p
  <1>2. /\ \A n \in 1..Len(p) : p[n].id = m.id => n = Len(q) + 1
        /\ p[Len(q) + 1].id = m.id /\ Len(q) + 1 \in 1..Len(p)
    BY <1>1 DEF IsNew
  <1>3. Unique(p)
    BY <1>1, <1>2 DEF Unique
  <1>4. \A k \in 1..Len(<<m.id>>) : k = 1 /\ <<m.id>>[k] = m.id
    OBVIOUS
  <1>5. Known(p, <<m.id>>) /\ Rising(p, <<m.id>>)
    BY <1>2, <1>4 DEF Known, Rising
  <1>6. ASSUME NEW s, Known(q, s)
        PROVE  /\ \A k \in 1..Len(s), n \in 1..Len(p) : p[n].id = s[k] => n \in 1..Len(q)
               /\ Known(p, s) /\ Apart(s, <<m.id>>)
    <2>1. \A k \in 1..Len(s) : s[k] # m.id
      BY <1>6 DEF Known, IsNew
    <2>2. \A k \in 1..Len(s) : \E n \in 1..Len(p) : p[n].id = s[k]
      BY <1>1, <1>6 DEF Known
    <2>3. \A n \in 1..Len(p) : n \in 1..Len(q) \/ p[n].id = m.id
      BY <1>1
    <2> QED
      BY <2>1, <2>2, <2>3, <1>4 DEF Known, Apart
  <1>7. ASSUME NEW s, Known(q, s) PROVE Before(p, s, <<m.id>>)
    <2>1. ASSUME NEW k \in 1..Len(s), NEW l \in 1..Len(<<m.id>>), NEW n \in 1..Len(p),
                 NEW j \in 1..Len(p), p[n].id = s[k], p[j].id = <<m.id>>[l]
          PROVE  n < j
      <3>1. n \in 1..Len(q) /\ j = Len(q) + 1
        BY <1>2, <1>4, <1>6, <1>7, <2>1
      <3> QED
        BY <3>1, <1>1
    <2> QED
      BY <2>1 DEF Before
  <1>8. \A n \in 1..Len(q) : RealIn(p, n) <=> RealIn(q, n)
    BY <1>1 DEF RealIn
  <1>9. ASSUME NEW s, NEW t, Known(q, s), Known(q, t), Before(q, s, t) PROVE Before(p, s, t)
    <2>1. ASSUME NEW k \in 1..Len(s), NEW l \in 1..Len(t), NEW n \in 1..Len(p),
                 NEW j \in 1..Len(p), p[n].id = s[k], p[j].id = t[l],
                 RealIn(p, n), RealIn(p, j)
          PROVE  n < j
      <3>1. n \in 1..Len(q) /\ j \in 1..Len(q)
        BY <1>6, <1>9, <2>1
      <3> QED
        BY <3>1, <2>1, <1>1, <1>8, <1>9 DEF Before
    <2> QED
      BY <2>1 DEF Before
  <1>10. ASSUME NEW s, Known(q, s), Rising(q, s) PROVE Rising(p, s)
    <2>1. ASSUME NEW k \in 1..Len(s), NEW l \in 1..Len(s), k < l, NEW n \in 1..Len(p),
                 NEW j \in 1..Len(p), p[n].id = s[k], p[j].id = s[l],
                 RealIn(p, n), RealIn(p, j)
          PROVE  n < j
      <3>1. n \in 1..Len(q) /\ j \in 1..Len(q)
        BY <1>6, <1>10, <2>1
      <3> QED
        BY <3>1, <2>1, <1>1, <1>8, <1>10 DEF Rising
    <2> QED
      BY <2>1 DEF Rising
  <1> QED
    BY <1>3, <1>5, <1>6, <1>7, <1>9, <1>10 DEF p

(* Of two sequences one after the other.                                     *)
LEMMA JoinedAt ==
  ASSUME NEW s \in Seq(Parts), NEW t \in Seq(Parts)
  PROVE  /\ s \o t \in Seq(Parts) /\ Len(s) \in Nat /\ Len(t) \in Nat
         /\ Len(s \o t) = Len(s) + Len(t)
         /\ \A k \in 1..Len(s) : k \in 1..Len(s \o t) /\ (s \o t)[k] = s[k]
         /\ \A k \in 1..Len(t) : /\ Len(s) + k \in 1..Len(s \o t)
                                 /\ (s \o t)[Len(s) + k] = t[k]
         /\ \A k \in 1..Len(s \o t) :
               \/ k \in 1..Len(s) /\ (s \o t)[k] = s[k]
               \/ k > Len(s) /\ k - Len(s) \in 1..Len(t) /\ (s \o t)[k] = t[k - Len(s)]
  <1>1. /\ s \o t \in Seq(Parts) /\ Len(s) \in Nat /\ Len(t) \in Nat
        /\ Len(s \o t) = Len(s) + Len(t)
    OBVIOUS
  <1>2. ASSUME NEW k \in 1..Len(s) PROVE k \in 1..Len(s \o t) /\ (s \o t)[k] = s[k]
    BY <1>1
  <1>3. ASSUME NEW k \in 1..Len(t)
        PROVE  Len(s) + k \in 1..Len(s \o t) /\ (s \o t)[Len(s) + k] = t[k]
    BY <1>1
  <1>4. ASSUME NEW k \in 1..Len(s \o t), k \notin 1..Len(s)
        PROVE  k > Len(s) /\ k - Len(s) \in 1..Len(t) /\ (s \o t)[k] = t[k - Len(s)]
    BY <1>1, <1>4
  <1>5. \A k \in 1..Len(s \o t) :
           \/ k \in 1..Len(s) /\ (s \o t)[k] = s[k]
           \/ k > Len(s) /\ k - Len(s) \in 1..Len(t) /\ (s \o t)[k] = t[k - Len(s)]
    BY <1>2, <1>4, Zenon
  <1> QED
    BY <1>1, <1>2, <1>3, <1>5, Zenon

LEMMA OneAfterOther ==
  ASSUME NEW q, NEW s \in Seq(Parts), NEW t \in Seq(Parts)
  PROVE  /\ Known(q, s) /\ Known(q, t) => Known(q, s \o t)
         /\ \A r : Before(q, r, s) /\ Before(q, r, t) => Before(q, r, s \o t)
         /\ \A r : Before(q, s, r) /\ Before(q, t, r) => Before(q, s \o t, r)
         /\ Rising(q, s) /\ Rising(q, t) /\ Before(q, s, t) => Rising(q, s \o t)
         /\ \A r : Apart(r, s) /\ Apart(r, t) => Apart(r, s \o t)
         /\ Once(s) /\ Once(t) /\ Apart(s, t) => Once(s \o t)
  <1> DEFINE u == s \o t
  <1>1. /\ Len(s) \in Nat /\ Len(t) \in Nat
        /\ \A k \in 1..Len(u) :
               \/ k \in 1..Len(s) /\ u[k] = s[k]
               \/ k > Len(s) /\ k - Len(s) \in 1..Len(t) /\ u[k] = t[k - Len(s)]
    BY JoinedAt
  <1> HIDE DEF u
  <1>2. Known(q, s) /\ Known(q, t) => Known(q, u)
    BY <1>1 DEF Known
  <1>3. \A r : Before(q, r, s) /\ Before(q, r, t) => Before(q, r, u)
    BY <1>1 DEF Before
  <1>4. \A r : Before(q, s, r) /\ Before(q, t, r) => Before(q, u, r)
    BY <1>1 DEF Before
  <1>5. ASSUME Rising(q, s), Rising(q, t), Before(q, s, t) PROVE Rising(q, u)
    <2>1. ASSUME NEW k \in 1..Len(u), NEW l \in 1..Len(u), k < l, NEW n \in 1..Len(q),
                 NEW j \in 1..Len(q), q[n].id = u[k], q[j].id = u[l],
                 RealIn(q, n), RealIn(q, j)
          PROVE  n < j
      <3>1. CASE k \in 1..Len(s) /\ u[k] = s[k] /\ l \in 1..Len(s) /\ u[l] = s[l]
        BY <3>1, <2>1, <1>5 DEF Rising
      <3>2. CASE /\ k \in 1..Len(s) /\ u[k] = s[k]
                 /\ l - Len(s) \in 1..Len(t) /\ u[l] = t[l - Len(s)]
        BY <3>2, <2>1, <1>5 DEF Before
      <3>3. CASE /\ k > Len(s) /\ k - Len(s) \in 1..Len(t) /\ u[k] = t[k - Len(s)]
                 /\ l - Len(s) \in 1..Len(t) /\ u[l] = t[l - Len(s)]
        <4>1. k - Len(s) < l - Len(s)
          BY <1>1, <2>1
        <4> QED
          BY <4>1, <3>3, <2>1, <1>5 DEF Rising
      <3>4. k > Len(s) => l \notin 1..Len(s)
        BY <1>1, <2>1
      <3> QED
        BY <3>1, <3>2, <3>3, <3>4, <1>1, <2>1
    <2> QED
      BY <2>1 DEF Rising
  <1>6. \A r : Apart(r, s) /\ Apart(r, t) => Apart(r, u)
    BY <1>1 DEF Apart
  <1>7. ASSUME Once(s), Once(t), Apart(s, t) PROVE Once(u)
    BY <1>1, <1>7 DEF Once, Apart
  <1> QED
    BY <1>2, <1>3, <1>4, <1>5, <1>6, <1>7 DEF u
-----------------------------------------------------------------------------
(* A row of items: each is of known parts in their order, the later ones     *)
(* after the earlier ones, and no photo is there twice.                      *)
After(q, x, y) == Before(q, x.texts, y.texts) /\ Apart(x.photos, y.photos)
Sound(q, x) == /\ Known(q, x.texts) /\ Rising(q, x.texts)
               /\ Known(q, x.photos) /\ Once(x.photos)
Row(q, xs) == /\ \A i \in 1..Len(xs) : Sound(q, xs[i])
              /\ \A i, j \in 1..Len(xs) : i < j => After(q, xs[i], xs[j])
Behind(q, xs, ys) == \A i \in 1..Len(xs), j \in 1..Len(ys) : After(q, xs[i], ys[j])

(* The handled ones h, the open paste t and the open album md.               *)
Tidy(q, h, t, md) == /\ Row(q, h) /\ Row(q, t) /\ Row(q, md)
                     /\ Behind(q, h, t) /\ Behind(q, h, md) /\ Behind(q, t, md)

LEMMA Single ==
  ASSUME NEW q, NEW x
  PROVE  /\ Row(q, <<x>>) <=> Sound(q, x)
         /\ \A xs : Behind(q, xs, <<x>>) <=> \A i \in 1..Len(xs) : After(q, xs[i], x)
         /\ \A xs : Behind(q, <<x>>, xs) <=> \A i \in 1..Len(xs) : After(q, x, xs[i])
         /\ Row(q, <<>>) /\ \A xs : Behind(q, xs, <<>>) /\ Behind(q, <<>>, xs)
  <1>1. /\ \A i \in 1..Len(<<x>>) : i = 1 /\ <<x>>[i] = x
        /\ 1 \in 1..Len(<<x>>) /\ <<x>>[1] = x /\ 1..Len(<<>>) = {}
    OBVIOUS
  <1>2. Row(q, <<x>>) <=> Sound(q, x)
    BY <1>1 DEF Row
  <1> QED
    BY <1>1, <1>2 DEF Row, Behind

LEMMA OnlyOne == ASSUME NEW S, NEW xs \in Seq(S), Len(xs) <= 1
                 PROVE  xs # <<>> => xs = <<xs[1]>> /\ xs[1] \in S
  <1> SUFFICES ASSUME xs # <<>> PROVE xs = <<xs[1]>> /\ xs[1] \in S
    OBVIOUS
  <1>1. Len(xs) = 1 /\ xs[1] \in S
    <2>1. Len(xs) \in Nat /\ Len(xs) # 0
      BY EmptySeq
    <2>2. Len(xs) = 1
      BY <2>1
    <2>3. 1 \in 1..Len(xs)
      BY <2>2
    <2> QED
      BY <2>2, <2>3, ElementOfSeq
  <1> DEFINE e == xs[1]
  <1> HIDE DEF e
  <1>2. /\ <<e>> \in Seq(S) /\ Len(<<e>>) = 1 /\ <<e>>[1] = e
    BY <1>1 DEF e
  <1>3. xs = <<e>>
    <2>1. \A i \in 1..Len(xs) : xs[i] = <<e>>[i]
      BY <1>1, <1>2 DEF e
    <2> QED
      BY <1>1, <1>2, <2>1, SeqEqual
  <1> QED
    BY <1>1, <1>3 DEF e

LEMMA RowGrows ==
  ASSUME NEW q, NEW h \in Seq(B!Item), NEW x \in B!Item
  PROVE  /\ Row(q, h) /\ Sound(q, x) /\ Behind(q, h, <<x>>) => Row(q, Append(h, x))
         /\ \A ys : Behind(q, h, ys) /\ Behind(q, <<x>>, ys) => Behind(q, Append(h, x), ys)
  <1> DEFINE g == Append(h, x)
  <1>1. /\ 1..Len(g) = (1..Len(h)) \cup {Len(h) + 1} /\ Len(h) \in Nat
        /\ \A i \in 1..Len(h) : g[i] = h[i]
        /\ g[Len(h) + 1] = x
    OBVIOUS
  <1> HIDE DEF g
  <1>2. ASSUME Row(q, h), Sound(q, x), Behind(q, h, <<x>>) PROVE Row(q, g)
    <2>1. \A i \in 1..Len(h) : After(q, h[i], x)
      BY <1>2, Single
    <2>2. \A i \in 1..Len(g) : Sound(q, g[i])
      BY <1>1, <1>2 DEF Row
    <2>3. ASSUME NEW i \in 1..Len(g), NEW j \in 1..Len(g), i < j PROVE After(q, g[i], g[j])
      <3>1. CASE j \in 1..Len(h)
        <4>1. i \in 1..Len(h)
          BY <1>1, <2>3, <3>1
        <4> QED
          BY <4>1, <3>1, <2>3, <1>1, <1>2 DEF Row
      <3>2. CASE j = Len(h) + 1
        <4>1. i \in 1..Len(h)
          BY <1>1, <2>3, <3>2
        <4> QED
          BY <4>1, <3>2, <2>1, <1>1
      <3> QED
        BY <3>1, <3>2, <1>1
    <2> QED
      BY <2>2, <2>3 DEF Row
  <1>3. ASSUME NEW ys, Behind(q, h, ys), Behind(q, <<x>>, ys) PROVE Behind(q, g, ys)
    <2>1. \A i \in 1..Len(ys) : After(q, x, ys[i])
      BY <1>3, Single
    <2> QED
      BY <1>1, <1>3, <2>1 DEF Behind
  <1> QED
    BY <1>2, <1>3 DEF g

LEMMA ApartEitherWay == \A s, t : Apart(s, t) => Apart(t, s)
  BY DEF Apart

LEMMA NothingBefore == \A q, s : Before(q, <<>>, s) /\ Before(q, s, <<>>)
  <1>1. 1..Len(<<>>) = {}
    OBVIOUS
  <1> QED
    BY <1>1 DEF Before

(* An item that comes after all others opens the paste, joins it or goes on. *)
LEMMA TidyGoesOn ==
  ASSUME NEW q, NEW h \in Seq(B!Item), NEW t \in Seq(B!Item), NEW md \in Seq(B!Item),
         Len(t) <= 1, NEW x \in B!Item, Tidy(q, h, t, md), Sound(q, x),
         Behind(q, h, <<x>>), Behind(q, t, <<x>>), Behind(q, <<x>>, md)
  PROVE  /\ Tidy(q, h, <<x>>, md)
         /\ t # <<>> => Tidy(q, h, <<[t[1] EXCEPT !.texts = @ \o x.texts]>>, md)
         /\ t = <<>> \/ x.texts = <<>> => Tidy(q, Append(h, x), t, md)
  <1>1. Tidy(q, h, <<x>>, md)
    BY Single DEF Tidy
  <1>2. ASSUME t # <<>>
        PROVE  Tidy(q, h, <<[t[1] EXCEPT !.texts = @ \o x.texts]>>, md)
    <2> DEFINE y == t[1]
               z == [y EXCEPT !.texts = @ \o x.texts]
    <2>1. t = <<y>> /\ y \in B!Item
      BY <1>2, OnlyOne
    <2> HIDE DEF y
    <2>2. /\ y.texts \in Seq(Parts) /\ x.texts \in Seq(Parts)
          /\ z.texts = y.texts \o x.texts /\ z.photos = y.photos
      BY <2>1 DEF B!Item
    <2>3. /\ Sound(q, y) /\ After(q, y, x)
          /\ \A i \in 1..Len(h) : After(q, h[i], y) /\ After(q, h[i], x)
          /\ \A i \in 1..Len(md) : After(q, y, md[i]) /\ After(q, x, md[i])
      <3>1. Row(q, <<y>>) /\ Behind(q, h, <<y>>) /\ Behind(q, <<y>>, md)
            /\ Behind(q, <<y>>, <<x>>)
        BY <2>1 DEF Tidy
      <3>2. After(q, y, x)
        <4>1. 1 \in 1..Len(<<y>>) /\ <<y>>[1] = y
          OBVIOUS
        <4> QED
          BY <3>1, <4>1, Single
      <3> QED
        BY <3>1, <3>2, Single
    <2> HIDE DEF z
    <2>4. Sound(q, z)
      BY <2>2, <2>3, OneAfterOther DEF Sound, After
    <2>5. \A i \in 1..Len(h) : After(q, h[i], z)
      BY <2>2, <2>3, OneAfterOther DEF After
    <2>6. \A i \in 1..Len(md) : After(q, z, md[i])
      BY <2>2, <2>3, OneAfterOther DEF After
    <2>7. Tidy(q, h, <<z>>, md)
      BY <2>4, <2>5, <2>6, Single DEF Tidy
    <2> QED
      BY <2>7 DEF z, y
  <1>3. ASSUME t = <<>> \/ x.texts = <<>> PROVE Tidy(q, Append(h, x), t, md)
    <2>1. Behind(q, <<x>>, t)
      <3>1. CASE t = <<>>
        BY <3>1, Single
      <3>2. CASE x.texts = <<>>
        <4>1. \A i \in 1..Len(t) : After(q, t[i], x)
          BY Single
        <4>2. \A i \in 1..Len(t) : After(q, x, t[i])
          BY <3>2, <4>1, ApartEitherWay, NothingBefore DEF After
        <4> QED
          BY <4>2, Single
      <3> QED
        BY <1>3, <3>1, <3>2
    <2> QED
      BY <2>1, RowGrows DEF Tidy
  <1> QED
    BY <1>1, <1>2, <1>3

(* A photo joins the album, whose texts nobody has to keep in order.         *)
Unreal(q, s) == \A k \in 1..Len(s), n \in 1..Len(q) : q[n].id = s[k] => ~RealIn(q, n)

LEMMA UnrealFits ==
  ASSUME NEW q, NEW s, Unreal(q, s)
  PROVE  Rising(q, s) /\ \A r : Before(q, r, s) /\ Before(q, s, r)
  BY DEF Unreal, Rising, Before

LEMMA TidyAlbum ==
  ASSUME NEW q, NEW h \in Seq(B!Item), NEW t \in Seq(B!Item), NEW md \in Seq(B!Item),
         Len(md) <= 1, NEW x \in B!Item, Tidy(q, h, t, md), Sound(q, x),
         Behind(q, h, <<x>>), Behind(q, t, <<x>>), Behind(q, md, <<x>>)
  PROVE  /\ Tidy(q, h, t, <<x>>)
         /\ md # <<>> => Tidy(q, h, t, <<[md[1] EXCEPT !.photos = @ \o x.photos]>>)
  <1>1. Tidy(q, h, t, <<x>>)
    BY Single DEF Tidy
  <1>2. ASSUME md # <<>>
        PROVE  Tidy(q, h, t, <<[md[1] EXCEPT !.photos = @ \o x.photos]>>)
    <2> DEFINE y == md[1]
               z == [y EXCEPT !.photos = @ \o x.photos]
    <2>1. md = <<y>> /\ y \in B!Item
      BY <1>2, OnlyOne
    <2> HIDE DEF y
    <2>2. /\ y.photos \in Seq(Parts) /\ x.photos \in Seq(Parts)
          /\ z.photos = y.photos \o x.photos /\ z.texts = y.texts
      BY <2>1 DEF B!Item
    <2>3. /\ Sound(q, y) /\ After(q, y, x)
          /\ \A i \in 1..Len(h) : After(q, h[i], y) /\ After(q, h[i], x)
          /\ \A i \in 1..Len(t) : After(q, t[i], y) /\ After(q, t[i], x)
      <3>1. Row(q, <<y>>) /\ Behind(q, h, <<y>>) /\ Behind(q, t, <<y>>)
            /\ Behind(q, <<y>>, <<x>>)
        BY <2>1 DEF Tidy
      <3>2. After(q, y, x)
        <4>1. 1 \in 1..Len(<<y>>) /\ <<y>>[1] = y
          OBVIOUS
        <4> QED
          BY <3>1, <4>1, Single
      <3> QED
        BY <3>1, <3>2, Single
    <2> HIDE DEF z
    <2>4. Sound(q, z)
      BY <2>2, <2>3, OneAfterOther DEF Sound, After
    <2>5. /\ \A i \in 1..Len(h) : After(q, h[i], z)
          /\ \A i \in 1..Len(t) : After(q, t[i], z)
      BY <2>2, <2>3, OneAfterOther DEF After
    <2>7. Tidy(q, h, t, <<z>>)
      BY <2>4, <2>5, Single DEF Tidy
    <2> QED
      BY <2>7 DEF z, y
  <1> QED
    BY <1>1, <1>2
-----------------------------------------------------------------------------
(* What is there: a text or a photo of an item; a later text of a paste that *)
(* came with a photo, which then is lost.                                    *)
TextOf(x, e) == \E k \in 1..Len(x.texts) : x.texts[k] = e
PhotoOf(x, e) == \E k \in 1..Len(x.photos) : x.photos[k] = e
WithPhoto(q, e) == \E n \in 1..Len(q) : q[n].id = e /\ q[n].photo
LateOf(q, x) == \E k \in 2..Len(x.texts) : WithPhoto(q, x.texts[k])

HasText(xs, e) == \E i \in 1..Len(xs) : TextOf(xs[i], e)
HasPhoto(xs, e) == \E i \in 1..Len(xs) : PhotoOf(xs[i], e)
HasLate(q, xs) == \E i \in 1..Len(xs) : LateOf(q, xs[i])

TextsThere(q, h, t) ==
    \A n \in 1..Len(q) : RealIn(q, n) => HasText(h, q[n].id) \/ HasText(t, q[n].id)
PhotosThere(q, h, t, md) ==
    \/ HasLate(q, h) \/ HasLate(q, t) \/ HasLate(q, md)
    \/ \A n \in 1..Len(q) : q[n].photo =>
          HasPhoto(h, q[n].id) \/ HasPhoto(t, q[n].id) \/ HasPhoto(md, q[n].id)

(* The same, but for an item that is on its way. *)
TextsBut(q, h, t, x) ==
    \A n \in 1..Len(q) : RealIn(q, n) =>
        HasText(h, q[n].id) \/ HasText(t, q[n].id) \/ TextOf(x, q[n].id)
PhotosBut(q, h, t, md, x) ==
    \/ HasLate(q, h) \/ HasLate(q, t) \/ HasLate(q, md) \/ LateOf(q, x)
    \/ \A n \in 1..Len(q) : q[n].photo =>
          \/ HasPhoto(h, q[n].id) \/ HasPhoto(t, q[n].id) \/ HasPhoto(md, q[n].id)
          \/ PhotoOf(x, q[n].id)

LEMMA SingleHas ==
  ASSUME NEW x
  PROVE  /\ \A e : /\ HasText(<<x>>, e) <=> TextOf(x, e)
                   /\ HasPhoto(<<x>>, e) <=> PhotoOf(x, e)
                   /\ ~HasText(<<>>, e) /\ ~HasPhoto(<<>>, e)
         /\ \A q : (HasLate(q, <<x>>) <=> LateOf(q, x)) /\ ~HasLate(q, <<>>)
  <1>1. /\ \A i \in 1..Len(<<x>>) : i = 1 /\ <<x>>[i] = x
        /\ 1 \in 1..Len(<<x>>) /\ <<x>>[1] = x /\ 1..Len(<<>>) = {}
    OBVIOUS
  <1> QED
    BY <1>1 DEF HasText, HasPhoto, HasLate

LEMMA GrownHas ==
  ASSUME NEW h \in Seq(B!Item), NEW x \in B!Item
  PROVE  /\ \A e : /\ HasText(h, e) \/ TextOf(x, e) => HasText(Append(h, x), e)
                   /\ HasPhoto(h, e) \/ PhotoOf(x, e) => HasPhoto(Append(h, x), e)
         /\ \A q : HasLate(q, h) \/ LateOf(q, x) => HasLate(q, Append(h, x))
  <1> DEFINE g == Append(h, x)
  <1>1. /\ \A i \in 1..Len(h) : i \in 1..Len(g) /\ g[i] = h[i]
        /\ Len(h) + 1 \in 1..Len(g) /\ g[Len(h) + 1] = x
    OBVIOUS
  <1> HIDE DEF g
  <1>2. \A e : /\ HasText(h, e) \/ TextOf(x, e) => HasText(g, e)
               /\ HasPhoto(h, e) \/ PhotoOf(x, e) => HasPhoto(g, e)
    BY <1>1 DEF HasText, HasPhoto
  <1>3. \A q : HasLate(q, h) \/ LateOf(q, x) => HasLate(q, g)
    BY <1>1 DEF HasLate
  <1> QED
    BY <1>2, <1>3 DEF g

LEMMA PastedHas ==
  ASSUME NEW y \in B!Item, NEW x \in B!Item
  PROVE  LET z == [y EXCEPT !.texts = @ \o x.texts]
         IN /\ \A e : /\ TextOf(y, e) \/ TextOf(x, e) => TextOf(z, e)
                      /\ PhotoOf(y, e) => PhotoOf(z, e)
            /\ \A q : LateOf(q, y) \/ LateOf(q, x) => LateOf(q, z)
            /\ \A q : /\ y.texts # <<>>
                      /\ \E k \in 1..Len(x.texts) : WithPhoto(q, x.texts[k])
                      => LateOf(q, z)
  <1> DEFINE s == y.texts
             t == x.texts
             z == [y EXCEPT !.texts = @ \o x.texts]
  <1>1. s \in Seq(Parts) /\ t \in Seq(Parts) /\ z.texts = s \o t /\ z.photos = y.photos
    BY DEF B!Item
  <1>2. /\ Len(s) \in Nat /\ Len(t) \in Nat /\ (s # <<>> => Len(s) > 0)
    BY <1>1, EmptySeq
  <1> DEFINE u == s \o t
  <1>3. /\ \A k \in 1..Len(s) : k \in 1..Len(u) /\ u[k] = s[k]
        /\ \A k \in 1..Len(t) : Len(s) + k \in 1..Len(u) /\ u[Len(s) + k] = t[k]
    BY <1>1, JoinedAt
  <1>4. \A e : /\ TextOf(y, e) \/ TextOf(x, e) => TextOf(z, e)
               /\ PhotoOf(y, e) => PhotoOf(z, e)
    <2> HIDE DEF z
    <2> QED
      BY <1>1, <1>3 DEF TextOf, PhotoOf
  <1> HIDE DEF z
  <1>5. ASSUME NEW q, NEW k \in 2..Len(s), WithPhoto(q, s[k]) PROVE LateOf(q, z)
    <2>1. k \in 2..Len(u) /\ u[k] = s[k]
      <3>1. k \in 1..Len(s) /\ k # 1
        BY <1>2
      <3>2. k \in 1..Len(u) /\ u[k] = s[k]
        BY <1>3, <3>1
      <3> HIDE DEF s, t, u
      <3> QED
        BY <3>1, <3>2
    <2> QED
      BY <2>1, <1>1, <1>5 DEF LateOf
  <1>6. ASSUME NEW q, NEW k \in 1..Len(t), WithPhoto(q, t[k]), k > 1 \/ Len(s) > 0
        PROVE  LateOf(q, z)
    <2>1. Len(s) + k \in 2..Len(u) /\ u[Len(s) + k] = t[k]
      <3>1. Len(s) + k \in 1..Len(u) /\ u[Len(s) + k] = t[k]
        BY <1>3
      <3>2. Len(s) + k # 1
        BY <1>2, <1>6
      <3> HIDE DEF s, t, u
      <3> QED
        BY <3>1, <3>2
    <2> QED
      BY <2>1, <1>1, <1>6 DEF LateOf
  <1>7. ASSUME NEW q, LateOf(q, y) \/ LateOf(q, x) PROVE LateOf(q, z)
    <2>1. CASE LateOf(q, y)
      BY <2>1, <1>1, <1>5 DEF LateOf
    <2>2. CASE LateOf(q, x)
      <3>1. PICK k \in 2..Len(t) : WithPhoto(q, t[k])
        BY <2>2 DEF LateOf
      <3>2. k \in 1..Len(t) /\ k > 1
        BY <1>2
      <3> QED
        BY <3>1, <3>2, <1>6
    <2> QED
      BY <1>7, <2>1, <2>2
  <1>8. ASSUME NEW q, y.texts # <<>>, NEW k \in 1..Len(x.texts), WithPhoto(q, x.texts[k])
        PROVE  LateOf(q, z)
    BY <1>2, <1>6, <1>8
  <1> QED
    BY <1>4, <1>7, <1>8 DEF z

LEMMA AlbumHas ==
  ASSUME NEW y \in B!Item, NEW x \in B!Item
  PROVE  LET z == [y EXCEPT !.photos = @ \o x.photos]
         IN /\ \A e : PhotoOf(y, e) \/ PhotoOf(x, e) => PhotoOf(z, e)
            /\ \A q : LateOf(q, y) => LateOf(q, z)
  <1> DEFINE z == [y EXCEPT !.photos = @ \o x.photos]
  <1>1. /\ y.photos \in Seq(Parts) /\ x.photos \in Seq(Parts)
        /\ z.photos = y.photos \o x.photos /\ z.texts = y.texts
    BY DEF B!Item
  <1> DEFINE u == y.photos \o x.photos
  <1>2. /\ \A k \in 1..Len(y.photos) : k \in 1..Len(u) /\ u[k] = y.photos[k]
        /\ \A k \in 1..Len(x.photos) : /\ Len(y.photos) + k \in 1..Len(u)
                                       /\ u[Len(y.photos) + k] = x.photos[k]
    BY <1>1, JoinedAt
  <1> HIDE DEF z, u
  <1>3. \A e : PhotoOf(y, e) \/ PhotoOf(x, e) => PhotoOf(z, e)
    BY <1>1, <1>2 DEF PhotoOf, u
  <1>4. \A q : LateOf(q, y) => LateOf(q, z)
    BY <1>1 DEF LateOf
  <1> QED
    BY <1>3, <1>4 DEF z
-----------------------------------------------------------------------------
(* Whatever an item on its way does, nothing goes missing by it.             *)
LEMMA ThereGoesOn ==
  ASSUME NEW q, NEW h \in Seq(B!Item), NEW t \in Seq(B!Item), NEW md \in Seq(B!Item),
         Len(t) <= 1, NEW x \in B!Item,
         TextsBut(q, h, t, x), PhotosBut(q, h, t, md, x)
  PROVE  /\ t = <<>> => TextsThere(q, h, <<x>>) /\ PhotosThere(q, h, <<x>>, md)
         /\ /\ t # <<>> /\ t[1].texts # <<>>
            /\ x.photos # <<>> => \E k \in 1..Len(x.texts) : WithPhoto(q, x.texts[k])
            => LET z == <<[t[1] EXCEPT !.texts = @ \o x.texts]>>
               IN TextsThere(q, h, z) /\ PhotosThere(q, h, z, md)
         /\ TextsThere(q, Append(h, x), t) /\ PhotosThere(q, Append(h, x), t, md)
  <1>1. ASSUME t = <<>> PROVE TextsThere(q, h, <<x>>) /\ PhotosThere(q, h, <<x>>, md)
    BY <1>1, SingleHas DEF TextsThere, PhotosThere, TextsBut, PhotosBut
  <1>2. ASSUME t # <<>>, t[1].texts # <<>>,
               x.photos # <<>> => \E k \in 1..Len(x.texts) : WithPhoto(q, x.texts[k])
        PROVE  LET z == <<[t[1] EXCEPT !.texts = @ \o x.texts]>>
               IN TextsThere(q, h, z) /\ PhotosThere(q, h, z, md)
    <2> DEFINE y == t[1]
               z == [y EXCEPT !.texts = @ \o x.texts]
    <2>1. t = <<y>> /\ y \in B!Item
      BY <1>2, OnlyOne
    <2>2. y.texts # <<>>
      BY <1>2
    <2> HIDE DEF y
    <2>3. /\ \A e : /\ TextOf(y, e) \/ TextOf(x, e) => TextOf(z, e)
                    /\ PhotoOf(y, e) => PhotoOf(z, e)
          /\ LateOf(q, y) \/ LateOf(q, x) => LateOf(q, z)
          /\ x.photos # <<>> => LateOf(q, z)
      BY <2>1, <2>2, <1>2, PastedHas
    <2>4. \A e : x.photos = <<>> => ~PhotoOf(x, e)
      <3>1. 1..Len(<<>>) = {}
        OBVIOUS
      <3> QED
        BY <3>1 DEF PhotoOf
    <2> HIDE DEF z
    <2>5. /\ TextsBut(q, h, <<y>>, x) /\ PhotosBut(q, h, <<y>>, md, x)
      BY <2>1
    <2>6. TextsThere(q, h, <<z>>)
      BY <2>3, <2>5, SingleHas DEF TextsThere, TextsBut
    <2>7. PhotosThere(q, h, <<z>>, md)
      BY <2>3, <2>4, <2>5, SingleHas DEF PhotosThere, PhotosBut
    <2> QED
      BY <2>6, <2>7 DEF z, y
  <1>3. TextsThere(q, Append(h, x), t) /\ PhotosThere(q, Append(h, x), t, md)
    BY GrownHas DEF TextsThere, PhotosThere, TextsBut, PhotosBut
  <1> QED
    BY <1>1, <1>2, <1>3

LEMMA ThereInAlbum ==
  ASSUME NEW q, NEW h \in Seq(B!Item), NEW t \in Seq(B!Item), NEW md \in Seq(B!Item),
         Len(md) <= 1, NEW x \in B!Item, Unreal(q, x.texts), ~LateOf(q, x),
         TextsBut(q, h, t, x), PhotosBut(q, h, t, md, x)
  PROVE  /\ TextsThere(q, h, t)
         /\ md = <<>> => PhotosThere(q, h, t, <<x>>)
         /\ md # <<>> => PhotosThere(q, h, t, <<[md[1] EXCEPT !.photos = @ \o x.photos]>>)
  <1>1. TextsThere(q, h, t)
    BY DEF TextsThere, TextsBut, TextOf, Unreal
  <1>2. ASSUME md = <<>> PROVE PhotosThere(q, h, t, <<x>>)
    BY <1>2, SingleHas DEF PhotosThere, PhotosBut
  <1>3. ASSUME md # <<>>
        PROVE  PhotosThere(q, h, t, <<[md[1] EXCEPT !.photos = @ \o x.photos]>>)
    <2> DEFINE y == md[1]
               z == [y EXCEPT !.photos = @ \o x.photos]
    <2>1. md = <<y>> /\ y \in B!Item
      BY <1>3, OnlyOne
    <2> HIDE DEF y
    <2>2. /\ \A e : PhotoOf(y, e) \/ PhotoOf(x, e) => PhotoOf(z, e)
          /\ LateOf(q, y) => LateOf(q, z)
      BY <2>1, AlbumHas
    <2> HIDE DEF z
    <2>3. PhotosBut(q, h, t, <<y>>, x)
      BY <2>1
    <2>4. PhotosThere(q, h, t, <<z>>)
      BY <2>2, <2>3, SingleHas DEF PhotosThere, PhotosBut
    <2> QED
      BY <2>4 DEF z, y
  <1> QED
    BY <1>1, <1>2, <1>3
-----------------------------------------------------------------------------
(* The album's texts are short captions of photos; a paste has a text.       *)
Caption(q, y) ==
    /\ Unreal(q, y.texts) /\ \A k \in 1..Len(y.texts) : WithPhoto(q, y.texts[k])
    /\ ~y.textBatched /\ y.size \in {"tiny", "none"} /\ (y.texts = <<>> <=> y.size = "none")
Shape(q, t, md) == /\ \A i \in 1..Len(t) : t[i].texts # <<>>
                   /\ \A i \in 1..Len(md) : Caption(q, md[i])

SplitInv == /\ Unique(sent) /\ Tidy(sent, handled, text, media)
            /\ Shape(sent, text, media)
            /\ TextsThere(sent, handled, text) /\ PhotosThere(sent, handled, text, media)

(* What has arrived is after everything that was there.                      *)
LEMMA ArrivesLast ==
  ASSUME B!TypeOK, SplitInv, NEW m \in B!Message, IsNew(sent, m),
         m.size # "none" \/ m.photo
  PROVE  LET q == Append(sent, m)
             x == B!AsItem(m)
         IN /\ Unique(q) /\ Tidy(q, handled, text, media) /\ Shape(q, text, media)
            /\ Sound(q, x) /\ Behind(q, handled, <<x>>) /\ Behind(q, text, <<x>>)
            /\ Behind(q, media, <<x>>) /\ Behind(q, <<x>>, media)
            /\ TextsBut(q, handled, text, x) /\ PhotosBut(q, handled, text, media, x)
            /\ B!IsMedia(x) => Caption(q, x)
            /\ ~LateOf(q, x) /\ (x.texts = <<>> <=> x.size = "none")
            /\ x.photos # <<>> /\ x.texts # <<>> =>
                  \E k \in 1..Len(x.texts) : WithPhoto(q, x.texts[k])
  <1> DEFINE q == Append(sent, m)
             x == B!AsItem(m)
  <1>1. /\ sent \in Seq(B!Message) /\ Unique(sent) /\ Tidy(sent, handled, text, media)
        /\ Shape(sent, text, media) /\ TextsThere(sent, handled, text)
        /\ PhotosThere(sent, handled, text, media)
    BY DEF B!TypeOK, SplitInv
  <1>2. /\ Len(q) = Len(sent) + 1 /\ \A n \in 1..Len(sent) : q[n] = sent[n]
        /\ q[Len(sent) + 1] = m /\ 1..Len(q) = (1..Len(sent)) \cup {Len(sent) + 1}
        /\ Len(sent) \in Nat
    BY <1>1, Grown
  <1>3. /\ Unique(q) /\ Known(q, <<m.id>>) /\ Rising(q, <<m.id>>)
        /\ \A s : Known(sent, s) => /\ Known(q, s) /\ Apart(s, <<m.id>>)
                                    /\ Before(q, s, <<m.id>>)
        /\ \A s, t : Known(sent, s) /\ Known(sent, t) /\ Before(sent, s, t)
                     => Before(q, s, t)
        /\ \A s : Known(sent, s) /\ Rising(sent, s) => Rising(q, s)
    BY <1>1, NewIsLast
  <1>4. /\ x.texts = IF m.size = "none" THEN <<>> ELSE <<m.id>>
        /\ x.photos = IF m.photo THEN <<m.id>> ELSE <<>>
        /\ x.size = m.size /\ ~x.debounced /\ ~x.textBatched
    BY DEF B!AsItem
  <1>5. /\ \A k \in 1..Len(<<m.id>>) : k = 1 /\ <<m.id>>[k] = m.id
        /\ 1 \in 1..Len(<<m.id>>) /\ <<m.id>>[1] = m.id /\ 1..Len(<<>>) = {}
        /\ 2..Len(<<m.id>>) = {} /\ 2..Len(<<>>) = {} /\ <<m.id>> # <<>>
    OBVIOUS
  <1>6. m.photo \in BOOLEAN /\ m.size \in {"long", "plain", "tiny", "none"}
    BY DEF B!Message, B!Sizes
  <1> HIDE DEF q, x
  <1>7. /\ Known(q, <<>>) /\ Rising(q, <<>>) /\ Once(<<>>) /\ Once(<<m.id>>)
        /\ \A s : Apart(s, <<>>) /\ Before(q, s, <<>>)
    BY <1>5 DEF Known, Rising, Once, Apart, Before
  <1>8. Sound(q, x)
    BY <1>3, <1>4, <1>7 DEF Sound
  <1>9. ASSUME NEW y, Known(sent, y.texts), Known(sent, y.photos) PROVE After(q, y, x)
    BY <1>3, <1>4, <1>7, <1>9 DEF After
  <1>10. ASSUME NEW xs, Row(sent, xs) PROVE Row(q, xs) /\ Behind(q, xs, <<x>>)
    <2>1. \A i \in 1..Len(xs) : Sound(sent, xs[i])
      BY <1>10 DEF Row
    <2>2. \A i \in 1..Len(xs) : Sound(q, xs[i])
      BY <2>1, <1>3 DEF Sound
    <2>3. \A i \in 1..Len(xs) : After(q, xs[i], x)
      BY <2>1, <1>9 DEF Sound
    <2>4. \A i, j \in 1..Len(xs) : i < j => After(q, xs[i], xs[j])
      BY <2>1, <1>3, <1>10 DEF Sound, Row, After
    <2> QED
      BY <2>2, <2>3, <2>4, Single DEF Row
  <1>11. ASSUME NEW xs, NEW ys, Row(sent, xs), Row(sent, ys), Behind(sent, xs, ys)
         PROVE  Behind(q, xs, ys)
    BY <1>3, <1>11 DEF Row, Sound, Behind, After
  <1>12. Tidy(q, handled, text, media)
    BY <1>1, <1>10, <1>11 DEF Tidy
  <1>13. Behind(q, handled, <<x>>) /\ Behind(q, text, <<x>>) /\ Behind(q, media, <<x>>)
    BY <1>1, <1>10 DEF Tidy
  <1>14. \A e : WithPhoto(sent, e) => WithPhoto(q, e)
    BY <1>2 DEF WithPhoto
  <1>15. ASSUME NEW s, Known(sent, s), Unreal(sent, s) PROVE Unreal(q, s)
    <2>1. \A k \in 1..Len(s) : s[k] # m.id
      BY <1>15 DEF Known, IsNew
    <2>2. \A n \in 1..Len(sent) : RealIn(q, n) => RealIn(sent, n)
      BY <1>2 DEF RealIn
    <2> QED
      BY <2>1, <2>2, <1>2, <1>15 DEF Unreal
  <1>16. Shape(q, text, media)
    <2>1. \A i \in 1..Len(media) : Known(sent, media[i].texts)
      BY <1>1 DEF Tidy, Row, Sound
    <2> QED
      BY <2>1, <1>1, <1>14, <1>15 DEF Shape, Caption
  <1>17. Behind(q, <<x>>, media)
    <2>1. \A i \in 1..Len(media) : Unreal(q, media[i].texts)
      BY <1>16 DEF Shape, Caption
    <2>2. \A i \in 1..Len(media) : After(q, media[i], x)
      BY <1>13, Single
    <2>3. \A i \in 1..Len(media) : After(q, x, media[i])
      BY <2>1, <2>2, UnrealFits, ApartEitherWay DEF After
    <2> QED
      BY <2>3, Single
  <1>18. RealIn(q, Len(sent) + 1) => TextOf(x, m.id)
    BY <1>2, <1>4, <1>5 DEF RealIn, TextOf
  <1>19. m.photo => PhotoOf(x, m.id)
    BY <1>4, <1>5 DEF PhotoOf
  <1>20. TextsBut(q, handled, text, x)
    BY <1>1, <1>2, <1>18 DEF TextsBut, TextsThere, RealIn
  <1>21. \A xs : HasLate(sent, xs) => HasLate(q, xs)
    BY <1>14 DEF HasLate, LateOf
  <1>22. PhotosBut(q, handled, text, media, x)
    BY <1>1, <1>2, <1>19, <1>21 DEF PhotosBut, PhotosThere
  <1>23. ~LateOf(q, x)
    BY <1>4, <1>5 DEF LateOf
  <1>24. m.photo => WithPhoto(q, m.id)
    BY <1>2 DEF WithPhoto
  <1>25. x.texts = <<>> <=> x.size = "none"
    BY <1>4, <1>5
  <1>26. x.photos # <<>> => \A k \in 1..Len(x.texts) : WithPhoto(q, x.texts[k])
    BY <1>4, <1>5, <1>24
  <1>27. x.photos # <<>> /\ x.texts # <<>> =>
              \E k \in 1..Len(x.texts) : WithPhoto(q, x.texts[k])
    BY <1>4, <1>5, <1>24
  <1>28. ASSUME x.size \in {"tiny", "none"} PROVE Unreal(q, x.texts)
    <2>1. \A n \in 1..Len(q) : q[n].id = m.id => q[n] = m
      BY <1>2, <1>3 DEF Unique
    <2> QED
      BY <2>1, <1>4, <1>5, <1>28 DEF Unreal, RealIn
  <1>29. B!IsMedia(x) => Caption(q, x)
    BY <1>4, <1>25, <1>26, <1>28 DEF B!IsMedia, Caption
  <1> QED
    BY <1>3, <1>8, <1>12, <1>13, <1>16, <1>17, <1>20, <1>22, <1>23, <1>25, <1>27, <1>29
       DEF q, x
-----------------------------------------------------------------------------
LEMMA StaysFull == ASSUME NEW s \in Seq(Parts), NEW t \in Seq(Parts), s # <<>>
                   PROVE  s \o t # <<>>
  <1>1. Len(s) \in Nat \ {0} /\ Len(t) \in Nat
    BY EmptySeq
  <1>2. Len(s \o t) # 0
    BY <1>1, JoinedAt
  <1> QED
    BY <1>2, EmptySeq

(* An item on its way that no debouncer keeps for its photos joins the paste *)
(* or is handled.                                                            *)
LEMMA PasteOrHandle ==
  ASSUME B!TypeOK, NEW q, NEW md \in Seq(B!Item), NEW x \in B!Item,
         Tidy(q, handled, text, md), Shape(q, text, md), Sound(q, x),
         Behind(q, handled, <<x>>), Behind(q, text, <<x>>), Behind(q, <<x>>, md),
         TextsBut(q, handled, text, x), PhotosBut(q, handled, text, md, x),
         x.texts = <<>> <=> x.size = "none", ~x.textBatched,
         x.photos # <<>> /\ x.texts # <<>> =>
             \E k \in 1..Len(x.texts) : WithPhoto(q, x.texts[k]),
         \/ B!IsText(x) /\ B!CollectText(x) /\ UNCHANGED handled
         \/ ~B!IsText(x) /\ handled' = Append(handled, x) /\ UNCHANGED text
  PROVE  /\ Tidy(q, handled', text', md) /\ Shape(q, text', md)
         /\ TextsThere(q, handled', text') /\ PhotosThere(q, handled', text', md)
  <1>1. handled \in Seq(B!Item) /\ text \in Seq(B!Item) /\ Len(text) <= 1
    BY DEF B!TypeOK
  <1>2. CASE B!IsText(x) /\ B!CollectText(x) /\ UNCHANGED handled /\ text = <<>>
    <2>1. text' = <<x>> /\ handled' = handled /\ x.texts # <<>>
      BY <1>2 DEF B!IsText, B!CollectText
    <2>2. Tidy(q, handled, <<x>>, md)
      BY <1>1, TidyGoesOn
    <2>3. TextsThere(q, handled, <<x>>) /\ PhotosThere(q, handled, <<x>>, md)
      BY <1>1, <1>2, ThereGoesOn
    <2>4. \A i \in 1..Len(<<x>>) : <<x>>[i] = x
      OBVIOUS
    <2>5. Shape(q, <<x>>, md)
      BY <2>1, <2>4 DEF Shape
    <2> QED
      BY <2>1, <2>2, <2>3, <2>5
  <1>3. CASE B!IsText(x) /\ B!CollectText(x) /\ UNCHANGED handled /\ text # <<>>
    <2> DEFINE y == text[1]
               z == [y EXCEPT !.texts = @ \o x.texts]
    <2>1. text' = <<z>> /\ handled' = handled /\ x.texts # <<>>
      BY <1>3 DEF B!IsText, B!CollectText
    <2>2. y \in B!Item /\ y.texts # <<>> /\ text = <<y>>
      <3>1. text = <<y>> /\ y \in B!Item
        BY <1>1, <1>3, OnlyOne
      <3>2. 1 \in 1..Len(<<y>>)
        OBVIOUS
      <3>3. 1 \in 1..Len(text)
        BY <3>1, <3>2
      <3> QED
        BY <3>1, <3>3 DEF Shape
    <2>3. Tidy(q, handled, <<z>>, md)
      BY <1>1, <1>3, TidyGoesOn
    <2>4. TextsThere(q, handled, <<z>>) /\ PhotosThere(q, handled, <<z>>, md)
      BY <1>1, <1>3, <2>1, <2>2, ThereGoesOn
    <2>5. z.texts # <<>>
      <3>1. /\ y.texts \in Seq(Parts) /\ x.texts \in Seq(Parts)
            /\ z.texts = y.texts \o x.texts
        BY <2>2 DEF B!Item
      <3> HIDE DEF y, z
      <3> QED
        BY <2>2, <3>1, StaysFull
    <2> HIDE DEF z
    <2>6. \A i \in 1..Len(<<z>>) : <<z>>[i] = z
      OBVIOUS
    <2>7. Shape(q, <<z>>, md)
      BY <2>5, <2>6 DEF Shape
    <2> QED
      BY <2>1, <2>3, <2>4, <2>7
  <1>4. CASE ~B!IsText(x) /\ handled' = Append(handled, x) /\ UNCHANGED text
    <2>1. text = <<>> \/ x.texts = <<>>
      BY <1>4 DEF B!IsText
    <2>2. Tidy(q, handled', text, md)
      BY <1>1, <1>4, <2>1, TidyGoesOn
    <2>3. TextsThere(q, handled', text) /\ PhotosThere(q, handled', text, md)
      BY <1>1, <1>4, ThereGoesOn
    <2> QED
      BY <1>4, <2>2, <2>3
  <1> QED
    BY <1>2, <1>3, <1>4

LEMMA ReceiveParts ==
  ASSUME B!TypeOK, SplitInv, NEW m \in B!Message, B!Receive(m) PROVE SplitInv'
  <1> DEFINE q == Append(sent, m)
             x == B!AsItem(m)
  <1>1. /\ IsNew(sent, m) /\ (m.size # "none" \/ m.photo) /\ sent' = q /\ B!Handle(x)
    BY DEF B!Receive, IsNew
  <1>2. /\ Unique(q) /\ Tidy(q, handled, text, media) /\ Shape(q, text, media)
        /\ Sound(q, x) /\ Behind(q, handled, <<x>>) /\ Behind(q, text, <<x>>)
        /\ Behind(q, media, <<x>>) /\ Behind(q, <<x>>, media)
        /\ TextsBut(q, handled, text, x) /\ PhotosBut(q, handled, text, media, x)
        /\ B!IsMedia(x) => Caption(q, x)
        /\ ~LateOf(q, x) /\ (x.texts = <<>> <=> x.size = "none")
        /\ x.photos # <<>> /\ x.texts # <<>> =>
              \E k \in 1..Len(x.texts) : WithPhoto(q, x.texts[k])
    BY <1>1, ArrivesLast
  <1>3. x \in B!Item /\ ~x.textBatched
    BY DEF B!AsItem, B!Item, B!Message, B!Sizes
  <1>4. /\ handled \in Seq(B!Item) /\ text \in Seq(B!Item)
        /\ media \in Seq(B!Item) /\ Len(media) <= 1
    BY DEF B!TypeOK
  <1> HIDE DEF q, x
  <1>5. CASE B!IsMedia(x) /\ B!CollectMedia(x) /\ UNCHANGED <<text, handled>>
    <2>1. Unreal(q, x.texts)
      BY <1>2, <1>5 DEF Caption
    <2>2. CASE media = <<>>
      <3>1. media' = <<x>>
        BY <1>5, <2>2 DEF B!CollectMedia
      <3>2. Tidy(q, handled, text, <<x>>)
        BY <1>2, <1>3, <1>4, TidyAlbum
      <3>3. TextsThere(q, handled, text) /\ PhotosThere(q, handled, text, <<x>>)
        BY <1>2, <1>3, <1>4, <2>1, <2>2, ThereInAlbum
      <3>4. \A i \in 1..Len(<<x>>) : <<x>>[i] = x
        OBVIOUS
      <3>5. Shape(q, text, <<x>>)
        BY <1>2, <1>5, <3>4 DEF Shape
      <3> QED
        BY <1>1, <1>2, <1>5, <3>1, <3>2, <3>3, <3>5 DEF SplitInv
    <2>3. CASE media # <<>>
      <3> DEFINE y == media[1]
                 z == [y EXCEPT !.photos = @ \o x.photos]
      <3>1. media' = <<z>>
        BY <1>5, <2>3 DEF B!CollectMedia
      <3>2. Tidy(q, handled, text, <<z>>)
        BY <1>2, <1>3, <1>4, <2>3, TidyAlbum
      <3>3. TextsThere(q, handled, text) /\ PhotosThere(q, handled, text, <<z>>)
        BY <1>2, <1>3, <1>4, <2>1, <2>3, ThereInAlbum
      <3>4. y \in B!Item /\ Caption(q, y)
        <4>1. media = <<y>> /\ y \in B!Item
          BY <1>4, <2>3, OnlyOne
        <4>2. 1 \in 1..Len(<<y>>)
          OBVIOUS
        <4>3. 1 \in 1..Len(media)
          BY <4>1, <4>2
        <4> QED
          BY <4>1, <4>3, <1>2 DEF Shape
      <3>5. z.texts = y.texts /\ z.size = y.size /\ z.textBatched = y.textBatched
        BY <3>4 DEF B!Item
      <3> HIDE DEF z, y
      <3>6. Caption(q, z)
        BY <3>4, <3>5 DEF Caption
      <3>7. \A i \in 1..Len(<<z>>) : <<z>>[i] = z
        OBVIOUS
      <3>8. Shape(q, text, <<z>>)
        BY <1>2, <3>6, <3>7 DEF Shape
      <3> QED
        BY <1>1, <1>2, <1>5, <3>1, <3>2, <3>3, <3>8 DEF SplitInv
    <2> QED
      BY <2>2, <2>3
  <1>6. CASE /\ \/ B!IsText(x) /\ B!CollectText(x) /\ UNCHANGED handled
                \/ ~B!IsText(x) /\ handled' = Append(handled, x) /\ UNCHANGED text
             /\ UNCHANGED media
    <2>1. /\ Tidy(q, handled', text', media) /\ Shape(q, text', media)
          /\ TextsThere(q, handled', text') /\ PhotosThere(q, handled', text', media)
      BY <1>2, <1>3, <1>4, <1>6, PasteOrHandle
    <2> QED
      BY <1>1, <1>2, <1>6, <2>1 DEF SplitInv
  <1> QED
    BY <1>1, <1>5, <1>6 DEF B!Handle

LEMMA MediaParts == ASSUME B!TypeOK, SplitInv, B!MediaFires PROVE SplitInv'
  <1> DEFINE y == media[1]
             x == [y EXCEPT !.debounced = TRUE]
  <1>1. /\ handled \in Seq(B!Item) /\ text \in Seq(B!Item)
        /\ media \in Seq(B!Item) /\ Len(media) <= 1 /\ media # <<>>
    BY DEF B!TypeOK, B!MediaFires
  <1>2. media = <<y>> /\ y \in B!Item
    BY <1>1, OnlyOne
  <1>3. /\ x \in B!Item /\ x.debounced /\ x.texts = y.texts /\ x.photos = y.photos
        /\ x.size = y.size /\ x.textBatched = y.textBatched
    BY <1>2 DEF B!Item
  <1>4. /\ sent' = sent /\ media' = <<>>
        /\ \/ B!IsText(x) /\ B!CollectText(x) /\ UNCHANGED handled
           \/ ~B!IsText(x) /\ handled' = Append(handled, x) /\ UNCHANGED text
    BY <1>3 DEF B!MediaFires, B!IsMedia
  <1> HIDE DEF x, y
  <1>5. /\ Unique(sent) /\ Tidy(sent, handled, text, <<y>>) /\ Shape(sent, text, <<y>>)
        /\ TextsThere(sent, handled, text) /\ PhotosThere(sent, handled, text, <<y>>)
    BY <1>2 DEF SplitInv
  <1>6. Caption(sent, y)
    <2>1. 1 \in 1..Len(<<y>>) /\ <<y>>[1] = y
      OBVIOUS
    <2> QED
      BY <1>5, <2>1 DEF Shape
  <1>7. /\ Tidy(sent, handled, text, <<>>) /\ Sound(sent, x)
        /\ Behind(sent, handled, <<x>>) /\ Behind(sent, text, <<x>>)
        /\ Behind(sent, <<x>>, <<>>)
    <2>1. /\ Row(sent, <<x>>) <=> Row(sent, <<y>>)
          /\ Behind(sent, handled, <<x>>) <=> Behind(sent, handled, <<y>>)
          /\ Behind(sent, text, <<x>>) <=> Behind(sent, text, <<y>>)
      BY <1>3, Single DEF Sound, After
    <2> QED
      BY <1>5, <2>1, Single DEF Tidy
  <1>8. Shape(sent, text, <<>>)
    <2>1. 1..Len(<<>>) = {}
      OBVIOUS
    <2> QED
      BY <1>5, <2>1 DEF Shape
  <1>9. TextsBut(sent, handled, text, x)
    BY <1>5 DEF TextsThere, TextsBut
  <1>10. PhotosBut(sent, handled, text, <<>>, x)
    <2>1. /\ HasLate(sent, <<y>>) => LateOf(sent, x)
          /\ \A e : HasPhoto(<<y>>, e) => PhotoOf(x, e)
      BY <1>3, SingleHas DEF LateOf, PhotoOf
    <2> QED
      BY <1>5, <2>1 DEF PhotosThere, PhotosBut
  <1>11. /\ x.texts = <<>> <=> x.size = "none"
         /\ ~x.textBatched
         /\ x.texts # <<>> => \E k \in 1..Len(x.texts) : WithPhoto(sent, x.texts[k])
    <2>1. y.texts \in Seq(Parts)
      BY <1>2 DEF B!Item
    <2>2. y.texts # <<>> => 1 \in 1..Len(y.texts)
      BY <2>1, EmptySeq
    <2> QED
      BY <1>3, <1>6, <2>2 DEF Caption
  <1>12. <<>> \in Seq(B!Item)
    OBVIOUS
  <1>13. /\ Tidy(sent, handled', text', <<>>) /\ Shape(sent, text', <<>>)
         /\ TextsThere(sent, handled', text') /\ PhotosThere(sent, handled', text', <<>>)
    BY <1>3, <1>4, <1>7, <1>8, <1>9, <1>10, <1>11, <1>12, PasteOrHandle
  <1> QED
    BY <1>4, <1>5, <1>13 DEF SplitInv

LEMMA TextParts == ASSUME B!TypeOK, SplitInv, B!TextFires PROVE SplitInv'
  <1> DEFINE y == text[1]
             x == [y EXCEPT !.textBatched = TRUE]
  <1>1. /\ handled \in Seq(B!Item) /\ text \in Seq(B!Item) /\ Len(text) <= 1
        /\ media \in Seq(B!Item) /\ text # <<>>
    BY DEF B!TypeOK, B!TextFires
  <1>2. text = <<y>> /\ y \in B!Item
    BY <1>1, OnlyOne
  <1>3. x \in B!Item /\ x.texts = y.texts /\ x.photos = y.photos
    BY <1>2 DEF B!Item
  <1>4. /\ text' = <<>> /\ handled' = Append(handled, x)
        /\ sent' = sent /\ media' = media
    BY DEF B!TextFires
  <1> HIDE DEF x, y
  <1>5. /\ Unique(sent) /\ Tidy(sent, handled, <<y>>, media) /\ Shape(sent, <<y>>, media)
        /\ TextsThere(sent, handled, <<y>>) /\ PhotosThere(sent, handled, <<y>>, media)
    BY <1>2 DEF SplitInv
  <1>6. /\ Tidy(sent, handled, <<>>, media) /\ Sound(sent, x)
        /\ Behind(sent, handled, <<x>>) /\ Behind(sent, <<>>, <<x>>)
        /\ Behind(sent, <<x>>, media)
    <2>1. /\ Row(sent, <<x>>) <=> Row(sent, <<y>>)
          /\ Behind(sent, handled, <<x>>) <=> Behind(sent, handled, <<y>>)
          /\ Behind(sent, <<x>>, media) <=> Behind(sent, <<y>>, media)
      BY <1>3, Single DEF Sound, After
    <2> QED
      BY <1>5, <2>1, Single DEF Tidy
  <1>7. Shape(sent, <<>>, media)
    <2>1. 1..Len(<<>>) = {}
      OBVIOUS
    <2> QED
      BY <1>5, <2>1 DEF Shape
  <1>8. /\ HasLate(sent, <<y>>) => LateOf(sent, x)
        /\ \A e : /\ HasPhoto(<<y>>, e) => PhotoOf(x, e)
                  /\ HasText(<<y>>, e) => TextOf(x, e)
    BY <1>3, SingleHas DEF LateOf, PhotoOf, TextOf
  <1>9. TextsBut(sent, handled, <<>>, x) /\ PhotosBut(sent, handled, <<>>, media, x)
    BY <1>5, <1>8 DEF TextsThere, TextsBut, PhotosThere, PhotosBut
  <1>10. <<>> \in Seq(B!Item) /\ Len(<<>>) <= 1
    OBVIOUS
  <1>11. Tidy(sent, handled', <<>>, media)
    BY <1>1, <1>3, <1>4, <1>6, <1>10, TidyGoesOn
  <1>12. TextsThere(sent, handled', <<>>) /\ PhotosThere(sent, handled', <<>>, media)
    BY <1>1, <1>3, <1>4, <1>9, <1>10, ThereGoesOn
  <1> QED
    BY <1>4, <1>5, <1>7, <1>11, <1>12 DEF SplitInv

LEMMA SplitParts == B!TypeOK /\ SplitInv /\ [B!Next]_splitVars => SplitInv'
  <1>1. SplitInv /\ UNCHANGED splitVars => SplitInv'
    BY DEF splitVars, SplitInv
  <1> QED
    BY <1>1, ReceiveParts, MediaParts, TextParts DEF B!Next

LEMMA SplitInit == B!Init => SplitInv
  <1> SUFFICES ASSUME B!Init PROVE SplitInv
    OBVIOUS
  <1>1. sent = <<>> /\ media = <<>> /\ text = <<>> /\ handled = <<>> /\ 1..Len(<<>>) = {}
    BY DEF B!Init
  <1>2. Tidy(<<>>, <<>>, <<>>, <<>>)
    BY Single DEF Tidy
  <1> QED
    BY <1>1, <1>2 DEF SplitInv, Unique, Shape, TextsThere, PhotosThere

(* The three together, in the words of the properties.                       *)
LEMMA Together ==
  ASSUME NEW h \in Seq(B!Item), NEW t \in Seq(B!Item)
  PROVE  LET a == h \o t
         IN /\ a \in Seq(B!Item)
            /\ \A i \in 1..Len(h) : i \in 1..Len(a) /\ a[i] = h[i]
            /\ \A j \in 1..Len(t) : /\ Len(h) + j \in 1..Len(a)
                                    /\ a[Len(h) + j] = t[j]
            /\ \A q : /\ Row(q, h) /\ Row(q, t) /\ Behind(q, h, t) => Row(q, a)
                      /\ \A u : Behind(q, h, u) /\ Behind(q, t, u) => Behind(q, a, u)
  <1> DEFINE a == h \o t
  <1>1. a \in Seq(B!Item) /\ Len(h) \in Nat /\ Len(t) \in Nat /\ Len(a) = Len(h) + Len(t)
    OBVIOUS
  <1>2. \A i \in 1..Len(h) : i \in 1..Len(a) /\ a[i] = h[i]
    BY <1>1
  <1>3. \A j \in 1..Len(t) : Len(h) + j \in 1..Len(a) /\ a[Len(h) + j] = t[j]
    BY <1>1
  <1>4. ASSUME NEW i \in 1..Len(a), i \notin 1..Len(h)
        PROVE  i > Len(h) /\ i - Len(h) \in 1..Len(t) /\ a[i] = t[i - Len(h)]
    BY <1>1, <1>4
  <1>5. Len(h) \in Nat
    BY <1>1
  <1> HIDE DEF a
  <1>6. ASSUME NEW q, Row(q, h), Row(q, t), Behind(q, h, t) PROVE Row(q, a)
    <2>1. \A i \in 1..Len(a) : Sound(q, a[i])
      BY <1>2, <1>4, <1>6 DEF Row
    <2>2. ASSUME NEW i \in 1..Len(a), NEW j \in 1..Len(a), i < j PROVE After(q, a[i], a[j])
      <3>1. CASE i \in 1..Len(h) /\ j \in 1..Len(h)
        BY <1>2, <1>6, <2>2, <3>1 DEF Row
      <3>2. CASE i \in 1..Len(h) /\ j \notin 1..Len(h)
        <4>1. j - Len(h) \in 1..Len(t) /\ a[j] = t[j - Len(h)] /\ a[i] = h[i]
          BY <1>2, <1>4, <3>2
        <4> QED
          BY <4>1, <3>2, <1>6 DEF Behind
      <3>3. CASE i \notin 1..Len(h) /\ j \notin 1..Len(h)
        <4>1. /\ i - Len(h) \in 1..Len(t) /\ a[i] = t[i - Len(h)]
              /\ j - Len(h) \in 1..Len(t) /\ a[j] = t[j - Len(h)]
          BY <1>4, <3>3
        <4>2. i - Len(h) < j - Len(h)
          BY <1>5, <2>2
        <4> QED
          BY <4>1, <4>2, <1>6 DEF Row
      <3>4. CASE i \notin 1..Len(h) /\ j \in 1..Len(h)
        <4>1. i > Len(h)
          BY <1>4, <3>4
        <4> QED
          BY <4>1, <3>4, <1>5, <2>2
      <3> QED
        BY <3>1, <3>2, <3>3, <3>4
    <2> QED
      BY <2>1, <2>2 DEF Row
  <1>7. ASSUME NEW q, NEW u, Behind(q, h, u), Behind(q, t, u) PROVE Behind(q, a, u)
    BY <1>2, <1>4, <1>7 DEF Behind
  <1> QED
    BY <1>1, <1>2, <1>3, <1>6, <1>7 DEF a

LEMMA PartsSafe == B!TypeOK /\ SplitInv => B!PhotosKept /\ B!TextsInOrder
  <1> SUFFICES ASSUME B!TypeOK, SplitInv PROVE B!PhotosKept /\ B!TextsInOrder
    OBVIOUS
  <1> DEFINE a == handled \o text
             c == a \o media
  <1>1. /\ handled \in Seq(B!Item) /\ text \in Seq(B!Item) /\ media \in Seq(B!Item)
        /\ sent \in Seq(B!Message)
    BY DEF B!TypeOK
  <1>2. /\ Tidy(sent, handled, text, media)
        /\ TextsThere(sent, handled, text) /\ PhotosThere(sent, handled, text, media)
    BY DEF SplitInv
  <1>3. /\ a \in Seq(B!Item)
        /\ \A i \in 1..Len(handled) : i \in 1..Len(a) /\ a[i] = handled[i]
        /\ \A j \in 1..Len(text) : /\ Len(handled) + j \in 1..Len(a)
                                   /\ a[Len(handled) + j] = text[j]
        /\ Row(sent, a) /\ Behind(sent, a, media)
    BY <1>1, <1>2, Together DEF Tidy
  <1> HIDE DEF a
  <1>4. /\ \A i \in 1..Len(a) : i \in 1..Len(c) /\ c[i] = a[i]
        /\ \A j \in 1..Len(media) : /\ Len(a) + j \in 1..Len(c)
                                    /\ c[Len(a) + j] = media[j]
        /\ Row(sent, c) /\ c \in Seq(B!Item)
    BY <1>1, <1>2, <1>3, Together DEF Tidy
  <1> HIDE DEF c
  <1>5. \A n \in 1..Len(sent) : B!Real(n) => HasText(a, sent[n].id)
    BY <1>2, <1>3 DEF TextsThere, HasText, B!Real, RealIn
  <1>6. ASSUME NEW i \in 1..Len(a), NEW j \in 1..Len(a),
               NEW k \in 1..Len(a[i].texts), NEW l \in 1..Len(a[j].texts),
               i < j \/ (i = j /\ k < l),
               NEW n \in 1..Len(sent), NEW m \in 1..Len(sent),
               B!Real(n), a[i].texts[k] = sent[n].id,
               B!Real(m), a[j].texts[l] = sent[m].id
        PROVE  n < m
    <2>1. RealIn(sent, n) /\ RealIn(sent, m)
      BY <1>6 DEF B!Real, RealIn
    <2>2. CASE i < j
      <3>1. Before(sent, a[i].texts, a[j].texts)
        BY <1>3, <2>2 DEF Row, After
      <3> QED
        BY <3>1, <2>1, <1>6 DEF Before
    <2>3. CASE i = j /\ k < l
      <3>1. Rising(sent, a[i].texts)
        BY <1>3 DEF Row, Sound
      <3> QED
        BY <3>1, <2>1, <2>3, <1>6 DEF Rising
    <2> QED
      BY <1>6, <2>2, <2>3
  <1>7. B!TextsInOrder
    <2>1. \A n \in 1..Len(sent) : B!Real(n) => \E i \in 1..Len(a) :
              \E k \in 1..Len(a[i].texts) : a[i].texts[k] = sent[n].id
      BY <1>5 DEF HasText, TextOf
    <2>2. \A i, j \in 1..Len(a) :
             \A k \in 1..Len(a[i].texts), l \in 1..Len(a[j].texts) :
                 i < j \/ (i = j /\ k < l) =>
                     \A n, m \in 1..Len(sent) :
                         /\ B!Real(n) /\ a[i].texts[k] = sent[n].id
                         /\ B!Real(m) /\ a[j].texts[l] = sent[m].id
                         => n < m
      <3> TAKE i, j \in 1..Len(a)
      <3> TAKE k \in 1..Len(a[i].texts), l \in 1..Len(a[j].texts)
      <3> HAVE i < j \/ (i = j /\ k < l)
      <3> TAKE n, m \in 1..Len(sent)
      <3> HAVE /\ B!Real(n) /\ a[i].texts[k] = sent[n].id
               /\ B!Real(m) /\ a[j].texts[l] = sent[m].id
      <3> QED
        BY <1>6
    <2> QED
      BY <2>1, <2>2, Zenon DEF B!TextsInOrder, a
  <1>8. ASSUME NEW i \in 1..Len(c), NEW j \in 1..Len(c),
               NEW k \in 1..Len(c[i].photos), NEW l \in 1..Len(c[j].photos),
               c[i].photos[k] = c[j].photos[l]
        PROVE  i = j /\ k = l
    <2>1. Once(c[i].photos) /\ Once(c[j].photos)
      BY <1>4 DEF Row, Sound
    <2>2. i < j => Apart(c[i].photos, c[j].photos)
      BY <1>4 DEF Row, After
    <2>3. j < i => Apart(c[j].photos, c[i].photos)
      BY <1>4 DEF Row, After
    <2>4. ~(i < j) /\ ~(j < i)
      BY <1>8, <2>2, <2>3 DEF Apart
    <2>5. i = j
      <3>1. i \in Int /\ j \in Int
        OBVIOUS
      <3> QED
        BY <2>4, <3>1
    <2> QED
      BY <2>1, <2>5, <1>8 DEF Once
  <1>9. HasLate(sent, handled) \/ HasLate(sent, text) \/ HasLate(sent, media)
        => HasLate(sent, c)
    BY <1>3, <1>4 DEF HasLate
  <1>10. \A e : HasPhoto(handled, e) \/ HasPhoto(text, e) \/ HasPhoto(media, e)
                => HasPhoto(c, e)
    BY <1>3, <1>4 DEF HasPhoto
  <1>11. \/ HasLate(sent, c)
         \/ \A n \in 1..Len(sent) : sent[n].photo => HasPhoto(c, sent[n].id)
    BY <1>2, <1>9, <1>10 DEF PhotosThere
  <1>12. HasLate(sent, c) <=> \E i \in 1..Len(c) : \E k \in 2..Len(c[i].texts) :
             \E n \in 1..Len(sent) : c[i].texts[k] = sent[n].id /\ sent[n].photo
    BY DEF HasLate, LateOf, WithPhoto
  <1>13. B!PhotosKept
    BY <1>8, <1>11, <1>12 DEF B!PhotosKept, HasPhoto, PhotoOf, a, c
  <1> QED
    BY <1>7, <1>13
-----------------------------------------------------------------------------
(* All of it together: a behaviour is one of the parts.                      *)

AllInv == /\ side \in {"split", "handler", "dispatch"}
          /\ side = "handler" => IInv
          /\ side = "split" => B!TypeOK /\ SplitInv
          /\ side = "dispatch" => RouteInv

LEMMA InitAll == AllInit => AllInv
  <1>1. B!Init => B!TypeOK
    BY DEF B!Init, B!TypeOK
  <1> QED
    BY <1>1, SplitInit, InitIInv, InitRoute DEF AllInit, AllInv

LEMMA NextAll == AllInv /\ [AllNext]_all => AllInv'
  <1> SUFFICES ASSUME AllInv, [AllNext]_all PROVE AllInv'
    OBVIOUS
  <1>1. /\ UNCHANGED side
        /\ side = "split" => [B!Next]_splitVars
        /\ side = "handler" => [Next]_vars
        /\ side = "dispatch" => [D!Next]_routeVars
    BY DEF AllNext, Split, Handler, Dispatch, all
  <1> QED
    BY <1>1, NextIInv, SplitTypes, SplitParts, NextRoute DEF AllInv

LEMMA AllIsSafe == AllSpec => []AllInv
  BY InitAll, NextAll, PTL DEF AllSpec

(* Every part of the way of a message keeps its types.                       *)
THEOREM AllTypesKept == AllSpec => []AllTypeOK
  <1>1. RouteInv => D!TypeOK
    BY RouteAssumption DEF RouteInv, CallOK, D!TypeOK, D!Maybe
  <1>2. AllInv => AllTypeOK
    BY <1>1 DEF AllInv, AllTypeOK, IInv
  <1> QED
    BY <1>2, AllIsSafe, PTL

(* However many parts a sender writes, the debouncers keep the texts in      *)
(* their order and each photo once, but for those that come with a later     *)
(* text of a paste (message-debouncer.ts:44, media-debouncer.ts:46).         *)
THEOREM NoPartIsLost == AllSpec => []PartsAreKept
  <1>1. AllInv => PartsAreKept
    BY PartsSafe DEF AllInv, PartsAreKept
  <1> QED
    BY <1>1, AllIsSafe, PTL

(* For any categories, tools and policies, a message is handed on at most    *)
(* once, never past its channel's policy, and the note it is handed on with  *)
(* is not kept as the user's words (dispatch.ts:924, router/reroute.ts).     *)
THEOREM HandedOnSoundly == AllSpec => []HandingOnIsSound
  <1>1. RouteInv => D!HandedOnOnce /\ D!StaysInPolicy /\ D!NoteIsNotSaid
    BY DEF RouteInv, RunsCounted, D!HandedOnOnce
  <1>2. AllInv => HandingOnIsSound
    BY <1>1 DEF AllInv, HandingOnIsSound
  <1> QED
    BY <1>2, AllIsSafe, PTL
=============================================================================
