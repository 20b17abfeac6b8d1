---------------------------- MODULE MCConversation ----------------------------
(* The way of a message, side by side in one check: the debouncers it passes *)
(* first, the message handler with its steering queue, and the dispatch that *)
(* finds its specialist.  Each is modelled for itself, so a behaviour is one *)
(* of them: side says which, and the others stay in their initial state.     *)
EXTENDS Steering

CONSTANTS Parts,
          Categories, Hinted, Default, SystemOne, Tools, ToolsOf, Arena, Piped,
          Policies, MaxMessages, None

VARIABLES side,
          sent, media, text, handled,
          policy, recorded, call, runs, failed

splitVars == <<sent, media, text, handled>>
routeVars == <<policy, recorded, call, runs, failed>>
all == <<side, vars, splitVars, routeVars>>

MCToolsOf == [c \in Categories |->
    CASE c = "chat" -> {} [] c = "research" -> {"fetch", "write"}
      [] c = "web_search" -> {"fetch"} [] OTHER -> {"write"}]
MCPolicies == [allowed : {None, {"research"}, {"chat", "web_search", "exec"},
                          {"research", "web_search"}},
               restricted : {{}, {"exec"}, {"research", "web_search"}},
               denied : {{}, {"write"}, {"fetch", "write"}}, console : BOOLEAN]

B == INSTANCE Debouncers WITH Messages <- Parts
D == INSTANCE Dispatch

(* What the configuration is taken to satisfy: its default category is one   *)
(* of its categories, chat has no tools, research has the web search it may  *)
(* give up for, and a channel that names its categories names one.           *)
ASSUME RouteAssumption ==
    /\ "chat" \in Categories /\ ToolsOf["chat"] = {}
    /\ ToolsOf \in [Categories -> SUBSET Tools]
    /\ "research" \in Categories => "web_search" \in Categories
    /\ Default \in Categories /\ Hinted \subseteq Categories
    /\ None \notin Categories
    /\ Policies \subseteq D!Policy /\ MaxMessages \in Nat

AllInit == /\ side \in {"split", "handler", "dispatch"}
           /\ Init /\ B!Init
           /\ D!Init /\ (side # "dispatch" => policy = [allowed |-> None,
                  restricted |-> {}, denied |-> {}, console |-> FALSE])

Split == side = "split" /\ B!Next /\ UNCHANGED <<side, vars, routeVars>>
Handler == side = "handler" /\ Next /\ UNCHANGED <<side, splitVars, routeVars>>
Dispatch == side = "dispatch" /\ D!Next /\ UNCHANGED <<side, vars, splitVars>>
AllNext == Split \/ Handler \/ Dispatch

(* The fairness of the parts: side never changes. *)
HandlerGoesOn(m) == side = "handler" /\ Handle(m) /\ UNCHANGED <<side, splitVars, routeVars>>
AllFair ==
    \/ side = "split" /\ B!Timers /\ UNCHANGED <<side, vars, routeVars>>
    \/ side = "dispatch" /\ D!Work /\ UNCHANGED <<side, vars, splitVars>>

AllSpec ==
    /\ AllInit /\ [][AllNext]_all
    /\ WF_all(AllFair) /\ \A m \in Msgs : WF_all(HandlerGoesOn(m))
-----------------------------------------------------------------------------
(* Every part keeps its types (stated in its module). *)
AllTypeOK == CASE side = "handler" -> TypeOK
               [] side = "split" -> B!TypeOK
               [] side = "dispatch" -> D!TypeOK

(* The parts of a message are kept: a photo, but with a text that joins an   *)
(* open paste, and the texts in their order.                                 *)
PartsAreKept == side = "split" => B!PhotosKept /\ B!TextsInOrder

(* A message is handed on once at most, never past what its channel allows,  *)
(* and the note it is handed on with is not recorded as the user's words.    *)
HandingOnIsSound ==
    side = "dispatch" => D!HandedOnOnce /\ D!StaysInPolicy /\ D!NoteIsNotSaid

(* A message is answered or fails, the handler gets every message off its    *)
(* hands, and a batch of a debouncer is released.                            *)
MessagesEnd == EverySettles /\ B!BatchesEnd /\ D!MessageEnds
=============================================================================
