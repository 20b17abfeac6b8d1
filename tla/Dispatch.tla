------------------------------- MODULE Dispatch -------------------------------
(* Where a message goes: the classification cascade of router/classifier.ts, *)
(* the channel's rules, and the second dispatch of dispatch.ts when the      *)
(* specialist turns out to lack something (router/reroute.ts).               *)
(*                                                                           *)
(* One session and one message at a time; what overlapping dispatches do to  *)
(* the session's memory is in SessionMemory.  A dispatch is one step up to   *)
(* each await: the router, the specialist, the router asked again.           *)
EXTENDS Integers, Sequences

CONSTANTS
    Categories,     \* config.router.categories, "chat" among them
    Hinted,         \* those a keyword can point to
    Default,        \* config.router.defaultCategory
    SystemOne,      \* config.router.mode = "systemone"
    Tools, ToolsOf, \* [Categories -> SUBSET Tools], none for "chat"
    Arena,          \* specialists with dispatchMode "arena"
    Piped,          \* specialists with a pipeline
    Policies,       \* the settings looked at
    MaxMessages,    \* bound: messages in a behaviour
    None

VARIABLES
    policy,     \* what the channel's security settings say of the sender
    recorded,   \* the transcript, an exchange at a time
    call,       \* the dispatch under way, or None
    runs,       \* history: specialists that ran for the message, up to 3
    failed      \* messages that ended in an error

vars == <<policy, recorded, call, runs, failed>>

Maybe(S) == S \cup {None}
Answers == {"plain", "gap", "told", "sentinel"}

(* denied: the tools stripped as blocked, owner-only or restricted.  No      *)
(* category is restricted for a trusted sender.                              *)
Policy == [allowed : Maybe((SUBSET Categories) \ {{}}), restricted : SUBSET Categories,
           denied : SUBSET Tools, console : BOOLEAN]

(* text: what the message is, the user's own words, a summary of the         *)
(* conversation or a handoff note; keeps: _transcriptMessage is given.       *)
Texts == {"own", "summary", "note"}
Request == [text : Texts, keeps : BOOLEAN, override : Maybe(Categories),
            again : BOOLEAN, short : BOOLEAN]
Routed == [cat : Categories, tools : SUBSET Tools, mode : {"bare", "loop", "pipeline"},
           armed : BOOLEAN]
Exchange == [text : Texts, cat : Categories, answer : Answers]

TypeOK ==
    /\ policy \in Policies /\ Policies \subseteq Policy
    /\ recorded \in Seq(Exchange)
    /\ call # None =>
          /\ call.pc \in {"routing", "running", "answered"}
          /\ call.req \in Request
          /\ call.pc # "routing" => call.to \in Routed
          /\ call.answer \in Maybe(Answers)
    /\ failed \in 0..MaxMessages

Init == /\ policy \in Policies /\ recorded = <<>> /\ call = None
        /\ runs = 0 /\ failed = 0
-----------------------------------------------------------------------------
(* classifier.ts *)

(* What the cascade reads off a text: is it a bare address, does an          *)
(* overriding pattern, a keyword or the model point somewhere, is it written *)
(* like a follow-up, is the decision model sure.                             *)
Look == [url : BOOLEAN, pattern : Maybe(Hinted), keyword : Maybe(Hinted),
         model : Maybe(Categories), follows : BOOLEAN, sure : BOOLEAN]

Sticky == {"chat", "briefing", "cron"}
Target(c) == IF c = "briefing" THEN "chat" ELSE c

(* A follow-up stays, unless a keyword points elsewhere. *)
Sticks(look, previous) ==
    /\ previous \in Sticky /\ Target(previous) \in Categories
    /\ look.follows /\ look.keyword \in {None, Target(previous)}

FirstOf(c, d) == IF c # None THEN c ELSE d

(* The decision model comes after the keywords and escalates when unsure;    *)
(* the generative one comes before them.                                     *)
Asked(look) ==
    IF SystemOne
    THEN FirstOf(look.keyword, IF look.sure THEN FirstOf(look.model, Default) ELSE Default)
    ELSE FirstOf(look.model, FirstOf(look.keyword, Default))

Classify(look, previous) ==
    CASE look.url /\ "website" \in Categories -> [cat |-> "website", sticky |-> FALSE]
      [] look.pattern # None -> [cat |-> look.pattern, sticky |-> FALSE]
      [] Sticks(look, previous) -> [cat |-> Target(previous), sticky |-> TRUE]
      [] OTHER -> [cat |-> Asked(look), sticky |-> FALSE]

Classified(previous) == {Classify(look, previous) : look \in Look}

Previous == IF recorded = <<>> THEN None ELSE recorded[Len(recorded)].cat
-----------------------------------------------------------------------------
(* dispatchMessage *)

(* The channel's categories, then those the sender may not use. *)
Enforced(cat, req) ==
    LET here == IF policy.allowed = None \/ cat \in policy.allowed THEN cat
                ELSE IF "chat" \in policy.allowed THEN "chat"
                ELSE CHOOSE c \in policy.allowed : TRUE
    IN IF here \in policy.restricted THEN "chat" ELSE here

(* A short message in the middle of a conversation is chat, unless it        *)
(* follows up or its category was given.                                     *)
Guarded(cat, sticky, req) ==
    /\ cat # "chat" /\ ~sticky /\ req.override = None /\ ~policy.console
    /\ recorded # <<>> /\ req.short

Armed(cat, req) == /\ ~req.again /\ req.override = None
                   /\ cat # "chat" /\ cat \in Arena /\ ToolsOf[cat] # {}

(* browsing: the console controls a browser, which takes no pipeline. *)
Mode(cat, tools, browsing) ==
    CASE tools = {} -> "bare"
      [] tools # {} /\ cat \notin Arena /\ cat \in Piped /\ ~browsing -> "pipeline"
      [] OTHER -> "loop"

Routing(route, req, browsing) ==
    LET cat == Enforced(route.cat, req)
        final == IF Guarded(cat, route.sticky, req) THEN "chat" ELSE cat
        tools == IF final = cat THEN ToolsOf[cat] \ policy.denied ELSE ToolsOf[final]
    IN [cat |-> final, tools |-> tools, mode |-> Mode(final, tools, browsing),
        armed |-> Armed(cat, req)]

Dispatched(req) == [req |-> req, pc |-> "routing", to |-> None, answer |-> None]

Receive ==
    /\ call = None /\ Len(recorded) + failed < MaxMessages
    /\ \E override \in Maybe(Categories), short \in BOOLEAN :
          call' = Dispatched([text |-> "own", keeps |-> FALSE, override |-> override,
                              again |-> FALSE, short |-> short])
    /\ runs' = 0 /\ UNCHANGED <<policy, recorded, failed>>

Route ==
    /\ call # None /\ call.pc = "routing"
    /\ \E route \in IF call.req.override # None
                    THEN {[cat |-> call.req.override, sticky |-> FALSE]}
                    ELSE Classified(Previous),
          browsing \in {FALSE, policy.console} :
          call' = [call EXCEPT !.pc = "running", !.to = Routing(route, call.req, browsing)]
    /\ UNCHANGED <<policy, recorded, runs, failed>>

(* The research pipeline gives up in a conversation that asked for no report. *)
MayDecline(to) == to.cat = "research" /\ to.mode = "pipeline" /\ recorded # <<>>

Run ==
    /\ call # None /\ call.pc = "running"
    /\ runs' = IF runs < 3 THEN runs + 1 ELSE runs
    /\ \/ \E a \in {"plain", "gap", "sentinel"} :
             /\ a = "sentinel" => MayDecline(call.to)
             /\ call' = [call EXCEPT !.pc = "answered", !.answer = a]
             /\ UNCHANGED failed
       \/ call' = None /\ failed' = failed + 1
    /\ UNCHANGED <<policy, recorded>>

(* Mutant: the downgrade does not look whether there was one already. *)
DeclinedAgain == call.answer = "sentinel"

Declined == call.answer = "sentinel" /\ ~call.req.again
ChatGap == /\ call.answer = "gap" /\ call.to.cat = "chat"
           /\ call.req.override = None /\ ~call.req.again
ArenaGap == /\ call.answer = "gap" /\ call.to.armed
            /\ call.to.cat \in Arena \ {"chat"}
Answered == call # None /\ call.pc = "answered"

Again(text, category) ==
    Dispatched([text |-> text, keeps |-> text = "note", override |-> category,
                again |-> TRUE, short |-> FALSE])

(* summarizeForHandoff falls back to the message when there is no summary. *)
Summaries == IF recorded = <<>> THEN {"own"} ELSE {"own", "summary"}

Downgrade ==
    /\ Answered /\ Declined
    /\ \E text \in Summaries : call' = Again(text, "web_search")
    /\ UNCHANGED <<policy, recorded, runs, failed>>

SilentReroute ==
    /\ Answered /\ ~Declined /\ ChatGap
    /\ \E text \in Summaries, route \in Classified(None) :
          route.cat # "chat" /\ call' = Again(text, route.cat)
    /\ UNCHANGED <<policy, recorded, runs, failed>>

(* The router is asked again; a specialist is not handed what it gave up. *)
Elsewhere(route) == route.cat \notin {call.to.cat, "chat"}

Reroute ==
    /\ Answered /\ ~Declined /\ ~ChatGap /\ ArenaGap
    /\ \E route \in Classified(None) :
          Elsewhere(route) /\ call' = Again("note", route.cat)
    /\ UNCHANGED <<policy, recorded, runs, failed>>

Record(answer) ==
    /\ recorded' = Append(recorded,
          [text |-> IF call.req.keeps THEN "own" ELSE call.req.text,
           cat |-> call.to.cat, answer |-> answer])
    /\ call' = None /\ UNCHANGED <<policy, runs, failed>>

(* The exchange is kept: as it is, or with a note that no route was found. *)
Finish ==
    /\ Answered /\ ~Declined
    /\ \/ ~ArenaGap /\ ~ChatGap /\ Record(call.answer)
       \/ ChatGap /\ (\E route \in Classified(None) : route.cat = "chat") /\ Record("gap")
       \/ /\ ~ChatGap /\ ArenaGap
          /\ \E route \in Classified(None) : ~Elsewhere(route)
          /\ Record("told")

Next == Receive \/ Route \/ Run \/ Downgrade \/ SilentReroute \/ Reroute \/ Finish
Work == Route \/ Run \/ Downgrade \/ SilentReroute \/ Reroute \/ Finish

(* The router, the specialist and the pipeline are all bounded in time. *)
Spec == Init /\ [][Next]_vars /\ WF_vars(Work)
-----------------------------------------------------------------------------
(* Properties *)

(* Whichever way a message got there, by the router, by the caller, by a     *)
(* guard or by a second dispatch, its specialist is one the channel has, or  *)
(* chat, and holds only tools the channel leaves it.  (reroute.ts rule 1:    *)
(* "A reroute never widens authority")                                       *)
StaysInPolicy ==
    call # None /\ call.pc # "routing" =>
        /\ policy.allowed # None => call.to.cat \in policy.allowed \cup {"chat"}
        /\ call.to.cat \in policy.restricted => call.to.cat = "chat"
        /\ call.to.tools \cap policy.denied = {}

(* The transcript keeps what the user said, not the note one specialist      *)
(* leaves another (dispatch.ts:167).                                         *)
NoteIsNotSaid == \A i \in 1..Len(recorded) : recorded[i].text # "note"

(* A message is handed on once at most (reroute.ts rule 3: "One reroute per  *)
(* message").                                                                *)
HandedOnOnce == runs <= 2

(* A message is answered or fails, whatever specialists say of each other.   *)
MessageEnds == call # None ~> call = None

=============================================================================
