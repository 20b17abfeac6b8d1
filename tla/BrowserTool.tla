----------------------------- MODULE BrowserTool -----------------------------
(* The browser tool (tools/browser.ts) and what it drives: the one local     *)
(* browser, launched by the first call that finds none (browser/client.ts),  *)
(* and, for the console, the extension: actions queue in the bridge          *)
(* (browser/remote-bridge.ts), the side panel polls for the head, runs it    *)
(* and posts its result (sidepanel/App.tsx, background.ts).  At the end, the *)
(* messages the side panel lists and stores, a specification of their own.   *)
EXTENDS Integers, Sequences, SequencesExt, FiniteSets

CONSTANTS
    Calls,      \* calls of the tool, of agents that run side by side
    Consoles,   \* those of them that come from the console
    Loops,      \* polling loops: one per side panel, and per saved settings
    Clients,    \* bound: local browsers launched
    MaxLosses,  \* bound: posts lost, panels closed, browsers that crash
    Sends,      \* messages typed in the panel, or chosen in the context menu
    Urls,       \* pages, one of which is in front
    MaxClears,  \* bound: Clear pressed
    None

VARIABLES
    call,       \* [Calls -> "new", "queued", "launching", "acting", or its outcome]
    queue,      \* actions that wait for the extension
    connected,  \* as the bridge knows it
    leaving,    \* requests to disconnect on their way
    loop,       \* [Loops -> [on, at: "idle", "polling", "running", "ran", act]]
    ran,        \* history: [Calls -> how often the extension ran it]
    shared,     \* sharedClient: a client, or None
    client,     \* [Clients -> "none", "launching", "half" (no page), "up", "crashed"]
    owner,      \* [Calls -> the client it launches or acts on, or None]
    losses, crowd,  \* history: two loops at once, two launches, a close that
                    \* takes another browser away; or a post lost
    send,           \* [Sends -> "new", "context", "streaming", "over"]
    base,           \* [Sends -> the messages it builds on]
    messages,       \* what is listed
    stored,         \* what is kept for the next time the panel opens
    streaming, tab, lastPage,
    clears, overlapped  \* history: two sends, or a send and Clear, at once

toolVars == <<call, queue, connected, leaving, loop, ran, shared, client, owner, losses, crowd>>
panelVars == <<send, base, messages, stored, streaming, tab, lastPage, clears, overlapped>>

Waiting == {"queued", "launching", "acting"}
Outcomes == {"ok", "failed", "answered", "timeout", "gone"}

TypeOK ==
    /\ \A c \in Calls : call[c] \in {"new"} \cup Waiting \cup Outcomes
    /\ queue \in Seq(Calls) /\ IsInjective(queue) /\ {connected, leaving, crowd} \subseteq BOOLEAN
    /\ loop \in [Loops -> [on : BOOLEAN, at : {"idle", "polling", "running", "ran"},
                           act : Calls \cup {None}]]
    /\ ran \in [Calls -> 0..2] /\ shared \in Clients \cup {None}
    /\ client \in [Clients -> {"none", "launching", "half", "up", "crashed"}]
    /\ owner \in [Calls -> Clients \cup {None}] /\ losses \in 0..MaxLosses
    /\ \A c \in Calls : c \in ToSet(queue) <=> call[c] = "queued"

Init ==
    /\ call = [c \in Calls |-> "new"] /\ queue = <<>> /\ connected = FALSE /\ leaving = FALSE
    /\ loop = [l \in Loops |-> [on |-> FALSE, at |-> "idle", act |-> None]]
    /\ ran = [c \in Calls |-> 0] /\ shared = None /\ client = [k \in Clients |-> "none"]
    /\ owner = [c \in Calls |-> None] /\ losses = 0 /\ crowd = FALSE
-----------------------------------------------------------------------------
bridge == <<queue, connected, leaving, loop, ran>>
local == <<shared, client, owner>>

Settle(c, outcome) == call' = [call EXCEPT ![c] = outcome]
Loses == losses < MaxLosses /\ losses' = losses + 1

(* Mutant: what is settled stays in the queue. *)
QueueKept(c) == queue

QueueWithout(c) == RemoveAt(queue, CHOOSE i \in DOMAIN queue : queue[i] = c)

(* A call from the console goes to the extension that is there, *)
ViaExtension(c) == connected /\ c \in Consoles

ToExtension(c) ==
    /\ call[c] = "new" /\ ViaExtension(c) /\ Settle(c, "queued") /\ queue' = Append(queue, c)
    /\ UNCHANGED <<connected, leaving, loop, ran, local, losses, crowd>>

Due(c) == call[c] = "queued"

(* and is answered in half a minute, run or not. *)
Timeout(c) == /\ Due(c) /\ Settle(c, "timeout") /\ queue' = QueueWithout(c)
              /\ UNCHANGED <<connected, leaving, loop, ran, local, losses, crowd>>

(* What waits when the extension goes is given up. *)
Disconnect == /\ leaving /\ leaving' = FALSE /\ connected' = FALSE /\ queue' = <<>>
              /\ call' = [c \in Calls |-> IF call[c] = "queued" THEN "gone" ELSE call[c]]
              /\ UNCHANGED <<loop, ran, local, losses, crowd>>

(* The side panel: another panel is opened, or the settings are saved.  A    *)
(* loop that is told to stop ends its round first.                           *)
Running(l) == loop[l].on \/ loop[l].at # "idle"
Open(l) == /\ ~Running(l) /\ loop' = [loop EXCEPT ![l].on = TRUE] /\ connected' = TRUE
           /\ crowd' = (crowd \/ \E m \in Loops \ {l} : Running(m))
           /\ UNCHANGED <<call, queue, leaving, ran, local, losses>>
Close(l) == /\ loop[l].on /\ Loses /\ loop' = [loop EXCEPT ![l].on = FALSE] /\ leaving' = TRUE
            /\ UNCHANGED <<call, queue, connected, ran, local, crowd>>

(* A round: connect again, ask for the head, which stays where it is; run    *)
(* it; post the result.  A post that fails is not repeated.                  *)
Connect(l) == /\ loop[l].on /\ loop[l].at = "idle" /\ connected' = TRUE
              /\ loop' = [loop EXCEPT ![l].at = "polling"]
              /\ UNCHANGED <<call, queue, leaving, ran, local, losses, crowd>>
Poll(l) == /\ loop[l].at = "polling"
           /\ loop' = [loop EXCEPT ![l].at = IF queue = <<>> THEN "idle" ELSE "running",
                                   ![l].act = IF queue = <<>> THEN None ELSE Head(queue)]
           /\ UNCHANGED <<call, queue, connected, leaving, ran, local, losses, crowd>>
Run(l) == /\ loop[l].at = "running" /\ loop' = [loop EXCEPT ![l].at = "ran"]
          /\ ran' = [ran EXCEPT ![loop[l].act] = IF @ < 2 THEN @ + 1 ELSE @]
          /\ UNCHANGED <<call, queue, connected, leaving, local, losses, crowd>>

Answered(c) == IF call[c] = "queued" THEN c ELSE None

Post(l) == /\ loop[l].at = "ran"
           /\ loop' = [loop EXCEPT ![l].at = "idle", ![l].act = None]
           /\ LET c == Answered(loop[l].act) IN
                \/ /\ IF c = None THEN UNCHANGED <<call, queue>>
                      ELSE Settle(c, "answered") /\ queue' = QueueWithout(c)
                   /\ UNCHANGED <<losses, crowd>>
                \/ Loses /\ crowd' = TRUE /\ UNCHANGED <<call, queue>>
           /\ UNCHANGED <<connected, leaving, ran, local>>
-----------------------------------------------------------------------------
(* A call from elsewhere, or without the extension, uses the local browser:  *)
(* the first that finds none running launches one.                           *)
IsRunning == shared # None /\ client[shared] \notin {"none", "launching"}

MustLaunch == ~IsRunning

Enter(c) == /\ call[c] = "new" /\ ~ViaExtension(c) /\ ~MustLaunch /\ Settle(c, "acting")
            /\ owner' = [owner EXCEPT ![c] = shared]
            /\ UNCHANGED <<bridge, shared, client, losses, crowd>>
Launch(c, k) ==
    /\ call[c] = "new" /\ ~ViaExtension(c) /\ MustLaunch
    /\ client[k] = "none" /\ \A d \in Calls : owner[d] # k
    /\ shared' = k /\ client' = [client EXCEPT ![k] = "launching"]
    /\ owner' = [owner EXCEPT ![c] = k] /\ Settle(c, "launching")
    /\ crowd' = (crowd \/ \E d \in Calls : call[d] = "launching") /\ UNCHANGED <<bridge, losses>>

(* It comes up, and the call acts on the browser that is shared by then, if  *)
(* one is; or it fails, or comes up without a page.                          *)
Launched(c) ==
    /\ call[c] = "launching"
    /\ \/ /\ client' = [client EXCEPT ![owner[c]] = "up"]
          /\ Settle(c, IF shared = None THEN "failed" ELSE "acting")
          /\ owner' = [owner EXCEPT ![c] = shared]
       \/ /\ \E s \in {"none", "half"} : client' = [client EXCEPT ![owner[c]] = s]
          /\ Settle(c, "failed") /\ owner' = [owner EXCEPT ![c] = None]
    /\ UNCHANGED <<bridge, shared, losses, crowd>>

(* It acts on the browser it found; or closes it, and none is shared then,   *)
(* whichever was.                                                            *)
Act(c) == /\ call[c] = "acting" /\ owner' = [owner EXCEPT ![c] = None]
          /\ Settle(c, IF client[owner[c]] = "up" THEN "ok" ELSE "failed")
          /\ UNCHANGED <<bridge, shared, client, losses, crowd>>
CloseBrowser(c) ==
    /\ call[c] = "acting" /\ Settle(c, "ok") /\ owner' = [owner EXCEPT ![c] = None]
    /\ client' = [client EXCEPT ![owner[c]] = IF @ = "launching" THEN @ ELSE "none"]
    /\ shared' = None /\ crowd' = (crowd \/ shared \notin {None, owner[c]})
    /\ UNCHANGED <<bridge, losses>>
Crash(k) == /\ client[k] \in {"up", "half"} /\ Loses /\ client' = [client EXCEPT ![k] = "crashed"]
            /\ UNCHANGED <<call, bridge, shared, owner, crowd>>

Next ==
    \/ Disconnect
    \/ \E c \in Calls : \/ ToExtension(c) \/ Timeout(c) \/ Enter(c) \/ Launched(c)
                        \/ Act(c) \/ CloseBrowser(c) \/ \E k \in Clients : Launch(c, k)
    \/ \E l \in Loops : Open(l) \/ Close(l) \/ Connect(l) \/ Poll(l) \/ Run(l) \/ Post(l)
    \/ \E k \in Clients : Crash(k)

(* Timers fire; a launch and an act on the page end in their own time.       *)
Fairness == \A c \in Calls : /\ WF_toolVars(Timeout(c)) /\ WF_toolVars(Launched(c))
                             /\ WF_toolVars(Act(c))

Spec == Init /\ [][Next]_toolVars /\ Fairness
-----------------------------------------------------------------------------
(* Properties *)

(* No call waits.  A call is made once: if this is true again and again,     *)
(* every call comes to an end, whatever the extension does.                  *)
AllSettled == \A c \in Calls : call[c] \notin Waiting

(* An action with an answer, a good or a bad one, was run; and an action is  *)
(* run once, unless two loops poll or a result is lost.                      *)
AnsweredWasRun == \A c \in Calls : call[c] = "answered" => ran[c] > 0
RunOnce == ~crowd => \A c \in Calls : ran[c] <= 1

(* One browser at most, the shared one; unless two calls launch it at once,  *)
(* or one closes the browser it found when another is shared by then.        *)
OneBrowser == ~crowd => \A k \in Clients : client[k] \in {"up", "half"} => k = shared
-----------------------------------------------------------------------------
(* The side panel's messages (sidepanel/App.tsx): a message first waits for  *)
(* the page's context, and perhaps a screenshot, then for its answer; the    *)
(* list of messages is put together from the one there was when it was sent, *)
(* and stored.  The page's content goes with the first message, and again    *)
(* when the page is another.                                                 *)

Said == {"ask", "reply"} \X Sends

PanelTypeOK ==
    /\ send \in [Sends -> {"new", "context", "streaming", "over"}]
    /\ base \in [Sends -> SUBSET Said] /\ messages \subseteq Said /\ stored \subseteq Said
    /\ {streaming, overlapped} \subseteq BOOLEAN /\ tab \in Urls /\ lastPage \in Urls \cup {None}
    /\ clears \in 0..MaxClears

PanelInit ==
    /\ send = [s \in Sends |-> "new"] /\ base = [s \in Sends |-> {}] /\ messages = {}
    /\ stored = {} /\ streaming = FALSE /\ tab \in Urls /\ lastPage = None
    /\ clears = 0 /\ overlapped = FALSE
-----------------------------------------------------------------------------
Underway(s) == send[s] \in {"context", "streaming"}

Takes == ~streaming

(* The messages it builds on are those of the moment. *)
Send(s) ==
    /\ send[s] = "new" /\ Takes /\ send' = [send EXCEPT ![s] = "context"]
    /\ base' = [base EXCEPT ![s] = messages]
    /\ overlapped' = (overlapped \/ \E r \in Sends : send[r] = "context")
    /\ UNCHANGED <<messages, stored, streaming, tab, lastPage, clears>>

(* The context is there: the content of a page goes along unless it was the  *)
(* last that did; some pages give none.                                      *)
Context(s) ==
    /\ send[s] = "context" /\ send' = [send EXCEPT ![s] = "streaming"]
    /\ messages' = base[s] \cup {<<"ask", s>>} /\ streaming' = TRUE
    /\ \/ tab # lastPage /\ lastPage' = tab
       \/ UNCHANGED lastPage
    /\ UNCHANGED <<base, stored, tab, clears, overlapped>>

Final(s) == base[s] \cup {<<"ask", s>>, <<"reply", s>>}

Stored(s) == Final(s)

(* The answer; an error on the way is shown, one the server tells of leaves  *)
(* an empty answer.                                                          *)
Answer(s) ==
    /\ send[s] = "streaming" /\ send' = [send EXCEPT ![s] = "over"] /\ streaming' = FALSE
    /\ messages' = Final(s) /\ stored' = Stored(s)
    /\ UNCHANGED <<base, tab, lastPage, clears, overlapped>>

(* Clear, at any time; lastPage is not forgotten with the conversation. *)
Clear ==
    /\ clears < MaxClears /\ clears' = clears + 1 /\ messages' = {} /\ stored' = {}
    /\ overlapped' = (overlapped \/ \E s \in Sends : Underway(s))
    /\ UNCHANGED <<send, base, streaming, tab, lastPage>>

Switch == /\ \E u \in Urls \ {tab} : tab' = u
          /\ UNCHANGED <<send, base, messages, stored, streaming, lastPage, clears, overlapped>>

PanelNext == Clear \/ Switch \/ \E s \in Sends : Send(s) \/ Context(s) \/ Answer(s)

PanelSpec == PanelInit /\ [][PanelNext]_panelVars
-----------------------------------------------------------------------------
(* What is listed when nothing is on its way is stored; and without two sends*)
(* at once no message or answer goes missing, but by Clear.                  *)
PanelIsStored ==
    /\ (\A s \in Sends : ~Underway(s)) => stored = messages
    /\ ~overlapped /\ clears = 0 =>
          \A s \in Sends : send[s] = "over" => {"ask", "reply"} \X {s} \subseteq messages
=============================================================================
