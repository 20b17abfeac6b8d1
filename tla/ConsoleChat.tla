----------------------------- MODULE ConsoleChat -----------------------------
(* The console's chat page (console/src/pages/Chat.tsx) and the handlers it  *)
(* calls (console/handlers/chat.ts): typed messages, whose answer comes as a *)
(* stream of events; the conversation of before, fetched when the page       *)
(* opens; "New Chat"; and the voice mode, which records, sends what it heard *)
(* and records again.  Timers, the microphone's permission and requests end  *)
(* whenever they do, whatever the page is doing then.                        *)
EXTENDS Integers, FiniteSets

CONSTANTS
    Targets,                  \* of the heartbeat: "owner", a room, or "none"
    Typed, Turns,             \* bounds: messages typed, messages spoken
    MaxResets, MaxToggles     \* bounds: New Chat pressed, voice mode turned on

VARIABLES
    who,        \* [token: is the API behind one, target]
    status, voice,
    shown,      \* what the page lists
    history,    \* "asked" when the page opens, then "in"
    resetting,  \* New Chat waits for the server
    text,       \* [Typed -> "new", "posted", "answered", "failed", "over"]
    session,    \* the turns the server keeps of the conversation
    since,      \* history: typed since New Chat was last pressed
    mic, asks,  \* has the page the microphone; calls that wait for it
    held,       \* the recorder the page knows: "none", "run", "still"
    stray,      \* recorders that run and the page knows no more
    timers,     \* timers that will start to record
    turn,       \* [Turns -> "new", "stopping", "posted", "aborted", "playing", "over"]
    toggles,
    resets, raced, kept, late   \* history, see below

page == <<status, voice, shown, history, resetting>>
sound == <<mic, asks, held, stray, timers, turn, toggles, late>>
server == <<text, session, since>>
chatVars == <<who, page, sound, server, resets, raced, kept>>

(* Mutant: a typed message does not keep the buttons dead. *)
BusySpeaking == status = "processing"

Busy == status \in {"sending", "processing"}

TypeOK ==
    /\ who \in [token : BOOLEAN, target : Targets]
    /\ status \in {"idle", "sending", "recording", "processing", "playing"}
    /\ {voice, resetting, mic, raced, kept, late} \subseteq BOOLEAN
    /\ history \in {"asked", "in"} /\ resets \in 0..MaxResets /\ toggles \in 0..MaxToggles
    /\ \A r \in Typed : text[r] \in {"new", "posted", "answered", "failed", "over"}
    /\ session \subseteq Typed \cup {"old"} /\ since \subseteq Typed
    /\ shown \subseteq ({"ask", "reply"} \X (Typed \cup Turns \cup {"old"}))
    /\ asks \in Nat /\ held \in {"none", "run", "still"} /\ stray \in Nat /\ timers \in Nat
    /\ \A t \in Turns : turn[t] \in {"new", "stopping", "posted", "aborted", "playing", "over"}

Init ==
    /\ who \in [token : BOOLEAN, target : Targets]
    /\ status = "idle" /\ voice = FALSE /\ shown = {} /\ history = "asked"
    /\ resetting = FALSE /\ text = [r \in Typed |-> "new"] /\ session \in {{}, {"old"}}
    /\ since = {} /\ mic = FALSE /\ asks = 0 /\ held = "none" /\ stray = 0 /\ timers = 0
    /\ turn = [t \in Turns |-> "new"]
    /\ resets = 0 /\ toggles = 0 /\ raced = FALSE /\ kept = FALSE /\ late = FALSE
-----------------------------------------------------------------------------
(* Whose session it is.  The page claims the target of the heartbeat; behind *)
(* a token the owner speaks, and a claim only parts the sessions.            *)
Claimed == IF who.target = "none" THEN "console-user" ELSE who.target
ChatKey == IF who.token
           THEN <<"owner", IF Claimed = "owner" THEN "console" ELSE Claimed>>
           ELSE <<Claimed, "console">>
ResetKey == <<Claimed, "console">>

WithHistory(past) == IF shown = {} THEN past ELSE shown

HistoryArrives ==
    /\ history = "asked" /\ history' = "in"
    /\ shown' = WithHistory({"ask", "reply"} \X session)
    /\ UNCHANGED <<who, status, voice, resetting, sound, server, resets, raced, kept>>

(* New Chat: the button is dead only while a request runs; the page goes on  *)
(* while the server clears the session, and is cleared even if that failed.  *)
NewChat ==
    /\ ~Busy /\ ~resetting /\ resets < MaxResets /\ resets' = resets + 1
    /\ resetting' = TRUE /\ since' = {}
    /\ UNCHANGED <<who, status, voice, shown, history, sound, text, session, raced, kept>>

SessionAfterReset == IF ResetKey = ChatKey THEN {} ELSE session

ResetEnds ==
    /\ resetting /\ resetting' = FALSE /\ shown' = {} /\ status' = "idle"
    /\ \/ session' = SessionAfterReset /\ UNCHANGED kept
       \/ kept' = TRUE /\ UNCHANGED session
    /\ raced' = (raced \/ status # "idle" \/ history = "asked")
    /\ UNCHANGED <<who, voice, history, sound, text, since, resets>>
-----------------------------------------------------------------------------
(* A typed message; the box is dead in voice mode. *)
Send(r) ==
    /\ text[r] = "new" /\ status = "idle" /\ ~voice
    /\ shown' = shown \cup {<<"ask", r>>} /\ status' = "sending"
    /\ text' = [text EXCEPT ![r] = "posted"] /\ since' = since \cup {r}
    /\ raced' = (raced \/ resetting)
    /\ UNCHANGED <<who, voice, history, resetting, sound, session, resets, kept>>

(* The handler: an answer to a question of the confirmation gate, a command, *)
(* or a dispatch; or the request is refused, fails or is lost.               *)
Serve(r) ==
    /\ text[r] = "posted"
    /\ \/ /\ \/ UNCHANGED session               \* a confirmation, !research without a topic
             \/ session' = {}                   \* !reset, !new
             \/ session' = session \cup {r}     \* !research, or the dispatch
          /\ text' = [text EXCEPT ![r] = "answered"]
       \/ text' = [text EXCEPT ![r] = "failed"] /\ session' \in {session, session \cup {r}}
    /\ UNCHANGED <<who, page, sound, since, resets, raced, kept>>

StatusAfter(r) == "idle"

(* The stream of events ends with the answer or an error. *)
Show(r) ==
    /\ text[r] \in {"answered", "failed"} /\ text' = [text EXCEPT ![r] = "over"]
    /\ shown' = shown \cup {<<"reply", r>>} /\ status' = StatusAfter(r)
    /\ UNCHANGED <<who, voice, history, resetting, sound, session, since, resets, raced, kept>>
-----------------------------------------------------------------------------
(* startRecording: without a microphone it waits; with one it records, and   *)
(* forgets the recorder there was.                                           *)
Records == /\ stray' = IF held = "run" THEN stray + 1 ELSE stray
           /\ held' = "run" /\ status' = "recording"

Starts == IF mic THEN Records /\ UNCHANGED asks
          ELSE asks' = asks + 1 /\ UNCHANGED <<stray, held, status>>

NotText == UNCHANGED <<who, history, resetting, server, resets, raced, kept>>
NotToggle == NotText /\ UNCHANGED toggles

MicAnswers ==
    /\ asks > 0 /\ asks' = asks - 1
    /\ \/ mic' = TRUE /\ Records /\ UNCHANGED voice
       \/ voice' = FALSE /\ UNCHANGED <<mic, stray, held, status>>
    /\ late' = (late \/ (~voice' /\ (asks > 1 \/ held = "run")))
    /\ UNCHANGED <<shown, timers, turn>> /\ NotToggle

ToggleOn ==
    /\ ~voice /\ ~Busy /\ toggles < MaxToggles /\ toggles' = toggles + 1
    /\ voice' = TRUE /\ Starts
    /\ late' = (late \/ held = "run") /\ UNCHANGED <<shown, mic, timers, turn>> /\ NotText

HeldAfterToggle == IF held = "run" THEN "still" ELSE held

(* What was sent last is aborted; what waits to start is not called off. *)
ToggleOff ==
    /\ voice /\ voice' = FALSE /\ held' = HeldAfterToggle /\ status' = "idle"
    /\ turn' = [t \in Turns |-> IF turn[t] = "posted" THEN "aborted" ELSE turn[t]]
    /\ late' = (late \/ asks > 0 \/ timers > 0 \/ \E t \in Turns : turn[t] \notin {"new", "over"})
    /\ UNCHANGED <<shown, mic, asks, stray, timers>> /\ NotToggle

(* A silence after speech. *)
Silence(t) ==
    /\ voice /\ held = "run" /\ turn[t] = "new"
    /\ held' = "still" /\ turn' = [turn EXCEPT ![t] = "stopping"]
    /\ UNCHANGED <<status, voice, shown, mic, asks, stray, timers, late>> /\ NotToggle

(* The recorder has stopped: next to nothing was said, or it is sent. *)
Stopped(t) ==
    /\ turn[t] = "stopping"
    /\ \/ /\ turn' = [turn EXCEPT ![t] = "over"]
          /\ IF voice THEN Starts ELSE UNCHANGED <<asks, stray, held, status>>
       \/ /\ turn' = [turn EXCEPT ![t] = "posted"] /\ status' = "processing"
          /\ UNCHANGED <<asks, stray, held>>
    /\ UNCHANGED <<voice, shown, mic, timers, late>> /\ NotToggle

Retry(t) == IF voice THEN timers + 1 ELSE timers

(* An answer, spoken or not; a refusal, which leaves the page as it is; or   *)
(* an error on the way.                                                      *)
Answers(t) ==
    /\ turn[t] = "posted" /\ shown' = shown \cup {<<"ask", t>>, <<"reply", t>>}
    /\ \/ /\ turn' = [turn EXCEPT ![t] = "playing"] /\ status' = "playing"
          /\ UNCHANGED <<asks, stray, held>>
       \/ /\ turn' = [turn EXCEPT ![t] = "over"]
          /\ IF voice THEN Starts /\ (mic \/ status' = "idle")
             ELSE status' = "idle" /\ UNCHANGED <<asks, stray, held>>
    /\ UNCHANGED <<voice, mic, timers, late>> /\ NotToggle

Played(t) ==
    /\ turn[t] = "playing" /\ turn' = [turn EXCEPT ![t] = "over"]
    /\ IF voice THEN Starts /\ (mic \/ status' = "idle")
       ELSE status' = "idle" /\ UNCHANGED <<asks, stray, held>>
    /\ UNCHANGED <<voice, shown, mic, timers, late>> /\ NotToggle

Refused(t) ==
    /\ turn[t] = "posted" /\ turn' = [turn EXCEPT ![t] = "over"] /\ timers' = Retry(t)
    /\ UNCHANGED <<status, voice, shown, mic, asks, stray, held, late>> /\ NotToggle

Broken(t) ==
    /\ turn[t] \in {"posted", "aborted"} /\ turn' = [turn EXCEPT ![t] = "over"]
    /\ status' = "idle" /\ timers' = Retry(t)
    /\ UNCHANGED <<voice, shown, mic, asks, stray, held, late>> /\ NotToggle

(* A second later, whatever has become of the voice mode. *)
Timer ==
    /\ timers > 0 /\ timers' = timers - 1 /\ Starts
    /\ UNCHANGED <<voice, shown, mic, turn, late>> /\ NotToggle

TurnEnds(t) == Stopped(t) \/ Answers(t) \/ Played(t) \/ Refused(t) \/ Broken(t)

Next == \/ HistoryArrives \/ NewChat \/ ResetEnds \/ MicAnswers \/ ToggleOn \/ ToggleOff
        \/ Timer
        \/ \E r \in Typed : Send(r) \/ Serve(r) \/ Show(r)
        \/ \E t \in Turns : Silence(t) \/ TurnEnds(t)

(* Requests, timers and the question for the microphone end. *)
Fairness == /\ \A r \in Typed : WF_chatVars(Serve(r)) /\ WF_chatVars(Show(r))
            /\ \A t \in Turns : WF_chatVars(TurnEnds(t))
            /\ WF_chatVars(Timer) /\ WF_chatVars(MicAnswers)

Spec == Init /\ [][Next]_chatVars /\ Fairness
-----------------------------------------------------------------------------
(* Properties.  raced: the user went on while New Chat, or the history, was  *)
(* on its way; kept: the server did not clear the session; late: the voice   *)
(* mode was turned off while something was on its way that starts to record. *)

(* When the page is idle again, what was asked has its answer. *)
EachHasItsAnswer == status = "idle" /\ ~raced /\ ~late =>
    \A r \in Typed : <<"ask", r>> \in shown => <<"reply", r>> \in shown

(* After New Chat the server remembers only what was said since. *)
ResetIsThorough ==
    ResetKey = ChatKey /\ resets > 0 /\ ~resetting /\ ~raced /\ ~kept /\ ~late =>
        session \subseteq since

(* The microphone is recorded in voice mode only, by one recorder. *)
MicIsVoice == ~late => /\ held = "run" => voice
                       /\ stray = 0

=============================================================================
