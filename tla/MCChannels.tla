------------------------------ MODULE MCChannels ------------------------------
(* The ways words come in and go out, side by side in one check: the         *)
(* mailbox, the messengers, web requests, the console's chat page, the       *)
(* browser with its pages, its tool and the extension's side panel, and the  *)
(* clients of models.  They share no state, so a behaviour is one of them:   *)
(* side says which, and the others stay in their initial state.              *)
EXTENDS Mailbox

CONSTANTS Limit, MaxText, Requests, MaxClock, MaxTexts,
          Targets, Typed, Turns, MaxResets, MaxToggles,
          Elements, Backends, MaxSteps,
          Calls, Consoles, Loops, Clients, MaxLosses,
          Sends, Urls, MaxClears,
          Lines, MaxAttempts, Embeds, Interval, MaxTime, None

VARIABLES side,
          update, typing, outcome, answer, pieces,
          clock, id, pending, timeouts, handling, response,
          who, status, voice, shown, history, resetting, text, session, since,
          mic, asks, held, stray, timers, turn, toggles, resets, raced, kept, late,
          backend, state, mark, listed, fresh, aim, acted, steps,
          call, actions, connected, leaving, loop, ran, shared, client, owner,
          losses, crowd,
          send, base, messages, stored, streaming, tab, lastPage, clears, overlapped,
          kind, ask, body, attempt, phase, sent, rest, heard, streamed, aborted,
          time, waiting, lastAt, fired

messengerVars == <<update, typing, outcome, answer, pieces>>
webVars == <<clock, id, pending, timeouts, handling, response>>
chatVars == <<who, status, voice, shown, history, resetting, text, session, since,
              mic, asks, held, stray, timers, turn, toggles, resets, raced, kept, late>>
pageVars == <<backend, state, mark, listed, fresh, aim, acted, steps>>
toolVars == <<call, actions, connected, leaving, loop, ran, shared, client, owner,
              losses, crowd>>
panelVars == <<send, base, messages, stored, streaming, tab, lastPage, clears, overlapped>>
modelVars == <<kind, ask, body, attempt, phase, sent, rest, heard, streamed,
               aborted, time, waiting, lastAt, fired>>
all == <<side, mailVars, messengerVars, webVars, chatVars, pageVars, toolVars,
         panelVars, modelVars>>

(* Transcripts with calls answered in full, in part, late, and not at all,   *)
(* and results whose call was cut off.                                       *)
Transcripts ==
    {<<1, 0>>, <<2, 0, 0>>, <<1, 0, 2, 0, 0>>, <<2, 0, -1, 0>>, <<2, 0, 1, 0, 0>>,
     <<0, 1, 0>>, <<-1, 0, 0>>}

M == INSTANCE Messengers
C == INSTANCE ConsoleChat
P == INSTANCE BrowserPage
T == INSTANCE BrowserTool WITH queue <- actions
O == INSTANCE ModelClient WITH held <- rest, shown <- streamed, clock <- time

ASSUME ChannelsAssumption ==
    /\ None \notin Calls /\ None \notin Clients /\ None \notin Requests
    /\ None \notin Elements /\ None \notin Int /\ None \notin M!Update \cup M!Answer
    /\ Elements \subseteq Nat /\ IsFiniteSet(Elements)
    /\ {MaxFails, MaxClock, MaxTexts, MaxResets, MaxToggles, MaxSteps, MaxLosses,
        MaxClears, MaxTime, Interval, Lines} \subseteq Nat
    /\ {Limit, MaxAttempts} \subseteq Nat \ {0}

AllInit ==
    /\ side \in {"mail", "messenger", "web", "chat", "page", "tool", "panel",
                 "model"}
    /\ Init /\ M!Init /\ M!WebInit /\ C!Init /\ P!Init /\ T!Init
    /\ T!PanelInit /\ O!Init
    (* Where a part is not looked at, one of its initial states will do. *)
    /\ side # "chat" => who = [token |-> FALSE, target |-> "room"] /\ session = {}
    /\ side # "page" => state = [e \in Elements |-> "visible"]
    /\ side # "panel" => tab = CHOOSE u \in Urls : TRUE
    /\ side # "model" => kind = "embedding"

OfMail ==
    side = "mail" /\ Next
    /\ UNCHANGED <<side, messengerVars, webVars, chatVars, pageVars, toolVars,
                   panelVars, modelVars>>
OfMessenger ==
    side = "messenger" /\ M!Next
    /\ UNCHANGED <<side, mailVars, webVars, chatVars, pageVars, toolVars,
                   panelVars, modelVars>>
OfWeb ==
    side = "web" /\ M!WebNext
    /\ UNCHANGED <<side, mailVars, messengerVars, chatVars, pageVars, toolVars,
                   panelVars, modelVars>>
OfChat ==
    side = "chat" /\ C!Next
    /\ UNCHANGED <<side, mailVars, messengerVars, webVars, pageVars, toolVars,
                   panelVars, modelVars>>
OfPage ==
    side = "page" /\ P!Next
    /\ UNCHANGED <<side, mailVars, messengerVars, webVars, chatVars, toolVars,
                   panelVars, modelVars>>
OfTool ==
    side = "tool" /\ T!Next
    /\ UNCHANGED <<side, mailVars, messengerVars, webVars, chatVars, pageVars,
                   panelVars, modelVars>>
OfPanel ==
    side = "panel" /\ T!PanelNext
    /\ UNCHANGED <<side, mailVars, messengerVars, webVars, chatVars, pageVars,
                   toolVars, modelVars>>
OfModel ==
    side = "model" /\ O!Next
    /\ UNCHANGED <<side, mailVars, messengerVars, webVars, chatVars, pageVars,
                   toolVars, panelVars>>

AllNext == \/ OfMail \/ OfMessenger \/ OfWeb \/ OfChat \/ OfPage \/ OfTool
           \/ OfPanel \/ OfModel

(* The fairness of the parts, for the one that is looked at. *)
AllFair ==
    /\ \A p \in Polls : WF_mailVars(side = "mail" /\ Step(p))
    /\ \A r \in Requests : WF_webVars(side = "web" /\ M!Timeout(r))
    /\ \A c \in Calls : /\ WF_toolVars(side = "tool" /\ T!Timeout(c))
                        /\ WF_toolVars(side = "tool" /\ T!Launched(c))
                        /\ WF_toolVars(side = "tool" /\ T!Act(c))

AllSpec == AllInit /\ [][AllNext]_all /\ AllFair
-----------------------------------------------------------------------------
(* Every part keeps its types (stated in its module). *)
AllTypeOK ==
    CASE side = "mail" -> TypeOK
      [] side = "messenger" -> M!TypeOK
      [] side = "web" -> M!WebTypeOK
      [] side = "chat" -> C!TypeOK
      [] side = "page" -> P!TypeOK
      [] side = "tool" -> T!TypeOK
      [] side = "panel" -> T!PanelTypeOK
      [] side = "model" -> O!TypeOK

(* What comes in or goes out arrives whole: mail that is marked as read was  *)
(* handled, the pieces a messenger is sent are the answer with its buttons   *)
(* under all of it, and what is heard of a streamed model answer is the      *)
(* lines that came, in order, none of them shown twice.                      *)
ArrivesWhole ==
    CASE side = "mail" -> MailIsKept
      [] side = "messenger" -> M!TextIsWhole /\ M!ButtonsUnderAll
      [] side = "model" -> O!StreamIsWholeOpenAI /\ O!ShownOnce
      [] OTHER -> TRUE

(* The result of a tool is given to the model as that of its own call.       *)
ResultsAreTheCalls == side = "model" => O!ResultsAnswerTheirCalls

(* An answer is to what was asked: an idle chat page has an answer to each   *)
(* message, an action of the browser that is said to be done was done, once, *)
(* and in one browser, and who waits on a web request can still be answered. *)
AnswersAreTrue ==
    CASE side = "chat" -> C!EachHasItsAnswer
      [] side = "tool" -> T!AnsweredWasRun /\ T!RunOnce /\ T!OneBrowser
      [] side = "web" -> M!WaitersAreOpen
      [] OTHER -> TRUE

(* What is done is what was meant: the local browser acts on what was shown  *)
(* under the number, the side panel shows what is stored, New Chat leaves    *)
(* nothing of the conversation before it and the microphone is the voice     *)
(* mode's, nobody is shown typing when nothing is worked on, a model that    *)
(* leaks its thoughts is asked to think, and embeddings are paced.           *)
AsMeant == CASE side = "page" -> P!ActsOnWhatWasShown
             [] side = "panel" -> T!PanelIsStored
             [] side = "chat" -> C!ResetIsThorough /\ C!MicIsVoice
             [] side = "messenger" -> M!TypingIsWork
             [] side = "model" -> O!LeakersThink /\ O!EmbedsArePaced
             [] OTHER -> TRUE

(* What waits for an answer does not wait for ever: again and again there is *)
(* a moment at which all mail that came is handled, and all web requests and *)
(* calls of the browser tool that were made are over; each is made once, so  *)
(* each one comes to its end.                                                *)
EverythingEnds == []<>(AllHandled /\ M!AllEnded /\ T!AllSettled)
=============================================================================
