----------------------------- MODULE Messengers -----------------------------
(* The Telegram and Discord adapters (channels/telegram/adapter.ts,          *)
(* channels/discord/adapter.ts): what an update becomes before the message   *)
(* handler sees it, the typing indicator while it works, and how an answer   *)
(* leaves: sound and files, then the text cut into pieces the service takes, *)
(* with the buttons under the last.  One update and one answer at a time     *)
(* are followed; nothing of the adapters is shared between two.  Of a text   *)
(* its letters, spaces and line ends are kept, and the limits are scaled; a  *)
(* piece is a part of the text, from one position to another.                *)
(* At the end, the requests of the web adapter, a specification of their own.*)
EXTENDS Integers, Sequences

CONSTANTS
    Limit,      \* characters of one piece: 4096 or 2000
    MaxText,    \* bound: length of a text
    Requests,   \* to the web adapter
    MaxClock,   \* bound: milliseconds told apart
    MaxTexts,   \* bound: texts a handler sends
    None

VARIABLES
    update,     \* the update being worked on, or None
    typing,     \* the indicator is being repeated
    outcome,    \* what became of the last update
    answer,     \* the answer being sent, or None
    pieces,     \* what arrived of it: pieces of text, with buttons and files
    clock,
    id,         \* [Requests -> the id, or None before it is posted]
    pending,    \* pendingResponses: [ids -> the request that waits, or None]
    timeouts,   \* requests whose timer runs
    handling,   \* [Requests -> texts its handler may still send, or None]
    response    \* [Requests -> None, "late" (timed out), or whose text it got]

messengerVars == <<update, typing, outcome, answer, pieces>>
webVars == <<clock, id, pending, timeouts, handling, response>>

Blank == {"s", "n"}
Text == Seq({"a", "s", "n"})
Texts == UNION {[1..n -> {"a", "s", "n"}] : n \in 0..MaxText}
Part(from, to) == [what |-> "text", from |-> from, to |-> to]
Extra(what) == [what |-> what, from |-> 0, to |-> 0]
Kinds == {"text", "command", "local", "media", "button"}
Update == [channel : {"telegram", "discord"}, kind : Kinds, allowed : BOOLEAN,
           addressed : BOOLEAN, caption : BOOLEAN, media : {"none", "held", "lost"},
           stage : {"in", "work"}]
Answer == [text : Text, at : Nat, channel : {"telegram", "discord"}, files : BOOLEAN,
           buttons : BOOLEAN, stage : {"files", "text", "done", "failed"}]
Outcomes == {"none", "ignored", "handled", "local", "unheard"}

TypeOK ==
    /\ update \in Update \cup {None} /\ typing \in BOOLEAN /\ outcome \in Outcomes
    /\ answer \in Answer \cup {None}
    /\ answer # None => answer.at <= Len(answer.text)
    /\ \A n \in DOMAIN pieces : /\ pieces[n].what \in {"text", "files", "buttons"}
                               /\ {pieces[n].from, pieces[n].to} \subseteq Nat

Init == /\ update = None /\ typing = FALSE /\ outcome = "none"
        /\ answer = None /\ pieces = <<>>
-----------------------------------------------------------------------------
(* Updates *)

Arrives(channel, kind, allowed, addressed, caption) ==
    /\ update = None /\ answer = None
    /\ update' = [channel |-> channel, kind |-> kind, allowed |-> allowed,
                  addressed |-> addressed, caption |-> caption,
                  media |-> IF kind = "media" THEN "lost" ELSE "none", stage |-> "in"]
    /\ kind \in {"text", "command", "local"} => caption
    /\ kind = "local" => channel = "telegram"
    /\ outcome' = "none" /\ UNCHANGED <<typing, answer, pieces>>

(* Not of the people of the channel; or, in a group, neither to the bot nor  *)
(* a command.  A press of a button is the command typed.                     *)
Passes(u) ==
    \/ u.kind = "button" /\ (u.channel = "telegram" => u.allowed)
    \/ /\ u.kind # "button" /\ u.allowed
       /\ u.channel = "discord" /\ u.kind # "command" => u.addressed

Ignore ==
    /\ update # None /\ update.stage = "in" /\ ~Passes(update)
    /\ update' = None /\ outcome' = "ignored" /\ UNCHANGED <<typing, answer, pieces>>

(* Photo, document or voice are fetched; what cannot be is left out. *)
Download == /\ update # None /\ update.stage = "in" /\ Passes(update) /\ update.media = "lost"
            /\ update' = [update EXCEPT !.media = "held"]
            /\ UNCHANGED <<typing, outcome, answer, pieces>>

(* /tools, /status, /help: answered from the registries, without a model. *)
Local == /\ update # None /\ update.stage = "in" /\ Passes(update) /\ update.kind = "local"
         /\ update' = None /\ outcome' = "local" /\ UNCHANGED <<typing, answer, pieces>>

(* Discord asks what is attached before it is fetched, Telegram after. *)
Empty(u) == /\ ~u.caption /\ u.kind # "button"
            /\ u.media = "none" \/ (u.channel = "telegram" /\ u.media = "lost")

(* Neither words nor anything attached: nobody hears of it. *)
Drop == /\ update # None /\ update.stage = "in" /\ Passes(update) /\ Empty(update)
        /\ update' = None /\ outcome' = "unheard" /\ UNCHANGED <<typing, answer, pieces>>

(* The handler works on it; slash commands run without the indicator. *)
Work == /\ update # None /\ update.stage = "in" /\ Passes(update) /\ ~Empty(update)
        /\ update.kind # "local"
        /\ update' = [update EXCEPT !.stage = "work"]
        /\ typing' = (IF update.channel = "discord" THEN update.kind # "button" ELSE update.kind # "command")
        /\ UNCHANGED <<outcome, answer, pieces>>

TypingAfter(threw) == FALSE

WorkEnds(threw) == /\ update # None /\ update.stage = "work"
                   /\ update' = None /\ outcome' = "handled" /\ typing' = TypingAfter(threw)
                   /\ UNCHANGED <<answer, pieces>>
-----------------------------------------------------------------------------
(* Answers *)

(* trimStart of what is left behind a position: where the next letter is. *)
TrimStart(text, at) ==
    LET left == {n \in (at + 1)..Len(text) : text[n] \notin Blank}
    IN IF left = {} THEN Len(text) ELSE (CHOOSE n \in left : \A m \in left : n <= m) - 1

(* Where lastIndexOf finds a character at or before the limit, from 0. *)
LastIndexOf(text, at, char) ==
    LET found == {n \in 1..(Limit + 1) : at + n <= Len(text) /\ text[at + n] = char}
    IN IF found = {} THEN -1 ELSE (CHOOSE n \in found : \A m \in found : m <= n) - 1

TooEarly(at) == at = -1 \/ 2 * at < Limit

(* Behind a line end, else a space, in the second half; else anywhere. *)
SplitAt(text, at) ==
    LET line == LastIndexOf(text, at, "n")
        space == LastIndexOf(text, at, "s")
    IN IF ~TooEarly(line) THEN line ELSE IF ~TooEarly(space) THEN space ELSE Limit

(* The piece that starts there ends at PieceEnd, the next one starts behind  *)
(* Rest, if anything is left.                                                *)
PieceEnd(text, at) == IF Len(text) - at <= Limit THEN Len(text) ELSE at + SplitAt(text, at)
Rest(text, at) == TrimStart(text, PieceEnd(text, at))
IsLast(a) == Rest(a.text, a.at) = Len(a.text)

Send(text, channel, files, buttons) ==
    /\ answer = None /\ update = None /\ outcome = "none"
    /\ answer' = [text |-> text, at |-> 0, channel |-> channel, files |-> files,
                  buttons |-> buttons, stage |-> IF files /\ channel = "telegram" THEN "files" ELSE "text"]
    /\ UNCHANGED <<update, typing, outcome, pieces>>

(* Telegram: files go first, and one that fails is given up with those after. *)
SendFiles(ok) ==
    /\ answer # None /\ answer.stage = "files"
    /\ answer' = [answer EXCEPT !.stage = "text"]
    /\ pieces' = IF ok THEN Append(pieces, Extra("files")) ELSE pieces
    /\ UNCHANGED <<update, typing, outcome>>

(* Discord: files ride on the first piece.  Buttons ride on the last. *)
Extras(a) ==
    (IF a.files /\ a.channel = "discord" /\ a.at = 0 THEN <<Extra("files")>> ELSE <<>>)
    \o (IF a.buttons /\ IsLast(a) THEN <<Extra("buttons")>> ELSE <<>>)

SendPiece ==
    /\ answer # None /\ answer.stage = "text"
    /\ pieces' = Append(pieces, Part(answer.at + 1, PieceEnd(answer.text, answer.at)))
                   \o Extras(answer)
    /\ answer' = [answer EXCEPT !.at = Rest(answer.text, answer.at),
                               !.stage = IF IsLast(answer) THEN "done" ELSE "text"]
    /\ UNCHANGED <<update, typing, outcome>>

(* The service refuses a piece: the caller gets the error, the rest is lost. *)
SendFails ==
    /\ answer # None /\ answer.stage = "text" /\ answer' = [answer EXCEPT !.stage = "failed"]
    /\ UNCHANGED <<update, typing, outcome, pieces>>

Next ==
    \/ \E channel \in {"telegram", "discord"}, kind \in Kinds, allowed, addressed, caption \in BOOLEAN :
          Arrives(channel, kind, allowed, addressed, caption)
    \/ Ignore \/ Download \/ Local \/ Drop \/ Work \/ \E threw \in BOOLEAN : WorkEnds(threw)
    \/ \E text \in Texts, channel \in {"telegram", "discord"}, files, buttons \in BOOLEAN :
          Send(text, channel, files, buttons)
    \/ \E ok \in BOOLEAN : SendFiles(ok)
    \/ SendPiece \/ SendFails

Spec == Init /\ [][Next]_messengerVars
-----------------------------------------------------------------------------
(* Properties *)

Written == {n \in DOMAIN pieces : pieces[n].what = "text"}

(* The pieces follow each other, leave out nothing but blanks, and none is   *)
(* longer than the service takes.                                            *)
TextIsWhole == answer # None /\ answer.stage = "done" =>
    /\ \A k \in 1..Len(answer.text) : answer.text[k] \notin Blank =>
          \E n \in Written : k \in pieces[n].from..pieces[n].to
    /\ \A n, m \in Written : n < m => pieces[n].to < pieces[m].from
    /\ \A n \in Written : /\ 1 <= pieces[n].from /\ pieces[n].to <= Len(answer.text)
                         /\ pieces[n].to < pieces[n].from + Limit

(* Buttons are shown under a text that is there to its end. *)
ButtonsUnderAll == \A n \in DOMAIN pieces :
    pieces[n].what = "buttons" => answer.stage = "done" /\ n = Len(pieces)

(* Nobody is shown typing when nothing is worked on. *)
TypingIsWork == typing => update # None
-----------------------------------------------------------------------------
(* The web adapter's requests (channels/web/adapter.ts): a message or a      *)
(* recording is posted, its handler runs on its own, and the response waits  *)
(* under the id of the message until the first text sent in reply to that    *)
(* id, or five minutes.  The id is the time in milliseconds.                 *)

Clock == 0..MaxClock

WebTypeOK ==
    /\ clock \in Clock /\ timeouts \subseteq Requests
    /\ \A r \in Requests : /\ id[r] \in Clock \cup {None}
                           /\ handling[r] \in (0..MaxTexts) \cup {None}
                           /\ response[r] \in Requests \cup {"late", None}
    /\ \A i \in Clock : pending[i] \in Requests \cup {None}

WebInit ==
    /\ clock = 0 /\ id = [r \in Requests |-> None] /\ pending = [i \in Clock |-> None]
    /\ timeouts = {} /\ handling = [r \in Requests |-> None]
    /\ response = [r \in Requests |-> None]
-----------------------------------------------------------------------------
Tick == clock < MaxClock /\ clock' = clock + 1
        /\ UNCHANGED <<id, pending, timeouts, handling, response>>

Post(r) ==
    /\ id[r] = None /\ id' = [id EXCEPT ![r] = clock]
    /\ pending' = [pending EXCEPT ![clock] = r] /\ timeouts' = timeouts \cup {r}
    /\ handling' = [handling EXCEPT ![r] = MaxTexts]
    /\ UNCHANGED <<clock, response>>

PendingWithout(i) == [pending EXCEPT ![i] = None]

(* send(): the first text in reply to the id is the response; later ones, or *)
(* any after the time is up, go nowhere.                                     *)
Reply(r) ==
    /\ handling[r] \in 1..MaxTexts /\ handling' = [handling EXCEPT ![r] = @ - 1]
    /\ IF pending[id[r]] # None
       THEN /\ response' = [response EXCEPT ![pending[id[r]]] = IF @ = None THEN r ELSE @]
            /\ pending' = PendingWithout(id[r])
       ELSE UNCHANGED <<response, pending>>
    /\ UNCHANGED <<clock, id, timeouts>>

(* It ends, with or without an error, having sent what it sent. *)
HandlerEnds(r) == /\ handling[r] # None /\ handling' = [handling EXCEPT ![r] = None]
                  /\ UNCHANGED <<clock, id, pending, timeouts, response>>

(* Mutant: the timer ends with the handler's first text. *)
TimeoutOfUnheard(r) == r \in timeouts /\ handling[r] = MaxTexts

DueTimeout(r) == r \in timeouts

(* Five minutes: if something still waits under the id, this request ends. *)
Timeout(r) ==
    /\ DueTimeout(r) /\ timeouts' = timeouts \ {r}
    /\ IF pending[id[r]] # None
       THEN /\ pending' = [pending EXCEPT ![id[r]] = None]
            /\ response' = [response EXCEPT ![r] = IF @ = None THEN "late" ELSE @]
       ELSE UNCHANGED <<pending, response>>
    /\ UNCHANGED <<clock, id, handling>>

WebNext == \/ Tick
        \/ \E r \in Requests : Post(r) \/ Reply(r) \/ HandlerEnds(r) \/ Timeout(r)

WebFairness == \A r \in Requests : WF_webVars(Timeout(r))

WebSpec == WebInit /\ [][WebNext]_webVars /\ WebFairness
-----------------------------------------------------------------------------
Alone(r) == \A q \in Requests \ {r} : id[q] # id[r]

(* A request that shares its millisecond with none is answered by its own    *)
(* handler, or told that the time is up.  A request is made once: if this is *)
(* true again and again, each one ends.                                      *)
AllEnded == \A r \in Requests :
    id[r] # None => response[r] \in {r, "late"} \/ ~Alone(r)

(* A response is not kept waiting by requests that are over. *)
WaitersAreOpen == \A i \in Clock : pending[i] # None =>
    response[pending[i]] = None /\ pending[i] \in timeouts
=============================================================================
