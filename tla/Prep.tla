-------------------------------- MODULE Prep --------------------------------
(* Questions and offers about coming events (services/prep-proposals.ts,     *)
(* prep-context.ts, briefing-service.ts): three times a day a briefing asks  *)
(* a model what would help with each event; the answer becomes questions,    *)
(* which are remembered, and offers in the confirmation ledger.  A reply to  *)
(* a briefing is matched with the open questions by another model call.      *)
(* Times are half days; the model calls of two briefings, and of replies,    *)
(* overlap.                                                                  *)
EXTENDS Integers, FiniteSets, Sequences, SequencesExt

CONSTANTS
    Events,         \* instances of events of the calendar
    Title,          \* [Events -> titles]: instances of a series share one
    Start,          \* [Events -> Nat]: the half day each begins
    Briefings,      \* briefings that may be under way at once
    Horizon,        \* how far ahead a briefing looks
    KeepOpen, KeepAnswered, \* how long after its event an entry is kept
    MaxAhead,       \* half days a reminder may come ahead
    Ttl,            \* how long an offer may be confirmed
    MaxTime,        \* bound: half days
    None

VARIABLES
    now,
    ctx,            \* prep-context.json: what is remembered of each event
    offers,         \* reminders in the ledger: [event, fire, until]
    jobs,           \* events whose reminder was confirmed
    run,            \* [Briefings -> the briefing's state]
    shown,          \* the last turn of the session is a briefing with a question
    replies,        \* for each reply being matched, the questions that were open
    asked,          \* history: [Events -> times a question was recorded]
    told            \* history: events whose question was answered

prepVars == <<now, ctx, offers, jobs, run, shown, replies, asked, told>>

Nothing == [asked |-> {}, answer |-> None]
Idle == [stage |-> "idle", at |-> 0, events |-> {}, known |-> {}, question |-> FALSE]
Day(t) == t \div 2
Times == 0..MaxTime
Offer == [event : Events, fire : 0..(2 * MaxTime), until : 0..(2 * MaxTime)]

TypeOK ==
    /\ now \in Times
    /\ \A e \in Events : ctx[e].asked \subseteq Times /\ ctx[e].answer \in Times \cup {None}
    /\ offers \subseteq Offer
    /\ jobs \subseteq Events
    /\ \A b \in Briefings : /\ run[b].stage \in {"idle", "assess", "send"}
                            /\ run[b].events \cup run[b].known \subseteq Events
    /\ shown \in BOOLEAN /\ replies \subseteq SUBSET Events
    /\ \A e \in Events : asked[e] \in Seq(Times)
    /\ told \subseteq Events

Init ==
    /\ now = 0 /\ ctx = [e \in Events |-> Nothing] /\ offers = {} /\ jobs = {}
    /\ run = [b \in Briefings |-> Idle] /\ shown = FALSE /\ replies = {}
    /\ asked = [e \in Events |-> <<>>] /\ told = {}
-----------------------------------------------------------------------------
(* The store: every operation reads the file, drops what is too old, and     *)
(* those that change it write it whole.                                      *)

Loaded(t) == [e \in Events |->
    IF Start[e] > t - (IF ctx[e].answer # None THEN KeepAnswered ELSE KeepOpen)
    THEN ctx[e] ELSE Nothing]

Held(c, e) == c[e].asked # {}

(* An answer to this event, or to another of its title. *)
Known(c, e) == \E f \in Events : Title[f] = Title[e] /\ c[f].answer # None

OpenQuestions(t) == {e \in Events : Held(Loaded(t), e) /\ Loaded(t)[e].answer = None /\ Start[e] > t}

(* Never once it is answered; else once, and once more on the day itself. *)
ShouldAsk(c, e, t) ==
    /\ ~Known(c, e)
    /\ Held(c, e) => Day(t) = Day(Start[e]) /\ \A a \in c[e].asked : Day(a) # Day(t)
-----------------------------------------------------------------------------
(* A briefing lists the events ahead and asks the model about them. *)
Begin(b) ==
    /\ run[b].stage = "idle"
    /\ LET ahead == {e \in Events : Start[e] > now /\ Start[e] < now + Horizon}
       IN /\ ahead # {}
          /\ run' = [run EXCEPT ![b] = [stage |-> "assess", at |-> now, events |-> ahead,
                        known |-> {e \in ahead : Known(Loaded(now), e)}, question |-> FALSE]]
    /\ UNCHANGED <<now, ctx, offers, jobs, shown, replies, asked, told>>

(* The questions the store lets pass, of those the model wants asked. *)
Questions(b, wish) == {e \in wish : ShouldAsk(Loaded(run[b].at), e, run[b].at)}

(* An offer of that name is not open yet; a name holds the title alone. *)
MayOffer(e) == \A o \in offers : Title[o.event] = Title[e] => o.until <= now

(* Both calls to the model failed, or it has nothing to say. *)
NoAnswer(b) ==
    /\ run[b].stage = "assess" /\ run' = [run EXCEPT ![b].stage = "send"]
    /\ UNCHANGED <<now, ctx, offers, jobs, shown, replies, asked, told>>

(* One entry per event: a question, a reminder, or none.  The questions are  *)
(* recorded before anything is sent.                                         *)
Assess(b, wish, remind, ahead) ==
    LET ask == Questions(b, wish)
        offer == {[event |-> e, fire |-> Start[e] - ahead, until |-> now + Ttl] :
                     e \in {x \in remind : Start[x] - ahead > run[b].at /\ MayOffer(x)}}
    IN /\ run[b].stage = "assess" /\ wish \cup remind \subseteq run[b].events /\ wish \cap remind = {}
       /\ run' = [run EXCEPT ![b].stage = "send", ![b].question = (ask # {})]
       /\ ctx' = IF ask = {} THEN ctx
                 ELSE [e \in Events |-> IF e \in ask
                          THEN [Loaded(run[b].at)[e] EXCEPT !.asked = @ \cup {run[b].at}]
                          ELSE Loaded(run[b].at)[e]]
       /\ asked' = [e \in Events |-> IF e \in ask THEN Append(asked[e], run[b].at) ELSE asked[e]]
       /\ offers' = {o \in offers : o.until > now} \cup offer
       /\ UNCHANGED <<now, jobs, shown, replies, told>>

(* Sent and added to the owner's session, or lost. *)
Deliver(b, sent) ==
    /\ run[b].stage = "send" /\ run' = [run EXCEPT ![b] = Idle]
    /\ shown' = IF sent THEN run[b].question ELSE shown
    /\ UNCHANGED <<now, ctx, offers, jobs, replies, asked, told>>
-----------------------------------------------------------------------------
(* The next message of the owner: the turn after it is no briefing. *)
Message ==
    /\ shown /\ shown' = FALSE
    /\ replies' = replies \cup ({OpenQuestions(now)} \ {{}})
    /\ UNCHANGED <<now, ctx, offers, jobs, run, asked, told>>

Answered(open, e) == [Loaded(now) EXCEPT ![e].answer = now]

(* The model says which question is answered: the number of an open one. *)
Captured(open, e) ==
    /\ open \in replies /\ e \in open /\ Held(Loaded(now), e)
    /\ ctx' = Answered(open, e) /\ told' = told \cup {e} /\ replies' = replies \ {open}
    /\ UNCHANGED <<now, offers, jobs, run, shown, asked>>

NotCaptured(open) ==
    /\ open \in replies /\ replies' = replies \ {open}
    /\ UNCHANGED <<now, ctx, offers, jobs, run, shown, asked, told>>

(* The owner confirms or denies an offer that is open. *)
Confirm(o) ==
    /\ o \in offers /\ o.until > now /\ offers' = offers \ {o}
    /\ jobs' = jobs \cup {o.event}
    /\ UNCHANGED <<now, ctx, run, shown, replies, asked, told>>

Deny(o) == /\ o \in offers /\ o.until > now /\ offers' = offers \ {o}
           /\ UNCHANGED <<now, ctx, jobs, run, shown, replies, asked, told>>

(* Half a day; a model call does not take as long. *)
Tick == /\ now < MaxTime /\ now' = now + 1
        /\ \A b \in Briefings : run[b].stage # "assess"
        /\ UNCHANGED <<ctx, offers, jobs, run, shown, replies, asked, told>>

Next ==
    \/ \E b \in Briefings :
          \/ Begin(b) \/ NoAnswer(b) \/ \E sent \in BOOLEAN : Deliver(b, sent)
          \/ \E wish, remind \in SUBSET Events, ahead \in 1..MaxAhead : Assess(b, wish, remind, ahead)
    \/ Message \/ Tick
    \/ \E open \in replies : NotCaptured(open) \/ \E e \in open : Captured(open, e)
    \/ \E o \in offers : Confirm(o) \/ Deny(o)

Spec == Init /\ [][Next]_prepVars
-----------------------------------------------------------------------------
(* Properties *)

Count(e, Test(_)) == Cardinality({n \in DOMAIN asked[e] : Test(asked[e][n])})

(* "once more on the morning of the event's local day, ... then silent       *)
(* forever": an event is asked about once before its day and once on it,     *)
(* however the briefings of a day overlap.                                   *)
AskedSparingly == \A e \in Events :
    LET OnTheDay(t) == Day(t) = Day(Start[e])
        Before(t) == Day(t) < Day(Start[e])
    IN Count(e, OnTheDay) <= 1 /\ Count(e, Before) <= 1

(* An answer stays until its time is up, whatever else writes the file.      *)
AnswersAreKept == \A e \in told : Start[e] + KeepAnswered > now => ctx[e].answer # None

=============================================================================
