--------------------------- MODULE ChannelsProofs ----------------------------
(* No mail is lost, answers are true and what is done is what was meant:     *)
(* proved side by side for the mailbox, the messengers, web requests, the    *)
(* chat page, the browser with its tool and panel and the model client, for  *)
(* any bounds.                                                               *)
EXTENDS MCChannels, FiniteSetTheorems, WellFoundedInduction, SequenceTheorems, TLAPS

-----------------------------------------------------------------------------
LEMMA ElementOf == ASSUME NEW S, NEW s \in Seq(S), NEW i \in 1..Len(s) PROVE s[i] \in S
  OBVIOUS

LEMMA NotEmpty == ASSUME NEW S, NEW s \in Seq(S)
                  PROVE  s # <<>> <=> Len(s) > 0 /\ 1 \in 1..Len(s)
  OBVIOUS

-----------------------------------------------------------------------------
(* Mail.  Only a mail that is of no concern, or whose handler came to its    *)
(* end, is taken from the unread ones, whichever polls overlap and whichever *)
(* fail and list it again.                                                   *)
MailInv == arrived \subseteq Mails /\ MailIsKept

LEMMA PollKeeps == ASSUME MailInv, NEW p \in Polls, Step(p) \/ Fail(p) PROVE MailInv'
  <1>1. arrived' = arrived /\ done \subseteq done'
    BY DEF Step, List, Filter, Handle, Handled, End, Fail
  <1>2. CASE unread \subseteq unread'
    BY <1>1, <1>2 DEF MailInv, MailIsKept
  <1>3. CASE Filter(p)
    <2>1. unread' = unread \ {Head(queue[p])} /\ Head(queue[p]) \notin Allowed
      BY <1>3 DEF Filter
    <2> QED
      BY <1>1, <2>1 DEF MailInv, MailIsKept
  <1>4. CASE Handled(p)
    <2>1. unread' = unread \ {Head(queue[p])} /\ Head(queue[p]) \in done'
      BY <1>4 DEF Handled
    <2> QED
      BY <1>1, <2>1 DEF MailInv, MailIsKept
  <1> QED
    BY <1>2, <1>3, <1>4
       DEF Step, List, Handle, UnreadAfterTaking, End, Fail

LEMMA MailKeeps == MailInv /\ (Next \/ UNCHANGED mailVars) => MailInv'
  <1> SUFFICES ASSUME MailInv, Next \/ UNCHANGED mailVars PROVE MailInv'
    OBVIOUS
  <1>1. ASSUME NEW m \in Mails, Arrive(m) PROVE MailInv'
    BY <1>1 DEF Arrive, MailInv, MailIsKept
  <1>2. CASE UNCHANGED mailVars
    BY <1>2 DEF mailVars, MailInv, MailIsKept
  <1> QED
    BY <1>1, <1>2, PollKeeps DEF Next
-----------------------------------------------------------------------------
(* Messengers.  Who is shown typing has an update that is worked on: only    *)
(* its end takes it away, and turns the indicator off.                       *)
TypingInv == /\ update \in M!Update \cup {None}
             /\ typing => update # None /\ update.stage = "work"

LEMMA TypingKeeps ==
    TypingInv /\ (M!Next \/ UNCHANGED messengerVars) => TypingInv' /\ M!TypingIsWork'
  <1> SUFFICES ASSUME TypingInv, M!Next \/ UNCHANGED messengerVars PROVE TypingInv'
    BY DEF TypingInv, M!TypingIsWork
  <1>1. CASE UNCHANGED messengerVars
    BY <1>1 DEF messengerVars, TypingInv
  <1>2. ASSUME NEW channel \in {"telegram", "discord"}, NEW k \in M!Kinds,
               NEW allowed \in BOOLEAN, NEW addressed \in BOOLEAN, NEW caption \in BOOLEAN,
               M!Arrives(channel, k, allowed, addressed, caption)
        PROVE  TypingInv'
    BY <1>2 DEF M!Arrives, M!Update, TypingInv
  <1>3. CASE M!Download \/ M!Work
    BY <1>3, ChannelsAssumption DEF M!Download, M!Work, M!Update, TypingInv
  <1>4. CASE M!Ignore \/ M!Local \/ M!Drop
    BY <1>4 DEF M!Ignore, M!Local, M!Drop, TypingInv
  <1>5. ASSUME NEW threw \in BOOLEAN, M!WorkEnds(threw) PROVE TypingInv'
    BY <1>5 DEF M!WorkEnds, M!TypingAfter, TypingInv
  <1>6. ASSUME UNCHANGED <<update, typing>> PROVE TypingInv'
    BY <1>6 DEF TypingInv
  <1> QED
    BY <1>1, <1>2, <1>3, <1>4, <1>5, <1>6
       DEF M!Next, M!Send, M!SendFiles, M!SendPiece, M!SendFails
-----------------------------------------------------------------------------
(* Answers of the messengers.  The pieces sent cover the text in front of    *)
(* where the next one starts, in order; what is left out between two is      *)
(* blank.                                                                    *)
LEMMA GreatestIsThere ==
  ASSUME NEW N \in Nat, NEW S \in SUBSET (1..N), S # {}
  PROVE  (CHOOSE n \in S : \A m \in S : m <= n) \in S
  <1> DEFINE back == {n \in 0..N : N - n \in S}
  <1>1. back \in SUBSET Nat /\ back # {}
    <2>1. PICK n \in S : TRUE
      OBVIOUS
    <2>2. N - n \in 0..N /\ N - (N - n) = n
      <3>1. n \in 1..N
        BY <2>1
      <3> QED
        BY <3>1
    <2>3. N - n \in back
      BY <2>1, <2>2
    <2>4. back \in SUBSET Nat
      OBVIOUS
    <2> HIDE DEF back
    <2> QED
      BY <2>3, <2>4
  <1>2. PICK n \in back : \A m \in back : ~(<<m, n>> \in OpToRel(<, Nat))
    BY <1>1, NatLessThanWellFounded, WFMin
  <1>3. \A m \in back : n <= m
    <2>1. \A m \in back : m \in Nat /\ n \in Nat
      BY <1>1
    <2>2. \A m \in back : ~(m < n)
      BY <1>2, <2>1 DEF OpToRel
    <2> HIDE DEF back
    <2> QED
      BY <2>1, <2>2
  <1>4. N - n \in S /\ \A m \in S : m <= N - n
    <2>1. ASSUME NEW m \in S PROVE m <= N - n
      <3>1. N - m \in back
        OBVIOUS
      <3> QED
        BY <3>1, <1>3
    <2> QED
      BY <2>1
  <1> QED
    BY <1>4

LEMMA LeastOf == ASSUME NEW S \in SUBSET Nat, S # {}
                 PROVE  /\ (CHOOSE n \in S : \A m \in S : n <= m) \in S
                        /\ \A k \in S : (CHOOSE n \in S : \A m \in S : n <= m) <= k
  <1>1. PICK n \in S : \A m \in S : ~(<<m, n>> \in OpToRel(<, Nat))
    BY NatLessThanWellFounded, WFMin
  <1>2. \A m \in S : ~(m < n)
    BY <1>1 DEF OpToRel
  <1>3. \A m \in S : n <= m
    BY <1>2
  <1> QED
    BY <1>3

LEMMA IndexInLimit ==
  ASSUME NEW t, NEW at, NEW char
  PROVE  M!LastIndexOf(t, at, char) \in -1..Limit
  <1> DEFINE found == {n \in 1..(Limit + 1) : at + n <= Len(t) /\ t[at + n] = char}
             last == CHOOSE n \in found : \A m \in found : m <= n
  <1>1. Limit \in Nat \ {0}
    BY ChannelsAssumption
  <1>2. found # {} => last \in 1..(Limit + 1)
    <2>1. found \in SUBSET (1..(Limit + 1)) /\ Limit + 1 \in Nat
      BY <1>1
    <2> HIDE DEF found
    <2>2. found # {} => last \in found
      BY <2>1, GreatestIsThere
    <2> QED
      BY <2>1, <2>2
  <1>3. M!LastIndexOf(t, at, char) = IF found = {} THEN -1 ELSE last - 1
    BY DEF M!LastIndexOf
  <1> HIDE DEF found, last
  <1> QED
    BY <1>1, <1>2, <1>3

LEMMA SplitInLimit == \A t, at : M!SplitAt(t, at) \in 1..Limit
  <1> SUFFICES ASSUME NEW t, NEW at PROVE M!SplitAt(t, at) \in 1..Limit
    OBVIOUS
  <1> DEFINE line == M!LastIndexOf(t, at, "n")
             space == M!LastIndexOf(t, at, "s")
  <1>1. Limit \in Nat \ {0} /\ line \in -1..Limit /\ space \in -1..Limit
    BY ChannelsAssumption, IndexInLimit
  <1>2. M!SplitAt(t, at) = IF ~M!TooEarly(line) THEN line
                           ELSE IF ~M!TooEarly(space) THEN space ELSE Limit
    BY DEF M!SplitAt
  <1> HIDE DEF line, space
  <1>3. \A n \in -1..Limit : ~M!TooEarly(n) => n \in 1..Limit
    BY <1>1 DEF M!TooEarly
  <1> QED
    BY <1>1, <1>2, <1>3

LEMMA TrimmedIsBlank ==
  ASSUME NEW t \in M!Text, NEW at \in 0..Len(t)
  PROVE  /\ M!TrimStart(t, at) \in at..Len(t)
         /\ \A k \in (at + 1)..M!TrimStart(t, at) : t[k] \in M!Blank
  <1> DEFINE left == {n \in (at + 1)..Len(t) : t[n] \notin M!Blank}
             least == CHOOSE n \in left : \A m \in left : n <= m
  <1>1. Len(t) \in Nat
    BY DEF M!Text
  <1>2. M!TrimStart(t, at) = IF left = {} THEN Len(t) ELSE least - 1
    BY DEF M!TrimStart
  <1>3. CASE left = {}
    <2>1. \A k \in (at + 1)..Len(t) : t[k] \in M!Blank
      BY <1>3
    <2> HIDE DEF left
    <2> QED
      BY <1>1, <1>2, <1>3, <2>1
  <1>4. CASE left # {}
    <2>1. left \in SUBSET Nat
      BY <1>1
    <2>2. least \in left /\ \A k \in left : least <= k
      BY <1>4, <2>1, LeastOf
    <2>3. least \in (at + 1)..Len(t)
      BY <2>2
    <2>4. \A k \in (at + 1)..Len(t) : t[k] \notin M!Blank => k \in left
      OBVIOUS
    <2> HIDE DEF left, least
    <2> QED
      BY <1>1, <1>2, <1>4, <2>2, <2>3, <2>4
  <1> QED
    BY <1>3, <1>4

LEMMA PieceFits ==
  ASSUME NEW t \in M!Text, NEW at \in 0..Len(t)
  PROVE  /\ M!PieceEnd(t, at) \in at..Len(t) /\ M!PieceEnd(t, at) <= at + Limit
         /\ M!Rest(t, at) \in M!PieceEnd(t, at)..Len(t)
         /\ \A k \in (M!PieceEnd(t, at) + 1)..M!Rest(t, at) : t[k] \in M!Blank
  <1> DEFINE e == M!PieceEnd(t, at)
             s == M!SplitAt(t, at)
  <1>1. Len(t) \in Nat /\ Limit \in Nat \ {0} /\ s \in 1..Limit
    BY ChannelsAssumption, SplitInLimit DEF M!Text
  <1>2. e = IF Len(t) - at <= Limit THEN Len(t) ELSE at + s
    BY DEF M!PieceEnd
  <1>3. M!Rest(t, at) = M!TrimStart(t, e)
    BY DEF M!Rest
  <1> HIDE DEF e, s
  <1>4. e \in at..Len(t) /\ e <= at + Limit
    BY <1>1, <1>2
  <1>5. e \in 0..Len(t)
    BY <1>1, <1>4
  <1> QED
    BY <1>3, <1>4, <1>5, TrimmedIsBlank DEF e

Sign == [what : {"text", "files", "buttons"}, from : Nat, to : Nat]

(* What the signs p show of a text t up to a position at.                    *)
WordsOf(p) == {n \in 1..Len(p) : p[n].what = "text"}
Laid(p, t, at) ==
    /\ \A k \in 1..at : t[k] \notin M!Blank => \E n \in WordsOf(p) : k \in p[n].from..p[n].to
    /\ \A n, m \in WordsOf(p) : n < m => p[n].to < p[m].from
    /\ \A n \in WordsOf(p) : /\ 1 <= p[n].from /\ p[n].to <= at
                             /\ p[n].to < p[n].from + Limit

ButtonsLast(p) == \A n \in 1..Len(p) : p[n].what = "buttons" => n = Len(p)
NoButtons(p) == \A n \in 1..Len(p) : p[n].what # "buttons"

Sending(a, p) == /\ a.at <= Len(a.text) /\ Laid(p, a.text, a.at) /\ ButtonsLast(p)
                 /\ a.stage = "files" => p = <<>> /\ a.at = 0
                 /\ a.stage = "done" => a.at = Len(a.text)
                 /\ a.stage # "done" => NoButtons(p)

SendInv == /\ pieces \in Seq(Sign) /\ answer \in M!Answer \cup {None}
           /\ answer = None => pieces = <<>>
           /\ answer # None => Sending(answer, pieces)

LEMMA SendInvIsWhole == SendInv => M!TextIsWhole /\ M!ButtonsUnderAll
  <1> SUFFICES ASSUME SendInv PROVE M!TextIsWhole /\ M!ButtonsUnderAll
    OBVIOUS
  <1>1. DOMAIN pieces = 1..Len(pieces) /\ M!Written = WordsOf(pieces)
    BY DEF SendInv, M!Written, WordsOf
  <1>2. M!TextIsWhole
    BY <1>1 DEF SendInv, Sending, Laid, M!TextIsWhole
  <1>3. ASSUME NEW n \in 1..Len(pieces), pieces[n].what = "buttons"
        PROVE  answer.stage = "done" /\ n = Len(pieces)
    <2>1. answer # None
      <3>1. 1..Len(<<>>) = {}
        OBVIOUS
      <3> QED
        BY <3>1, <1>3 DEF SendInv
    <2> QED
      BY <2>1, <1>3 DEF SendInv, Sending, ButtonsLast, NoButtons
  <1> QED
    BY <1>1, <1>2, <1>3 DEF M!ButtonsUnderAll

(* The next piece, and what rides on it.                                     *)
LEMMA PieceLaid ==
  ASSUME NEW t \in M!Text, NEW at \in 0..Len(t), NEW e \in at..Len(t), NEW r \in e..Len(t),
         e <= at + Limit, \A k \in (e + 1)..r : t[k] \in M!Blank,
         NEW p \in Seq(Sign), Laid(p, t, at),
         NEW x \in Seq(Sign), \A n \in 1..Len(x) : x[n].what # "text"
  PROVE  Laid(Append(p, M!Part(at + 1, e)) \o x, t, r)
  <1> DEFINE q == Append(p, M!Part(at + 1, e)) \o x
             here == Len(p) + 1
  <1>0. Limit \in Nat \ {0}
    BY ChannelsAssumption
  <1>1. /\ Len(t) \in Nat /\ Limit \in Nat \ {0} /\ Len(p) \in Nat /\ Len(x) \in Nat
        /\ at \in Nat /\ e \in Nat /\ r \in Nat
    BY <1>0 DEF M!Text
  <1>2. /\ Len(q) = here + Len(x) /\ q[here] = M!Part(at + 1, e)
        /\ \A n \in 1..Len(p) : q[n] = p[n]
        /\ \A n \in 1..Len(x) : q[here + n] = x[n]
    <2> DEFINE b == Append(p, M!Part(at + 1, e))
    <2>1. M!Part(at + 1, e) \in Sign
      BY <1>1 DEF M!Part, Sign
    <2>2. /\ b \in Seq(Sign) /\ Len(b) = here /\ b[here] = M!Part(at + 1, e)
          /\ \A n \in 1..Len(p) : b[n] = p[n]
      BY <2>1, AppendProperties
    <2> HIDE DEF b
    <2>3. /\ Len(b \o x) = Len(b) + Len(x)
          /\ \A n \in 1..(Len(b) + Len(x)) :
                (b \o x)[n] = IF n <= Len(b) THEN b[n] ELSE x[n - Len(b)]
      BY <2>2, ConcatProperties
    <2>4. \A n \in 1..here : (b \o x)[n] = b[n]
      BY <1>1, <2>2, <2>3
    <2>5. \A n \in 1..Len(x) : (b \o x)[here + n] = x[n]
      <3> TAKE n \in 1..Len(x)
      <3>1. here + n \in 1..(here + Len(x)) /\ ~(here + n <= here) /\ (here + n) - here = n
        BY <1>1
      <3> QED
        BY <3>1, <2>2, <2>3
    <2>6. here \in 1..here /\ \A n \in 1..Len(p) : n \in 1..here
      BY <1>1
    <2> QED
      BY <2>2, <2>3, <2>4, <2>5, <2>6 DEF b
  <1> HIDE DEF q
  <1>3. q[here].what = "text" /\ q[here].from = at + 1 /\ q[here].to = e
    BY <1>2 DEF M!Part
  <1>4. WordsOf(q) = WordsOf(p) \cup {here}
    <2>1. ASSUME NEW n \in WordsOf(q) PROVE n \in WordsOf(p) \cup {here}
      <3>1. n \in 1..(here + Len(x)) /\ q[n].what = "text"
        BY <2>1, <1>2 DEF WordsOf
      <3>2. CASE n > here
        <4>1. n - here \in 1..Len(x) /\ here + (n - here) = n
          BY <1>1, <3>1, <3>2
        <4>2. q[n] = x[n - here]
          BY <1>2, <4>1
        <4> QED
          BY <3>1, <4>1, <4>2
      <3>3. CASE n \in 1..Len(p)
        BY <3>1, <3>3, <1>2 DEF WordsOf
      <3> QED
        BY <1>1, <3>1, <3>2, <3>3
    <2>2. ASSUME NEW n \in WordsOf(p) PROVE n \in WordsOf(q)
      <3>1. n \in 1..Len(p) /\ p[n].what = "text" /\ q[n] = p[n]
        BY <2>2, <1>2 DEF WordsOf
      <3>2. n \in 1..Len(q)
        BY <1>1, <1>2, <3>1
      <3> QED
        BY <3>1, <3>2 DEF WordsOf
    <2>3. here \in WordsOf(q)
      BY <1>1, <1>2, <1>3 DEF WordsOf
    <2> HIDE DEF here
    <2>4. WordsOf(q) \subseteq WordsOf(p) \cup {here}
      BY <2>1
    <2>5. WordsOf(p) \cup {here} \subseteq WordsOf(q)
      BY <2>2, <2>3
    <2> QED
      BY <2>4, <2>5
  <1>5. \A n \in WordsOf(p) : /\ n \in 1..Len(p) /\ q[n] = p[n]
                              /\ p[n].from \in Nat /\ p[n].to \in Nat
    <2> SUFFICES ASSUME NEW n \in WordsOf(p)
                 PROVE  /\ n \in 1..Len(p) /\ q[n] = p[n]
                        /\ p[n].from \in Nat /\ p[n].to \in Nat
      OBVIOUS
    <2>1. n \in 1..Len(p)
      BY DEF WordsOf
    <2>2. p[n] \in Sign
      BY <2>1, ElementOf
    <2> QED
      BY <2>1, <2>2, <1>2 DEF Sign
  <1>6. \A k \in 1..r : t[k] \notin M!Blank =>
           \E n \in WordsOf(q) : k \in q[n].from..q[n].to
    <2> SUFFICES ASSUME NEW k \in 1..r, t[k] \notin M!Blank
                 PROVE  \E n \in WordsOf(q) : k \in q[n].from..q[n].to
      OBVIOUS
    <2>1. CASE k \in 1..at
      <3>1. PICK n \in WordsOf(p) : k \in p[n].from..p[n].to
        BY <2>1 DEF Laid
      <3> QED
        BY <3>1, <1>4, <1>5
    <2>2. CASE k \in (at + 1)..e
      BY <2>2, <1>3, <1>4
    <2>3. k \notin (e + 1)..r
      OBVIOUS
    <2> QED
      BY <1>1, <2>1, <2>2, <2>3
  <1>7. \A n, m \in WordsOf(q) : n < m => q[n].to < q[m].from
    <2> SUFFICES ASSUME NEW n \in WordsOf(q), NEW m \in WordsOf(q), n < m
                 PROVE  q[n].to < q[m].from
      OBVIOUS
    <2>1. n # here
      BY <1>1, <1>4, <1>5
    <2>2. n \in WordsOf(p)
      BY <2>1, <1>4
    <2>3. CASE m = here
      <3>1. p[n].to <= at /\ q[n] = p[n] /\ p[n].to \in Nat
        BY <2>2, <1>5 DEF Laid
      <3> QED
        BY <3>1, <2>3, <1>1, <1>3
    <2>4. CASE m \in WordsOf(p)
      BY <2>2, <2>4, <1>5 DEF Laid
    <2> QED
      BY <2>3, <2>4, <1>4
  <1>8. ASSUME NEW n \in WordsOf(q)
        PROVE  1 <= q[n].from /\ q[n].to <= r /\ q[n].to < q[n].from + Limit
    <2>1. CASE n = here
      BY <2>1, <1>1, <1>3
    <2>2. CASE n \in WordsOf(p)
      <3>1. 1 <= p[n].from /\ p[n].to <= at /\ p[n].to < p[n].from + Limit
        BY <2>2 DEF Laid
      <3> QED
        BY <2>2, <3>1, <1>1, <1>5
    <2> QED
      BY <2>1, <2>2, <1>4
  <1>9. Laid(q, t, r)
    BY <1>6, <1>7, <1>8 DEF Laid
  <1> QED
    BY <1>9 DEF q

LEMMA TwoOf == \A a, b : <<a>> \o <<b>> = <<a, b>>
  <1> TAKE a, b
  <1>1. <<a>> \in Seq({a, b}) /\ <<b>> \in Seq({a, b}) /\ <<a, b>> \in Seq({a, b})
    OBVIOUS
  <1> DEFINE q == <<a>> \o <<b>>
  <1>2. q \in Seq({a, b}) /\ Len(q) = 2 /\ q[1] = a /\ q[2] = b
    BY <1>1
  <1> HIDE DEF q
  <1>3. Len(<<a, b>>) = 2 /\ \A i \in 1..2 : q[i] = <<a, b>>[i]
    BY <1>2
  <1>4. q = <<a, b>>
    BY <1>1, <1>2, <1>3, SeqEqual
  <1> QED
    BY <1>4 DEF q

LEMMA ExtrasRide ==
  ASSUME NEW a
  PROVE  LET x == M!Extras(a) IN
         /\ x \in Seq(Sign) /\ \A n \in 1..Len(x) : x[n].what # "text"
         /\ \A n \in 1..Len(x) : x[n].what = "buttons" => n = Len(x) /\ M!IsLast(a)
  <1> DEFINE f == IF a.files /\ a.channel = "discord" /\ a.at = 0 THEN <<M!Extra("files")>> ELSE <<>>
             b == IF a.buttons /\ M!IsLast(a) THEN <<M!Extra("buttons")>> ELSE <<>>
  <1>1. M!Extras(a) = f \o b
    BY DEF M!Extras
  <1>2. f = <<M!Extra("files")>> \/ f = <<>>
    OBVIOUS
  <1>3. (b = <<M!Extra("buttons")>> /\ M!IsLast(a)) \/ b = <<>>
    OBVIOUS
  <1> HIDE DEF f, b
  <1>4. f \o b \in {<<>>, <<M!Extra("files")>>, <<M!Extra("buttons")>>,
                    <<M!Extra("files"), M!Extra("buttons")>>}
    <2>1. CASE b = <<>>
      BY <1>2, <2>1
    <2>2. CASE b = <<M!Extra("buttons")>>
      <3>1. CASE f = <<>>
        BY <2>2, <3>1
      <3>2. CASE f = <<M!Extra("files")>>
        BY <2>2, <3>2, TwoOf
      <3> QED
        BY <1>2, <3>1, <3>2
    <2> QED
      BY <1>3, <2>1, <2>2
  <1>5. M!Extra("files") \in Sign /\ M!Extra("buttons") \in Sign
        /\ M!Extra("files").what = "files" /\ M!Extra("buttons").what = "buttons"
    BY DEF M!Extra, Sign
  <1>6. CASE f \o b = <<>>
    BY <1>1, <1>6
  <1>7. CASE f \o b = <<M!Extra("files")>>
    BY <1>1, <1>5, <1>7
  <1>8. CASE f \o b = <<M!Extra("buttons")>>
    <2>1. M!IsLast(a)
      <3>1. b # <<>>
        <4>1. ASSUME b = <<>> PROVE FALSE
          <5>1. f \o b = f
            BY <4>1, <1>2
          <5> QED
            BY <5>1, <1>2, <1>5, <1>8
        <4> QED
          BY <4>1
      <3> QED
        BY <3>1, <1>3
    <2> QED
      BY <2>1, <1>1, <1>5, <1>8
  <1>9. CASE f \o b = <<M!Extra("files"), M!Extra("buttons")>>
    <2>1. M!IsLast(a)
      <3>1. b # <<>>
        <4>1. ASSUME b = <<>> PROVE FALSE
          <5>1. f \o b = f
            BY <4>1, <1>2
          <5>2. Len(f \o b) = 2 /\ (Len(f) = 0 \/ Len(f) = 1)
            BY <1>2, <1>9
          <5> QED
            BY <5>1, <5>2
        <4> QED
          BY <4>1
      <3> QED
        BY <3>1, <1>3
    <2> QED
      BY <2>1, <1>1, <1>5, <1>9
  <1> QED
    BY <1>4, <1>6, <1>7, <1>8, <1>9

LEMMA ButtonsRide ==
  ASSUME NEW p \in Seq(Sign), NoButtons(p), NEW w \in Sign, w.what = "text",
         NEW x \in Seq(Sign), NEW last \in BOOLEAN,
         \A n \in 1..Len(x) : x[n].what = "buttons" => n = Len(x) /\ last
  PROVE  /\ Append(p, w) \o x \in Seq(Sign)
         /\ \A n \in 1..Len(Append(p, w) \o x) :
              (Append(p, w) \o x)[n].what = "buttons" => n = Len(Append(p, w) \o x) /\ last
  <1> DEFINE b == Append(p, w)
             q == b \o x
  <1>1. Len(p) \in Nat /\ Len(x) \in Nat
    OBVIOUS
  <1>2. /\ b \in Seq(Sign) /\ Len(b) = Len(p) + 1 /\ b[Len(p) + 1] = w
        /\ \A n \in 1..Len(p) : b[n] = p[n]
    BY AppendProperties
  <1>3. \A n \in 1..Len(b) : b[n].what # "buttons"
    BY <1>1, <1>2 DEF NoButtons
  <1> HIDE DEF b
  <1>4. /\ q \in Seq(Sign) /\ Len(q) = Len(b) + Len(x)
        /\ \A n \in 1..(Len(b) + Len(x)) : q[n] = IF n <= Len(b) THEN b[n] ELSE x[n - Len(b)]
    BY <1>2, ConcatProperties
  <1> HIDE DEF q
  <1>5. ASSUME NEW n \in 1..Len(q), q[n].what = "buttons" PROVE n = Len(q) /\ last
    <2>1. Len(b) \in Nat /\ n \in 1..(Len(b) + Len(x))
      BY <1>1, <1>2, <1>4
    <2>2. ~(n <= Len(b))
      BY <1>3, <1>4, <1>5, <2>1
    <2>3. n - Len(b) \in 1..Len(x) /\ q[n] = x[n - Len(b)]
      BY <1>1, <1>4, <2>1, <2>2
    <2>4. n - Len(b) = Len(x) /\ last
      BY <1>5, <2>3
    <2> QED
      BY <1>1, <1>4, <2>1, <2>4
  <1> QED
    BY <1>4, <1>5 DEF q, b

LEMMA SendKeeps == SendInv /\ (M!Next \/ UNCHANGED messengerVars) => SendInv'
  <1> SUFFICES ASSUME SendInv, M!Next \/ UNCHANGED messengerVars PROVE SendInv'
    OBVIOUS
  <1>1. CASE UNCHANGED <<answer, pieces>>
    BY <1>1 DEF SendInv
  <1>2. ASSUME NEW t \in M!Texts, NEW channel \in {"telegram", "discord"},
               NEW files \in BOOLEAN, NEW buttons \in BOOLEAN, M!Send(t, channel, files, buttons)
        PROVE  SendInv'
    <2>1. t \in M!Text
      BY SeqDef DEF M!Texts, M!Text
    <2>2. Len(t) \in Nat
      BY <2>1 DEF M!Text
    <2>3. pieces = <<>> /\ pieces' = <<>>
      BY <1>2 DEF M!Send, SendInv
    <2>4. WordsOf(<<>>) = {} /\ 1..Len(<<>>) = {}
      BY DEF WordsOf
    <2>5. /\ answer'.text = t /\ answer'.at = 0 /\ answer'.stage \in {"files", "text"}
          /\ answer' \in M!Answer
      BY <1>2, <2>1 DEF M!Send, M!Answer
    <2>6. Laid(<<>>, t, 0) /\ ButtonsLast(<<>>) /\ NoButtons(<<>>)
      BY <2>4 DEF Laid, ButtonsLast, NoButtons
    <2>7. Sending(answer', pieces')
      BY <2>2, <2>3, <2>5, <2>6 DEF Sending
    <2>8. answer' # None
      BY <2>5, ChannelsAssumption
    <2> QED
      BY <2>3, <2>5, <2>7, <2>8 DEF SendInv
  <1>3. ASSUME NEW ok \in BOOLEAN, M!SendFiles(ok) PROVE SendInv'
    <2>1. /\ answer # None /\ answer.stage = "files" /\ answer' = [answer EXCEPT !.stage = "text"]
          /\ pieces' \in {<<M!Extra("files")>>, <<>>}
      <3>1. answer # None /\ answer.stage = "files" /\ pieces = <<>>
        BY <1>3 DEF M!SendFiles, SendInv, Sending
      <3> QED
        BY <1>3, <3>1 DEF M!SendFiles
    <2>2. answer \in M!Answer /\ answer.at = 0 /\ 0 <= Len(answer.text)
      BY <2>1 DEF SendInv, Sending
    <2>3. /\ answer' \in M!Answer /\ answer'.text = answer.text /\ answer'.at = 0
          /\ answer'.stage = "text"
      BY <2>1, <2>2 DEF M!Answer
    <2>4. /\ pieces' \in Seq(Sign) /\ WordsOf(pieces') = {}
          /\ NoButtons(pieces') /\ ButtonsLast(pieces')
      <3>1. M!Extra("files") \in Sign /\ M!Extra("files").what = "files"
        BY DEF M!Extra, Sign
      <3>2. CASE pieces' = <<>>
        BY <3>2 DEF WordsOf, NoButtons, ButtonsLast
      <3>3. CASE pieces' = <<M!Extra("files")>>
        <4>1. /\ pieces' \in Seq(Sign) /\ Len(pieces') = 1
              /\ \A n \in 1..1 : pieces'[n].what = "files"
          BY <3>1, <3>3
        <4> QED
          BY <4>1 DEF WordsOf, NoButtons, ButtonsLast
      <3> QED
        BY <2>1, <3>2, <3>3
    <2>5. Laid(pieces', answer.text, 0)
      BY <2>4 DEF Laid
    <2>6. answer' # None
      BY <2>3, ChannelsAssumption
    <2>7. Sending(answer', pieces')
      BY <2>2, <2>3, <2>4, <2>5 DEF Sending
    <2> QED
      BY <2>3, <2>4, <2>6, <2>7 DEF SendInv
  <1>4. CASE M!SendPiece
    <2> DEFINE t == answer.text
               at == answer.at
               e == M!PieceEnd(t, at)
               r == M!Rest(t, at)
               x == M!Extras(answer)
               q == Append(pieces, M!Part(at + 1, e)) \o x
    <2>1. /\ answer # None /\ answer.stage = "text" /\ pieces' = q
          /\ answer' = [answer EXCEPT !.at = r,
                                      !.stage = IF M!IsLast(answer) THEN "done" ELSE "text"]
      BY <1>4 DEF M!SendPiece
    <2>2. answer \in M!Answer /\ pieces \in Seq(Sign) /\ Sending(answer, pieces)
      BY <2>1 DEF SendInv
    <2>3. t \in M!Text /\ at \in 0..Len(t) /\ Len(t) \in Nat
      <3>1. t \in M!Text /\ at \in Nat /\ at <= Len(t)
        BY <2>2 DEF M!Answer, Sending
      <3>2. Len(t) \in Nat
        BY <3>1 DEF M!Text
      <3> QED
        BY <3>1, <3>2
    <2>4. /\ e \in at..Len(t) /\ e <= at + Limit /\ r \in e..Len(t)
          /\ \A k \in (e + 1)..r : t[k] \in M!Blank
      BY <2>3, PieceFits
    <2>5. /\ x \in Seq(Sign) /\ \A n \in 1..Len(x) : x[n].what # "text"
          /\ \A n \in 1..Len(x) : x[n].what = "buttons" => n = Len(x) /\ M!IsLast(answer)
      BY ExtrasRide
    <2>6. M!IsLast(answer) <=> r = Len(t)
      BY DEF M!IsLast
    <2>7. Laid(pieces, t, at) /\ NoButtons(pieces)
      BY <2>1, <2>2 DEF Sending
    <2> HIDE DEF t, at, e, r, x
    <2>8. Laid(q, t, r)
      BY <2>2, <2>3, <2>4, <2>5, <2>7, PieceLaid
    <2>9. M!Part(at + 1, e) \in Sign /\ M!Part(at + 1, e).what = "text"
      BY <2>3, <2>4 DEF M!Part, Sign
    <2>10. /\ q \in Seq(Sign)
           /\ \A n \in 1..Len(q) : q[n].what = "buttons" => n = Len(q) /\ M!IsLast(answer)
      BY <2>2, <2>5, <2>7, <2>9, ButtonsRide
    <2> HIDE DEF q
    <2>11. /\ answer'.text = t /\ answer'.at = r /\ answer' \in M!Answer
           /\ answer'.stage = IF M!IsLast(answer) THEN "done" ELSE "text"
      <3>1. r \in Nat
        BY <2>3, <2>4
      <3>2. answer.text = t
        BY DEF t
      <3> QED
        BY <2>1, <2>2, <3>1, <3>2 DEF M!Answer
    <2>12. answer' # None
      BY <2>11, ChannelsAssumption
    <2>13. Sending(answer', pieces')
      <3>1. r <= Len(t)
        BY <2>3, <2>4
      <3>2. ButtonsLast(pieces') /\ (~M!IsLast(answer) => NoButtons(pieces'))
        BY <2>1, <2>10 DEF ButtonsLast, NoButtons
      <3>3. answer'.stage \in {"done", "text"} /\ (answer'.stage = "done" <=> M!IsLast(answer))
        BY <2>11
      <3> QED
        BY <2>1, <2>6, <2>8, <2>11, <3>1, <3>2, <3>3 DEF Sending
    <2> QED
      BY <2>1, <2>10, <2>11, <2>12, <2>13 DEF SendInv
  <1>5. CASE M!SendFails
    <2>1. /\ answer # None /\ answer.stage = "text" /\ pieces' = pieces
          /\ answer' = [answer EXCEPT !.stage = "failed"]
      BY <1>5 DEF M!SendFails
    <2>2. answer \in M!Answer /\ pieces \in Seq(Sign) /\ Sending(answer, pieces)
      BY <2>1 DEF SendInv
    <2>3. /\ answer'.text = answer.text /\ answer'.at = answer.at /\ answer' \in M!Answer
          /\ answer'.stage = "failed"
      BY <2>1, <2>2 DEF M!Answer
    <2>4. answer' # None
      BY <2>3, ChannelsAssumption
    <2>5. Sending(answer', pieces')
      BY <2>1, <2>2, <2>3 DEF Sending
    <2> QED
      BY <2>1, <2>2, <2>3, <2>4, <2>5 DEF SendInv
  <1> QED
    BY <1>1, <1>2, <1>3, <1>4, <1>5
       DEF M!Next, messengerVars, M!Arrives, M!Ignore, M!Download, M!Local, M!Drop, M!Work, M!WorkEnds

LEMMA SendInit == M!Init => SendInv
  BY DEF M!Init, SendInv
-----------------------------------------------------------------------------
(* Web requests.  What waits under an id is a request of that id without a   *)
(* response, and with its timer.                                             *)
WebShape ==
    /\ clock \in M!Clock /\ id \in [Requests -> M!Clock \cup {None}]
    /\ pending \in [M!Clock -> Requests \cup {None}] /\ timeouts \subseteq Requests
    /\ DOMAIN response = Requests /\ DOMAIN handling = Requests
    /\ \A r \in Requests : /\ r \in timeouts \/ handling[r] # None => id[r] \in M!Clock
                           /\ id[r] = None => response[r] = None

WebInv ==
    /\ WebShape
    /\ \A i \in M!Clock : pending[i] # None =>
          id[pending[i]] = i /\ response[pending[i]] = None /\ pending[i] \in timeouts

LEMMA WebKeeps ==
    WebInv /\ (M!WebNext \/ UNCHANGED webVars) => WebInv' /\ M!WaitersAreOpen'
  <1> SUFFICES ASSUME WebInv, M!WebNext \/ UNCHANGED webVars PROVE WebInv'
    BY DEF WebInv, M!WaitersAreOpen
  <1>a. M!Clock \subseteq Int /\ None \notin M!Clock /\ None \notin Requests
    BY ChannelsAssumption DEF M!Clock
  <1>1. CASE UNCHANGED webVars
    BY <1>1 DEF webVars, WebInv, WebShape
  <1>2. CASE M!Tick
    BY <1>2, ChannelsAssumption DEF M!Tick, M!Clock, WebInv, WebShape
  <1>3. ASSUME NEW r \in Requests, M!Post(r) PROVE WebInv'
    BY <1>3, <1>a DEF M!Post, WebInv, WebShape
  <1>4. ASSUME NEW r \in Requests, M!Reply(r) PROVE WebInv'
    <2>1. id[r] \in M!Clock
      <3>1. handling[r] # None
        BY <1>4, ChannelsAssumption DEF M!Reply
      <3> QED
        BY <3>1 DEF WebInv, WebShape
    <2>2. handling' = [handling EXCEPT ![r] = handling[r] - 1] /\ UNCHANGED <<clock, id, timeouts>>
      BY <1>4 DEF M!Reply
    <2>3. CASE pending[id[r]] # None
      <3>1. pending[id[r]] \in Requests
        BY <2>1, <2>3 DEF WebInv, WebShape
      <3>2. /\ DOMAIN response' = Requests
            /\ \A q \in Requests : q # pending[id[r]] => response'[q] = response[q]
            /\ pending' = [pending EXCEPT ![id[r]] = None]
        BY <1>4, <2>3, <3>1 DEF M!Reply, M!PendingWithout, WebInv, WebShape
      <3>3. WebShape'
        BY <2>1, <2>2, <3>1, <3>2, <1>a DEF WebInv, WebShape
      <3>4. ASSUME NEW i \in M!Clock, pending'[i] # None
            PROVE  /\ id'[pending'[i]] = i /\ response'[pending'[i]] = None
                   /\ pending'[i] \in timeouts'
        <4>1. i # id[r] /\ pending'[i] = pending[i] /\ pending[i] # None
          BY <3>2, <3>4, <2>1 DEF WebInv, WebShape
        <4>2. /\ id[pending[i]] = i /\ response[pending[i]] = None
              /\ pending[i] \in timeouts /\ pending[i] \in Requests
          BY <4>1 DEF WebInv, WebShape
        <4>3. pending[i] # pending[id[r]]
          BY <4>1, <4>2, <2>1, <2>3 DEF WebInv
        <4> QED
          BY <4>1, <4>2, <4>3, <3>2, <2>2
      <3> QED
        BY <3>3, <3>4 DEF WebInv
    <2>4. CASE pending[id[r]] = None
      BY <1>4, <2>1, <2>2, <2>4 DEF M!Reply, WebInv, WebShape
    <2> QED
      BY <2>3, <2>4
  <1>5. ASSUME NEW r \in Requests, M!HandlerEnds(r) PROVE WebInv'
    BY <1>5 DEF M!HandlerEnds, WebInv, WebShape
  <1>6. ASSUME NEW r \in Requests, M!Timeout(r) PROVE WebInv'
    <2>1. id[r] \in M!Clock /\ timeouts' = timeouts \ {r} /\ UNCHANGED <<clock, id, handling>>
      BY <1>6 DEF M!Timeout, M!DueTimeout, WebInv, WebShape
    <2>2. CASE pending[id[r]] # None
      <3>1. /\ DOMAIN response' = Requests
            /\ \A q \in Requests : q # r => response'[q] = response[q]
            /\ pending' = [pending EXCEPT ![id[r]] = None]
        BY <1>6, <2>2 DEF M!Timeout, WebInv, WebShape
      <3>2. WebShape'
        BY <2>1, <3>1, <1>a DEF WebInv, WebShape
      <3> QED
        BY <2>1, <3>1, <3>2, <1>a DEF WebInv, WebShape
    <2>3. CASE pending[id[r]] = None
      <3>1. UNCHANGED <<pending, response>>
        BY <1>6, <2>3 DEF M!Timeout
      <3> QED
        BY <2>1, <2>3, <3>1 DEF WebInv, WebShape
    <2> QED
      BY <2>2, <2>3
  <1> QED
    BY <1>1, <1>2, <1>3, <1>4, <1>5, <1>6 DEF M!WebNext
-----------------------------------------------------------------------------
(* Model clients.  The body is that of what was asked; embedding requests    *)
(* went out one interval apart, and who waits next is due one later.         *)
Paced ==
    /\ time \in Nat /\ lastAt \in Nat \cup {None}
    /\ fired \in Seq([call : Embeds, at : Nat])
    /\ waiting \in Seq([call : Embeds, due : Nat \cup {None}])
    /\ fired # <<>> => lastAt # None
    /\ \A i \in 1..Len(fired) : lastAt >= fired[i].at
    /\ \A i \in 1..Len(waiting) : waiting[i].due # None =>
          i = 1 /\ (fired # <<>> => waiting[i].due >= lastAt + Interval)
    /\ O!EmbedsArePaced

ModelInv == O!LeakersThink /\ Paced

LEMMA ModelInit == O!Init => ModelInv
  <1> SUFFICES ASSUME O!Init PROVE ModelInv
    OBVIOUS
  <1>1. O!LeakersThink
    <2> SUFFICES ASSUME kind = "openai", ask.leaks, ask.capable PROVE body.think = "on"
      BY DEF O!LeakersThink
    <2>1. ask.think \in {"unset", "off", "on"} /\ body.think = O!Think(ask)
      BY DEF O!Init, O!Asks, O!RequestBody
    <2> QED
      BY <2>1 DEF O!Think, O!Coerced
  <1>2. Paced
    BY DEF O!Init, Paced, O!EmbedsArePaced
  <1> QED
    BY <1>1, <1>2 DEF ModelInv

LEMMA ModelKeeps == ModelInv /\ (O!Next \/ UNCHANGED modelVars) => ModelInv'
  <1> SUFFICES ASSUME ModelInv, O!Next \/ UNCHANGED modelVars PROVE ModelInv'
    OBVIOUS
  <1>a. None \notin Nat /\ Interval \in Nat
    BY ChannelsAssumption
  <1>1. O!LeakersThink'
    BY DEF ModelInv, modelVars, O!LeakersThink, O!Next, O!Request, O!TimesOut, O!AttemptFails,
           O!Refused, O!HeadersCome, O!Read, O!Ends, O!Breaks, O!AbortAllInference,
           O!requestVars, O!EmbedThrottle, O!EmbedGoes, O!Tick
  <1>2. CASE UNCHANGED <<time, waiting, lastAt, fired>>
    BY <1>1, <1>2 DEF ModelInv, Paced, O!EmbedsArePaced
  <1>3. ASSUME NEW e \in Embeds, O!EmbedThrottle(e) PROVE ModelInv'
    <2>1. UNCHANGED <<time, lastAt, fired>> /\ O!EmbedsArePaced'
      BY <1>3 DEF O!EmbedThrottle, ModelInv, Paced, O!EmbedsArePaced
    <2> DEFINE entry == [call |-> e, due |-> O!DueOnEntry]
    <2>2. /\ O!DueOnEntry \in Nat \cup {None}
          /\ O!DueOnEntry # None => waiting = <<>>
          /\ O!DueOnEntry # None /\ fired # <<>> => O!DueOnEntry >= lastAt + Interval
      BY <1>a DEF O!DueOnEntry, O!DueOf, ModelInv, Paced
    <2>3. /\ waiting' \in Seq([call : Embeds, due : Nat \cup {None}])
          /\ Len(waiting') = Len(waiting) + 1
          /\ \A i \in 1..Len(waiting) : waiting'[i] = waiting[i]
          /\ waiting'[Len(waiting) + 1].due = O!DueOnEntry
      BY <1>3, <2>2 DEF O!EmbedThrottle, ModelInv, Paced
    <2>4. ASSUME NEW i \in 1..Len(waiting'), waiting'[i].due # None
          PROVE  i = 1 /\ (fired # <<>> => waiting'[i].due >= lastAt + Interval)
      BY <2>2, <2>3, <2>4 DEF ModelInv, Paced
    <2> QED
      BY <1>1, <2>1, <2>3, <2>4 DEF ModelInv, Paced
  <1>4. CASE O!EmbedGoes
    <2> DEFINE next == Tail(waiting)
    <2>1. /\ waiting # <<>> /\ waiting[1].due \in Nat /\ time >= waiting[1].due
          /\ waiting[1].call \in Embeds
          /\ fired' = Append(fired, [call |-> waiting[1].call, at |-> time])
          /\ lastAt' = time /\ time' = time
          /\ waiting' = IF next # <<>> /\ next[1].due = None
                        THEN [next EXCEPT ![1].due = time + Interval] ELSE next
      <3>1. waiting # <<>> /\ Head(waiting) = waiting[1] /\ Len(waiting) > 0
        BY <1>4 DEF O!EmbedGoes, ModelInv, Paced
      <3>2. waiting[1] \in [call : Embeds, due : Nat \cup {None}]
        <4>1. /\ waiting \in Seq([call : Embeds, due : Nat \cup {None}])
              /\ 1 \in 1..Len(waiting)
          BY <3>1 DEF ModelInv, Paced
        <4> QED
          BY <4>1, ElementOf
      <3> QED
        BY <1>4, <3>1, <3>2 DEF O!EmbedGoes
    <2>2. fired # <<>> => time >= lastAt + Interval
      <3>1. 1 \in 1..Len(waiting) /\ waiting[1].due # None
        BY <2>1, <1>a DEF ModelInv, Paced
      <3>2. ASSUME fired # <<>> PROVE waiting[1].due >= lastAt + Interval
        BY <3>1, <3>2 DEF ModelInv, Paced
      <3>3. ASSUME fired # <<>> PROVE lastAt \in Nat
        BY <3>3, <1>a DEF ModelInv, Paced
      <3>4. time \in Nat
        BY DEF ModelInv, Paced
      <3> QED
        BY <2>1, <3>2, <3>3, <3>4, <1>a
    <2>7. ASSUME NEW i \in 1..Len(fired) PROVE fired[i].at \in Nat /\ fired # <<>>
      <3>1. fired[i] \in [call : Embeds, at : Nat]
        BY ElementOf DEF ModelInv, Paced
      <3>2. Len(fired) > 0
        BY DEF ModelInv, Paced
      <3> QED
        BY <3>1, <3>2
    <2>3. /\ fired' \in Seq([call : Embeds, at : Nat]) /\ Len(fired') = Len(fired) + 1
          /\ \A i \in 1..Len(fired) : fired'[i] = fired[i]
          /\ fired'[Len(fired) + 1].at = time /\ fired' # <<>> /\ time \in Nat
          /\ Len(fired) \in Nat
      BY <2>1 DEF ModelInv, Paced
    <2>4. \A i \in 1..Len(fired') : time >= fired'[i].at
      <3> SUFFICES ASSUME NEW i \in 1..Len(fired') PROVE time >= fired'[i].at
        OBVIOUS
      <3>1. CASE i = Len(fired) + 1
        BY <2>3, <3>1
      <3>2. CASE i # Len(fired) + 1
        <4>1. i \in 1..Len(fired) /\ fired # <<>>
          BY <2>3, <3>2 DEF ModelInv, Paced
        <4>2. /\ lastAt \in Nat /\ fired[i].at \in Nat /\ lastAt >= fired[i].at
              /\ time >= lastAt + Interval
          BY <4>1, <2>2, <2>7, <1>a DEF ModelInv, Paced
        <4> QED
          BY <4>1, <4>2, <2>3, <1>a
      <3> QED
        BY <3>1, <3>2
    <2>5. O!EmbedsArePaced'
      <3> SUFFICES ASSUME NEW i \in 1..Len(fired') - 1
                   PROVE  fired'[i + 1].at >= fired'[i].at + Interval
        BY DEF O!EmbedsArePaced
      <3>1. i \in 1..Len(fired) /\ i \in Nat
        BY <2>3
      <3>2. CASE i = Len(fired)
        <4>1. /\ fired # <<>> /\ lastAt \in Nat /\ fired[i].at \in Nat
              /\ lastAt >= fired[i].at /\ time >= lastAt + Interval
          BY <3>1, <2>2, <2>7, <1>a DEF ModelInv, Paced
        <4> QED
          BY <4>1, <3>1, <3>2, <2>3, <1>a
      <3>3. CASE i # Len(fired)
        <4>1. i \in 1..Len(fired) - 1 /\ i + 1 \in 1..Len(fired)
          BY <3>1, <3>3, <2>3
        <4> QED
          BY <4>1, <3>1, <2>3 DEF ModelInv, Paced, O!EmbedsArePaced
      <3> QED
        BY <3>2, <3>3
    <2>6. /\ waiting' \in Seq([call : Embeds, due : Nat \cup {None}])
          /\ \A i \in 1..Len(waiting') : waiting'[i].due # None =>
                i = 1 /\ waiting'[i].due >= time + Interval
      <3>1. /\ next \in Seq([call : Embeds, due : Nat \cup {None}])
            /\ Len(next) = Len(waiting) - 1 /\ \A i \in 1..Len(next) : next[i] = waiting[i + 1]
        BY <2>1 DEF ModelInv, Paced
      <3>2. \A i \in 1..Len(next) : next[i].due = None
        BY <3>1 DEF ModelInv, Paced
      <3>3. CASE next = <<>>
        BY <2>1, <3>1, <3>3
      <3>4. CASE next # <<>>
        <4>1. 1 \in 1..Len(next) /\ next[1].due = None
          BY <3>1, <3>2, <3>4, NotEmpty
        <4>2. waiting' = [next EXCEPT ![1].due = time + Interval]
          BY <2>1, <4>1, <3>4
        <4>3. time + Interval \in Nat
          BY <2>3, <1>a
        <4>4. next[1] \in [call : Embeds, due : Nat \cup {None}]
          BY <3>1, <4>1, ElementOf
        <4> HIDE DEF next
        <4>5. /\ waiting' \in Seq([call : Embeds, due : Nat \cup {None}])
              /\ Len(waiting') = Len(next)
              /\ waiting'[1].due = time + Interval
              /\ \A i \in 1..Len(next) : i # 1 => waiting'[i] = next[i]
          BY <4>1, <4>2, <4>3, <4>4, <3>1
        <4> QED
          BY <4>3, <4>5, <3>2, <2>3, <1>a
      <3> QED
        BY <3>3, <3>4
    <2> QED
      BY <1>1, <1>a, <2>1, <2>3, <2>4, <2>5, <2>6 DEF ModelInv, Paced
  <1>5. CASE O!Tick
    BY <1>1, <1>5 DEF O!Tick, ModelInv, Paced, O!EmbedsArePaced
  <1> QED
    BY <1>2, <1>3, <1>4, <1>5
       DEF O!Next, O!Request, O!TimesOut, O!AttemptFails, O!Refused, O!HeadersCome, O!Read,
           O!Ends, O!Breaks, O!AbortAllInference, O!embedVars, modelVars
-----------------------------------------------------------------------------
(* The stream of a model.  Before the headers nothing is there; then, by the *)
(* OpenAI client, the whole lines of what was sent are heard and the half    *)
(* after them is held, and by both what was shown lies before what comes.    *)
Heard == kind = "openai" /\ phase \in {"streaming", "answered"} =>
            rest = (sent % 2) /\ heard = [i \in 1..(sent \div 2) |-> i]

Streamed == /\ streamed \in Seq(Nat) /\ O!ShownOnce
            /\ phase \in {"asking", "streaming"} =>
                  \A i \in 1..Len(streamed) : streamed[i] <= sent \div 2

StreamInv ==
    /\ sent \in Nat /\ Heard /\ Streamed
    /\ phase = "asking" => sent = 0 /\ rest = 0 /\ heard = <<>> /\ streamed = <<>>

LEMMA StreamKeeps == StreamInv /\ (O!Next \/ UNCHANGED modelVars) => StreamInv'
  <1> SUFFICES ASSUME StreamInv, O!Next \/ UNCHANGED modelVars PROVE StreamInv'
    OBVIOUS
  <1>1. CASE /\ UNCHANGED <<kind, sent, rest, heard, streamed>>
             /\ \/ phase' = phase \/ phase' \in {"failed"}
                \/ phase = "asking" /\ phase' = "streaming"
                \/ phase = "streaming" /\ phase' = "answered"
    <2>1. phase = "asking" => Heard'
      <3> SUFFICES ASSUME phase = "asking" PROVE Heard'
        OBVIOUS
      <3>1. sent = 0 /\ rest = 0 /\ heard = <<>>
        BY DEF StreamInv
      <3>2. (0 % 2) = 0 /\ 0 \div 2 = 0 /\ [i \in 1..0 |-> i] = <<>>
        OBVIOUS
      <3> QED
        BY <1>1, <3>1, <3>2 DEF Heard
    <2>2. Heard'
      BY <1>1, <2>1 DEF StreamInv, Heard
    <2>3. Streamed'
      BY <1>1 DEF StreamInv, Streamed, O!ShownOnce
    <2> QED
      BY <1>1, <2>2, <2>3 DEF StreamInv
  <1>2. CASE O!Read
    <2>1. PICK to \in sent + 1..O!Halves :
             /\ sent' = to /\ rest' = O!HeldAfter(kind, to)
             /\ heard' = heard \o O!WholeIn(O!FirstUnparsed(kind), to)
             /\ streamed' = streamed \o O!WholeIn(O!FirstUnparsed(kind), to)
      BY <1>2 DEF O!Read
    <2>2. phase = "streaming" /\ phase' = phase /\ kind' = kind
      BY <1>2 DEF O!Read
    <2>3. sent \in Nat /\ to \in Nat /\ to > sent
      BY <2>1 DEF StreamInv
    <2> DEFINE f == O!FirstUnparsed(kind)
               b == (f + 1) \div 2
               new == [i \in 1..((to \div 2) - b) |-> b + i]
    <2>4. f \in {sent, sent - (sent % 2)} /\ (kind = "openai" => f = sent - (sent % 2))
      <3>1. kind = "openai" => rest = (sent % 2)
        BY <2>2 DEF StreamInv, Heard
      <3>2. CASE kind = "openai"
        <4>1. f = sent - rest
          BY <3>2 DEF O!FirstUnparsed
        <4> HIDE DEF f
        <4> QED
          BY <3>1, <3>2, <4>1
      <3>3. CASE kind # "openai"
        BY <3>3 DEF O!FirstUnparsed
      <3> QED
        BY <3>2, <3>3
    <2> HIDE DEF f
    <2>5. /\ b \in Nat /\ b >= sent \div 2 /\ sent \div 2 \in Nat
          /\ to \div 2 \in Nat /\ to \div 2 >= b
          /\ f = sent - (sent % 2) => b = sent \div 2
          /\ O!WholeIn(f, to) = new
      <3> DEFINE h == sent \div 2
                 k == to \div 2
      <3>1. /\ h \in Nat /\ (sent % 2) \in {0, 1} /\ sent = 2 * h + (sent % 2)
            /\ k \in Nat /\ (to % 2) \in {0, 1} /\ to = 2 * k + (to % 2)
        BY <2>3
      <3>2. f \in Nat /\ f <= sent /\ f >= 2 * h /\ (f = sent - (sent % 2) => f = 2 * h)
        BY <2>4, <3>1
      <3>3. /\ b \in Nat /\ ((f + 1) % 2) \in {0, 1} /\ f + 1 = 2 * b + ((f + 1) % 2)
        BY <3>2
      <3>4. O!WholeIn(f, to) = new
        BY DEF O!WholeIn
      <3> HIDE DEF b, h, k, new
      <3>5. b >= h /\ k >= b
        BY <2>3, <3>1, <3>2, <3>3
      <3>6. f = sent - (sent % 2) => b = h
        BY <3>1, <3>2, <3>3
      <3> QED
        BY <3>1, <3>3, <3>4, <3>5, <3>6 DEF h, k
    <2> HIDE DEF b
    <2>6. /\ new \in Seq(Nat) /\ Len(new) = (to \div 2) - b
          /\ \A i \in 1..Len(new) : new[i] = b + i
      <3>1. (to \div 2) - b \in Nat
        BY <2>5
      <3> QED
        BY <2>5, <3>1
    <2> HIDE DEF new
    <2>7. /\ streamed \in Seq(Nat) /\ Len(streamed) \in Nat /\ O!ShownOnce
          /\ \A i \in 1..Len(streamed) : streamed[i] <= sent \div 2 /\ streamed[i] \in Nat
      BY <2>2 DEF StreamInv, Streamed
    <2>8. /\ streamed' \in Seq(Nat) /\ Len(streamed') = Len(streamed) + Len(new)
          /\ \A i \in 1..(Len(streamed) + Len(new)) :
                streamed'[i] = IF i <= Len(streamed) THEN streamed[i] ELSE new[i - Len(streamed)]
      BY <2>1, <2>5, <2>6, <2>7, ConcatProperties DEF f
    <2>9. \A i \in 1..Len(streamed') : i > Len(streamed) =>
             /\ i - Len(streamed) \in 1..Len(new) /\ streamed'[i] = b + (i - Len(streamed))
      <3> TAKE i \in 1..Len(streamed')
      <3> SUFFICES ASSUME i > Len(streamed)
                   PROVE  /\ i - Len(streamed) \in 1..Len(new)
                          /\ streamed'[i] = b + (i - Len(streamed))
        OBVIOUS
      <3>1. i - Len(streamed) \in 1..Len(new)
        BY <2>5, <2>7, <2>8
      <3>2. i \in 1..(Len(streamed) + Len(new)) /\ ~(i <= Len(streamed))
        BY <2>5, <2>7, <2>8
      <3>3. streamed'[i] = new[i - Len(streamed)]
        BY <2>8, <3>2
      <3> QED
        BY <2>6, <3>1, <3>3
    <2>10. \A i \in 1..Len(streamed') : ~(i > Len(streamed)) =>
             /\ i \in 1..Len(streamed) /\ streamed'[i] = streamed[i]
      BY <2>7, <2>8
    <2>11. \A i \in 1..Len(streamed') : streamed'[i] <= to \div 2
      <3> SUFFICES ASSUME NEW i \in 1..Len(streamed') PROVE streamed'[i] <= to \div 2
        OBVIOUS
      <3>1. CASE i > Len(streamed)
        BY <3>1, <2>5, <2>6, <2>7, <2>9
      <3>2. CASE ~(i > Len(streamed))
        BY <3>2, <2>5, <2>7, <2>10
      <3> QED
        BY <3>1, <3>2
    <2>12. O!ShownOnce'
      <3>1. DOMAIN streamed' = 1..Len(streamed')
        BY <2>8
      <3>2. ASSUME NEW i \in 1..Len(streamed'), NEW j \in 1..Len(streamed'), i < j
            PROVE  streamed'[i] < streamed'[j]
        <4> DEFINE m == Len(streamed)
        <4>a. m \in Nat /\ i \in Nat /\ j \in Nat
          BY <2>7, <2>8
        <4> HIDE DEF m
        <4>1. CASE i > Len(streamed)
          <5>1. j > Len(streamed)
            BY <3>2, <4>1, <4>a DEF m
          <5>2. streamed'[i] = b + (i - m) /\ streamed'[j] = b + (j - m)
            BY <4>1, <5>1, <2>9 DEF m
          <5> QED
            BY <3>2, <4>a, <5>2, <2>5
        <4>2. CASE ~(i > Len(streamed)) /\ j > Len(streamed)
          <5>1. streamed'[j] = b + (j - m) /\ j - m > 0
            BY <4>2, <4>a, <2>9 DEF m
          <5>2. streamed'[i] = streamed[i] /\ streamed[i] <= sent \div 2 /\ streamed[i] \in Nat
            BY <4>2, <2>7, <2>10
          <5> QED
            BY <4>a, <5>1, <5>2, <2>5
        <4>3. CASE ~(i > Len(streamed)) /\ ~(j > Len(streamed))
          <5>1. DOMAIN streamed = 1..Len(streamed)
            BY <2>7
          <5> QED
            BY <3>2, <4>3, <5>1, <2>7, <2>10 DEF O!ShownOnce
        <4> QED
          BY <4>1, <4>2, <4>3
      <3> QED
        BY <3>1, <3>2 DEF O!ShownOnce
    <2>13. Heard'
      <3> SUFFICES ASSUME kind = "openai"
                   PROVE  rest' = (to % 2) /\ heard' = [i \in 1..(to \div 2) |-> i]
        BY <2>1, <2>2 DEF Heard
      <3>1. rest' = (to % 2)
        BY <2>1 DEF O!HeldAfter
      <3>2. b = sent \div 2 /\ heard = [i \in 1..b |-> i]
        BY <2>2, <2>4, <2>5 DEF StreamInv, Heard
      <3>3. heard \in Seq(Nat) /\ Len(heard) = b /\ \A i \in 1..b : heard[i] = i
        BY <3>2, <2>5
      <3>4. /\ heard' \in Seq(Nat) /\ Len(heard') = b + Len(new)
            /\ \A i \in 1..(b + Len(new)) :
                  heard'[i] = IF i <= b THEN heard[i] ELSE new[i - b]
        <4>1. heard' = heard \o new /\ new \in Seq(Nat)
          BY <2>1, <2>5, <2>6 DEF f
        <4> QED
          BY <4>1, <3>3, ConcatProperties
      <3>5. b + Len(new) = to \div 2
        BY <2>5, <2>6
      <3>6. \A i \in 1..(to \div 2) : heard'[i] = i
        <4> SUFFICES ASSUME NEW i \in 1..(to \div 2) PROVE heard'[i] = i
          OBVIOUS
        <4>1. CASE i <= b
          BY <4>1, <2>5, <3>3, <3>4, <3>5
        <4>2. CASE ~(i <= b)
          <5>1. i - b \in 1..Len(new) /\ b + (i - b) = i
            BY <4>2, <2>5, <2>6
          <5> QED
            BY <4>2, <5>1, <2>6, <3>4, <3>5
        <4> QED
          BY <4>1, <4>2
      <3>7. heard' = [i \in 1..(to \div 2) |-> i]
        BY <3>4, <3>5, <3>6
      <3> QED
        BY <3>1, <3>7
    <2>14. Streamed'
      BY <2>1, <2>8, <2>11, <2>12 DEF Streamed
    <2> QED
      BY <2>1, <2>2, <2>3, <2>13, <2>14 DEF StreamInv
  <1>3. CASE O!Breaks
    <2>1. phase' = "failed" /\ sent' = 0 /\ streamed' = streamed
      BY <1>3 DEF O!Breaks, O!AfterBrokenStream
    <2> QED
      BY <2>1 DEF StreamInv, Heard, Streamed, O!ShownOnce
  <1>4. CASE O!AttemptFails
    BY <1>1, <1>4 DEF O!AttemptFails, O!AfterFailedAttempt
  <1> QED
    BY <1>1, <1>2, <1>3, <1>4
       DEF O!Next, O!Request, O!TimesOut, O!Refused, O!HeadersCome, O!Ends,
           O!AbortAllInference, O!EmbedThrottle, O!EmbedGoes, O!Tick, O!requestVars,
           O!embedVars, modelVars

LEMMA StreamInit == O!Init => StreamInv
  <1> SUFFICES ASSUME O!Init PROVE StreamInv
    OBVIOUS
  <1>1. /\ phase \in {"idle", "asking"} /\ sent = 0 /\ rest = 0
        /\ heard = <<>> /\ streamed = <<>>
    BY DEF O!Init
  <1>2. DOMAIN streamed = {} /\ 1..Len(streamed) = {}
    BY <1>1
  <1> QED
    BY <1>1, <1>2 DEF StreamInv, Heard, Streamed, O!ShownOnce
-----------------------------------------------------------------------------
(* The side panel.  While no two sends overlap and nothing is cleared, each  *)
(* builds on all that is over.                                               *)
Exchange(s) == {"ask", "reply"} \X {s}

Together == ~overlapped /\ clears = 0 =>
    /\ \A s, t \in Sends : T!Underway(s) /\ T!Underway(t) => s = t
    /\ \A s, t \in Sends : T!Underway(s) /\ send[t] = "over" => Exchange(t) \subseteq base[s]
    /\ \A s \in Sends : send[s] = "streaming" => streaming
    /\ \A s \in Sends : send[s] = "over" => Exchange(s) \subseteq messages

PanelInv == /\ DOMAIN send = Sends /\ DOMAIN base = Sends /\ clears \in Nat
            /\ overlapped \in BOOLEAN
            /\ (\A s \in Sends : ~T!Underway(s)) => stored = messages
            /\ Together

LEMMA PanelKeeps ==
    PanelInv /\ (T!PanelNext \/ UNCHANGED panelVars) => PanelInv' /\ T!PanelIsStored'
  <1> SUFFICES ASSUME PanelInv, T!PanelNext \/ UNCHANGED panelVars PROVE PanelInv'
    BY DEF PanelInv, Together, Exchange, T!PanelIsStored
  <1> USE DEF PanelInv, T!Underway
  <1>1. CASE UNCHANGED panelVars
    BY <1>1 DEF panelVars, Together
  <1>2. CASE T!Clear
    <2>1. /\ clears' = clears + 1 /\ messages' = {} /\ stored' = {}
          /\ overlapped' = (overlapped \/ \E s \in Sends : T!Underway(s))
          /\ UNCHANGED <<send, base>>
      BY <1>2 DEF T!Clear
    <2>2. clears' \in Nat /\ clears' # 0
      BY <2>1
    <2>3. Together'
      BY <2>2 DEF Together
    <2> QED
      BY <2>1, <2>2, <2>3
  <1>6. CASE T!Switch
    BY <1>6 DEF T!Switch, Together
  <1>3. ASSUME NEW s \in Sends, T!Send(s) PROVE PanelInv'
    <2>1. /\ send' = [send EXCEPT ![s] = "context"] /\ ~streaming
          /\ base' = [base EXCEPT ![s] = messages] /\ send[s] = "new"
          /\ overlapped' = (overlapped \/ \E r \in Sends : send[r] = "context")
          /\ UNCHANGED <<messages, stored, streaming, clears>>
      BY <1>3 DEF T!Send, T!Takes
    <2>2. send'[s] = "context" /\ base'[s] = messages
      BY <2>1
    <2>3. \A t \in Sends \ {s} : send'[t] = send[t] /\ base'[t] = base[t]
      BY <2>1
    <2>4. ASSUME ~overlapped', clears' = 0
          PROVE  ~overlapped /\ \A t \in Sends : ~T!Underway(t)
      BY <2>1, <2>4 DEF Together
    <2>5. Together'
      <3> SUFFICES ASSUME ~overlapped', clears' = 0
                   PROVE  /\ \A u, t \in Sends : T!Underway(u)' /\ T!Underway(t)' => u = t
                          /\ \A u, t \in Sends : T!Underway(u)' /\ send'[t] = "over"
                                => Exchange(t) \subseteq base'[u]
                          /\ \A t \in Sends : send'[t] = "streaming" => streaming'
                          /\ \A t \in Sends : send'[t] = "over" => Exchange(t) \subseteq messages'
        BY DEF Together, Exchange
      <3>1. ~overlapped /\ clears = 0 /\ \A t \in Sends : ~T!Underway(t)
        BY <2>1, <2>4
      <3>2. \A t \in Sends : T!Underway(t)' => t = s
        BY <2>2, <2>3, <3>1
      <3>3. \A t \in Sends : send'[t] = "over" => Exchange(t) \subseteq messages
        BY <2>2, <2>3, <3>1 DEF Together
      <3> QED
        BY <2>1, <2>2, <2>3, <3>2, <3>3
    <2> QED
      BY <2>1, <2>2, <2>5
  <1>4. ASSUME NEW s \in Sends, T!Context(s) PROVE PanelInv'
    <2>1. /\ send' = [send EXCEPT ![s] = "streaming"] /\ send[s] = "context" /\ streaming'
          /\ messages' = base[s] \cup {<<"ask", s>>}
          /\ UNCHANGED <<base, stored, clears, overlapped>>
      BY <1>4 DEF T!Context
    <2>2. \A t \in Sends : t # s => send'[t] = send[t]
      BY <2>1
    <2>3. Together'
      BY <2>1, <2>2 DEF Together, Exchange
    <2> QED
      BY <2>1, <2>3
  <1>5. ASSUME NEW s \in Sends, T!Answer(s) PROVE PanelInv'
    <2>1. /\ send' = [send EXCEPT ![s] = "over"] /\ send[s] = "streaming"
          /\ messages' = base[s] \cup {<<"ask", s>>, <<"reply", s>>} /\ stored' = messages'
          /\ UNCHANGED <<base, clears, overlapped>>
      BY <1>5 DEF T!Answer, T!Final, T!Stored
    <2>2. send'[s] = "over" /\ \A t \in Sends : t # s => send'[t] = send[t]
      BY <2>1
    <2>3. ASSUME ~overlapped, clears = 0
          PROVE  /\ \A t \in Sends : ~T!Underway(t)'
                 /\ \A t \in Sends : send'[t] = "over" => Exchange(t) \subseteq messages'
      <3>1. \A t \in Sends : t # s => ~T!Underway(t)
        BY <2>1, <2>3 DEF Together
      <3>2. Exchange(s) \subseteq messages'
        BY <2>1 DEF Exchange
      <3>3. \A t \in Sends : t # s /\ send[t] = "over" => Exchange(t) \subseteq base[s]
        BY <2>1, <2>3 DEF Together
      <3> QED
        BY <2>1, <2>2, <3>1, <3>2, <3>3
    <2>4. Together'
      BY <2>1, <2>3 DEF Together, Exchange
    <2> QED
      BY <2>1, <2>4
  <1> QED
    BY <1>1, <1>2, <1>3, <1>4, <1>5, <1>6 DEF T!PanelNext
-----------------------------------------------------------------------------
(* The page.  What is in sight has the number of its place among what is in  *)
(* sight, which no other has: a click on a number that is borne by what is   *)
(* in sight is a click on what was shown there.                              *)
LEMMA PlacesDiffer ==
    /\ \A e \in P!Visible : P!Place(e) \in 1..Cardinality(P!Visible)
    /\ \A d, e \in P!Visible : P!Place(d) = P!Place(e) => d = e
  <1>1. P!Visible \subseteq Int /\ IsFiniteSet(P!Visible)
    <2>1. P!Visible \subseteq Elements /\ Elements \subseteq Nat /\ IsFiniteSet(Elements)
      BY ChannelsAssumption DEF P!Visible
    <2>2. IsFiniteSet(P!Visible)
      BY <2>1, FS_Subset
    <2> QED
      BY <2>1, <2>2
  <1> DEFINE Before(e) == {d \in P!Visible : d <= e}
  <1>2. \A e \in P!Visible : /\ IsFiniteSet(Before(e)) /\ Before(e) \subseteq P!Visible
                             /\ P!Place(e) = Cardinality(Before(e))
    BY <1>1, FS_Subset DEF P!Place, P!Cardinality, Cardinality
  <1>3. \A e \in P!Visible : P!Place(e) \in 1..Cardinality(P!Visible)
    <2> SUFFICES ASSUME NEW e \in P!Visible PROVE P!Place(e) \in 1..Cardinality(P!Visible)
      OBVIOUS
    <2>1. Cardinality(Before(e)) <= Cardinality(P!Visible)
      BY <1>1, <1>2, FS_Subset
    <2>2. e \in Before(e)
      BY <1>1
    <2>3. Cardinality(Before(e)) \in Nat /\ Cardinality(P!Visible) \in Nat
      BY <1>1, <1>2, FS_CardinalityType
    <2>4. Cardinality(Before(e)) # 0
      BY <1>2, <2>2, FS_EmptySet
    <2> QED
      BY <1>2, <2>1, <2>3, <2>4
  <1>4. ASSUME NEW d \in P!Visible, NEW e \in P!Visible, d < e PROVE P!Place(d) # P!Place(e)
    <2>1. Before(d) \subseteq Before(e) /\ e \in Before(e) /\ e \notin Before(d)
      <3>1. d \in Int /\ e \in Int /\ e <= e /\ ~(e <= d)
        BY <1>1, <1>4
      <3>2. \A x \in P!Visible : x <= d => x <= e
        BY <1>1, <1>4
      <3> QED
        BY <3>1, <3>2
    <2>2. Cardinality(Before(d)) # Cardinality(Before(e))
      BY <1>2, <2>1, FS_Subset
    <2> QED
      BY <1>2, <2>2
  <1> QED
    BY <1>1, <1>3, <1>4

LEMMA ShownInPlace ==
    \A e \in P!Visible : /\ P!Place(e) \in 1..Len(P!InOrder)
                         /\ P!InOrder[P!Place(e)] = e
  <1>1. Cardinality(P!Visible) \in Nat
    <2>1. IsFiniteSet(P!Visible)
      BY ChannelsAssumption, FS_Subset DEF P!Visible
    <2> QED
      BY <2>1, FS_CardinalityType
  <1>2. P!InOrder = [n \in 1..Cardinality(P!Visible) |->
                        CHOOSE e \in P!Visible : P!Place(e) = n]
    BY DEF P!InOrder, P!Cardinality, Cardinality
  <1>3. Len(P!InOrder) = Cardinality(P!Visible)
    BY <1>1, <1>2
  <1>4. ASSUME NEW e \in P!Visible PROVE P!InOrder[P!Place(e)] = e
    <2>1. P!Place(e) \in 1..Cardinality(P!Visible)
      BY PlacesDiffer
    <2>2. (CHOOSE d \in P!Visible : P!Place(d) = P!Place(e)) = e
      BY PlacesDiffer
    <2> QED
      BY <1>2, <2>1, <2>2
  <1> QED
    BY <1>3, <1>4, PlacesDiffer

LEMMA LeastIsThere == ASSUME NEW S \in SUBSET Nat, S # {} PROVE P!Min(S) \in S
  <1>1. PICK n \in S : \A m \in S : ~(<<m, n>> \in OpToRel(<, Nat))
    BY NatLessThanWellFounded, WFMin
  <1>2. \A m \in S : ~(m < n)
    BY <1>1 DEF OpToRel
  <1>3. \A m \in S : n <= m
    BY <1>2
  <1> QED
    BY <1>3 DEF P!Min

PageInv ==
    /\ DOMAIN mark = Elements
    /\ fresh => listed = P!InOrder
    /\ backend = "local" /\ fresh => \A e \in P!Visible : mark[e] = P!Place(e)
    /\ P!ActsOnWhatWasShown

(* What is hit while the page is as it was shown, was shown under the number.*)
LEMMA HitsInPlace ==
    ASSUME NEW n \in P!Numbers, NEW e \in P!Visible, P!Place(e) = n, listed = P!InOrder
    PROVE  n <= Len(listed) /\ e = listed[n]
  <1>1. P!Place(e) \in 1..Len(P!InOrder) /\ P!InOrder[P!Place(e)] = e
    BY ShownInPlace
  <1> QED
    BY <1>1

LEMMA PageKeeps == PageInv /\ (P!Next \/ UNCHANGED pageVars) => PageInv'
  <1> SUFFICES ASSUME PageInv, P!Next \/ UNCHANGED pageVars PROVE PageInv'
    OBVIOUS
  <1> USE DEF P!ActsOnWhatWasShown, P!RightElement
  <1>s. state' = state => P!InOrder' = P!InOrder /\ P!Visible' = P!Visible
                          /\ \A e \in P!Visible : P!Place(e)' = P!Place(e)
    BY DEF P!InOrder, P!Visible, P!Place
  <1>1. CASE UNCHANGED pageVars
    BY <1>1, <1>s DEF pageVars, PageInv
  <1>2. CASE P!Snapshot
    <2>1. /\ DOMAIN mark' = Elements /\ \A e \in P!Visible : mark'[e] = P!Place(e)
          /\ listed' = P!InOrder /\ acted' = None /\ state' = state /\ backend' = backend
      BY <1>2 DEF P!Snapshot, P!Numbered, P!Counted, P!Visible
    <2> QED
      BY <2>1, <1>s DEF PageInv
  <1>3. ASSUME NEW e \in Elements, P!PageChanges(e) PROVE PageInv'
    BY <1>3 DEF P!PageChanges, PageInv
  <1>4. CASE P!Navigate
    BY <1>4 DEF P!Navigate, PageInv
  <1>5. CASE P!Look
    <2>1. /\ UNCHANGED <<backend, state, mark, listed, fresh>> /\ aim # None
          /\ \/ /\ P!Described(aim.n) \in P!Visible
                /\ acted' = [n |-> aim.n, hit |-> P!Described(aim.n), sure |-> TRUE]
             \/ acted' # None => acted'.sure = FALSE
      <3>1. ASSUME NEW e \in P!Visible, P!ActsUnsure(aim.use),
                   P!Hits(aim.n, e, aim.use # "type")
            PROVE  acted'.sure = FALSE
        <4>1. (aim.use # "type") = FALSE
          BY <3>1 DEF P!ActsUnsure
        <4>2. acted'.sure = (aim.use # "type")
          BY <3>1 DEF P!Hits
        <4> QED
          BY <4>1, <4>2
      <3>2. /\ UNCHANGED <<backend, state, mark, listed, fresh>> /\ aim # None
            /\ \/ /\ P!Described(aim.n) \in P!Visible
                  /\ P!Hits(aim.n, P!Described(aim.n), TRUE)
               \/ \E e \in P!Visible : P!ActsUnsure(aim.use)
                                       /\ P!Hits(aim.n, e, aim.use # "type")
               \/ acted' = None
        BY <1>5 DEF P!Look
      <3> QED
        BY <3>1, <3>2 DEF P!Hits
    <2>2. P!Described(aim.n) \in P!Visible
             => aim.n <= Len(listed) /\ P!Described(aim.n) = listed[aim.n]
      BY ChannelsAssumption DEF P!Described, P!Visible
    <2> QED
      BY <2>1, <2>2, <1>s DEF PageInv
  <1>6. ASSUME NEW n \in P!Numbers, P!ExtensionAct(n) PROVE PageInv'
    BY <1>6, <1>s DEF P!ExtensionAct, PageInv
  <1>7. ASSUME NEW n \in P!Numbers, NEW use \in {"click", "type", "select"},
               P!LocalAct(n, use)
        PROVE  PageInv'
    <2>1. /\ UNCHANGED <<backend, state, listed, fresh>> /\ backend = "local"
          /\ mark' = P!Renumbered(n)
      BY <1>7 DEF P!LocalAct
    <2>2. /\ DOMAIN mark' = Elements
          /\ fresh => \A e \in P!Visible : mark'[e] = P!Place(e)
      BY <2>1 DEF P!Renumbered, P!Numbered, P!Counted, P!Visible, PageInv
    <2>3. \/ acted' = None
          \/ \E e \in P!Visible : mark'[e] = n /\ acted' = [n |-> n, hit |-> e, sure |-> TRUE]
      <3> DEFINE e == P!Found(mark', n)
      <3>1. acted' = None \/ (e # None /\ state[e] = "visible"
                              /\ acted' = [n |-> n, hit |-> e, sure |-> TRUE])
        BY <1>7 DEF P!LocalAct, P!Hits
      <3>2. e # None => e \in Elements /\ mark'[e] = n
        <4> DEFINE with == {d \in Elements : mark'[d] = n}
        <4>1. CASE with = {}
          BY <4>1 DEF P!Found
        <4>2. CASE with # {}
          <5>1. with \subseteq Nat
            BY ChannelsAssumption
          <5>2. P!Min(with) \in with
            BY <4>2, <5>1, LeastIsThere
          <5>3. e = P!Min(with)
            BY <4>2 DEF P!Found
          <5> QED
            BY <5>2, <5>3
        <4> QED
          BY <4>1, <4>2
      <3> QED
        BY <3>1, <3>2 DEF P!Visible
    <2>4. ASSUME acted' # None, fresh
          PROVE  acted'.n <= Len(listed) /\ acted'.hit = listed[acted'.n]
      <3>1. PICK e \in P!Visible : mark'[e] = n /\ acted' = [n |-> n, hit |-> e, sure |-> TRUE]
        BY <2>3, <2>4
      <3>2. P!Place(e) = n /\ listed = P!InOrder
        BY <3>1, <2>2, <2>4 DEF PageInv
      <3> QED
        BY <3>1, <3>2, HitsInPlace
    <2> QED
      BY <2>1, <2>2, <2>4, <1>s DEF PageInv
  <1> QED
    BY <1>1, <1>2, <1>3, <1>4, <1>5, <1>6, <1>7 DEF P!Next
-----------------------------------------------------------------------------
(* The chat page.  Until the voice mode is turned off while something is on  *)
(* its way, one thing at a time may start to record, and none out of voice   *)
(* mode; and one typed message at a time is under way, with the page waiting *)
(* for it.                                                                   *)
InProgress(t) == turn[t] \in {"stopping", "posted", "aborted", "playing"}
InFlight(r) == text[r] \in {"posted", "answered", "failed"}

OneAtATime == ~late =>
    /\ stray = 0 /\ asks \in {0, 1} /\ timers \in {0, 1}
    /\ \A t, u \in Turns : InProgress(t) /\ InProgress(u) => t = u
    /\ (\E t \in Turns : InProgress(t)) => asks = 0 /\ timers = 0 /\ held # "run"
    /\ asks = 1 => timers = 0 /\ held # "run"
    /\ timers = 1 => held # "run"
    /\ ~voice => asks = 0 /\ timers = 0 /\ held # "run" /\ \A t \in Turns : ~InProgress(t)

Asked == ~raced /\ ~late =>
    /\ \A r \in Typed : InFlight(r) => status = "sending" /\ ~voice /\ ~resetting /\ r \in since
    /\ \A r, q \in Typed : InFlight(r) /\ InFlight(q) => r = q
    /\ \A r \in Typed : <<"ask", r>> \in shown => InFlight(r) \/ <<"reply", r>> \in shown

ChatShape == /\ DOMAIN text = Typed /\ DOMAIN turn = Turns /\ resets \in Nat
             /\ voice \in BOOLEAN /\ resetting \in BOOLEAN
             /\ late \in BOOLEAN /\ raced \in BOOLEAN /\ kept \in BOOLEAN

ChatInv == ChatShape /\ OneAtATime /\ Asked /\ C!ResetIsThorough

LEMMA ChatInit == C!Init => ChatInv
  <1> SUFFICES ASSUME C!Init PROVE ChatInv
    OBVIOUS
  <1>1. ChatShape
    BY DEF C!Init, ChatShape
  <1>2. OneAtATime
    BY DEF C!Init, OneAtATime, InProgress
  <1>3. Asked
    BY DEF C!Init, Asked, InFlight
  <1>4. C!ResetIsThorough
    BY DEF C!Init, C!ResetIsThorough
  <1> QED
    BY <1>1, <1>2, <1>3, <1>4 DEF ChatInv

(* What has not to do with the voice mode leaves it as it is. *)
LEMMA VoiceAside == OneAtATime /\ UNCHANGED <<voice, C!sound>> => OneAtATime'
  BY DEF OneAtATime, InProgress, C!sound

(* What has to do with the voice mode finds no typed message under way.      *)
LEMMA TypedAside ==
    ASSUME ChatInv, C!NotText, late => late', voice' \in BOOLEAN, late' \in BOOLEAN,
           DOMAIN turn' = Turns,
           ~raced /\ ~late' => \A r \in Typed : ~InFlight(r),
           shown \subseteq shown',
           \A r \in Typed : <<"ask", r>> \in shown'
                               => <<"ask", r>> \in shown \/ <<"reply", r>> \in shown'
    PROVE  ChatShape' /\ Asked' /\ C!ResetIsThorough'
  <1>1. UNCHANGED <<who, resetting, text, session, since, resets, raced, kept>>
    BY DEF C!NotText, C!server
  <1>2. Asked'
    <2>1. \A r \in Typed : InFlight(r)' <=> InFlight(r)
      BY <1>1 DEF InFlight
    <2> SUFFICES ASSUME ~raced', ~late'
                 PROVE  /\ \A r \in Typed : ~InFlight(r)'
                        /\ \A r \in Typed : <<"ask", r>> \in shown' => <<"reply", r>> \in shown'
      BY DEF Asked, InFlight
    <2>2. \A r \in Typed : ~InFlight(r)
      BY <1>1
    <2>3. \A r \in Typed : <<"ask", r>> \in shown => <<"reply", r>> \in shown
      BY <1>1, <2>2 DEF ChatInv, Asked
    <2> QED
      BY <2>1, <2>2, <2>3
  <1>3. C!ResetIsThorough'
    BY <1>1 DEF ChatInv, C!ResetIsThorough, C!ResetKey, C!ChatKey, C!Claimed
  <1> QED
    BY <1>1, <1>2, <1>3 DEF ChatInv, ChatShape

(* A typed message under way leaves the voice mode nothing to do. *)
LEMMA NothingToRecord ==
    ChatInv /\ ~raced /\ ~late /\ (\E r \in Typed : InFlight(r)) =>
        /\ status = "sending" /\ ~voice /\ asks = 0 /\ timers = 0 /\ held # "run"
        /\ \A t \in Turns : ~InProgress(t)
  BY DEF ChatInv, Asked, OneAtATime

(* Starting to record when nothing records. *)
LEMMA StartsOne ==
    ASSUME C!Starts, held # "run"
    PROVE  stray' = stray /\ ((held' = "run" /\ asks' = asks) \/ (held' = held /\ asks' = asks + 1))
  <1>1. C!Records => held' = "run" /\ stray' = stray
    BY DEF C!Records
  <1>2. (C!Records /\ asks' = asks) \/ (asks' = asks + 1 /\ stray' = stray /\ held' = held)
    BY DEF C!Starts
  <1> QED
    BY <1>1, <1>2

LEMMA MicKeeps == ChatInv /\ C!MicAnswers => ChatInv'
  <1> SUFFICES ASSUME ChatInv, C!MicAnswers PROVE ChatInv'
    OBVIOUS
  <1>1. /\ asks > 0 /\ asks' = asks - 1 /\ UNCHANGED <<shown, timers, turn>> /\ C!NotText
        /\ \/ C!Records /\ voice' = voice
           \/ voice' = FALSE /\ UNCHANGED <<stray, held>>
    BY DEF C!MicAnswers, C!NotToggle
  <1>2. late' = (late \/ (~voice' /\ (asks > 1 \/ held = "run")))
    BY DEF C!MicAnswers
  <1>3. late' \in BOOLEAN /\ (late => late') /\ voice' \in BOOLEAN
    BY <1>1, <1>2 DEF ChatInv, ChatShape
  <1>4. ~raced /\ ~late' => \A r \in Typed : ~InFlight(r)
    <2> SUFFICES ASSUME ~raced, ~late, \E r \in Typed : InFlight(r) PROVE FALSE
      BY <1>3
    <2>1. asks = 0
      BY NothingToRecord
    <2> QED
      BY <1>1, <2>1
  <1>5. ChatShape' /\ Asked' /\ C!ResetIsThorough'
    <2>1. DOMAIN turn' = Turns /\ shown' = shown
      BY <1>1 DEF ChatInv, ChatShape
    <2> QED
      BY <1>1, <1>3, <1>4, <2>1, TypedAside
  <1>6. OneAtATime'
    <2> SUFFICES ASSUME ~late' PROVE OneAtATime'
      BY DEF OneAtATime
    <2>1. ~late /\ asks = 1 /\ asks' = 0 /\ voice /\ stray = 0 /\ held # "run" /\ timers = 0
          /\ \A t \in Turns : ~InProgress(t)
      BY <1>1, <1>3 DEF ChatInv, OneAtATime
    <2>2. stray' = 0 /\ (voice' \/ held' # "run")
      BY <1>1, <2>1 DEF C!Records
    <2>3. \A t \in Turns : ~InProgress(t)'
      BY <1>1, <2>1 DEF InProgress
    <2> QED
      BY <1>1, <2>1, <2>2, <2>3 DEF OneAtATime
  <1> QED
    BY <1>5, <1>6 DEF ChatInv

LEMMA ToggleOnKeeps == ChatInv /\ C!ToggleOn => ChatInv'
  <1> SUFFICES ASSUME ChatInv, C!ToggleOn PROVE ChatInv'
    OBVIOUS
  <1>1. /\ ~voice /\ ~C!Busy /\ voice' = TRUE /\ C!Starts
        /\ UNCHANGED <<shown, timers, turn>> /\ C!NotText
    BY DEF C!ToggleOn
  <1>2. late' = (late \/ held = "run")
    BY DEF C!ToggleOn
  <1>3. late' \in BOOLEAN /\ (late => late')
    BY <1>2 DEF ChatInv, ChatShape
  <1>4. ~raced /\ ~late' => \A r \in Typed : ~InFlight(r)
    <2> SUFFICES ASSUME ~raced, ~late, \E r \in Typed : InFlight(r) PROVE FALSE
      BY <1>3
    <2>1. status = "sending"
      BY NothingToRecord
    <2> QED
      BY <1>1, <2>1 DEF C!Busy
  <1>5. ChatShape' /\ Asked' /\ C!ResetIsThorough'
    <2>1. DOMAIN turn' = Turns /\ shown' = shown /\ voice' \in BOOLEAN
      BY <1>1 DEF ChatInv, ChatShape
    <2> QED
      BY <1>1, <1>3, <1>4, <2>1, TypedAside
  <1>6. OneAtATime'
    <2> SUFFICES ASSUME ~late' PROVE OneAtATime'
      BY DEF OneAtATime
    <2>1. ~late /\ stray = 0 /\ asks = 0 /\ timers = 0 /\ held # "run"
          /\ \A t \in Turns : ~InProgress(t)
      BY <1>1, <1>3 DEF ChatInv, OneAtATime
    <2>2. stray' = 0 /\ ((held' = "run" /\ asks' = 0) \/ (held' = held /\ asks' = 1))
      <3>1. stray' = stray /\ ((held' = "run" /\ asks' = asks) \/ (held' = held /\ asks' = asks + 1))
        BY <1>1, <2>1, StartsOne
      <3> QED
        BY <2>1, <3>1
    <2>3. \A t \in Turns : ~InProgress(t)'
      BY <1>1, <2>1 DEF InProgress
    <2> QED
      BY <1>1, <2>1, <2>2, <2>3 DEF OneAtATime
  <1> QED
    BY <1>5, <1>6 DEF ChatInv

LEMMA ToggleOffKeeps == ChatInv /\ C!ToggleOff => ChatInv'
  <1> SUFFICES ASSUME ChatInv, C!ToggleOff PROVE ChatInv'
    OBVIOUS
  <1>1. /\ voice /\ voice' = FALSE
        /\ held' = C!HeldAfterToggle
        /\ turn' = [t \in Turns |-> IF turn[t] = "posted" THEN "aborted" ELSE turn[t]]
        /\ UNCHANGED <<shown, asks, stray, timers>> /\ C!NotText
    BY DEF C!ToggleOff, C!NotToggle
  <1>2. late' = (late \/ asks > 0 \/ timers > 0
                      \/ \E t \in Turns : turn[t] \notin {"new", "over"})
    BY DEF C!ToggleOff
  <1>3. late' \in BOOLEAN /\ (late => late')
    BY <1>2 DEF ChatInv, ChatShape
  <1>4. ~raced /\ ~late' => \A r \in Typed : ~InFlight(r)
    BY <1>1, <1>3, NothingToRecord
  <1>5. ChatShape' /\ Asked' /\ C!ResetIsThorough'
    <2>1. DOMAIN turn' = Turns /\ shown' = shown /\ voice' \in BOOLEAN
      BY <1>1
    <2> QED
      BY <1>1, <1>3, <1>4, <2>1, TypedAside
  <1>6. OneAtATime'
    <2> SUFFICES ASSUME ~late' PROVE OneAtATime'
      BY DEF OneAtATime
    <2>1. ~late /\ stray = 0 /\ asks \in {0, 1} /\ timers \in {0, 1}
      BY <1>3 DEF ChatInv, OneAtATime
    <2>2. ~(asks > 0) /\ ~(timers > 0) /\ \A t \in Turns : turn[t] \in {"new", "over"}
      BY <1>2
    <2>3. asks = 0 /\ timers = 0
      BY <2>1, <2>2
    <2>4. held' # "run" /\ \A t \in Turns : ~InProgress(t)'
      BY <1>1, <2>2 DEF C!HeldAfterToggle, InProgress
    <2> QED
      BY <1>1, <2>1, <2>3, <2>4 DEF OneAtATime
  <1> QED
    BY <1>5, <1>6 DEF ChatInv

(* A turn goes on, or ends and what it held for itself passes to the next    *)
(* recording, question or timer.                                             *)
LEMMA TurnPasses ==
    ASSUME ChatInv, C!NotText, late' = late, voice' = voice, NEW t \in Turns,
           (turn[t] = "new" /\ held = "run" /\ voice) \/ InProgress(t),
           NEW v \in {"stopping", "posted", "aborted", "playing", "over"},
           turn' = [turn EXCEPT ![t] = v], shown \subseteq shown',
           \A r \in Typed : <<"ask", r>> \in shown'
                               => <<"ask", r>> \in shown \/ <<"reply", r>> \in shown',
           \/ /\ UNCHANGED <<asks, stray, timers>> /\ held' # "run"
           \/ /\ InProgress(t) /\ UNCHANGED <<asks, stray, held>>
              /\ v = "over" /\ timers' = C!Retry(t)
           \/ /\ InProgress(t) /\ UNCHANGED timers /\ v = "over" /\ voice /\ C!Starts
    PROVE  ChatInv'
  <1>1. ~raced /\ ~late' => \A r \in Typed : ~InFlight(r)
    BY NothingToRecord
  <1>2. /\ DOMAIN turn' = Turns /\ turn'[t] = v
        /\ \A u \in Turns \ {t} : turn'[u] = turn[u]
    BY DEF ChatInv, ChatShape
  <1>3. ChatShape' /\ Asked' /\ C!ResetIsThorough'
    BY <1>1, <1>2, TypedAside DEF ChatInv, ChatShape
  <1>4. OneAtATime'
    <2> SUFFICES ASSUME ~late' PROVE OneAtATime'
      BY DEF OneAtATime
    <2>1. /\ stray = 0 /\ asks = 0 /\ timers = 0 /\ voice
          /\ \A u \in Turns : u # t => ~InProgress(u)
          /\ InProgress(t) => held # "run"
      BY DEF ChatInv, OneAtATime
    <2>2. \A u \in Turns : u # t => ~InProgress(u)'
      BY <1>2, <2>1 DEF InProgress
    <2>3. CASE UNCHANGED <<asks, stray, timers>> /\ held' # "run"
      BY <2>1, <2>2, <2>3 DEF OneAtATime
    <2>4. CASE /\ InProgress(t) /\ UNCHANGED <<asks, stray, held>>
               /\ v = "over" /\ timers' = C!Retry(t)
      <3>1. timers' = 1 /\ ~InProgress(t)'
        BY <2>1, <2>4, <1>2 DEF C!Retry, InProgress
      <3> QED
        BY <2>1, <2>2, <2>4, <3>1 DEF OneAtATime
    <2>5. CASE InProgress(t) /\ UNCHANGED timers /\ v = "over" /\ voice /\ C!Starts
      <3>1. ~InProgress(t)'
        BY <2>5, <1>2 DEF InProgress
      <3>2. stray' = 0 /\ ((held' = "run" /\ asks' = 0) \/ (held' # "run" /\ asks' = 1))
        <4>1. held # "run"
          BY <2>1, <2>5
        <4>2. stray' = stray /\ ((held' = "run" /\ asks' = asks) \/ (held' = held /\ asks' = asks + 1))
          BY <2>5, <4>1, StartsOne
        <4> QED
          BY <2>1, <4>1, <4>2
      <3> QED
        BY <2>1, <2>2, <2>5, <3>1, <3>2 DEF OneAtATime
    <2> QED
      BY <2>3, <2>4, <2>5
  <1> QED
    BY <1>3, <1>4 DEF ChatInv

(* The same of a turn in its stages; under way it is in voice mode only.     *)
LEMMA TurnGoesOn ==
    ASSUME ChatInv, C!NotText, late' = late, voice' = voice, timers' = timers,
           NEW t \in Turns, InProgress(t), NEW v \in {"posted", "playing"},
           shown' \in {shown, shown \cup {<<"ask", t>>, <<"reply", t>>}},
           \/ /\ turn' = [turn EXCEPT ![t] = "over"]
              /\ IF voice THEN C!Starts ELSE UNCHANGED <<asks, stray, held>>
           \/ turn' = [turn EXCEPT ![t] = v] /\ UNCHANGED <<asks, stray, held>>
    PROVE  ChatInv'
  <1>1. /\ shown \subseteq shown'
        /\ \A r \in Typed : <<"ask", r>> \in shown'
                               => <<"ask", r>> \in shown \/ <<"reply", r>> \in shown'
    OBVIOUS
  <1>2. ~late => held # "run" /\ voice
    BY DEF ChatInv, OneAtATime
  <1>3. CASE late
    <2>1. DOMAIN turn' = Turns /\ voice' \in BOOLEAN /\ late' \in BOOLEAN /\ late'
      BY <1>3 DEF ChatInv, ChatShape
    <2>2. ChatShape' /\ Asked' /\ C!ResetIsThorough'
      BY <1>1, <2>1, TypedAside
    <2> QED
      BY <2>1, <2>2 DEF ChatInv, OneAtATime
  <1>4. CASE ~late
    <2>1. CASE turn' = [turn EXCEPT ![t] = "over"] /\ C!Starts
      BY <1>1, <1>2, <1>4, <2>1, TurnPasses
    <2>2. CASE turn' = [turn EXCEPT ![t] = v] /\ UNCHANGED <<asks, stray, held>>
      BY <1>1, <1>2, <1>4, <2>2, TurnPasses
    <2> QED
      BY <1>2, <1>4, <2>1, <2>2
  <1> QED
    BY <1>3, <1>4

LEMMA SpeechKeeps ==
    ASSUME ChatInv, NEW t \in Turns, C!Silence(t) \/ C!TurnEnds(t) PROVE ChatInv'
  <1>1. CASE C!Silence(t)
    <2>1. /\ voice /\ held = "run" /\ turn[t] = "new" /\ held' # "run"
          /\ turn' = [turn EXCEPT ![t] = "stopping"]
          /\ UNCHANGED <<voice, shown, asks, stray, timers, late>> /\ C!NotText
      BY <1>1 DEF C!Silence, C!NotToggle
    <2> QED
      BY <2>1, TurnPasses
  <1>2. CASE C!Stopped(t)
    <2>1. /\ turn[t] = "stopping" /\ UNCHANGED <<voice, shown, timers, late>> /\ C!NotText
          /\ \/ /\ turn' = [turn EXCEPT ![t] = "over"]
                /\ IF voice THEN C!Starts ELSE UNCHANGED <<asks, stray, held>>
             \/ /\ turn' = [turn EXCEPT ![t] = "posted"] /\ UNCHANGED <<asks, stray, held>>
      BY <1>2 DEF C!Stopped, C!NotToggle
    <2>2. InProgress(t) /\ shown' \in {shown, shown \cup {<<"ask", t>>, <<"reply", t>>}}
      BY <2>1 DEF InProgress
    <2>3. "posted" \in {"posted", "playing"}
      OBVIOUS
    <2>4. late' = late /\ voice' = voice /\ timers' = timers /\ C!NotText
      BY <2>1
    <2> QED
      BY <2>1, <2>2, <2>3, <2>4, TurnGoesOn
  <1>3. CASE C!Answers(t)
    <2>1. /\ turn[t] = "posted" /\ UNCHANGED <<voice, timers, late>> /\ C!NotText
          /\ shown' = shown \cup {<<"ask", t>>, <<"reply", t>>}
          /\ \/ /\ turn' = [turn EXCEPT ![t] = "over"]
                /\ IF voice THEN C!Starts ELSE UNCHANGED <<asks, stray, held>>
             \/ /\ turn' = [turn EXCEPT ![t] = "playing"] /\ UNCHANGED <<asks, stray, held>>
      BY <1>3 DEF C!Answers, C!NotToggle
    <2>2. InProgress(t) /\ shown' \in {shown, shown \cup {<<"ask", t>>, <<"reply", t>>}}
      BY <2>1 DEF InProgress
    <2>3. "playing" \in {"posted", "playing"}
      OBVIOUS
    <2>4. late' = late /\ voice' = voice /\ timers' = timers /\ C!NotText
      BY <2>1
    <2> QED
      BY <2>1, <2>2, <2>3, <2>4, TurnGoesOn
  <1>4. CASE C!Played(t)
    <2>1. /\ turn[t] = "playing" /\ UNCHANGED <<voice, shown, timers, late>> /\ C!NotText
          /\ turn' = [turn EXCEPT ![t] = "over"]
          /\ IF voice THEN C!Starts ELSE UNCHANGED <<asks, stray, held>>
      BY <1>4 DEF C!Played, C!NotToggle
    <2>2. InProgress(t) /\ shown' \in {shown, shown \cup {<<"ask", t>>, <<"reply", t>>}}
      BY <2>1 DEF InProgress
    <2>3. "playing" \in {"posted", "playing"}
      OBVIOUS
    <2>4. late' = late /\ voice' = voice /\ timers' = timers /\ C!NotText
      BY <2>1
    <2> QED
      BY <2>1, <2>2, <2>3, <2>4, TurnGoesOn
  <1>5. CASE C!Refused(t) \/ C!Broken(t)
    <2>1. /\ InProgress(t) /\ UNCHANGED <<voice, shown, asks, stray, held, late>> /\ C!NotText
          /\ turn' = [turn EXCEPT ![t] = "over"] /\ timers' = C!Retry(t)
      BY <1>5 DEF C!Refused, C!Broken, C!NotToggle, InProgress
    <2> QED
      BY <2>1, TurnPasses
  <1> QED
    BY <1>1, <1>2, <1>3, <1>4, <1>5 DEF C!TurnEnds

LEMMA TimerKeeps == ChatInv /\ C!Timer => ChatInv'
  <1> SUFFICES ASSUME ChatInv, C!Timer PROVE ChatInv'
    OBVIOUS
  <1>1. /\ timers > 0 /\ timers' = timers - 1 /\ C!Starts
        /\ UNCHANGED <<voice, shown, turn, late>> /\ C!NotText
    BY DEF C!Timer, C!NotToggle
  <1>2. ~raced /\ ~late' => \A r \in Typed : ~InFlight(r)
    <2> SUFFICES ASSUME ~raced, ~late, \E r \in Typed : InFlight(r) PROVE FALSE
      BY <1>1
    <2>1. timers = 0
      BY NothingToRecord
    <2> QED
      BY <1>1, <2>1
  <1>3. ChatShape' /\ Asked' /\ C!ResetIsThorough'
    <2>1. /\ DOMAIN turn' = Turns /\ shown' = shown
          /\ voice' \in BOOLEAN /\ late' \in BOOLEAN /\ (late => late')
      BY <1>1 DEF ChatInv, ChatShape
    <2> QED
      BY <1>1, <1>2, <2>1, TypedAside
  <1>4. OneAtATime'
    <2> SUFFICES ASSUME ~late' PROVE OneAtATime'
      BY DEF OneAtATime
    <2>1. ~late /\ stray = 0 /\ asks = 0 /\ timers = 1 /\ held # "run" /\ voice
          /\ \A t \in Turns : ~InProgress(t)
      BY <1>1 DEF ChatInv, OneAtATime
    <2>2. stray' = 0 /\ ((held' = "run" /\ asks' = 0) \/ (held' # "run" /\ asks' = 1))
      <3>1. stray' = stray /\ ((held' = "run" /\ asks' = asks) \/ (held' = held /\ asks' = asks + 1))
        BY <1>1, <2>1, StartsOne
      <3> QED
        BY <2>1, <3>1
    <2>3. timers' = 0 /\ \A t \in Turns : ~InProgress(t)'
      BY <1>1, <2>1 DEF InProgress
    <2> QED
      BY <1>1, <2>1, <2>2, <2>3 DEF OneAtATime
  <1> QED
    BY <1>3, <1>4 DEF ChatInv

(* The conversation of before arrives, or is cleared.                        *)
LEMMA PageChatKeeps ==
    ASSUME ChatInv, C!HistoryArrives \/ C!NewChat \/ C!ResetEnds PROVE ChatInv'
  <1>1. CASE C!HistoryArrives
    <2>1. /\ shown' = C!WithHistory({"ask", "reply"} \X session)
          /\ UNCHANGED <<who, status, voice, resetting, C!sound, C!server, resets, raced, kept>>
      BY <1>1 DEF C!HistoryArrives
    <2>2. OneAtATime'
      BY <2>1, VoiceAside DEF ChatInv
    <2>3. UNCHANGED <<text, session, since, turn, late>>
      BY <2>1 DEF C!sound, C!server
    <2>4. \A r \in Typed : <<"ask", r>> \in shown' =>
             \/ <<"ask", r>> \in shown /\ (<<"reply", r>> \in shown => <<"reply", r>> \in shown')
             \/ <<"reply", r>> \in shown'
      BY <2>1 DEF C!WithHistory
    <2>5. Asked'
      BY <2>1, <2>3, <2>4 DEF ChatInv, Asked, InFlight
    <2>6. C!ResetIsThorough' /\ ChatShape'
      BY <2>1, <2>3 DEF ChatInv, ChatShape, C!ResetIsThorough, C!ResetKey, C!ChatKey, C!Claimed
    <2> QED
      BY <2>2, <2>5, <2>6 DEF ChatInv
  <1>2. CASE C!NewChat
    <2>1. /\ ~C!Busy /\ resetting' = TRUE /\ since' = {} /\ resets' = resets + 1
          /\ UNCHANGED <<who, status, voice, shown, C!sound, text, session, raced, kept>>
      BY <1>2 DEF C!NewChat
    <2>2. OneAtATime'
      BY <2>1, VoiceAside DEF ChatInv
    <2>3. UNCHANGED <<turn, late>>
      BY <2>1 DEF C!sound
    <2>4. ~raced /\ ~late => \A r \in Typed : ~InFlight(r)
      BY <2>1 DEF ChatInv, Asked, C!Busy
    <2>5. Asked'
      BY <2>1, <2>3, <2>4 DEF ChatInv, Asked, InFlight
    <2>6. C!ResetIsThorough' /\ ChatShape'
      BY <2>1, <2>3 DEF ChatInv, ChatShape, C!ResetIsThorough
    <2> QED
      BY <2>2, <2>5, <2>6 DEF ChatInv
  <1>3. CASE C!ResetEnds
    <2>1. /\ resetting' = FALSE /\ shown' = {} /\ status' = "idle"
          /\ UNCHANGED <<who, voice, C!sound, text, since, resets>>
          /\ \/ session' = C!SessionAfterReset /\ kept' = kept
             \/ kept' = TRUE /\ session' = session
      BY <1>3 DEF C!ResetEnds
    <2>2. OneAtATime'
      BY <2>1, VoiceAside DEF ChatInv
    <2>3. UNCHANGED <<turn, late>>
      BY <2>1 DEF C!sound
    <2>4. raced' = (raced \/ status # "idle" \/ history = "asked")
      BY <1>3 DEF C!ResetEnds
    <2>5. Asked'
      <3> SUFFICES ASSUME ~raced', ~late' PROVE \A r \in Typed : ~InFlight(r)'
        BY <2>1 DEF Asked
      <3>1. ~raced /\ ~late /\ status = "idle"
        BY <2>3, <2>4
      <3>2. \A r \in Typed : ~InFlight(r)
        BY <3>1 DEF ChatInv, Asked
      <3> QED
        BY <2>1, <3>2 DEF InFlight
    <2>6. C!ResetIsThorough'
      <3>1. C!ResetKey' = C!ResetKey /\ C!ChatKey' = C!ChatKey
        BY <2>1 DEF C!ResetKey, C!ChatKey, C!Claimed
      <3>2. C!ResetKey = C!ChatKey /\ ~kept' => session' = {}
        BY <2>1 DEF C!SessionAfterReset
      <3> QED
        BY <3>1, <3>2 DEF C!ResetIsThorough
    <2>7. ChatShape'
      BY <2>1, <2>3, <2>4 DEF ChatInv, ChatShape
    <2> QED
      BY <2>2, <2>5, <2>6, <2>7 DEF ChatInv
  <1> QED
    BY <1>1, <1>2, <1>3

LEMMA TypedKeeps ==
    ASSUME ChatInv, NEW r \in Typed, C!Send(r) \/ C!Serve(r) \/ C!Show(r) PROVE ChatInv'
  <1> DEFINE Keys == C!ResetKey = C!ChatKey
  <1>1. CASE C!Send(r)
    <2>1. /\ text[r] = "new" /\ status = "idle" /\ ~voice /\ status' = "sending"
          /\ shown' = shown \cup {<<"ask", r>>}
          /\ text' = [text EXCEPT ![r] = "posted"] /\ since' = since \cup {r}
          /\ UNCHANGED <<who, voice, resetting, C!sound, session, resets, kept>>
      BY <1>1 DEF C!Send
    <2>2. OneAtATime'
      BY <2>1, VoiceAside DEF ChatInv
    <2>3. UNCHANGED <<turn, late>>
      BY <2>1 DEF C!sound
    <2>4. raced' = (raced \/ resetting)
      BY <1>1 DEF C!Send
    <2>5. Asked'
      <3> SUFFICES ASSUME ~raced', ~late' PROVE Asked'
        BY DEF Asked
      <3>1. ~raced /\ ~late /\ ~resetting
        BY <2>3, <2>4
      <3>2. \A q \in Typed : ~InFlight(q)
        BY <2>1, <3>1 DEF ChatInv, Asked
      <3>3. \A q \in Typed : q # r => ~InFlight(q)'
        BY <2>1, <3>2 DEF InFlight, ChatInv, ChatShape
      <3>4. InFlight(r)'
        BY <2>1 DEF InFlight, ChatInv, ChatShape
      <3>5. \A q \in Typed : <<"ask", q>> \in shown' /\ q # r => <<"reply", q>> \in shown'
        <4>1. \A q \in Typed : <<"ask", q>> \in shown => <<"reply", q>> \in shown
          BY <3>1, <3>2 DEF ChatInv, Asked
        <4> QED
          BY <2>1, <4>1
      <3> QED
        BY <2>1, <3>1, <3>3, <3>4, <3>5 DEF Asked
    <2>6. C!ResetIsThorough'
      <3>1. Keys' = Keys
        BY <2>1 DEF C!ResetKey, C!ChatKey, C!Claimed
      <3>2. ~raced' => ~raced
        BY <2>4
      <3> QED
        BY <2>1, <2>3, <3>1, <3>2 DEF ChatInv, C!ResetIsThorough
    <2>7. ChatShape'
      BY <2>1, <2>3, <2>4 DEF ChatInv, ChatShape
    <2> QED
      BY <2>2, <2>5, <2>6, <2>7 DEF ChatInv
  <1>2. CASE C!Serve(r)
    <2>1. /\ text[r] = "posted" /\ UNCHANGED <<who, C!page, C!sound, since, resets, raced, kept>>
          /\ session' \in {session, {}, session \cup {r}}
          /\ \/ text' = [text EXCEPT ![r] = "answered"]
             \/ text' = [text EXCEPT ![r] = "failed"]
      BY <1>2 DEF C!Serve
    <2>2. UNCHANGED <<status, voice, shown, resetting, turn, late>>
      BY <2>1 DEF C!page, C!sound
    <2>3. OneAtATime'
      BY <2>1, <2>2, VoiceAside DEF ChatInv
    <2>4. \A q \in Typed : InFlight(q)' <=> InFlight(q)
      BY <2>1 DEF ChatInv, ChatShape, InFlight
    <2>5. Asked'
      BY <2>1, <2>2, <2>4 DEF ChatInv, Asked
    <2>6. C!ResetIsThorough'
      <3>1. Keys' = Keys
        BY <2>1 DEF C!ResetKey, C!ChatKey, C!Claimed
      <3>2. ~raced /\ ~late => r \in since
        BY <2>1 DEF ChatInv, Asked, InFlight
      <3> QED
        BY <2>1, <2>2, <3>1, <3>2 DEF ChatInv, C!ResetIsThorough
    <2>7. ChatShape'
      BY <2>1, <2>2 DEF ChatInv, ChatShape
    <2> QED
      BY <2>3, <2>5, <2>6, <2>7 DEF ChatInv
  <1>3. CASE C!Show(r)
    <2>1. /\ InFlight(r) /\ text' = [text EXCEPT ![r] = "over"]
          /\ shown' = shown \cup {<<"reply", r>>}
          /\ UNCHANGED <<who, voice, resetting, C!sound, session, since, resets, raced, kept>>
      BY <1>3 DEF C!Show, InFlight
    <2>2. OneAtATime'
      BY <2>1, VoiceAside DEF ChatInv
    <2>3. UNCHANGED <<turn, late>>
      BY <2>1 DEF C!sound
    <2>4. Asked'
      <3> SUFFICES ASSUME ~raced, ~late PROVE Asked'
        BY <2>1, <2>3 DEF Asked
      <3>1. \A q \in Typed : ~InFlight(q)'
        <4>1. \A q \in Typed : q # r => ~InFlight(q)
          BY <2>1 DEF ChatInv, Asked
        <4> QED
          BY <2>1, <4>1 DEF InFlight, ChatInv, ChatShape
      <3>2. \A q \in Typed : <<"ask", q>> \in shown' => <<"reply", q>> \in shown'
        <4>1. \A q \in Typed : <<"ask", q>> \in shown => q = r \/ <<"reply", q>> \in shown
          BY <2>1 DEF ChatInv, Asked
        <4> QED
          BY <2>1, <4>1
      <3> QED
        BY <3>1, <3>2 DEF Asked
    <2>5. C!ResetIsThorough'
      <3>1. Keys' = Keys
        BY <2>1 DEF C!ResetKey, C!ChatKey, C!Claimed
      <3> QED
        BY <2>1, <2>3, <3>1 DEF ChatInv, C!ResetIsThorough
    <2>6. ChatShape'
      BY <2>1, <2>3 DEF ChatInv, ChatShape
    <2> QED
      BY <2>2, <2>4, <2>5, <2>6 DEF ChatInv
  <1> QED
    BY <1>1, <1>2, <1>3

LEMMA ChatKeeps == ChatInv /\ (C!Next \/ UNCHANGED chatVars) => ChatInv'
  <1> SUFFICES ASSUME ChatInv, C!Next \/ UNCHANGED chatVars PROVE ChatInv'
    OBVIOUS
  <1>1. CASE UNCHANGED chatVars
    <2>1. OneAtATime' /\ Asked' /\ ChatShape'
      BY <1>1 DEF chatVars, ChatInv, ChatShape, OneAtATime, Asked, InProgress, InFlight
    <2>2. C!ResetIsThorough'
      BY <1>1 DEF chatVars, ChatInv, C!ResetIsThorough, C!ResetKey, C!ChatKey, C!Claimed
    <2> QED
      BY <2>1, <2>2 DEF ChatInv
  <1>2. CASE C!Next
    BY <1>2, PageChatKeeps, MicKeeps, ToggleOnKeeps, ToggleOffKeeps, TimerKeeps, TypedKeeps,
       SpeechKeeps DEF C!Next
  <1> QED
    BY <1>1, <1>2

LEMMA ChatIsTrue == ChatInv => C!EachHasItsAnswer /\ C!ResetIsThorough /\ C!MicIsVoice
  BY DEF ChatInv, OneAtATime, Asked, C!EachHasItsAnswer, C!MicIsVoice

(* The browser tool.  What waits for the extension is in its queue, once; a  *)
(* loop runs what was asked for.  Where no two loops poll, what was run and  *)
(* still waits is in the hands of the loop that ran it.                      *)
Queued(c) == \E i \in 1..Len(actions) : actions[i] = c

QueueInv ==
    /\ actions \in Seq(Calls)
    /\ \A i, j \in 1..Len(actions) : actions[i] = actions[j] => i = j
    /\ \A c \in Calls : Queued(c) <=> call[c] = "queued"

ALoop == [on : BOOLEAN, at : {"idle", "polling", "running", "ran"}, act : Calls \cup {None}]

LoopShape ==
    /\ DOMAIN call = Calls /\ ran \in [Calls -> Nat] /\ crowd \in BOOLEAN
    /\ loop \in [Loops -> ALoop]
    /\ \A c \in Calls : (call[c] = "new" => ran[c] = 0) /\ (call[c] = "answered" => ran[c] > 0)
    /\ \A l \in Loops : loop[l].at \in {"running", "ran"} =>
                            loop[l].act \in Calls /\ call[loop[l].act] # "new"
    /\ \A l \in Loops : loop[l].at = "ran" => ran[loop[l].act] > 0

OneLoop == ~crowd =>
    /\ \A l, m \in Loops : T!Running(l) /\ T!Running(m) => l = m
    /\ \A c \in Calls : ran[c] <= 1
    /\ \A c \in Calls : call[c] = "queued" /\ ran[c] > 0 =>
                            \E l \in Loops : loop[l].at = "ran" /\ loop[l].act = c
    /\ \A l \in Loops : loop[l].at = "running" => ran[loop[l].act] = 0

BridgeInv == QueueInv /\ LoopShape /\ OneLoop

(* A call that launches a browser has one of its own, one that acts on one   *)
(* has found it.  Until two are launched at once, or one is closed while     *)
(* another is shared, the one that is up or on its way is the shared one.    *)
LocalShape ==
    /\ DOMAIN call = Calls /\ crowd \in BOOLEAN
    /\ shared \in Clients \cup {None} /\ owner \in [Calls -> Clients \cup {None}]
    /\ client \in [Clients -> {"none", "launching", "half", "up", "crashed"}]
    /\ \A c \in Calls : call[c] \in {"launching", "acting"} => owner[c] \in Clients
    /\ \A c \in Calls : call[c] = "launching" => client[owner[c]] = "launching"
    /\ \A c, d \in Calls : call[c] = "launching" /\ call[d] = "launching" /\ owner[c] = owner[d]
                              => c = d
    /\ \A k \in Clients : client[k] = "launching" =>
                              \E c \in Calls : call[c] = "launching" /\ owner[c] = k

OneShared == ~crowd =>
    /\ \A k \in Clients : client[k] \in {"launching", "up", "half"} => k = shared
    /\ \A c \in Calls : call[c] = "acting" => client[owner[c]] # "launching"

LocalInv == LocalShape /\ OneShared

ToolInv == BridgeInv /\ LocalInv

(* What settles leaves the queue, and the rest stays as it was.              *)
LEMMA QueueRemoves ==
    ASSUME QueueInv, NEW c \in Calls, Queued(c), NEW q, q = T!QueueWithout(c)
    PROVE  /\ q \in Seq(Calls)
           /\ \A i, j \in 1..Len(q) : q[i] = q[j] => i = j
           /\ \A d \in Calls : (\E i \in 1..Len(q) : q[i] = d) <=> Queued(d) /\ d # c
  <1> DEFINE n == Len(actions)
             k == CHOOSE i \in DOMAIN actions : actions[i] = c
             a == SubSeq(actions, 1, k - 1)
             b == SubSeq(actions, k + 1, n)
  <1>1. n \in Nat /\ DOMAIN actions = 1..n /\ actions \in Seq(Calls)
    BY LenProperties DEF QueueInv
  <1>2. k \in 1..n /\ actions[k] = c
    BY <1>1 DEF Queued
  <1>3. q = a \o b
    BY DEF T!QueueWithout, T!RemoveAt
  <1> HIDE DEF k, n
  <1>4. \A i \in 1..n : actions[i] \in Calls
    BY <1>1, ElementOf DEF n
  <1>5. /\ a \in Seq(Calls) /\ Len(a) = k - 1
        /\ \A i \in 1..(k - 1) : a[i] = actions[i]
    <2>1. \A i \in 1..(k - 1) : actions[i] \in Calls
      BY <1>1, <1>2, <1>4
    <2>2. k - 1 \in Int /\ k - 1 >= 0 /\ (k - 1) - 1 + 1 = k - 1
      BY <1>1, <1>2
    <2>3. /\ a \in Seq(Calls)
          /\ Len(a) = IF 1 <= k - 1 THEN (k - 1) - 1 + 1 ELSE 0
          /\ \A i \in 1..((k - 1) - 1 + 1) : a[i] = actions[1 + i - 1]
      BY <2>1, <2>2, SubSeqProperties
    <2> QED
      BY <2>2, <2>3
  <1>6. /\ b \in Seq(Calls) /\ Len(b) = n - k
        /\ \A i \in 1..(n - k) : b[i] = actions[k + i]
    <2>1. \A i \in (k + 1)..n : actions[i] \in Calls
      BY <1>1, <1>2, <1>4
    <2>2. k + 1 \in Int /\ n \in Int /\ n - k >= 0 /\ n - (k + 1) + 1 = n - k
      BY <1>1, <1>2
    <2>3. /\ b \in Seq(Calls)
          /\ Len(b) = IF k + 1 <= n THEN n - (k + 1) + 1 ELSE 0
          /\ \A i \in 1..(n - (k + 1) + 1) : b[i] = actions[(k + 1) + i - 1]
      BY <2>1, <2>2, SubSeqProperties
    <2> QED
      BY <1>1, <1>2, <2>2, <2>3
  <1> HIDE DEF a, b
  <1>7. /\ q \in Seq(Calls) /\ Len(q) = n - 1
        /\ \A i \in 1..(n - 1) : q[i] = IF i < k THEN actions[i] ELSE actions[i + 1]
    <2>1. /\ q \in Seq(Calls) /\ Len(q) = Len(a) + Len(b)
          /\ \A i \in 1..(Len(a) + Len(b)) : q[i] = IF i <= Len(a) THEN a[i] ELSE b[i - Len(a)]
      BY <1>3, <1>5, <1>6, ConcatProperties
    <2>2. Len(a) + Len(b) = n - 1
      BY <1>1, <1>2, <1>5, <1>6
    <2>3. ASSUME NEW i \in 1..(n - 1)
          PROVE  q[i] = IF i < k THEN actions[i] ELSE actions[i + 1]
      <3>1. CASE i < k
        BY <3>1, <1>1, <1>2, <1>5, <2>1, <2>2
      <3>2. CASE ~(i < k)
        <4>1. i - (k - 1) \in 1..(n - k) /\ k + (i - (k - 1)) = i + 1 /\ ~(i <= k - 1)
          BY <3>2, <1>1, <1>2
        <4>2. q[i] = b[i - (k - 1)]
          BY <4>1, <2>1, <2>2, <1>5
        <4> QED
          BY <3>2, <4>1, <4>2, <1>6
      <3> QED
        BY <3>1, <3>2
    <2> QED
      BY <2>1, <2>2, <2>3
  <1>8. \A i, j \in 1..n : actions[i] = actions[j] => i = j
    BY DEF QueueInv, n
  <1>9. ASSUME NEW i \in 1..(n - 1), NEW j \in 1..(n - 1), q[i] = q[j] PROVE i = j
    <2>1. i \in 1..n /\ j \in 1..n /\ i + 1 \in 1..n /\ j + 1 \in 1..n
      BY <1>1
    <2> QED
      BY <2>1, <1>2, <1>7, <1>8, <1>9
  <1>10. ASSUME NEW d \in Calls
         PROVE  (\E i \in 1..(n - 1) : q[i] = d) <=> (\E i \in 1..n : actions[i] = d) /\ d # c
    <2>1. ASSUME NEW i \in 1..(n - 1), q[i] = d
          PROVE  (\E j \in 1..n : actions[j] = d) /\ d # c
      <3>1. i \in 1..n /\ i + 1 \in 1..n
        BY <1>1
      <3> QED
        BY <2>1, <3>1, <1>2, <1>7, <1>8
    <2>2. ASSUME NEW j \in 1..n, actions[j] = d, d # c
          PROVE  \E i \in 1..(n - 1) : q[i] = d
      <3>1. CASE j < k
        BY <2>2, <3>1, <1>1, <1>2, <1>7
      <3>2. CASE k < j
        <4>1. j - 1 \in 1..(n - 1) /\ ~(j - 1 < k) /\ (j - 1) + 1 = j
          BY <3>2, <1>1, <1>2
        <4> QED
          BY <2>2, <4>1, <1>7
      <3> QED
        BY <2>2, <3>1, <3>2, <1>1, <1>2
    <2> QED
      BY <2>1, <2>2
  <1> QED
    BY <1>7, <1>9, <1>10 DEF Queued, n

LEMMA QueueGrows ==
    ASSUME QueueInv, NEW c \in Calls, ~Queued(c), NEW q, q = Append(actions, c)
    PROVE  /\ q \in Seq(Calls)
           /\ \A i, j \in 1..Len(q) : q[i] = q[j] => i = j
           /\ \A d \in Calls : (\E i \in 1..Len(q) : q[i] = d) <=> Queued(d) \/ d = c
  <1> DEFINE n == Len(actions)
  <1>1. n \in Nat /\ actions \in Seq(Calls)
    BY LenProperties DEF QueueInv
  <1>2. /\ q \in Seq(Calls) /\ Len(q) = n + 1 /\ q[n + 1] = c
        /\ \A i \in 1..n : q[i] = actions[i]
    BY <1>1, AppendProperties
  <1>3. /\ \A i, j \in 1..n : actions[i] = actions[j] => i = j
        /\ \A i \in 1..n : actions[i] # c
    BY DEF QueueInv, Queued
  <1> HIDE DEF n
  <1>4. n + 1 \in 1..(n + 1) /\ \A i \in 1..(n + 1) : i = n + 1 \/ i \in 1..n
    BY <1>1
  <1>5. 1..n \subseteq 1..(n + 1)
    BY <1>1
  <1>6. \A i, j \in 1..(n + 1) : q[i] = q[j] => i = j
    BY <1>2, <1>3, <1>4
  <1>7. \A d \in Calls : (\E i \in 1..(n + 1) : q[i] = d) <=>
                             (\E i \in 1..n : actions[i] = d) \/ d = c
    BY <1>2, <1>4, <1>5
  <1> QED
    BY <1>2, <1>6, <1>7 DEF Queued, n

(* What no loop does leaves the loops in order. *)
LEMMA LoopsAside ==
    ASSUME LoopShape, OneLoop, UNCHANGED <<loop, ran>>, crowd => crowd', crowd' \in BOOLEAN,
           DOMAIN call' = Calls,
           \A c \in Calls : /\ call'[c] = "new" => call[c] = "new"
                            /\ call'[c] = "answered" => call[c] = "answered"
                            /\ call'[c] = "queued" => call[c] \in {"new", "queued"}
    PROVE  LoopShape' /\ OneLoop'
  <1>1. LoopShape'
    BY DEF LoopShape
  <1>2. OneLoop'
    <2> SUFFICES ASSUME ~crowd' PROVE OneLoop'
      BY DEF OneLoop
    <2>1. \A l, m \in Loops : T!Running(l)' /\ T!Running(m)' => l = m
      BY DEF OneLoop, T!Running
    <2>2. \A c \in Calls : ran'[c] <= 1
      BY DEF OneLoop
    <2>3. ASSUME NEW c \in Calls, call'[c] = "queued", ran'[c] > 0
          PROVE  \E l \in Loops : loop'[l].at = "ran" /\ loop'[l].act = c
      <3>1. call[c] = "queued" /\ ran[c] > 0
        BY <2>3 DEF LoopShape
      <3> QED
        BY <3>1 DEF OneLoop
    <2>4. \A l \in Loops : loop'[l].at = "running" => ran'[loop'[l].act] = 0
      BY DEF OneLoop
    <2> QED
      BY <2>1, <2>2, <2>3, <2>4 DEF OneLoop
  <1> QED
    BY <1>1, <1>2

(* What is settled is no longer in the queue. *)
LEMMA QueueSettles ==
    ASSUME QueueInv, DOMAIN call = Calls, NEW c \in Calls, call[c] = "queued",
           NEW v, v # "queued",
           call' = [call EXCEPT ![c] = v], actions' = T!QueueWithout(c)
    PROVE  QueueInv'
  <1>1. Queued(c)
    BY DEF QueueInv
  <1>2. /\ actions' \in Seq(Calls)
        /\ \A i, j \in 1..Len(actions') : actions'[i] = actions'[j] => i = j
        /\ \A d \in Calls : (\E i \in 1..Len(actions') : actions'[i] = d) <=> Queued(d) /\ d # c
    BY <1>1, QueueRemoves
  <1>3. \A d \in Calls : Queued(d)' <=> call'[d] = "queued"
    BY <1>2 DEF QueueInv, Queued
  <1> QED
    BY <1>2, <1>3 DEF QueueInv

LEMMA QueueAside ==
    ASSUME QueueInv, actions' = actions,
           \A c \in Calls : call'[c] = "queued" <=> call[c] = "queued"
    PROVE  QueueInv'
  BY DEF QueueInv, Queued

LEMMA LoopBecomes ==
    ASSUME loop \in [Loops -> ALoop], NEW l \in Loops,
           NEW a \in {"idle", "polling", "running", "ran"}, NEW c \in Calls \cup {None},
           loop' = [loop EXCEPT ![l].at = a, ![l].act = c]
    PROVE  loop' \in [Loops -> ALoop]
  <1> DEFINE f == [loop EXCEPT ![l].at = a]
  <1>1. f \in [Loops -> ALoop]
    BY DEF ALoop
  <1>2. loop' = [f EXCEPT ![l].act = c]
    OBVIOUS
  <1> HIDE DEF f
  <1> QED
    BY <1>1, <1>2 DEF ALoop

LEMMA CallsKeep ==
    ASSUME BridgeInv, T!Disconnect \/ \E c \in Calls : T!ToExtension(c) \/ T!Timeout(c)
    PROVE  BridgeInv'
  <1> USE DEF BridgeInv
  <1>0. DOMAIN call = Calls /\ crowd \in BOOLEAN
    BY DEF LoopShape
  <1>1. CASE T!Disconnect
    <2>1. /\ actions' = <<>> /\ UNCHANGED <<loop, ran, crowd>>
          /\ call' = [c \in Calls |-> IF call[c] = "queued" THEN "gone" ELSE call[c]]
      BY <1>1 DEF T!Disconnect
    <2>2. QueueInv'
      <3>1. actions' \in Seq(Calls) /\ 1..Len(actions') = {}
        BY <2>1
      <3>2. \A c \in Calls : call'[c] # "queued"
        BY <2>1
      <3> QED
        BY <3>1, <3>2 DEF QueueInv, Queued
    <2>3. LoopShape' /\ OneLoop'
      BY <1>0, <2>1, LoopsAside
    <2> QED
      BY <2>2, <2>3
  <1>2. ASSUME NEW c \in Calls, T!ToExtension(c) PROVE BridgeInv'
    <2>1. /\ call[c] = "new" /\ call' = [call EXCEPT ![c] = "queued"]
          /\ actions' = Append(actions, c) /\ UNCHANGED <<loop, ran, crowd>>
      BY <1>2 DEF T!ToExtension, T!Settle
    <2>2. QueueInv'
      <3>1. ~Queued(c)
        BY <2>1 DEF QueueInv
      <3>2. /\ actions' \in Seq(Calls)
            /\ \A i, j \in 1..Len(actions') : actions'[i] = actions'[j] => i = j
            /\ \A d \in Calls : (\E i \in 1..Len(actions') : actions'[i] = d) <=> Queued(d) \/ d = c
        <4>1. /\ Append(actions, c) \in Seq(Calls)
              /\ \A i, j \in 1..Len(Append(actions, c)) :
                    Append(actions, c)[i] = Append(actions, c)[j] => i = j
              /\ \A d \in Calls : (\E i \in 1..Len(Append(actions, c)) : Append(actions, c)[i] = d)
                                      <=> Queued(d) \/ d = c
          BY <3>1, QueueGrows
        <4> QED
          BY <2>1, <4>1
      <3>3. \A d \in Calls : Queued(d)' <=> call'[d] = "queued"
        BY <1>0, <2>1, <3>2 DEF QueueInv, Queued
      <3> QED
        BY <3>2, <3>3 DEF QueueInv
    <2>3. LoopShape' /\ OneLoop'
      <3>1. \A d \in Calls : call'[d] = call[d] \/ (d = c /\ call'[d] = "queued" /\ call[d] = "new")
        BY <1>0, <2>1
      <3> QED
        BY <1>0, <2>1, <3>1, LoopsAside
    <2> QED
      BY <2>2, <2>3
  <1>3. ASSUME NEW c \in Calls, T!Timeout(c) PROVE BridgeInv'
    <2>1. /\ call[c] = "queued" /\ call' = [call EXCEPT ![c] = "timeout"]
          /\ actions' = T!QueueWithout(c) /\ UNCHANGED <<loop, ran, crowd>>
      BY <1>3 DEF T!Timeout, T!Due, T!Settle
    <2>2. QueueInv'
      BY <1>0, <2>1, QueueSettles
    <2>3. LoopShape' /\ OneLoop'
      <3>1. \A d \in Calls : call'[d] = call[d] \/ (d = c /\ call'[d] = "timeout")
        BY <1>0, <2>1
      <3> QED
        BY <1>0, <2>1, <3>1, LoopsAside
    <2> QED
      BY <2>2, <2>3
  <1> QED
    BY <1>1, <1>2, <1>3

LEMMA LoopsKeep ==
    ASSUME BridgeInv, NEW l \in Loops,
           T!Open(l) \/ T!Close(l) \/ T!Connect(l) \/ T!Poll(l) \/ T!Run(l)
    PROVE  BridgeInv'
  <1> USE DEF BridgeInv
  <1>0. /\ DOMAIN call = Calls /\ DOMAIN loop = Loops /\ crowd \in BOOLEAN
        /\ DOMAIN loop[l] = {"on", "at", "act"} /\ None \notin Calls
    BY ChannelsAssumption DEF LoopShape, ALoop
  (* Where a loop neither runs anything nor begins to, only that it goes on  *)
  (* alone matters.                                                          *)
  <1>1. ASSUME UNCHANGED <<call, actions, ran>>, crowd => crowd', crowd' \in BOOLEAN,
               loop' \in [Loops -> ALoop],
               \A m \in Loops : /\ loop'[m].act = loop[m].act
                                /\ loop'[m].at = loop[m].at
                                   \/ {loop'[m].at, loop[m].at} \subseteq {"idle", "polling"},
               ~crowd' => \A m, p \in Loops : T!Running(m)' /\ T!Running(p)' => m = p
        PROVE  BridgeInv'
    <2>1. QueueInv'
      BY <1>1, QueueAside
    <2>2. \A m \in Loops : /\ loop'[m].at = "ran" <=> loop[m].at = "ran"
                           /\ loop'[m].at = "running" <=> loop[m].at = "running"
      BY <1>1
    <2>3. LoopShape'
      BY <1>1, <2>2 DEF LoopShape
    <2>4. OneLoop'
      BY <1>1, <2>2 DEF OneLoop
    <2> QED
      BY <2>1, <2>3, <2>4
  <1>2. CASE T!Open(l)
    <2>1. /\ ~T!Running(l) /\ loop' = [loop EXCEPT ![l].on = TRUE]
          /\ UNCHANGED <<call, actions, ran>>
      BY <1>2 DEF T!Open
    <2>2. crowd' = (crowd \/ \E m \in Loops \ {l} : T!Running(m))
      BY <1>2 DEF T!Open
    <2>3. /\ loop'[l].at = loop[l].at /\ loop'[l].act = loop[l].act
          /\ \A m \in Loops \ {l} : loop'[m] = loop[m]
      BY <1>0, <2>1
    <2>4. loop' \in [Loops -> ALoop]
      BY <2>1 DEF LoopShape, ALoop
    <2>5. ~crowd' => \A m, p \in Loops : T!Running(m)' /\ T!Running(p)' => m = p
      <3>1. ~crowd' => \A m \in Loops \ {l} : ~T!Running(m)
        BY <2>2
      <3>2. \A m \in Loops \ {l} : T!Running(m)' => T!Running(m)
        BY <2>3 DEF T!Running
      <3> QED
        BY <3>1, <3>2
    <2> QED
      BY <1>0, <1>1, <2>1, <2>2, <2>3, <2>4, <2>5
  <1>3. CASE T!Close(l)
    <2>1. /\ loop' = [loop EXCEPT ![l].on = FALSE] /\ UNCHANGED <<call, actions, ran, crowd>>
      BY <1>3 DEF T!Close
    <2>2. /\ loop'[l].at = loop[l].at /\ loop'[l].act = loop[l].act /\ loop'[l].on = FALSE
          /\ \A m \in Loops \ {l} : loop'[m] = loop[m]
      BY <1>0, <2>1
    <2>3. loop' \in [Loops -> ALoop]
      BY <2>1 DEF LoopShape, ALoop
    <2>4. ~crowd' => \A m, p \in Loops : T!Running(m)' /\ T!Running(p)' => m = p
      <3>1. \A m \in Loops : T!Running(m)' => T!Running(m)
        BY <2>2 DEF T!Running
      <3> QED
        BY <2>1, <3>1 DEF OneLoop
    <2> QED
      BY <1>0, <1>1, <2>1, <2>2, <2>3, <2>4
  <1>4. CASE T!Connect(l)
    <2>1. /\ loop[l].on /\ loop[l].at = "idle" /\ loop' = [loop EXCEPT ![l].at = "polling"]
          /\ UNCHANGED <<call, actions, ran, crowd>>
      BY <1>4 DEF T!Connect
    <2>2. /\ loop'[l].at = "polling" /\ loop'[l].act = loop[l].act /\ loop'[l].on = loop[l].on
          /\ \A m \in Loops \ {l} : loop'[m] = loop[m]
      BY <1>0, <2>1
    <2>3. loop' \in [Loops -> ALoop]
      BY <2>1 DEF LoopShape, ALoop
    <2>4. ~crowd' => \A m, p \in Loops : T!Running(m)' /\ T!Running(p)' => m = p
      <3>1. \A m \in Loops : T!Running(m)' => T!Running(m)
        BY <2>1, <2>2 DEF T!Running
      <3> QED
        BY <2>1, <3>1 DEF OneLoop
    <2>5. \A m \in Loops : /\ loop'[m].act = loop[m].act
                           /\ loop'[m].at = loop[m].at
                              \/ {loop'[m].at, loop[m].at} \subseteq {"idle", "polling"}
      BY <2>1, <2>2
    <2> QED
      BY <1>0, <1>1, <2>1, <2>3, <2>4, <2>5
  <1>5. CASE T!Poll(l)
    <2>1. loop[l].at = "polling" /\ UNCHANGED <<call, actions, ran, crowd>>
      BY <1>5 DEF T!Poll
    <2>2. QueueInv'
      BY <2>1, QueueAside
    <2>3. CASE actions = <<>>
      <3>1. loop' = [loop EXCEPT ![l].at = "idle", ![l].act = None]
        BY <1>5, <2>3 DEF T!Poll
      <3>2. /\ loop'[l].at = "idle" /\ loop'[l].act = None /\ loop'[l].on = loop[l].on
            /\ \A m \in Loops \ {l} : loop'[m] = loop[m]
        BY <1>0, <3>1
      <3>3. loop' \in [Loops -> ALoop]
        BY <3>1, LoopBecomes DEF LoopShape
      <3>4. LoopShape'
        BY <2>1, <3>2, <3>3 DEF LoopShape
      <3>5. \A m \in Loops : T!Running(m)' => T!Running(m)
        BY <2>1, <3>2 DEF T!Running
      <3>6. OneLoop'
        BY <2>1, <3>2, <3>5 DEF OneLoop
      <3> QED
        BY <2>2, <3>4, <3>6
    <2>4. CASE actions # <<>>
      <3>1. loop' = [loop EXCEPT ![l].at = "running", ![l].act = Head(actions)]
        BY <1>5, <2>4 DEF T!Poll
      <3> DEFINE c == Head(actions)
      <3>2. c \in Calls /\ call[c] = "queued"
        <4>1. actions \in Seq(Calls)
          BY DEF QueueInv
        <4>2. 1 \in 1..Len(actions) /\ c = actions[1]
          BY <2>4, <4>1, NotEmpty
        <4>3. c \in Calls
          BY <2>4, <4>1, HeadTailProperties
        <4> QED
          BY <4>2, <4>3 DEF QueueInv, Queued
      <3> HIDE DEF c
      <3>3. /\ loop'[l].at = "running" /\ loop'[l].act = c /\ loop'[l].on = loop[l].on
            /\ \A m \in Loops \ {l} : loop'[m] = loop[m]
        BY <1>0, <3>1 DEF c
      <3>4. loop' \in [Loops -> ALoop]
        BY <3>1, <3>2, LoopBecomes DEF LoopShape, c
      <3>5. LoopShape'
        BY <2>1, <3>2, <3>3, <3>4 DEF LoopShape
      <3>6. \A m \in Loops : T!Running(m)' => T!Running(m)
        BY <2>1, <3>3 DEF T!Running
      <3>7. OneLoop'
        <4> SUFFICES ASSUME ~crowd PROVE OneLoop'
          BY <2>1 DEF OneLoop
        <4>1. \A m \in Loops : T!Running(m) => m = l
          BY <2>1 DEF OneLoop, T!Running
        <4>2. \A m \in Loops : loop[m].at # "ran"
          BY <2>1, <4>1 DEF T!Running
        <4>3. \A d \in Calls : call[d] = "queued" => ~(ran[d] > 0)
          BY <4>2 DEF OneLoop
        <4>4. ran[c] = 0
          BY <3>2, <4>3 DEF LoopShape
        <4>5. \A m \in Loops : loop'[m].at = "running" => m = l
          BY <3>3, <4>1 DEF T!Running
        <4>6. \A d \in Calls : ran[d] <= 1
          BY DEF OneLoop
        <4> QED
          BY <2>1, <3>3, <3>6, <4>1, <4>3, <4>4, <4>5, <4>6 DEF OneLoop
      <3> QED
        BY <2>2, <3>5, <3>7
    <2> QED
      BY <2>3, <2>4
  <1>6. CASE T!Run(l)
    <2> DEFINE c == loop[l].act
    <2>1. /\ loop[l].at = "running" /\ loop' = [loop EXCEPT ![l].at = "ran"]
          /\ ran' = [ran EXCEPT ![c] = IF @ < 2 THEN @ + 1 ELSE @]
          /\ UNCHANGED <<call, actions, crowd>>
      BY <1>6 DEF T!Run
    <2>2. QueueInv'
      BY <2>1, QueueAside
    <2>3. c \in Calls /\ call[c] # "new" /\ ran[c] \in Nat
      BY <2>1 DEF LoopShape
    <2>4. /\ loop'[l].at = "ran" /\ loop'[l].act = c /\ loop'[l].on = loop[l].on
          /\ \A m \in Loops \ {l} : loop'[m] = loop[m]
      BY <1>0, <2>1
    <2>5. loop' \in [Loops -> ALoop]
      BY <2>1 DEF LoopShape, ALoop
    <2>6. ran' \in [Calls -> Nat] /\ ran'[c] > 0 /\ \A d \in Calls \ {c} : ran'[d] = ran[d]
      BY <2>1, <2>3 DEF LoopShape
    <2>7. \A d \in Calls : ran[d] > 0 => ran'[d] > 0
      BY <2>6
    <2>8. LoopShape'
      <3>1. \A d \in Calls : (call[d] = "new" => ran'[d] = 0) /\ (call[d] = "answered" => ran'[d] > 0)
        BY <2>3, <2>6, <2>7 DEF LoopShape
      <3>2. \A m \in Loops : loop'[m].at = "ran" => ran'[loop'[m].act] > 0
        <4>1. \A m \in Loops : loop[m].at = "ran" => loop[m].act \in Calls /\ ran[loop[m].act] > 0
          BY DEF LoopShape
        <4> QED
          BY <2>4, <2>6, <2>7, <4>1
      <3>3. \A m \in Loops : loop'[m].at \in {"running", "ran"} =>
                                 loop'[m].act \in Calls /\ call[loop'[m].act] # "new"
        BY <2>3, <2>4 DEF LoopShape
      <3> QED
        BY <1>0, <2>1, <2>5, <2>6, <3>1, <3>2, <3>3 DEF LoopShape
    <2>9. OneLoop'
      <3> SUFFICES ASSUME ~crowd PROVE OneLoop'
        BY <2>1 DEF OneLoop
      <3>1. \A m \in Loops : T!Running(m) => m = l
        BY <2>1 DEF OneLoop, T!Running
      <3>2. ran[c] = 0 /\ ran'[c] = 1
        BY <2>1, <2>3 DEF OneLoop, LoopShape
      <3>3. \A d \in Calls : ran[d] <= 1
        BY DEF OneLoop
      <3>4. \A d \in Calls : ran'[d] <= 1
        BY <2>6, <3>2, <3>3
      <3>5. \A d \in Calls : call[d] = "queued" => ~(ran[d] > 0)
        <4>1. \A m \in Loops : loop[m].at # "ran"
          BY <2>1, <3>1 DEF T!Running
        <4> QED
          BY <4>1 DEF OneLoop
      <3>6. \A d \in Calls : call'[d] = "queued" /\ ran'[d] > 0 =>
                                \E m \in Loops : loop'[m].at = "ran" /\ loop'[m].act = d
        BY <2>1, <2>4, <2>6, <3>5
      <3>7. \A m \in Loops : T!Running(m)' => m = l
        BY <2>4, <3>1 DEF T!Running
      <3>8. \A m \in Loops : loop'[m].at # "running"
        BY <2>4, <3>7 DEF T!Running
      <3> QED
        BY <3>4, <3>6, <3>7, <3>8 DEF OneLoop
    <2> QED
      BY <2>2, <2>8, <2>9
  <1> QED
    BY <1>2, <1>3, <1>4, <1>5, <1>6

(* The loop posts its result: the call is answered if it still waits.        *)
LEMMA PostKeeps == ASSUME BridgeInv, NEW l \in Loops, T!Post(l) PROVE BridgeInv'
  <1> USE DEF BridgeInv
  <1> DEFINE c == loop[l].act
  <1>1. /\ loop[l].at = "ran" /\ loop' = [loop EXCEPT ![l].at = "idle", ![l].act = None]
        /\ UNCHANGED ran
        /\ \/ /\ IF T!Answered(c) = None THEN UNCHANGED <<call, actions>>
                 ELSE T!Settle(T!Answered(c), "answered")
                      /\ actions' = T!QueueWithout(T!Answered(c))
              /\ crowd' = crowd
           \/ crowd' = TRUE /\ UNCHANGED <<call, actions>>
    BY DEF T!Post
  <1>2. c \in Calls /\ call[c] # "new" /\ ran[c] > 0 /\ None \notin Calls
    BY <1>1, ChannelsAssumption DEF LoopShape
  <1>3. \/ /\ call[c] = "queued" /\ call' = [call EXCEPT ![c] = "answered"]
           /\ actions' = T!QueueWithout(c) /\ crowd' = crowd
        \/ UNCHANGED <<call, actions>> /\ ((call[c] # "queued" /\ crowd' = crowd) \/ crowd' = TRUE)
    BY <1>1, <1>2 DEF T!Answered, T!Settle
  <1>4. /\ DOMAIN call = Calls /\ DOMAIN loop = Loops /\ crowd \in BOOLEAN
        /\ DOMAIN loop[l] = {"on", "at", "act"}
    BY DEF LoopShape, ALoop
  <1>5. QueueInv'
    BY <1>2, <1>3, <1>4, QueueSettles, QueueAside
  <1>6. /\ loop'[l].at = "idle" /\ loop'[l].act = None /\ loop'[l].on = loop[l].on
        /\ \A m \in Loops \ {l} : loop'[m] = loop[m]
    BY <1>1, <1>4
  <1>7. loop' \in [Loops -> ALoop]
    BY <1>1, LoopBecomes DEF LoopShape
  <1>8. \A d \in Calls : call'[d] = call[d] \/ (d = c /\ call'[d] = "answered")
    BY <1>3, <1>4
  <1>9. LoopShape'
    <2>1. DOMAIN call' = Calls /\ crowd' \in BOOLEAN /\ ran' \in [Calls -> Nat]
      BY <1>1, <1>3, <1>4 DEF LoopShape
    <2>2. \A d \in Calls : (call'[d] = "new" => ran'[d] = 0) /\ (call'[d] = "answered" => ran'[d] > 0)
      BY <1>1, <1>2, <1>8 DEF LoopShape
    <2>3. \A m \in Loops : loop'[m].at \in {"running", "ran"} =>
                               loop'[m].act \in Calls /\ call'[loop'[m].act] # "new"
      BY <1>6, <1>8 DEF LoopShape
    <2>4. \A m \in Loops : loop'[m].at = "ran" => ran'[loop'[m].act] > 0
      BY <1>1, <1>6 DEF LoopShape
    <2> QED
      BY <1>7, <2>1, <2>2, <2>3, <2>4 DEF LoopShape
  <1>10. OneLoop'
    <2> SUFFICES ASSUME ~crowd' PROVE OneLoop'
      BY DEF OneLoop
    <2>1. ~crowd /\ call'[c] # "queued"
      BY <1>2, <1>3, <1>4
    <2>2. \A m \in Loops : T!Running(m)' => T!Running(m)
      BY <1>1, <1>6 DEF T!Running
    <2>3. ASSUME NEW d \in Calls, call'[d] = "queued", ran'[d] > 0
          PROVE  \E m \in Loops : loop'[m].at = "ran" /\ loop'[m].act = d
      <3>1. d # c /\ call[d] = "queued" /\ ran[d] > 0
        BY <1>1, <1>8, <2>1, <2>3
      <3>2. PICK m \in Loops : loop[m].at = "ran" /\ loop[m].act = d
        BY <2>1, <3>1 DEF OneLoop
      <3> QED
        BY <1>6, <3>1, <3>2
    <2>4. \A m \in Loops : loop'[m].at = "running" => m # l /\ loop[m].at = "running"
      BY <1>6
    <2>5. \A m, p \in Loops : T!Running(m)' /\ T!Running(p)' => m = p
      BY <2>1, <2>2 DEF OneLoop
    <2>6. \A d \in Calls : ran'[d] <= 1
      BY <1>1, <2>1 DEF OneLoop
    <2>7. \A m \in Loops : loop'[m].at = "running" => ran'[loop'[m].act] = 0
      <3>1. \A m \in Loops : loop[m].at = "running" => ran[loop[m].act] = 0
        BY <2>1 DEF OneLoop
      <3>2. \A m \in Loops : loop'[m].at = "running" =>
                                 loop[m].at = "running" /\ loop'[m].act = loop[m].act
        BY <1>6, <2>4
      <3> QED
        BY <1>1, <3>1, <3>2
    <2> QED
      BY <2>3, <2>5, <2>6, <2>7 DEF OneLoop
  <1> QED
    BY <1>5, <1>9, <1>10

(* What the local browser does leaves what waits for the extension alone.    *)
LEMMA BridgeAside ==
    ASSUME BridgeInv, UNCHANGED T!bridge, crowd => crowd', crowd' \in BOOLEAN,
           NEW c \in Calls, call[c] \in {"new", "launching", "acting"},
           NEW v \in {"launching", "acting", "failed", "ok"},
           call' = [call EXCEPT ![c] = v]
    PROVE  BridgeInv'
  <1>1. DOMAIN call = Calls /\ UNCHANGED <<actions, loop, ran>>
    BY DEF BridgeInv, LoopShape, T!bridge
  <1>2. \A d \in Calls : call'[d] = call[d] \/ (d = c /\ call'[d] = v)
    BY <1>1
  <1>3. \A d \in Calls : call'[d] = "queued" <=> call[d] = "queued"
    BY <1>1, <1>2
  <1>4. QueueInv'
    BY <1>1, <1>3, QueueAside DEF BridgeInv
  <1>5. DOMAIN call' = Calls
    BY <1>1
  <1>6. LoopShape' /\ OneLoop'
    BY <1>1, <1>2, <1>5, LoopsAside DEF BridgeInv
  <1> QED
    BY <1>4, <1>6 DEF BridgeInv

(* And the other way round. *)
LEMMA LocalAside ==
    ASSUME LocalInv, UNCHANGED T!local, crowd => crowd', crowd' \in BOOLEAN,
           DOMAIN call' = Calls,
           \A c \in Calls : /\ call'[c] = "launching" <=> call[c] = "launching"
                            /\ call'[c] = "acting" <=> call[c] = "acting"
    PROVE  LocalInv'
  <1>1. UNCHANGED <<shared, client, owner>>
    BY DEF T!local
  <1> QED
    BY <1>1 DEF LocalInv, LocalShape, OneShared

LEMMA LaunchKeeps ==
    ASSUME LocalInv, NEW c \in Calls, T!Enter(c) \/ \E k \in Clients : T!Launch(c, k)
    PROVE  LocalInv'
  <1> USE DEF LocalInv
  <1>0. /\ DOMAIN call = Calls /\ crowd \in BOOLEAN
        /\ client \in [Clients -> {"none", "launching", "half", "up", "crashed"}]
        /\ owner \in [Calls -> Clients \cup {None}] /\ None \notin Clients
    BY ChannelsAssumption DEF LocalShape
  <1>1. CASE T!Enter(c)
    <2>1. /\ call[c] = "new" /\ call' = [call EXCEPT ![c] = "acting"]
          /\ owner' = [owner EXCEPT ![c] = shared] /\ UNCHANGED <<shared, client, crowd>>
          /\ shared # None /\ client[shared] \notin {"none", "launching"}
      BY <1>1 DEF T!Enter, T!Settle, T!MustLaunch, T!IsRunning
    <2>2. shared \in Clients
      BY <2>1 DEF LocalShape
    <2>3. /\ DOMAIN call' = Calls /\ call'[c] = "acting" /\ owner'[c] = shared
          /\ \A d \in Calls \ {c} : call'[d] = call[d] /\ owner'[d] = owner[d]
      BY <1>0, <2>1
    <2>4. owner' \in [Calls -> Clients \cup {None}]
      BY <1>0, <2>1, <2>2
    <2>5. \A d \in Calls : call'[d] = "launching" <=> call[d] = "launching"
      BY <2>1, <2>3
    <2>6. LocalShape'
      BY <2>1, <2>2, <2>3, <2>4, <2>5 DEF LocalShape
    <2>7. OneShared'
      BY <2>1, <2>3 DEF OneShared
    <2> QED
      BY <2>6, <2>7
  <1>2. ASSUME NEW k \in Clients, T!Launch(c, k) PROVE LocalInv'
    <2>1. /\ call[c] = "new" /\ call' = [call EXCEPT ![c] = "launching"]
          /\ client[k] = "none" /\ \A d \in Calls : owner[d] # k
          /\ shared' = k /\ client' = [client EXCEPT ![k] = "launching"]
          /\ owner' = [owner EXCEPT ![c] = k]
      BY <1>2 DEF T!Launch, T!Settle
    <2>2. crowd' = (crowd \/ \E d \in Calls : call[d] = "launching")
      BY <1>2 DEF T!Launch
    <2>3. shared = None \/ client[shared] \in {"none", "launching"}
      BY <1>2 DEF T!Launch, T!MustLaunch, T!IsRunning
    <2>4. /\ DOMAIN call' = Calls /\ call'[c] = "launching" /\ owner'[c] = k
          /\ \A d \in Calls \ {c} : call'[d] = call[d] /\ owner'[d] = owner[d]
          /\ client'[k] = "launching" /\ \A j \in Clients \ {k} : client'[j] = client[j]
      BY <1>0, <2>1
    <2>5. owner' \in [Calls -> Clients \cup {None}]
      BY <1>0, <2>1
    <2>6. client' \in [Clients -> {"none", "launching", "half", "up", "crashed"}]
      BY <1>0, <2>1
    <2>7. crowd' \in BOOLEAN
      BY <1>0, <2>2
    <2>8. LocalShape'
      <3>1. \A d \in Calls : call'[d] \in {"launching", "acting"} => owner'[d] \in Clients
        BY <2>4 DEF LocalShape
      <3>2. \A d \in Calls : call'[d] = "launching" => client'[owner'[d]] = "launching"
        BY <2>1, <2>4, <3>1 DEF LocalShape
      <3>3. \A d, e \in Calls : call'[d] = "launching" /\ call'[e] = "launching"
                                   /\ owner'[d] = owner'[e] => d = e
        BY <2>1, <2>4 DEF LocalShape
      <3>4. \A j \in Clients : client'[j] = "launching" =>
                                  \E d \in Calls : call'[d] = "launching" /\ owner'[d] = j
        <4>1. ASSUME NEW j \in Clients, j # k, client'[j] = "launching"
              PROVE  \E d \in Calls : call'[d] = "launching" /\ owner'[d] = j
          <5>1. client[j] = "launching"
            BY <2>4, <4>1
          <5>2. PICK d \in Calls : call[d] = "launching" /\ owner[d] = j
            BY <5>1 DEF LocalShape
          <5>3. d # c
            BY <2>1, <5>2
          <5> QED
            BY <2>4, <5>2, <5>3
        <4> QED
          BY <2>4, <4>1
      <3> QED
        BY <2>1, <2>4, <2>5, <2>6, <2>7, <3>1, <3>2, <3>3, <3>4 DEF LocalShape
    <2>9. OneShared'
      <3> SUFFICES ASSUME ~crowd' PROVE OneShared'
        BY DEF OneShared
      <3>1. ~crowd /\ \A d \in Calls : call[d] # "launching"
        BY <2>2
      <3>2. \A j \in Clients : client[j] # "launching"
        BY <3>1 DEF LocalShape
      <3>3. \A j \in Clients : client[j] \notin {"up", "half"}
        BY <1>0, <2>3, <3>1 DEF OneShared
      <3>4. \A j \in Clients : client'[j] \in {"launching", "up", "half"} => j = k
        BY <2>4, <3>2, <3>3
      <3>5. \A d \in Calls : call'[d] = "acting" => d # c /\ owner[d] \in Clients \ {k}
        BY <2>1, <2>4 DEF LocalShape
      <3>6. \A d \in Calls : call'[d] = "acting" => client'[owner'[d]] # "launching"
        BY <2>4, <3>2, <3>5
      <3> QED
        BY <2>1, <3>4, <3>6 DEF OneShared
    <2> QED
      BY <2>8, <2>9
  <1> QED
    BY <1>1, <1>2

LEMMA LaunchedKeeps == ASSUME LocalInv, NEW c \in Calls, T!Launched(c) PROVE LocalInv'
  <1> USE DEF LocalInv
  <1> DEFINE k == owner[c]
  <1>0. /\ DOMAIN call = Calls /\ crowd \in BOOLEAN
        /\ client \in [Clients -> {"none", "launching", "half", "up", "crashed"}]
        /\ owner \in [Calls -> Clients \cup {None}] /\ None \notin Clients
        /\ shared \in Clients \cup {None}
    BY ChannelsAssumption DEF LocalShape
  <1>1. /\ call[c] = "launching" /\ UNCHANGED <<shared, crowd>>
        /\ \/ /\ client' = [client EXCEPT ![k] = "up"]
              /\ call' = [call EXCEPT ![c] = IF shared = None THEN "failed" ELSE "acting"]
              /\ owner' = [owner EXCEPT ![c] = shared]
           \/ /\ \E s \in {"none", "half"} : client' = [client EXCEPT ![k] = s]
              /\ call' = [call EXCEPT ![c] = "failed"] /\ owner' = [owner EXCEPT ![c] = None]
    BY DEF T!Launched, T!Settle
  <1>2. k \in Clients /\ client[k] = "launching"
    BY <1>1 DEF LocalShape
  <1>3. PICK v \in {"failed", "acting"}, s \in {"up", "none", "half"}, o \in Clients \cup {None} :
            /\ client' = [client EXCEPT ![k] = s] /\ call' = [call EXCEPT ![c] = v]
            /\ owner' = [owner EXCEPT ![c] = o]
            /\ v = "acting" => o = shared /\ o # None
    <2>1. CASE /\ client' = [client EXCEPT ![k] = "up"]
               /\ call' = [call EXCEPT ![c] = IF shared = None THEN "failed" ELSE "acting"]
               /\ owner' = [owner EXCEPT ![c] = shared]
      <3>1. CASE shared = None
        BY <1>0, <2>1, <3>1
      <3>2. CASE shared # None
        BY <1>0, <2>1, <3>2
      <3> QED
        BY <3>1, <3>2
    <2>2. ASSUME NEW s \in {"none", "half"}, client' = [client EXCEPT ![k] = s],
                 call' = [call EXCEPT ![c] = "failed"], owner' = [owner EXCEPT ![c] = None]
          PROVE  /\ s \in {"up", "none", "half"} /\ client' = [client EXCEPT ![k] = s]
                 /\ call' = [call EXCEPT ![c] = "failed"] /\ owner' = [owner EXCEPT ![c] = None]
      BY <2>2
    <2> QED
      BY <1>1, <2>1, <2>2
  <1>4. /\ DOMAIN call' = Calls /\ call'[c] = v /\ owner'[c] = o /\ client'[k] = s
        /\ \A d \in Calls \ {c} : call'[d] = call[d] /\ owner'[d] = owner[d]
        /\ \A j \in Clients \ {k} : client'[j] = client[j]
        /\ owner' \in [Calls -> Clients \cup {None}]
        /\ client' \in [Clients -> {"none", "launching", "half", "up", "crashed"}]
    BY <1>0, <1>2, <1>3
  <1>5. \A d \in Calls : call'[d] = "launching" => d # c /\ call[d] = "launching"
    BY <1>4
  <1>6. \A d \in Calls : call[d] = "launching" /\ owner[d] = k => d = c
    BY <1>1 DEF LocalShape
  <1>7. LocalShape'
    <2>1. \A d \in Calls : call'[d] \in {"launching", "acting"} => owner'[d] \in Clients
      BY <1>3, <1>4 DEF LocalShape
    <2>2. \A d \in Calls : call'[d] = "launching" => client'[owner'[d]] = "launching"
      <3> SUFFICES ASSUME NEW d \in Calls, call'[d] = "launching"
                   PROVE  client'[owner'[d]] = "launching"
        OBVIOUS
      <3>1. d # c /\ call[d] = "launching" /\ owner[d] # k
        BY <1>5, <1>6
      <3>2. owner[d] \in Clients /\ client[owner[d]] = "launching"
        BY <3>1 DEF LocalShape
      <3> QED
        BY <1>4, <3>1, <3>2
    <2>3. \A d, e \in Calls : call'[d] = "launching" /\ call'[e] = "launching"
                                 /\ owner'[d] = owner'[e] => d = e
      BY <1>4, <1>5 DEF LocalShape
    <2>4. \A j \in Clients : client'[j] = "launching" =>
                                \E d \in Calls : call'[d] = "launching" /\ owner'[d] = j
      <3> SUFFICES ASSUME NEW j \in Clients, client'[j] = "launching"
                   PROVE  \E d \in Calls : call'[d] = "launching" /\ owner'[d] = j
        OBVIOUS
      <3>1. j # k /\ client[j] = "launching"
        BY <1>4
      <3>2. PICK d \in Calls : call[d] = "launching" /\ owner[d] = j
        BY <3>1 DEF LocalShape
      <3> QED
        BY <1>4, <3>1, <3>2
    <2> QED
      BY <1>0, <1>1, <1>4, <2>1, <2>2, <2>3, <2>4 DEF LocalShape
  <1>8. OneShared'
    <2> SUFFICES ASSUME ~crowd PROVE OneShared'
      BY <1>1 DEF OneShared
    <2>1. k = shared
      BY <1>2 DEF OneShared
    <2>2. \A j \in Clients : client'[j] \in {"launching", "up", "half"} => j = shared
      BY <1>4, <2>1 DEF OneShared
    <2>3. \A d \in Calls : call'[d] = "acting" => client'[owner'[d]] # "launching"
      <3> SUFFICES ASSUME NEW d \in Calls, call'[d] = "acting"
                   PROVE  client'[owner'[d]] # "launching"
        OBVIOUS
      <3>1. CASE d = c
        BY <1>3, <1>4, <2>1, <3>1
      <3>2. CASE d # c
        <4>1. owner'[d] = owner[d] /\ owner[d] \in Clients /\ client[owner[d]] # "launching"
          BY <1>4, <3>2 DEF LocalShape, OneShared
        <4> QED
          BY <1>4, <4>1
      <3> QED
        BY <3>1, <3>2
    <2> QED
      BY <1>1, <2>2, <2>3 DEF OneShared
  <1> QED
    BY <1>7, <1>8

(* A call has acted, or closed the browser it found.                         *)
LEMMA ActKeeps ==
    ASSUME LocalInv, NEW c \in Calls, T!Act(c) \/ T!CloseBrowser(c) PROVE LocalInv'
  <1> USE DEF LocalInv
  <1> DEFINE k == owner[c]
  <1>0. /\ DOMAIN call = Calls /\ crowd \in BOOLEAN
        /\ client \in [Clients -> {"none", "launching", "half", "up", "crashed"}]
        /\ owner \in [Calls -> Clients \cup {None}] /\ None \notin Clients
        /\ shared \in Clients \cup {None}
    BY ChannelsAssumption DEF LocalShape
  <1>1. PICK v \in {"ok", "failed"} :
            /\ call[c] = "acting" /\ call' = [call EXCEPT ![c] = v]
            /\ owner' = [owner EXCEPT ![c] = None]
    BY DEF T!Act, T!CloseBrowser, T!Settle
  <1>2. k \in Clients
    BY <1>1 DEF LocalShape
  <1>3. \/ UNCHANGED <<shared, client, crowd>>
        \/ /\ client' = [client EXCEPT ![k] = IF client[k] = "launching" THEN client[k] ELSE "none"]
           /\ shared' = None /\ crowd' = (crowd \/ shared \notin {None, k})
    BY DEF T!Act, T!CloseBrowser
  <1>4. /\ DOMAIN call' = Calls /\ call'[c] = v /\ owner'[c] = None
        /\ \A d \in Calls \ {c} : call'[d] = call[d] /\ owner'[d] = owner[d]
        /\ owner' \in [Calls -> Clients \cup {None}]
    BY <1>0, <1>1
  <1>5. /\ client' \in [Clients -> {"none", "launching", "half", "up", "crashed"}]
        /\ \A j \in Clients : /\ client'[j] = "launching" <=> client[j] = "launching"
                              /\ client'[j] \in {"launching", "up", "half"} =>
                                     client[j] \in {"launching", "up", "half"}
        /\ shared' \in {shared, None} /\ crowd' \in BOOLEAN /\ (crowd => crowd')
    BY <1>0, <1>2, <1>3
  <1>6. \A d \in Calls : call'[d] \in {"launching", "acting"} => d # c /\ call'[d] = call[d]
    BY <1>4
  <1>7. LocalShape'
    <2>1. \A d \in Calls : call'[d] \in {"launching", "acting"} => owner'[d] \in Clients
      BY <1>4, <1>6 DEF LocalShape
    <2>2. \A d \in Calls : call'[d] = "launching" => client'[owner'[d]] = "launching"
      BY <1>4, <1>5, <1>6, <2>1 DEF LocalShape
    <2>3. \A d, e \in Calls : call'[d] = "launching" /\ call'[e] = "launching"
                                 /\ owner'[d] = owner'[e] => d = e
      BY <1>4, <1>6 DEF LocalShape
    <2>4. \A j \in Clients : client'[j] = "launching" =>
                                \E d \in Calls : call'[d] = "launching" /\ owner'[d] = j
      <3> SUFFICES ASSUME NEW j \in Clients, client[j] = "launching"
                   PROVE  \E d \in Calls : call'[d] = "launching" /\ owner'[d] = j
        BY <1>5
      <3>1. PICK d \in Calls : call[d] = "launching" /\ owner[d] = j
        BY DEF LocalShape
      <3>2. d # c
        BY <1>1, <3>1
      <3> QED
        BY <1>4, <3>1, <3>2
    <2> QED
      BY <1>0, <1>4, <1>5, <2>1, <2>2, <2>3, <2>4 DEF LocalShape
  <1>8. OneShared'
    <2> SUFFICES ASSUME ~crowd' PROVE OneShared'
      BY DEF OneShared
    <2>1. ~crowd
      BY <1>0, <1>5
    <2>2. \A d \in Calls : call'[d] = "acting" => client'[owner'[d]] # "launching"
      <3> SUFFICES ASSUME NEW d \in Calls, call'[d] = "acting"
                   PROVE  client'[owner'[d]] # "launching"
        OBVIOUS
      <3>1. d # c /\ call[d] = "acting" /\ owner'[d] = owner[d] /\ owner[d] \in Clients
        BY <1>4, <1>6 DEF LocalShape
      <3>2. client[owner[d]] # "launching"
        BY <2>1, <3>1 DEF OneShared
      <3> QED
        BY <1>5, <3>1, <3>2
    <2>3. \A j \in Clients : client[j] \in {"launching", "up", "half"} => j = shared
      BY <2>1 DEF OneShared
    <2>4. CASE UNCHANGED <<shared, client, crowd>>
      BY <2>2, <2>3, <2>4 DEF OneShared
    <2>5. CASE /\ client' = [client EXCEPT ![k] = IF client[k] = "launching" THEN client[k] ELSE "none"]
               /\ shared' = None /\ crowd' = (crowd \/ shared \notin {None, k})
      <3>1. shared \in {None, k}
        BY <2>5
      <3>2. client[k] # "launching"
        BY <1>1, <2>1 DEF OneShared
      <3>3. client'[k] = "none" /\ \A j \in Clients \ {k} : client'[j] = client[j]
        BY <1>0, <1>2, <2>5, <3>2
      <3>4. \A j \in Clients \ {k} : client[j] \notin {"launching", "up", "half"}
        BY <1>0, <2>3, <3>1
      <3>5. \A j \in Clients : client'[j] \notin {"launching", "up", "half"}
        BY <3>3, <3>4
      <3> QED
        BY <2>2, <3>5 DEF OneShared
    <2> QED
      BY <1>3, <2>4, <2>5
  <1> QED
    BY <1>7, <1>8

LEMMA CrashKeeps == ASSUME LocalInv, NEW k \in Clients, T!Crash(k) PROVE LocalInv'
  <1> USE DEF LocalInv
  <1>1. /\ client[k] \in {"up", "half"} /\ client' = [client EXCEPT ![k] = "crashed"]
        /\ UNCHANGED <<call, shared, owner, crowd>>
    BY DEF T!Crash
  <1>2. /\ client' \in [Clients -> {"none", "launching", "half", "up", "crashed"}]
        /\ \A j \in Clients : /\ client'[j] = "launching" <=> client[j] = "launching"
                              /\ client'[j] \in {"launching", "up", "half"} =>
                                     client[j] \in {"launching", "up", "half"}
    BY <1>1 DEF LocalShape
  <1>3. LocalShape'
    <2>1. \A d \in Calls : call'[d] = "launching" => client'[owner'[d]] = "launching"
      BY <1>1, <1>2 DEF LocalShape
    <2> QED
      BY <1>1, <1>2, <2>1 DEF LocalShape
  <1>4. OneShared'
    <2>1. \A d \in Calls : call[d] = "acting" => owner[d] \in Clients
      BY DEF LocalShape
    <2> QED
      BY <1>1, <1>2, <2>1 DEF OneShared
  <1> QED
    BY <1>3, <1>4

LEMMA ToolKeeps == ToolInv /\ (T!Next \/ UNCHANGED toolVars) => ToolInv'
  <1> SUFFICES ASSUME ToolInv, T!Next \/ UNCHANGED toolVars PROVE ToolInv'
    OBVIOUS
  <1> USE DEF ToolInv
  <1>0. DOMAIN call = Calls /\ crowd \in BOOLEAN
    BY DEF LocalInv, LocalShape
  <1>1. CASE UNCHANGED toolVars
    <2>1. UNCHANGED <<call, actions, loop, ran, crowd>> /\ UNCHANGED T!local
      BY <1>1 DEF toolVars, T!local
    <2>2. QueueInv'
      BY <2>1, QueueAside DEF BridgeInv
    <2>3. LoopShape' /\ OneLoop'
      BY <1>0, <2>1, LoopsAside DEF BridgeInv
    <2>4. LocalInv'
      BY <1>0, <2>1, LocalAside
    <2> QED
      BY <2>2, <2>3, <2>4 DEF BridgeInv
  <1>2. CASE T!Disconnect \/ \E c \in Calls : T!ToExtension(c) \/ T!Timeout(c)
    <2>1. BridgeInv'
      BY <1>2, CallsKeep
    <2>2. UNCHANGED T!local /\ crowd' = crowd
      BY <1>2 DEF T!Disconnect, T!ToExtension, T!Timeout
    <2>3. /\ DOMAIN call' = Calls
          /\ \A c \in Calls : /\ call'[c] = "launching" <=> call[c] = "launching"
                              /\ call'[c] = "acting" <=> call[c] = "acting"
      BY <1>0, <1>2 DEF T!Disconnect, T!ToExtension, T!Timeout, T!Due, T!Settle
    <2>4. LocalInv'
      BY <1>0, <2>2, <2>3, LocalAside
    <2> QED
      BY <2>1, <2>4
  <1>3. ASSUME NEW l \in Loops,
               T!Open(l) \/ T!Close(l) \/ T!Connect(l) \/ T!Poll(l) \/ T!Run(l)
        PROVE  ToolInv'
    <2>1. BridgeInv'
      BY <1>3, LoopsKeep
    <2>2. UNCHANGED T!local /\ call' = call
      BY <1>3 DEF T!Open, T!Close, T!Connect, T!Poll, T!Run
    <2>3. crowd' \in BOOLEAN /\ (crowd => crowd')
      BY <1>0, <1>3 DEF T!Open, T!Close, T!Connect, T!Poll, T!Run
    <2>4. LocalInv'
      BY <1>0, <2>2, <2>3, LocalAside
    <2> QED
      BY <2>1, <2>4
  <1>4. ASSUME NEW l \in Loops, T!Post(l) PROVE ToolInv'
    <2>1. BridgeInv'
      BY <1>4, PostKeeps
    <2>2. UNCHANGED T!local /\ crowd' \in BOOLEAN /\ (crowd => crowd')
      BY <1>0, <1>4 DEF T!Post
    <2>3. call' = call \/ \E c \in Calls : call[c] = "queued" /\ call' = [call EXCEPT ![c] = "answered"]
      <3>1. loop[l].act \in Calls
        BY <1>4 DEF T!Post, BridgeInv, LoopShape
      <3> QED
        BY <1>4, <3>1 DEF T!Post, T!Answered, T!Settle
    <2>4. /\ DOMAIN call' = Calls
          /\ \A c \in Calls : /\ call'[c] = "launching" <=> call[c] = "launching"
                              /\ call'[c] = "acting" <=> call[c] = "acting"
      BY <1>0, <2>3
    <2>5. LocalInv'
      BY <2>2, <2>4, LocalAside
    <2> QED
      BY <2>1, <2>5
  <1>5. ASSUME NEW c \in Calls, \/ T!Enter(c) \/ T!Launched(c) \/ T!Act(c) \/ T!CloseBrowser(c)
                                \/ \E k \in Clients : T!Launch(c, k)
        PROVE  ToolInv'
    <2>1. LocalInv'
      BY <1>5, LaunchKeeps, LaunchedKeeps, ActKeeps
    <2>2. UNCHANGED T!bridge /\ crowd' \in BOOLEAN /\ (crowd => crowd')
      BY <1>0, <1>5 DEF T!Enter, T!Launch, T!Launched, T!Act, T!CloseBrowser
    <2>3. PICK v \in {"launching", "acting", "failed", "ok"} :
              call[c] \in {"new", "launching", "acting"} /\ call' = [call EXCEPT ![c] = v]
      BY <1>5 DEF T!Enter, T!Launch, T!Launched, T!Act, T!CloseBrowser, T!Settle
    <2>4. BridgeInv'
      BY <2>2, <2>3, BridgeAside
    <2> QED
      BY <2>1, <2>4
  <1>6. ASSUME NEW k \in Clients, T!Crash(k) PROVE ToolInv'
    <2>1. LocalInv'
      BY <1>6, CrashKeeps
    <2>2. UNCHANGED <<call, actions, loop, ran, crowd>>
      BY <1>6 DEF T!Crash, T!bridge
    <2>3. QueueInv'
      BY <2>2, QueueAside DEF BridgeInv
    <2>4. LoopShape' /\ OneLoop'
      BY <1>0, <2>2, LoopsAside DEF BridgeInv
    <2> QED
      BY <2>1, <2>3, <2>4 DEF BridgeInv
  <1> QED
    BY <1>1, <1>2, <1>3, <1>4, <1>5, <1>6 DEF T!Next

LEMMA ToolInit == T!Init => ToolInv
  <1> SUFFICES ASSUME T!Init PROVE ToolInv
    OBVIOUS
  <1>1. QueueInv
    <2>1. actions \in Seq(Calls) /\ 1..Len(actions) = {}
      BY DEF T!Init
    <2> QED
      BY <2>1 DEF T!Init, QueueInv, Queued
  <1>2. LoopShape
    BY DEF T!Init, LoopShape, ALoop
  <1>3. OneLoop
    BY DEF T!Init, OneLoop, T!Running
  <1>4. LocalInv
    BY DEF T!Init, LocalInv, LocalShape, OneShared
  <1> QED
    BY <1>1, <1>2, <1>3, <1>4 DEF ToolInv, BridgeInv

LEMMA ToolIsTrue == ToolInv => T!AnsweredWasRun /\ T!RunOnce /\ T!OneBrowser
  BY DEF ToolInv, BridgeInv, LoopShape, OneLoop, LocalInv, OneShared,
         T!AnsweredWasRun, T!RunOnce, T!OneBrowser
-----------------------------------------------------------------------------
(* All of them side by side: a step is one of a single part, and leaves the  *)
(* others as they are.                                                       *)
AllInv == /\ MailInv /\ TypingInv /\ SendInv /\ WebInv /\ ModelInv /\ StreamInv
          /\ PanelInv /\ PageInv /\ ChatInv /\ ToolInv

LEMMA PartsStep ==
    [AllNext]_all =>
        /\ Next \/ UNCHANGED mailVars
        /\ M!Next \/ UNCHANGED messengerVars
        /\ M!WebNext \/ UNCHANGED webVars
        /\ O!Next \/ UNCHANGED modelVars
        /\ T!PanelNext \/ UNCHANGED panelVars
        /\ P!Next \/ UNCHANGED pageVars
        /\ C!Next \/ UNCHANGED chatVars
        /\ T!Next \/ UNCHANGED toolVars
  BY Zenon DEF AllNext, all, OfMail, OfMessenger, OfWeb, OfChat, OfPage, OfTool, OfPanel, OfModel

LEMMA AllBegin == AllInit => AllInv
  <1> SUFFICES ASSUME AllInit PROVE AllInv
    OBVIOUS
  <1>1. /\ Init /\ M!Init /\ M!WebInit /\ C!Init /\ P!Init /\ T!Init /\ T!PanelInit /\ O!Init
    BY DEF AllInit
  <1>2. MailInv
    BY <1>1 DEF Init, MailInv, MailIsKept
  <1>3. TypingInv
    BY <1>1 DEF M!Init, TypingInv
  <1>4. WebInv
    BY <1>1, ChannelsAssumption DEF M!WebInit, WebInv, WebShape, M!Clock
  <1>5. ModelInv /\ StreamInv /\ SendInv /\ ChatInv /\ ToolInv
    BY <1>1, ModelInit, StreamInit, SendInit, ChatInit, ToolInit
  <1>6. PanelInv
    BY <1>1 DEF T!PanelInit, PanelInv, Together, T!Underway
  <1>7. PageInv
    <2>1. DOMAIN mark = Elements /\ fresh = FALSE /\ acted = None
      BY <1>1 DEF P!Init
    <2> QED
      BY <2>1 DEF PageInv, P!ActsOnWhatWasShown, P!RightElement
  <1> QED
    BY <1>2, <1>3, <1>4, <1>5, <1>6, <1>7 DEF AllInv

LEMMA AllKeeps == AllInv /\ [AllNext]_all => AllInv'
  <1> SUFFICES ASSUME AllInv, [AllNext]_all PROVE AllInv'
    OBVIOUS
  <1>1. MailInv' /\ TypingInv' /\ WebInv' /\ ModelInv'
    BY PartsStep, MailKeeps, TypingKeeps, WebKeeps, ModelKeeps DEF AllInv
  <1>2. PanelInv' /\ PageInv' /\ ChatInv' /\ ToolInv'
    BY PartsStep, PanelKeeps, PageKeeps, ChatKeeps, ToolKeeps DEF AllInv
  <1>3. SendInv' /\ StreamInv'
    BY PartsStep, SendKeeps, StreamKeeps DEF AllInv
  <1> QED
    BY <1>1, <1>2, <1>3 DEF AllInv

LEMMA WebIsTrue == WebInv => M!WaitersAreOpen
  BY DEF WebInv, WebShape, M!WaitersAreOpen

LEMMA AllIsTrue == AllInv => ArrivesWhole /\ AnswersAreTrue /\ AsMeant
  <1> SUFFICES ASSUME AllInv PROVE ArrivesWhole /\ AnswersAreTrue /\ AsMeant
    OBVIOUS
  <1>1. ArrivesWhole
    <2>1. MailIsKept
      BY DEF AllInv, MailInv
    <2>2. M!TextIsWhole /\ M!ButtonsUnderAll
      BY SendInvIsWhole DEF AllInv
    <2>3. O!StreamIsWholeOpenAI /\ O!ShownOnce
      BY DEF AllInv, StreamInv, Heard, Streamed, O!StreamIsWholeOpenAI
    <2> QED
      BY <2>1, <2>2, <2>3 DEF ArrivesWhole
  <1>2. C!EachHasItsAnswer /\ C!ResetIsThorough /\ C!MicIsVoice
    BY ChatIsTrue DEF AllInv
  <1>3. T!AnsweredWasRun /\ T!RunOnce /\ T!OneBrowser
    BY ToolIsTrue DEF AllInv
  <1>4. M!WaitersAreOpen
    BY WebIsTrue DEF AllInv
  <1>5. P!ActsOnWhatWasShown
    BY DEF AllInv, PageInv
  <1>6. T!PanelIsStored
    BY DEF AllInv, PanelInv, Together, Exchange, T!PanelIsStored
  <1>7. M!TypingIsWork
    BY DEF AllInv, TypingInv, M!TypingIsWork
  <1>8. O!LeakersThink /\ O!EmbedsArePaced
    BY DEF AllInv, ModelInv, Paced, O!EmbedsArePaced
  <1>9. AnswersAreTrue
    BY <1>2, <1>3, <1>4 DEF AnswersAreTrue
  <1>10. AsMeant
    BY <1>2, <1>5, <1>6, <1>7, <1>8 DEF AsMeant
  <1> QED
    BY <1>1, <1>9, <1>10

LEMMA AllAlways == AllSpec => []AllInv
  <1>1. AllInv /\ [AllNext]_all => AllInv'
    BY AllKeeps
  <1> QED
    BY <1>1, AllBegin, PTL DEF AllSpec

-----------------------------------------------------------------------------
(* Types.  Every part keeps its own.                                         *)
LEMMA AllPlacesTaken ==
  ASSUME NEW S, IsFiniteSet(S), NEW f \in [S -> 1..Cardinality(S)],
         \A x, y \in S : f[x] = f[y] => x = y
  PROVE  \A i \in 1..Cardinality(S) : \E x \in S : f[x] = i
  <1> DEFINE n == Cardinality(S)
  <1>1. n \in Nat
    BY FS_CardinalityType
  <1>2. IsFiniteSet(1..n) /\ Cardinality(1..n) = n
    BY <1>1, FS_Interval
  <1>3. f \in Injection(S, 1..n)
    BY DEF Injection, IsInjective
  <1>4. f \in Surjection(S, 1..n)
    BY <1>2, <1>3, FS_Injection
  <1> QED
    BY <1>4 DEF Surjection

(* Mail.                                                                     *)
LEMMA RanksDiffer ==
  ASSUME NEW S \in SUBSET Nat, IsFiniteSet(S)
  PROVE  \A i \in 1..Cardinality(S) : (CHOOSE m \in S : Rank(m, S) = i) \in S
  <1> DEFINE Since(m) == {k \in S : k >= m}
             f == [m \in S |-> Cardinality(Since(m))]
  <1>1. \A m \in S : /\ IsFiniteSet(Since(m)) /\ Since(m) \in SUBSET S
                     /\ Rank(m, S) = Cardinality(Since(m))
    BY FS_Subset DEF Rank
  <1>2. ASSUME NEW m \in S PROVE Cardinality(Since(m)) \in 1..Cardinality(S)
    <2>1. m \in Since(m)
      OBVIOUS
    <2>2. Cardinality(Since(m)) <= Cardinality(S)
      BY <1>1, FS_Subset
    <2>3. Cardinality(Since(m)) \in Nat /\ Cardinality(S) \in Nat
      BY <1>1, FS_CardinalityType
    <2>4. Cardinality(Since(m)) # 0
      BY <1>1, <2>1, FS_EmptySet
    <2> QED
      BY <2>2, <2>3, <2>4
  <1>3. ASSUME NEW d \in S, NEW e \in S, d < e
        PROVE  Cardinality(Since(d)) # Cardinality(Since(e))
    <2>1. Since(e) \in SUBSET Since(d)
      <3> SUFFICES ASSUME NEW k \in S, k >= e PROVE k >= d
        OBVIOUS
      <3>1. d \in Nat /\ e \in Nat /\ k \in Nat
        OBVIOUS
      <3> QED
        BY <1>3, <3>1
    <2>2. d \in Since(d) /\ d \notin Since(e)
      BY <1>3
    <2> QED
      BY <1>1, <2>1, <2>2, FS_Subset
  <1>4. f \in [S -> 1..Cardinality(S)]
    BY <1>2
  <1>5. ASSUME NEW x \in S, NEW y \in S, f[x] = f[y] PROVE x = y
    <2>1. x \in Nat /\ y \in Nat
      OBVIOUS
    <2>2. ~(x < y) /\ ~(y < x)
      BY <1>3, <1>5
    <2> QED
      BY <2>1, <2>2
  <1>6. \A x \in S : f[x] = Rank(x, S)
    BY <1>1
  <1> HIDE DEF f
  <1>7. \A i \in 1..Cardinality(S) : \E x \in S : f[x] = i
    BY <1>4, <1>5, AllPlacesTaken
  <1> QED
    BY <1>6, <1>7

MailTypes ==
    /\ TypeOK /\ IsFiniteSet(arrived) /\ DOMAIN queue = Polls /\ DOMAIN stage = Polls
    /\ \A p \in Polls : stage[p] = "handle" => Head(queue[p]) \in Allowed

LEMMA PageOfMails ==
  ASSUME NEW S \in SUBSET Mails, IsFiniteSet(S) PROVE Newest(S) \in Seq(Mails)
  <1> DEFINE n == IF Cardinality(S) < Page THEN Cardinality(S) ELSE Page
  <1>1. Page \in Nat /\ S \in SUBSET Nat /\ Cardinality(S) \in Nat
    BY MailAssumption, FS_CardinalityType
  <1>2. n \in Nat /\ \A i \in 1..n : i \in 1..Cardinality(S)
    BY <1>1
  <1>3. \A i \in 1..n : (CHOOSE m \in S : Rank(m, S) = i) \in Mails
    BY <1>1, <1>2, RanksDiffer
  <1>4. Newest(S) = [i \in 1..n |-> CHOOSE m \in S : Rank(m, S) = i]
    BY DEF Newest
  <1> HIDE DEF n
  <1> QED
    BY <1>2, <1>3, <1>4

LEMMA MailTypesKeep == MailTypes /\ (Next \/ UNCHANGED mailVars) => MailTypes'
  <1> SUFFICES ASSUME MailTypes, Next \/ UNCHANGED mailVars PROVE MailTypes'
    OBVIOUS
  <1>1. ASSUME NEW m \in Mails, Arrive(m) PROVE MailTypes'
    <2>1. IsFiniteSet(arrived')
      BY <1>1, FS_AddElement DEF Arrive, MailTypes
    <2> QED
      BY <1>1, <2>1 DEF Arrive, MailTypes, TypeOK
  <1>2. ASSUME NEW p \in Polls, List(p) PROVE MailTypes'
    <2>1. unread \in SUBSET Mails /\ IsFiniteSet(unread)
      BY FS_Subset DEF MailTypes, TypeOK
    <2>2. Newest(unread) \in Seq(Mails)
      BY <2>1, PageOfMails
    <2> QED
      BY <1>2, <2>2 DEF List, MailTypes, TypeOK
  <1>3. ASSUME NEW p \in Polls, Filter(p) PROVE MailTypes'
    <2>1. queue[p] \in Seq(Mails) /\ queue[p] # <<>>
      BY <1>3 DEF Filter, MailTypes, TypeOK
    <2>2. Tail(queue[p]) \in Seq(Mails)
      BY <2>1
    <2>3. stage[p] = "list"
      BY <1>3 DEF Filter
    <2> QED
      BY <1>3, <2>2, <2>3 DEF Filter, MailTypes, TypeOK
  <1>4. ASSUME NEW p \in Polls, Handle(p) PROVE MailTypes'
    BY <1>4 DEF Handle, UnreadAfterTaking, MailTypes, TypeOK
  <1>5. ASSUME NEW p \in Polls, Handled(p) PROVE MailTypes'
    <2>1. queue[p] \in Seq(Mails) /\ queue[p] # <<>> /\ Head(queue[p]) \in Allowed
      BY <1>5 DEF Handled, MailTypes, TypeOK
    <2>2. Tail(queue[p]) \in Seq(Mails)
      BY <2>1
    <2> QED
      BY <1>5, <2>1, <2>2 DEF Handled, MailTypes, TypeOK
  <1>6. ASSUME NEW p \in Polls, Fail(p) PROVE MailTypes'
    <2>1. fails' \in 0..MaxFails /\ errors' \in Nat
      BY <1>6, ChannelsAssumption DEF Fail, MailTypes, TypeOK
    <2> QED
      BY <1>6, <2>1 DEF Fail, MailTypes, TypeOK
  <1>7. ASSUME NEW p \in Polls, End(p) PROVE MailTypes'
    BY <1>7 DEF End, MailTypes, TypeOK
  <1>8. CASE UNCHANGED mailVars
    BY <1>8 DEF mailVars, MailTypes, TypeOK
  <1> QED
    BY <1>1, <1>2, <1>3, <1>4, <1>5, <1>6, <1>7, <1>8 DEF Next, Step

LEMMA MailTypesInit == Init => MailTypes
  BY FS_EmptySet, ChannelsAssumption DEF Init, MailTypes, TypeOK
-----------------------------------------------------------------------------
(* Messengers and web requests.                                              *)
LEMMA MessengerTypes == /\ M!Init => typing \in BOOLEAN /\ outcome \in M!Outcomes
                        /\ /\ typing \in BOOLEAN /\ outcome \in M!Outcomes
                           /\ M!Next \/ UNCHANGED messengerVars
                           => typing' \in BOOLEAN /\ outcome' \in M!Outcomes
  BY DEF M!Init, M!Outcomes, M!Next, M!Arrives, M!Ignore, M!Download, M!Local, M!Drop, M!Work,
         M!WorkEnds, M!TypingAfter, M!Send, M!SendFiles, M!SendPiece, M!SendFails, messengerVars

LEMMA SentIsTyped ==
    TypingInv /\ SendInv /\ typing \in BOOLEAN /\ outcome \in M!Outcomes => M!TypeOK
  <1> SUFFICES ASSUME TypingInv, SendInv, typing \in BOOLEAN, outcome \in M!Outcomes
               PROVE  M!TypeOK
    OBVIOUS
  <1>1. \A n \in DOMAIN pieces : /\ pieces[n].what \in {"text", "files", "buttons"}
                                 /\ {pieces[n].from, pieces[n].to} \subseteq Nat
    <2>1. \A n \in DOMAIN pieces : pieces[n] \in Sign
      BY ElementOf DEF SendInv
    <2> QED
      BY <2>1 DEF Sign
  <1>2. answer # None => answer.at <= Len(answer.text)
    BY DEF SendInv, Sending
  <1> QED
    BY <1>1, <1>2 DEF M!TypeOK, TypingInv, SendInv

WebTypes == /\ handling \in [Requests -> (0..MaxTexts) \cup {None}]
            /\ response \in [Requests -> Requests \cup {"late", None}]

LEMMA WebTypesKeep ==
    WebShape /\ WebTypes /\ (M!WebNext \/ UNCHANGED webVars) => WebTypes'
  <1> SUFFICES ASSUME WebShape, WebTypes, M!WebNext \/ UNCHANGED webVars PROVE WebTypes'
    OBVIOUS
  <1>1. ASSUME NEW r \in Requests, M!Post(r) PROVE WebTypes'
    BY <1>1, ChannelsAssumption DEF M!Post, WebTypes
  <1>2. ASSUME NEW r \in Requests, M!Reply(r) PROVE WebTypes'
    <2>1. handling' = [handling EXCEPT ![r] = handling[r] - 1] /\ handling[r] \in 1..MaxTexts
      BY <1>2 DEF M!Reply
    <2>2. MaxTexts \in Nat
      BY ChannelsAssumption
    <2>3. handling[r] - 1 \in 0..MaxTexts
      BY <2>1, <2>2
    <2>4. handling' \in [Requests -> (0..MaxTexts) \cup {None}]
      BY <2>1, <2>3 DEF WebTypes
    <2>5. response' \in [Requests -> Requests \cup {"late", None}]
      BY <1>2 DEF M!Reply, WebTypes
    <2> QED
      BY <2>4, <2>5 DEF WebTypes
  <1>3. ASSUME NEW r \in Requests, M!HandlerEnds(r) PROVE WebTypes'
    BY <1>3 DEF M!HandlerEnds, WebTypes
  <1>4. ASSUME NEW r \in Requests, M!Timeout(r) PROVE WebTypes'
    BY <1>4 DEF M!Timeout, WebTypes
  <1>5. CASE M!Tick \/ UNCHANGED webVars
    BY <1>5 DEF M!Tick, webVars, WebTypes
  <1> QED
    BY <1>1, <1>2, <1>3, <1>4, <1>5 DEF M!WebNext

LEMMA WebTypesInit == M!WebInit => WebTypes
  BY ChannelsAssumption DEF M!WebInit, WebTypes

LEMMA WebIsTyped == WebShape /\ WebTypes => M!WebTypeOK
  BY DEF WebShape, WebTypes, M!WebTypeOK
-----------------------------------------------------------------------------
(* The chat page.                                                            *)
LEMMA StartsTypes ==
    ASSUME asks \in Nat, held \in {"none", "run", "still"}, stray \in Nat,
           status \in {"idle", "sending", "recording", "processing", "playing"}, C!Starts
    PROVE  /\ asks' \in Nat /\ held' \in {"none", "run", "still"} /\ stray' \in Nat
           /\ status' \in {"idle", "sending", "recording", "processing", "playing"}
  BY DEF C!Starts, C!Records

ChatTypes == /\ C!TypeOK /\ DOMAIN text = Typed /\ DOMAIN turn = Turns

LEMMA ChatTypesKeep == ChatTypes /\ (C!Next \/ UNCHANGED chatVars) => ChatTypes'
  <1> SUFFICES ASSUME ChatTypes, C!Next \/ UNCHANGED chatVars PROVE ChatTypes'
    OBVIOUS
  <1> USE DEF ChatTypes, C!TypeOK
  <1>0. MaxResets \in Nat /\ MaxToggles \in Nat
    BY ChannelsAssumption
  <1>1. CASE C!HistoryArrives
    <2>1. {"ask", "reply"} \X session \subseteq ({"ask", "reply"} \X (Typed \cup Turns \cup {"old"}))
      OBVIOUS
    <2> QED
      BY <1>1, <2>1 DEF C!HistoryArrives, C!WithHistory, C!sound, C!server
  <1>2. CASE C!NewChat
    BY <1>0, <1>2 DEF C!NewChat, C!sound
  <1>3. CASE C!ResetEnds
    BY <1>3 DEF C!ResetEnds, C!SessionAfterReset, C!sound
  <1>4. ASSUME NEW r \in Typed, C!Send(r) PROVE ChatTypes'
    BY <1>4 DEF C!Send, C!sound
  <1>5. ASSUME NEW r \in Typed, C!Serve(r) PROVE ChatTypes'
    <2>1. session' \subseteq Typed \cup {"old"}
      BY <1>5 DEF C!Serve
    <2>2. DOMAIN text' = Typed /\ \A q \in Typed :
             text'[q] \in {"new", "posted", "answered", "failed", "over"}
      BY <1>5 DEF C!Serve
    <2> QED
      BY <1>5, <2>1, <2>2 DEF C!Serve, C!page, C!sound
  <1>6. ASSUME NEW r \in Typed, C!Show(r) PROVE ChatTypes'
    BY <1>6 DEF C!Show, C!StatusAfter, C!sound
  <1>7. CASE C!MicAnswers
    <2>1. asks' \in Nat
      BY <1>7 DEF C!MicAnswers
    <2>2. /\ held' \in {"none", "run", "still"} /\ stray' \in Nat
          /\ status' \in {"idle", "sending", "recording", "processing", "playing"}
      BY <1>7 DEF C!MicAnswers, C!Records
    <2>3. voice' \in BOOLEAN /\ mic' \in BOOLEAN /\ late' \in BOOLEAN
      BY <1>7, Zenon DEF C!MicAnswers
    <2>4. UNCHANGED <<shown, timers, turn, toggles, who, history, resetting, text, session,
                      since, resets, raced, kept>>
      BY <1>7 DEF C!MicAnswers, C!NotToggle, C!NotText, C!server
    <2> QED
      BY <2>1, <2>2, <2>3, <2>4
  <1>8. CASE C!ToggleOn
    BY <1>0, <1>8, StartsTypes DEF C!ToggleOn, C!NotText, C!server
  <1>9. CASE C!ToggleOff
    BY <1>9 DEF C!ToggleOff, C!HeldAfterToggle, C!NotToggle, C!NotText, C!server
  <1>10. ASSUME NEW t \in Turns, C!Silence(t) PROVE ChatTypes'
    BY <1>10 DEF C!Silence, C!NotToggle, C!NotText, C!server
  <1>11. ASSUME NEW t \in Turns, C!Stopped(t) PROVE ChatTypes'
    BY <1>11, StartsTypes DEF C!Stopped, C!NotToggle, C!NotText, C!server
  <1>12. ASSUME NEW t \in Turns, C!Answers(t) PROVE ChatTypes'
    BY <1>12, StartsTypes DEF C!Answers, C!NotToggle, C!NotText, C!server
  <1>13. ASSUME NEW t \in Turns, C!Played(t) PROVE ChatTypes'
    BY <1>13, StartsTypes DEF C!Played, C!NotToggle, C!NotText, C!server
  <1>14. ASSUME NEW t \in Turns, C!Refused(t) \/ C!Broken(t) PROVE ChatTypes'
    BY <1>14 DEF C!Refused, C!Broken, C!Retry, C!NotToggle, C!NotText, C!server
  <1>15. CASE C!Timer
    BY <1>15, StartsTypes DEF C!Timer, C!NotToggle, C!NotText, C!server
  <1>16. CASE UNCHANGED chatVars
    BY <1>16 DEF chatVars
  <1> QED
    BY <1>1, <1>2, <1>3, <1>4, <1>5, <1>6, <1>7, <1>8, <1>9, <1>10, <1>11, <1>12, <1>13,
       <1>14, <1>15, <1>16 DEF C!Next, C!TurnEnds

LEMMA ChatTypesInit == C!Init => ChatTypes
  <1> SUFFICES ASSUME C!Init PROVE ChatTypes
    OBVIOUS
  <1>1. MaxResets \in Nat /\ MaxToggles \in Nat
    BY ChannelsAssumption
  <1>2. session \subseteq Typed \cup {"old"}
    BY DEF C!Init
  <1>3. {voice, resetting, mic, raced, kept, late} \subseteq BOOLEAN
    BY Zenon DEF C!Init
  <1>4. /\ resets \in 0..MaxResets /\ toggles \in 0..MaxToggles
        /\ asks \in Nat /\ stray \in Nat /\ timers \in Nat
    BY <1>1 DEF C!Init
  <1>5. /\ who \in [token : BOOLEAN, target : Targets]
        /\ status = "idle" /\ history = "asked" /\ held = "none" /\ since = {} /\ shown = {}
        /\ text = [q \in Typed |-> "new"] /\ turn = [t \in Turns |-> "new"]
    BY DEF C!Init
  <1> QED
    BY <1>2, <1>3, <1>4, <1>5 DEF ChatTypes, C!TypeOK
-----------------------------------------------------------------------------
(* Pages.                                                                    *)
LEMMA InOrderIsShown == P!InOrder \in Seq(Elements)
  <1> DEFINE n == Cardinality(P!Visible)
             f == [e \in P!Visible |-> P!Place(e)]
  <1>1. IsFiniteSet(P!Visible) /\ P!Visible \subseteq Elements
    BY ChannelsAssumption, FS_Subset DEF P!Visible
  <1>2. n \in Nat
    BY <1>1, FS_CardinalityType
  <1>3. f \in [P!Visible -> 1..n] /\ \A x, y \in P!Visible : f[x] = f[y] => x = y
    BY PlacesDiffer
  <1>4. \A x \in P!Visible : f[x] = P!Place(x)
    OBVIOUS
  <1> HIDE DEF f
  <1>5. \A i \in 1..n : \E x \in P!Visible : f[x] = i
    BY <1>1, <1>3, AllPlacesTaken
  <1>6. \A i \in 1..n : (CHOOSE e \in P!Visible : P!Place(e) = i) \in Elements
    BY <1>1, <1>4, <1>5
  <1>7. P!InOrder = [i \in 1..n |-> CHOOSE e \in P!Visible : P!Place(e) = i]
    BY DEF P!InOrder, P!Cardinality, Cardinality
  <1> HIDE DEF n
  <1> QED
    BY <1>2, <1>6, <1>7

LEMMA NumberedIsTyped ==
    mark \in [Elements -> P!Numbers \cup {0}] => P!Numbered \in [Elements -> P!Numbers \cup {0}]
  <1> SUFFICES ASSUME mark \in [Elements -> P!Numbers \cup {0}]
               PROVE  P!Numbered \in [Elements -> P!Numbers \cup {0}]
    OBVIOUS
  <1>1. IsFiniteSet(Elements) /\ P!Visible \in SUBSET Elements
    BY ChannelsAssumption DEF P!Visible
  <1>2. /\ Cardinality(P!Visible) <= Cardinality(Elements)
        /\ Cardinality(P!Visible) \in Nat /\ Cardinality(Elements) \in Nat
    BY <1>1, FS_Subset, FS_CardinalityType
  <1>3. P!Numbers = 1..Cardinality(Elements)
    BY DEF P!Numbers, P!Cardinality, Cardinality
  <1>4. \A e \in P!Visible : P!Place(e) \in P!Numbers
    <2> TAKE e \in P!Visible
    <2>1. P!Place(e) \in 1..Cardinality(P!Visible)
      BY PlacesDiffer
    <2> HIDE DEF P!Numbers
    <2> QED
      BY <1>2, <1>3, <2>1
  <1> QED
    BY <1>4 DEF P!Numbered, P!Counted

LEMMA FoundIsThere ==
  ASSUME NEW m, NEW n PROVE P!Found(m, n) # None => P!Found(m, n) \in Elements /\ m[P!Found(m, n)] = n
  <1> DEFINE with == {e \in Elements : m[e] = n}
  <1>1. with \in SUBSET Nat
    BY ChannelsAssumption
  <1>2. P!Found(m, n) = IF with = {} THEN None ELSE P!Min(with)
    BY DEF P!Found
  <1>3. with # {} => P!Min(with) \in with
    BY <1>1, LeastIsThere
  <1> QED
    BY <1>2, <1>3

AHit == [n : P!Numbers, hit : Elements, sure : BOOLEAN]

LEMMA HitIsTyped == \A k \in P!Numbers, e \in Elements, b \in BOOLEAN :
                       [n |-> k, hit |-> e, sure |-> b] \in AHit
  BY DEF AHit

PageTypes ==
    /\ state \in [Elements -> P!States] /\ mark \in [Elements -> P!Numbers \cup {0}]
    /\ listed \in Seq(Elements) /\ steps \in 0..MaxSteps
    /\ \A e \in Elements : state[e] = "out" => mark[e] = 0

AimTypes ==
    /\ aim \in [n : P!Numbers, use : {"click", "type"}] \cup {None}
    /\ acted \in AHit \cup {None} /\ backend \in Backends /\ fresh \in BOOLEAN

LEMMA PageIsTyped == PageTypes /\ AimTypes => P!TypeOK
  BY DEF PageTypes, AimTypes, AHit, P!TypeOK

LEMMA PageTypesKeep == PageTypes /\ AimTypes /\ (P!Next \/ UNCHANGED pageVars) => PageTypes'
  <1> SUFFICES ASSUME PageTypes, P!Next \/ UNCHANGED pageVars PROVE PageTypes'
    OBVIOUS
  <1>0. MaxSteps \in Nat
    BY ChannelsAssumption
  <1>b. \A e \in Elements : state[e] = "out" => P!Numbered[e] = 0
    BY DEF P!Numbered, P!Visible, PageTypes
  <1>c. /\ P!Numbered \in [Elements -> P!Numbers \cup {0}] /\ P!InOrder \in Seq(Elements)
        /\ mark \in [Elements -> P!Numbers \cup {0}]
    BY InOrderIsShown, NumberedIsTyped DEF PageTypes
  <1>1. CASE P!Snapshot
    BY <1>1, <1>b, <1>c DEF P!Snapshot, PageTypes
  <1>2. ASSUME NEW e \in Elements, P!PageChanges(e) PROVE PageTypes'
    <2>1. steps' \in 0..MaxSteps
      BY <1>0, <1>2 DEF P!PageChanges, PageTypes
    <2>2. PICK s \in P!States :
             /\ state' = [state EXCEPT ![e] = s]
             /\ mark' = IF "out" \in {s, state[e]} THEN [mark EXCEPT ![e] = 0] ELSE mark
      BY <1>2 DEF P!PageChanges
    <2>3. /\ state' \in [Elements -> P!States]
          /\ mark' \in [Elements -> P!Numbers \cup {0}]
      BY <2>2 DEF PageTypes
    <2>4. \A d \in Elements : state'[d] = "out" => mark'[d] = 0
      BY <2>2 DEF PageTypes
    <2>5. listed' = listed
      BY <1>2 DEF P!PageChanges
    <2> QED
      BY <2>1, <2>3, <2>4, <2>5 DEF PageTypes
  <1>3. CASE P!Navigate
    BY <1>0, <1>3 DEF P!Navigate, PageTypes
  <1>4. ASSUME NEW n \in P!Numbers, P!ExtensionAct(n) PROVE PageTypes'
    BY <1>4 DEF P!ExtensionAct, PageTypes
  <1>5. ASSUME NEW n \in P!Numbers, NEW use \in {"click", "type", "select"}, P!LocalAct(n, use)
        PROVE  PageTypes'
    <2>1. mark' = P!Numbered \/ mark' = mark
      BY <1>5 DEF P!LocalAct, P!Renumbered
    <2>2. UNCHANGED <<state, listed, steps>>
      BY <1>5 DEF P!LocalAct
    <2> QED
      BY <1>b, <1>c, <2>1, <2>2 DEF PageTypes
  <1>6. CASE P!Look
    BY <1>6 DEF P!Look, PageTypes
  <1>7. CASE UNCHANGED pageVars
    BY <1>7 DEF pageVars, PageTypes
  <1> QED
    BY <1>1, <1>2, <1>3, <1>4, <1>5, <1>6, <1>7 DEF P!Next

LEMMA AimTypesKeep == PageTypes /\ AimTypes /\ (P!Next \/ UNCHANGED pageVars) => AimTypes'
  <1> SUFFICES ASSUME AimTypes, P!Next \/ UNCHANGED pageVars PROVE AimTypes'
    OBVIOUS
  <1>a. \A n, e, b : n \in P!Numbers /\ e \in Elements /\ b \in BOOLEAN /\ P!Hits(n, e, b)
                        => acted' \in AHit
    BY HitIsTyped DEF P!Hits
  <1>1. CASE P!Snapshot \/ P!Navigate
    BY <1>1, Zenon DEF P!Snapshot, P!Navigate, AimTypes
  <1>2. ASSUME NEW e \in Elements, P!PageChanges(e) PROVE AimTypes'
    BY <1>2, Zenon DEF P!PageChanges, AimTypes
  <1>4. ASSUME NEW n \in P!Numbers, P!ExtensionAct(n) PROVE AimTypes'
    <2>1. P!Found(mark, n) # None => P!Found(mark, n) \in Elements
      BY FoundIsThere
    <2>2. acted' = None \/ (P!Found(mark, n) # None /\ P!Hits(n, P!Found(mark, n), TRUE))
      BY <1>4 DEF P!ExtensionAct
    <2>3. acted' \in AHit \cup {None}
      BY <1>a, <2>1, <2>2
    <2>4. UNCHANGED <<aim, backend, fresh>>
      BY <1>4 DEF P!ExtensionAct
    <2> QED
      BY <2>3, <2>4, Zenon DEF AimTypes
  <1>5. ASSUME NEW n \in P!Numbers, NEW use \in {"click", "type", "select"}, P!LocalAct(n, use)
        PROVE  AimTypes'
    <2>1. P!Found(mark', n) # None => P!Found(mark', n) \in Elements
      BY FoundIsThere
    <2>2. acted' = None \/ (P!Found(mark', n) # None /\ P!Hits(n, P!Found(mark', n), TRUE))
      BY <1>5 DEF P!LocalAct
    <2>3. acted' \in AHit \cup {None}
      BY <1>a, <2>1, <2>2
    <2>4. UNCHANGED <<backend, fresh>>
      BY <1>5 DEF P!LocalAct
    <2>5. aim' = aim \/ (use \in {"click", "type"} /\ aim' = [n |-> n, use |-> use])
      BY <1>5 DEF P!LocalAct
    <2>6. aim' \in [n : P!Numbers, use : {"click", "type"}] \cup {None}
      BY <2>5 DEF AimTypes
    <2> QED
      BY <2>3, <2>4, <2>6, Zenon DEF AimTypes
  <1>6. CASE P!Look
    <2>1. aim \in [n : P!Numbers, use : {"click", "type"}]
      BY <1>6 DEF P!Look, AimTypes
    <2>2. aim.n \in P!Numbers /\ P!Visible \subseteq Elements
      BY <2>1 DEF P!Visible
    <2>3. \/ acted' = None
          \/ \E e \in P!Visible, b \in BOOLEAN : P!Hits(aim.n, e, b)
      BY <1>6, Zenon DEF P!Look
    <2>4. acted' \in AHit \cup {None}
      BY <1>a, <2>2, <2>3
    <2>5. aim' = None /\ UNCHANGED <<backend, fresh>>
      BY <1>6 DEF P!Look
    <2> QED
      BY <2>4, <2>5, Zenon DEF AimTypes
  <1>7. CASE UNCHANGED pageVars
    BY <1>7 DEF pageVars, AimTypes
  <1> QED
    BY <1>1, <1>2, <1>4, <1>5, <1>6, <1>7 DEF P!Next

LEMMA PageTypesInit == P!Init => PageTypes /\ AimTypes
  <1> SUFFICES ASSUME P!Init PROVE PageTypes /\ AimTypes
    OBVIOUS
  <1>1. steps \in 0..MaxSteps
    BY ChannelsAssumption DEF P!Init
  <1>2. PageTypes
    BY <1>1 DEF P!Init, PageTypes
  <1>3. AimTypes
    BY Zenon DEF P!Init, AimTypes
  <1> QED
    BY <1>2, <1>3
-----------------------------------------------------------------------------
(* The browser tool and the panel.                                           *)
ToolTypes ==
    /\ \A c \in Calls : call[c] \in {"new"} \cup T!Waiting \cup T!Outcomes
    /\ {connected, leaving} \subseteq BOOLEAN /\ losses \in 0..MaxLosses
    /\ ran \in [Calls -> 0..2]

LEMMA SettleTypes ==
    ASSUME DOMAIN call = Calls, \A c \in Calls : call[c] \in {"new"} \cup T!Waiting \cup T!Outcomes,
           NEW c \in Calls, NEW o \in T!Waiting \cup T!Outcomes, T!Settle(c, o)
    PROVE  \A d \in Calls : call'[d] \in {"new"} \cup T!Waiting \cup T!Outcomes
  BY DEF T!Settle

LEMMA ToolTypesKeep ==
    LoopShape /\ ToolTypes /\ (T!Next \/ UNCHANGED toolVars) => ToolTypes'
  <1> SUFFICES ASSUME LoopShape, ToolTypes, T!Next \/ UNCHANGED toolVars PROVE ToolTypes'
    OBVIOUS
  <1> DEFINE CallsTyped == \A c \in Calls : call[c] \in {"new"} \cup T!Waiting \cup T!Outcomes
  <1>0. /\ MaxLosses \in Nat /\ DOMAIN call = Calls /\ CallsTyped
        /\ {"queued", "timeout", "acting", "launching", "failed", "ok", "answered", "gone"}
             \subseteq T!Waiting \cup T!Outcomes
    BY ChannelsAssumption DEF LoopShape, ToolTypes, T!Waiting, T!Outcomes
  <1>00. ASSUME NEW c \in Calls,
                \E o \in {"queued", "timeout", "acting", "launching", "failed", "ok", "answered", "gone"} :
                    T!Settle(c, o)
         PROVE  CallsTyped'
    BY <1>0, <1>00 DEF T!Settle
  <1> HIDE DEF CallsTyped
  <1>c. CallsTyped' /\ UNCHANGED <<connected, leaving, losses, ran>> => ToolTypes'
    BY DEF ToolTypes, CallsTyped
  <1>d. UNCHANGED call => CallsTyped'
    BY <1>0 DEF CallsTyped
  <1>1. ASSUME NEW c \in Calls, T!ToExtension(c) \/ T!Timeout(c) \/ T!Enter(c) \/ T!Launched(c)
                                \/ T!Act(c) \/ T!CloseBrowser(c) PROVE ToolTypes'
    <2>1. \E o \in {"queued", "timeout", "acting", "launching", "failed", "ok", "answered", "gone"} :
             T!Settle(c, o)
      BY <1>1 DEF T!ToExtension, T!Timeout, T!Enter, T!Launched, T!Act, T!CloseBrowser
    <2>2. UNCHANGED <<connected, leaving, losses, ran>>
      BY <1>1 DEF T!ToExtension, T!Timeout, T!Enter, T!Launched, T!Act, T!CloseBrowser, T!bridge
    <2> QED
      BY <1>00, <1>c, <2>1, <2>2
  <1>2. ASSUME NEW c \in Calls, NEW k \in Clients, T!Launch(c, k) PROVE ToolTypes'
    <2>1. T!Settle(c, "launching") /\ UNCHANGED <<connected, leaving, losses, ran>>
      BY <1>2 DEF T!Launch, T!bridge
    <2> QED
      BY <1>00, <1>c, <2>1
  <1>3. CASE T!Disconnect
    <2>1. CallsTyped'
      BY <1>0, <1>3 DEF T!Disconnect, CallsTyped
    <2> QED
      BY <1>3, <2>1 DEF T!Disconnect, ToolTypes, CallsTyped
  <1>4. ASSUME NEW l \in Loops, T!Open(l) \/ T!Connect(l) \/ T!Poll(l) PROVE ToolTypes'
    BY <1>4, <1>d DEF T!Open, T!Connect, T!Poll, T!local, ToolTypes, CallsTyped
  <1>5. ASSUME NEW l \in Loops, T!Close(l) PROVE ToolTypes'
    BY <1>0, <1>5, <1>d DEF T!Close, T!Loses, ToolTypes, CallsTyped
  <1>6. ASSUME NEW l \in Loops, T!Run(l) PROVE ToolTypes'
    <2>1. loop[l].act \in Calls
      BY <1>6 DEF T!Run, LoopShape
    <2>2. ran' \in [Calls -> 0..2]
      BY <1>6, <2>1 DEF T!Run, ToolTypes
    <2> QED
      BY <1>6, <1>d, <2>2 DEF T!Run, ToolTypes, CallsTyped
  <1>7. ASSUME NEW l \in Loops, T!Post(l) PROVE ToolTypes'
    <2>1. UNCHANGED <<connected, leaving, ran>>
      BY <1>7 DEF T!Post
    <2>2. losses' \in 0..MaxLosses
      BY <1>0, <1>7 DEF T!Post, T!Loses, ToolTypes
    <2>3. CallsTyped'
      <3>1. CASE UNCHANGED call
        BY <1>d, <3>1
      <3>2. CASE T!Answered(loop[l].act) # None /\ T!Settle(T!Answered(loop[l].act), "answered")
        <4>1. loop[l].act \in Calls /\ T!Answered(loop[l].act) = loop[l].act
          BY <1>7, <3>2 DEF T!Post, LoopShape, T!Answered
        <4> QED
          BY <1>00, <3>2, <4>1
      <3> QED
        BY <1>7, <3>1, <3>2 DEF T!Post
    <2> QED
      BY <2>1, <2>2, <2>3 DEF ToolTypes, CallsTyped
  <1>8. ASSUME NEW k \in Clients, T!Crash(k) PROVE ToolTypes'
    BY <1>0, <1>8, <1>d DEF T!Crash, T!Loses, T!bridge, ToolTypes, CallsTyped
  <1>9. CASE UNCHANGED toolVars
    BY <1>9, <1>d, <1>c DEF toolVars
  <1> QED
    BY <1>1, <1>2, <1>3, <1>4, <1>5, <1>6, <1>7, <1>8, <1>9 DEF T!Next

LEMMA ToolIsTyped == ToolInv /\ ToolTypes => T!TypeOK
  <1> SUFFICES ASSUME ToolInv, ToolTypes PROVE T!TypeOK
    OBVIOUS
  <1>1. actions \in Seq(Calls) /\ DOMAIN actions = 1..Len(actions)
    BY DEF ToolInv, BridgeInv, QueueInv
  <1>2. T!IsInjective(actions)
    BY <1>1 DEF ToolInv, BridgeInv, QueueInv, T!IsInjective
  <1>3. \A c \in Calls : c \in T!ToSet(actions) <=> call[c] = "queued"
    <2>1. \A c \in Calls : c \in T!ToSet(actions) <=> \E i \in 1..Len(actions) : actions[i] = c
      BY <1>1 DEF T!ToSet
    <2> QED
      BY <2>1 DEF ToolInv, BridgeInv, QueueInv, Queued
  <1>4. crowd \in BOOLEAN /\ loop \in [Loops -> ALoop]
    BY DEF ToolInv, BridgeInv, LoopShape
  <1>5. /\ shared \in Clients \cup {None} /\ owner \in [Calls -> Clients \cup {None}]
        /\ client \in [Clients -> {"none", "launching", "half", "up", "crashed"}]
    BY DEF ToolInv, LocalInv, LocalShape
  <1> QED
    BY <1>1, <1>2, <1>3, <1>4, <1>5 DEF T!TypeOK, ToolTypes, ALoop

LEMMA ToolTypesInit == T!Init => ToolTypes
  <1> SUFFICES ASSUME T!Init PROVE ToolTypes
    OBVIOUS
  <1>1. losses \in 0..MaxLosses /\ ran \in [Calls -> 0..2]
    BY ChannelsAssumption DEF T!Init
  <1>2. {connected, leaving} \subseteq BOOLEAN
    BY Zenon DEF T!Init
  <1>3. \A c \in Calls : call[c] \in {"new"} \cup T!Waiting \cup T!Outcomes
    BY DEF T!Init
  <1> QED
    BY <1>1, <1>2, <1>3 DEF ToolTypes

LEMMA PanelTypesKeep == T!PanelTypeOK /\ (T!PanelNext \/ UNCHANGED panelVars) => T!PanelTypeOK'
  <1> SUFFICES ASSUME T!PanelTypeOK, T!PanelNext \/ UNCHANGED panelVars PROVE T!PanelTypeOK'
    OBVIOUS
  <1>0. MaxClears \in Nat
    BY ChannelsAssumption
  <1>1. ASSUME NEW s \in Sends, T!Send(s) PROVE T!PanelTypeOK'
    BY <1>1 DEF T!Send, T!PanelTypeOK
  <1>2. ASSUME NEW s \in Sends, T!Context(s) PROVE T!PanelTypeOK'
    <2>1. messages' \subseteq T!Said
      BY <1>2 DEF T!Context, T!PanelTypeOK, T!Said
    <2> QED
      BY <1>2, <2>1 DEF T!Context, T!PanelTypeOK
  <1>3. ASSUME NEW s \in Sends, T!Answer(s) PROVE T!PanelTypeOK'
    <2>1. messages' \subseteq T!Said /\ stored' \subseteq T!Said
      BY <1>3 DEF T!Answer, T!Stored, T!Final, T!PanelTypeOK, T!Said
    <2> QED
      BY <1>3, <2>1 DEF T!Answer, T!PanelTypeOK
  <1>4. CASE T!Clear
    BY <1>0, <1>4 DEF T!Clear, T!PanelTypeOK
  <1>5. CASE T!Switch
    BY <1>5 DEF T!Switch, T!PanelTypeOK
  <1>6. CASE UNCHANGED panelVars
    BY <1>6 DEF panelVars, T!PanelTypeOK
  <1> QED
    BY <1>1, <1>2, <1>3, <1>4, <1>5, <1>6 DEF T!PanelNext

LEMMA PanelTypesInit == T!PanelInit => T!PanelTypeOK
  <1> SUFFICES ASSUME T!PanelInit PROVE T!PanelTypeOK
    OBVIOUS
  <1>1. clears \in 0..MaxClears
    BY ChannelsAssumption DEF T!PanelInit
  <1>2. {streaming, overlapped} \subseteq BOOLEAN
    BY Zenon DEF T!PanelInit
  <1>3. /\ send \in [Sends -> {"new", "context", "streaming", "over"}]
        /\ base \in [Sends -> SUBSET T!Said] /\ messages \subseteq T!Said
        /\ stored \subseteq T!Said /\ tab \in Urls /\ lastPage \in Urls \cup {None}
    BY DEF T!PanelInit
  <1> QED
    BY <1>1, <1>2, <1>3 DEF T!PanelTypeOK
-----------------------------------------------------------------------------
(* The clients of models.                                                    *)
LEMMA WholeInLines ==
  ASSUME NEW f \in Nat, NEW to \in Nat, to <= 2 * Lines
  PROVE  O!WholeIn(f, to) \in Seq(1..Lines)
  <1> DEFINE b == (f + 1) \div 2
             k == to \div 2
  <1>1. /\ Lines \in Nat /\ b \in Nat /\ k \in Nat
        /\ (to % 2) \in {0, 1} /\ to = 2 * k + (to % 2)
    BY ChannelsAssumption
  <1>2. O!WholeIn(f, to) = [i \in 1..(k - b) |-> b + i]
    BY DEF O!WholeIn
  <1> HIDE DEF b, k
  <1>3. k <= Lines
    BY <1>1
  <1> DEFINE n == k - b
  <1>4. n \in Int /\ \A i \in 1..n : b + i \in 1..Lines
    BY <1>1, <1>3
  <1>5. O!WholeIn(f, to) = [i \in 1..n |-> b + i]
    BY <1>2
  <1> HIDE DEF n
  <1>6. CASE n \in Nat
    BY <1>4, <1>5, <1>6
  <1>7. CASE n \notin Nat
    <2>1. 1..n = {}
      BY <1>4, <1>7
    <2>2. O!WholeIn(f, to) = <<>>
      BY <1>5, <2>1
    <2>3. <<>> \in Seq(1..Lines)
      OBVIOUS
    <2> QED
      BY <2>2, <2>3
  <1> QED
    BY <1>6, <1>7

StreamTypes == sent \in 0..O!Halves /\ rest \in {0, 1}
               /\ heard \in Seq(1..Lines) /\ streamed \in Seq(1..Lines)

LEMMA StreamTypesKeep ==
    StreamInv /\ StreamTypes /\ (O!Next \/ UNCHANGED modelVars) => StreamTypes'
  <1> SUFFICES ASSUME StreamInv, StreamTypes, O!Next \/ UNCHANGED modelVars PROVE StreamTypes'
    OBVIOUS
  <1>0. Lines \in Nat /\ O!Halves = 2 * Lines
    BY ChannelsAssumption DEF O!Halves
  <1>1. CASE UNCHANGED <<sent, rest, heard, streamed>>
    BY <1>1 DEF StreamTypes
  <1>2. CASE O!Read
    <2>1. PICK to \in sent + 1..O!Halves :
             /\ sent' = to /\ rest' = O!HeldAfter(kind, to)
             /\ heard' = heard \o O!WholeIn(O!FirstUnparsed(kind), to)
             /\ streamed' = streamed \o O!WholeIn(O!FirstUnparsed(kind), to)
      BY <1>2 DEF O!Read
    <2>2. sent \in Nat /\ to \in Nat /\ to <= 2 * Lines /\ to \in 0..O!Halves
      BY <1>0, <2>1 DEF StreamTypes
    <2>3. O!FirstUnparsed(kind) \in Nat
      <3>1. CASE kind = "openai"
        <4>1. rest = (sent % 2)
          BY <1>2, <3>1 DEF StreamInv, Heard, O!Read
        <4>2. sent - (sent % 2) \in Nat
          BY <2>2
        <4> QED
          BY <3>1, <4>1, <4>2 DEF O!FirstUnparsed
      <3>2. CASE kind # "openai"
        BY <2>2, <3>2 DEF O!FirstUnparsed
      <3> QED
        BY <3>1, <3>2
    <2>4. O!WholeIn(O!FirstUnparsed(kind), to) \in Seq(1..Lines)
      BY <2>2, <2>3, WholeInLines
    <2>5. rest' \in {0, 1}
      BY <2>1, <2>2 DEF O!HeldAfter
    <2> QED
      BY <2>1, <2>2, <2>4, <2>5 DEF StreamTypes
  <1>3. CASE O!Breaks
    BY <1>0, <1>3 DEF O!Breaks, StreamTypes
  <1> QED
    BY <1>1, <1>2, <1>3
       DEF O!Next, O!Request, O!TimesOut, O!AttemptFails, O!Refused, O!HeadersCome, O!Ends,
           O!AbortAllInference, O!EmbedThrottle, O!EmbedGoes, O!Tick, O!requestVars,
           O!embedVars, modelVars

RequestTypes == /\ kind \in {"ollama", "openai", "embedding"} /\ ask \in O!Asks
          /\ body.think \in {"unset", "off", "on"} /\ body.tokens \in 1..3
          /\ attempt \in 1..MaxAttempts /\ aborted \in BOOLEAN
          /\ phase \in {"idle", "asking", "streaming", "answered", "failed"}

LEMMA AskedInit == O!Init => RequestTypes
  <1> SUFFICES ASSUME O!Init PROVE RequestTypes
    OBVIOUS
  <1>1. MaxAttempts \in Nat \ {0}
    BY ChannelsAssumption
  <1>2. ask \in O!Asks /\ ask.think \in {"unset", "off", "on"}
    BY DEF O!Init, O!Asks
  <1>3. body.think \in {"unset", "off", "on"} /\ body.tokens \in 1..3
    BY <1>2 DEF O!Init, O!RequestBody, O!Think, O!MaxTokens
  <1> QED
    <2>1. attempt \in 1..MaxAttempts
      BY <1>1 DEF O!Init
    <2>2. /\ kind \in {"ollama", "openai", "embedding"}
          /\ phase \in {"idle", "asking", "streaming", "answered", "failed"}
      BY DEF O!Init
    <2>3. aborted \in BOOLEAN
      BY Zenon DEF O!Init
    <2> QED
      BY <1>2, <1>3, <2>1, <2>2, <2>3 DEF RequestTypes

LEMMA AskedKeeps == RequestTypes /\ (O!Next \/ UNCHANGED modelVars) => RequestTypes'
  <1> SUFFICES ASSUME RequestTypes, O!Next \/ UNCHANGED modelVars PROVE RequestTypes'
    OBVIOUS
  <1>0. MaxAttempts \in Nat \ {0}
    BY ChannelsAssumption
  <1>1. UNCHANGED <<kind, ask, body>>
    BY DEF O!Next, O!Request, O!TimesOut, O!AttemptFails, O!Refused, O!HeadersCome, O!Read,
           O!Ends, O!Breaks, O!AbortAllInference, O!EmbedThrottle, O!EmbedGoes, O!Tick,
           O!requestVars, modelVars
  <1>2. attempt' = attempt \/ (attempt < MaxAttempts /\ attempt' = attempt + 1)
    BY DEF O!Next, O!Request, O!TimesOut, O!AttemptFails, O!Refused, O!HeadersCome, O!Read,
           O!Ends, O!Breaks, O!AbortAllInference, O!EmbedThrottle, O!EmbedGoes, O!Tick,
           O!requestVars, modelVars
  <1>4. attempt' \in 1..MaxAttempts
    BY <1>0, <1>2 DEF RequestTypes
  <1>5. aborted' = aborted \/ aborted' = TRUE
    BY Zenon DEF O!Next, O!Request, O!TimesOut, O!AttemptFails, O!Refused, O!HeadersCome, O!Read,
           O!Ends, O!Breaks, O!AbortAllInference, O!EmbedThrottle, O!EmbedGoes, O!Tick,
           O!requestVars, modelVars
  <1>6. aborted' \in BOOLEAN
    BY <1>5, Zenon DEF RequestTypes
  <1>3. phase' \in {"idle", "asking", "streaming", "answered", "failed"}
    BY DEF RequestTypes, O!Next, O!Request, O!TimesOut, O!AttemptFails, O!AfterFailedAttempt,
           O!Refused, O!HeadersCome, O!Read, O!Ends, O!Breaks, O!AfterBrokenStream,
           O!AbortAllInference, O!EmbedThrottle, O!EmbedGoes, O!Tick, O!requestVars, modelVars
  <1> QED
    BY <1>1, <1>3, <1>4, <1>6 DEF RequestTypes

EmbedTypes == /\ time \in 0..MaxTime /\ lastAt \in (0..MaxTime) \cup {None}
              /\ \A i \in 1..Len(fired) : fired[i].at <= MaxTime

LEMMA EmbedTypesKeep == Paced /\ EmbedTypes /\ (O!Next \/ UNCHANGED modelVars) => EmbedTypes'
  <1> SUFFICES ASSUME Paced, EmbedTypes, O!Next \/ UNCHANGED modelVars PROVE EmbedTypes'
    OBVIOUS
  <1>0. MaxTime \in Nat
    BY ChannelsAssumption
  <1>1. CASE UNCHANGED <<time, lastAt, fired>>
    BY <1>1 DEF EmbedTypes
  <1>2. CASE O!EmbedGoes
    <2>1. /\ fired' = Append(fired, [call |-> Head(waiting).call, at |-> time])
          /\ lastAt' = time /\ time' = time
      BY <1>2 DEF O!EmbedGoes
    <2>2. fired \in Seq([call : Embeds, at : Nat]) /\ time \in Nat /\ time <= MaxTime
      BY <1>0 DEF Paced, EmbedTypes
    <2>3. /\ Len(fired') = Len(fired) + 1 /\ fired'[Len(fired) + 1].at = time
          /\ \A i \in 1..Len(fired) : fired'[i] = fired[i]
      <3>1. Head(waiting).call \in Embeds
        <4>1. waiting # <<>> /\ waiting \in Seq([call : Embeds, due : Nat \cup {None}])
          BY <1>2 DEF O!EmbedGoes, Paced
        <4>2. Head(waiting) \in [call : Embeds, due : Nat \cup {None}]
          <5>1. 1 \in 1..Len(waiting) /\ Head(waiting) = waiting[1]
            BY <4>1, NotEmpty
          <5>2. \A i \in 1..Len(waiting) : waiting[i] \in [call : Embeds, due : Nat \cup {None}]
            BY <4>1, ElementOf
          <5> QED
            BY <5>1, <5>2
        <4> QED
          BY <4>2
      <3> QED
        BY <2>1, <2>2, <3>1
    <2>4. \A i \in 1..Len(fired') : fired'[i].at <= MaxTime
      <3> TAKE i \in 1..Len(fired')
      <3>1. Len(fired) \in Nat
        BY <2>2
      <3>2. CASE i = Len(fired) + 1
        BY <3>2, <2>2, <2>3
      <3>3. CASE i \in 1..Len(fired)
        BY <3>3, <2>3 DEF EmbedTypes
      <3> QED
        BY <3>1, <3>2, <3>3, <2>3
    <2> QED
      BY <2>1, <2>4 DEF EmbedTypes
  <1>3. CASE O!Tick
    BY <1>0, <1>3 DEF O!Tick, EmbedTypes
  <1> QED
    BY <1>1, <1>2, <1>3
       DEF O!Next, O!Request, O!TimesOut, O!AttemptFails, O!Refused, O!HeadersCome, O!Read,
           O!Ends, O!Breaks, O!AbortAllInference, O!EmbedThrottle, O!embedVars, modelVars

ModelTypes == StreamTypes /\ RequestTypes /\ EmbedTypes

LEMMA ModelTypesInit == O!Init => ModelTypes
  <1> SUFFICES ASSUME O!Init PROVE ModelTypes
    OBVIOUS
  <1>1. MaxTime \in Nat /\ Lines \in Nat
    BY ChannelsAssumption
  <1>2. fired = <<>> /\ 1..Len(<<>>) = {}
    BY DEF O!Init
  <1> QED
    BY <1>1, <1>2, AskedInit DEF O!Init, ModelTypes, StreamTypes, EmbedTypes, O!Halves

LEMMA ModelIsTyped == ModelInv /\ ModelTypes => O!TypeOK
  <1> SUFFICES ASSUME ModelInv, ModelTypes PROVE O!TypeOK
    OBVIOUS
  <1>1. \A i \in DOMAIN fired : fired[i].call \in Embeds /\ fired[i].at \in 0..MaxTime
    <2>1. DOMAIN fired = 1..Len(fired) /\ fired \in Seq([call : Embeds, at : Nat])
      BY DEF ModelInv, Paced
    <2>2. \A i \in 1..Len(fired) : fired[i] \in [call : Embeds, at : Nat]
      BY <2>1, ElementOf
    <2>3. \A i \in 1..Len(fired) : fired[i].at <= MaxTime
      BY DEF ModelTypes, EmbedTypes
    <2>4. MaxTime \in Nat
      BY ChannelsAssumption
    <2>5. \A i \in 1..Len(fired) : fired[i].call \in Embeds /\ fired[i].at \in Nat
      BY <2>2
    <2> QED
      BY <2>1, <2>3, <2>4, <2>5
  <1>2. \A i \in DOMAIN waiting : waiting[i].call \in Embeds
    <2>1. /\ DOMAIN waiting = 1..Len(waiting)
          /\ waiting \in Seq([call : Embeds, due : Nat \cup {None}])
      BY DEF ModelInv, Paced
    <2>2. \A i \in 1..Len(waiting) : waiting[i] \in [call : Embeds, due : Nat \cup {None}]
      BY <2>1, ElementOf
    <2> QED
      BY <2>1, <2>2
  <1> QED
    BY <1>1, <1>2 DEF ModelTypes, StreamTypes, RequestTypes, EmbedTypes, O!TypeOK
-----------------------------------------------------------------------------
(* All parts have their types.                                               *)
Sides == {"mail", "messenger", "web", "chat", "page", "tool", "panel", "model"}

AllTypes == /\ side \in Sides /\ MailTypes /\ typing \in BOOLEAN /\ outcome \in M!Outcomes
            /\ WebTypes /\ ChatTypes /\ PageTypes /\ AimTypes /\ ToolTypes /\ T!PanelTypeOK /\ ModelTypes

LEMMA AllTypesInit == AllInit => AllTypes
  <1> SUFFICES ASSUME AllInit PROVE AllTypes
    OBVIOUS
  <1>1. /\ Init /\ M!Init /\ M!WebInit /\ C!Init /\ P!Init /\ T!Init /\ T!PanelInit /\ O!Init
    BY DEF AllInit
  <1>2. MailTypes /\ typing \in BOOLEAN /\ outcome \in M!Outcomes /\ WebTypes
    BY <1>1, MailTypesInit, MessengerTypes, WebTypesInit
  <1>3. side \in Sides
    BY DEF AllInit, Sides
  <1> QED
    BY <1>1, <1>2, <1>3, ChatTypesInit, PageTypesInit, ToolTypesInit, PanelTypesInit, ModelTypesInit
       DEF AllTypes

LEMMA AllTypesKeep == AllInv /\ AllTypes /\ [AllNext]_all => AllTypes'
  <1> SUFFICES ASSUME AllInv, AllTypes, [AllNext]_all PROVE AllTypes'
    OBVIOUS
  <1>1. MailTypes' /\ typing' \in BOOLEAN /\ outcome' \in M!Outcomes
    BY PartsStep, MailTypesKeep, MessengerTypes DEF AllTypes
  <1>2. WebTypes'
    BY PartsStep, WebTypesKeep DEF AllTypes, AllInv, WebInv
  <1>3. ChatTypes' /\ PageTypes' /\ AimTypes' /\ T!PanelTypeOK'
    BY PartsStep, ChatTypesKeep, PageTypesKeep, AimTypesKeep, PanelTypesKeep DEF AllTypes
  <1>4. ToolTypes'
    BY PartsStep, ToolTypesKeep DEF AllTypes, AllInv, ToolInv, BridgeInv
  <1>5. StreamTypes'
    BY PartsStep, StreamTypesKeep DEF AllTypes, AllInv, ModelTypes
  <1>6. RequestTypes'
    BY PartsStep, AskedKeeps DEF AllTypes, ModelTypes
  <1>7. EmbedTypes'
    BY PartsStep, EmbedTypesKeep DEF AllTypes, AllInv, ModelTypes, ModelInv
  <1>8. side' \in Sides
    BY Zenon DEF AllTypes, AllNext, all, OfMail, OfMessenger, OfWeb, OfChat, OfPage, OfTool,
                 OfPanel, OfModel
  <1> QED
    BY <1>1, <1>2, <1>3, <1>4, <1>5, <1>6, <1>7, <1>8 DEF AllTypes, ModelTypes

LEMMA AllAreTyped == AllInv /\ AllTypes => AllTypeOK
  <1> SUFFICES ASSUME AllInv, AllTypes PROVE AllTypeOK
    OBVIOUS
  <1>1. TypeOK
    BY DEF AllTypes, MailTypes
  <1>2. M!TypeOK
    BY SentIsTyped DEF AllInv, AllTypes
  <1>3. M!WebTypeOK
    BY WebIsTyped DEF AllInv, AllTypes, WebInv
  <1>4. C!TypeOK
    BY DEF AllTypes, ChatTypes
  <1>5. P!TypeOK /\ T!TypeOK /\ T!PanelTypeOK /\ O!TypeOK
    BY PageIsTyped, ToolIsTyped, ModelIsTyped DEF AllInv, AllTypes
  <1>6. side \in Sides
    BY DEF AllTypes
  <1> QED
    BY <1>1, <1>2, <1>3, <1>4, <1>5, <1>6 DEF AllTypeOK, Sides

LEMMA TypedAlways == AllSpec => []AllTypes
  <1>1. AllTypes /\ AllInv /\ [AllNext]_all => AllTypes'
    BY AllTypesKeep
  <1> QED
    BY <1>1, AllTypesInit, AllAlways, PTL DEF AllSpec

(* Of the mailbox, the messengers and the clients of models: whatever the    *)
(* polls do, a mail that concerns the assistant stays unread until it is     *)
(* handled; however long an answer is, its pieces are all of it but blanks,  *)
(* in order, none longer than the service takes, and the buttons come last;  *)
(* however the network cuts a stream, what is heard is the lines that came,  *)
(* and none is shown twice.                                                  *)
THEOREM WordsArriveWhole == AllSpec => []ArrivesWhole
  BY AllAlways, AllIsTrue, PTL

(* Of the chat page, the browser tool and web requests: whatever runs side   *)
(* by side, crashes or comes late, an idle page has its answers, an action   *)
(* with an answer was run, once, in one browser, and who waits can still be  *)
(* answered.                                                                 *)
THEOREM AnswersAreOwn == AllSpec => []AnswersAreTrue
  BY AllAlways, AllIsTrue, PTL

(* Of the browser's pages, the side panel, New Chat, the voice mode, the     *)
(* typing indicator and the clients of models.                               *)
THEOREM DoneAsMeant == AllSpec => []AsMeant
  BY AllAlways, AllIsTrue, PTL

(* Every part keeps its types.                                               *)
THEOREM ChannelsTyped == AllSpec => []AllTypeOK
  BY AllAlways, TypedAlways, AllAreTyped, PTL

=============================================================================
