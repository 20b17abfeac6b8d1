------------------------------ MODULE Debouncers ------------------------------
(* services/media-debouncer.ts and services/message-debouncer.ts, in front   *)
(* of handleMessage: an album and a split paste of one sender are collected  *)
(* until nothing came for a while, and released as one message that passes   *)
(* through handleMessage again.                                              *)
(*                                                                           *)
(* The batches of one sender on one channel, whatever chat is written in.    *)
(* A text is "long" (it may be the head of a split), "plain", "tiny" (under  *)
(* five characters) or "none".                                               *)
EXTENDS Integers, Sequences

CONSTANT Messages

VARIABLES
    sent,       \* the messages that arrived, in order
    media,      \* the open batch of the media debouncer, a sequence of one
    text,       \* that of the message debouncer
    handled     \* what went on to the rate limiter, in order

vars == <<sent, media, text, handled>>

Sizes == {"long", "plain", "tiny", "none"}
Message == [id : Messages, size : Sizes, photo : BOOLEAN]
Item == [texts : Seq(Messages), photos : Seq(Messages),
         size : Sizes, debounced : BOOLEAN, textBatched : BOOLEAN]

TypeOK ==
    /\ sent \in Seq(Message) /\ handled \in Seq(Item)
    /\ media \in Seq(Item) /\ text \in Seq(Item)
    /\ Len(media) <= 1 /\ Len(text) <= 1

Init == sent = <<>> /\ media = <<>> /\ text = <<>> /\ handled = <<>>

AsItem(m) == [texts |-> IF m.size = "none" THEN <<>> ELSE <<m.id>>,
              photos |-> IF m.photo THEN <<m.id>> ELSE <<>>,
              size |-> m.size, debounced |-> FALSE, textBatched |-> FALSE]
-----------------------------------------------------------------------------
(* MediaDebouncer.tryBatch *)

IsMedia(x) ==
    ~x.debounced /\ x.photos # <<>> /\ x.size \in {"tiny", "none"}

(* The attachments are added to the batch; a later caption is dropped. *)
CollectMedia(x) ==
    media' = IF media = <<>> THEN <<x>>
             ELSE <<[media[1] EXCEPT !.photos = @ \o x.photos]>>

(* MessageDebouncer.tryBatch *)

(* A text joins the open batch whatever its length; a long one opens it. *)
IsText(x) == /\ ~x.textBatched /\ x.size # "none"
             /\ (text # <<>> \/ x.size = "long")

(* Mutant: a later part is put in front. *)
CollectTextFirst(x) ==
    text' = IF text = <<>> THEN <<x>>
            ELSE <<[text[1] EXCEPT !.texts = x.texts \o @]>>

(* The text is added to the batch; its attachments are dropped. *)
CollectText(x) ==
    text' = IF text = <<>> THEN <<x>>
            ELSE <<[text[1] EXCEPT !.texts = @ \o x.texts]>>

(* handleMessage up to the rate limiter. *)
Handle(x) ==
    \/ /\ IsMedia(x) /\ CollectMedia(x) /\ UNCHANGED <<text, handled>>
    \/ /\ ~IsMedia(x) /\ IsText(x) /\ CollectText(x)
       /\ UNCHANGED <<media, handled>>
    \/ /\ ~IsMedia(x) /\ ~IsText(x) /\ handled' = Append(handled, x)
       /\ UNCHANGED <<media, text>>

Receive(m) ==
    /\ \A i \in 1..Len(sent) : sent[i].id # m.id
    /\ m.size # "none" \/ m.photo
    /\ sent' = Append(sent, m)
    /\ Handle(AsItem(m))

(* Three seconds without another photo: the batch is released. *)
MediaFires ==
    /\ media # <<>>
    /\ LET x == [media[1] EXCEPT !.debounced = TRUE]
       IN IF IsMedia(x)
          THEN media' = <<x>> /\ UNCHANGED <<text, handled>>
          ELSE /\ media' = <<>>
               /\ \/ IsText(x) /\ CollectText(x) /\ UNCHANGED handled
                  \/ /\ ~IsText(x) /\ handled' = Append(handled, x)
                     /\ UNCHANGED text
    /\ UNCHANGED sent

(* 1.2 seconds without another text: the batch is released.  It is long and  *)
(* marked, so neither debouncer takes it again.                              *)
TextFires ==
    /\ text # <<>> /\ text' = <<>>
    /\ handled' = Append(handled, [text[1] EXCEPT !.textBatched = TRUE])
    /\ UNCHANGED <<sent, media>>

Next ==
    \/ \E m \in Message : Receive(m)
    \/ MediaFires \/ TextFires

Timers == MediaFires \/ TextFires
Spec == Init /\ [][Next]_vars /\ WF_vars(Timers)
-----------------------------------------------------------------------------
(* Properties *)

Real(n) == sent[n].size \in {"long", "plain"}

(* What a sender writes goes to the handler in the order it was written,     *)
(* each text once, across batches and within one; only a caption under five  *)
(* characters comes with its album, later, or not at all                     *)
(* (message-debouncer.ts:44, media-debouncer.ts:46).                         *)
TextsInOrder ==
    LET all == handled \o text
    IN /\ \A n \in 1..Len(sent) : Real(n) =>
              \E i \in 1..Len(all) : \E k \in 1..Len(all[i].texts) : all[i].texts[k] = sent[n].id
       /\ \A i, j \in 1..Len(all) :
             \A k \in 1..Len(all[i].texts), l \in 1..Len(all[j].texts) :
                 i < j \/ (i = j /\ k < l) =>
                     \A n, m \in 1..Len(sent) :
                         /\ Real(n) /\ all[i].texts[k] = sent[n].id
                         /\ Real(m) /\ all[j].texts[l] = sent[m].id
                         => n < m

(* A photo is in the album, on the first part of the paste or with the       *)
(* handler, once; it gets lost only with a text or caption that joined an    *)
(* open paste, whose attachments nobody looks at (message-debouncer.ts:44).  *)
PhotosKept ==
    LET all == handled \o text \o media
        joined == \E i \in 1..Len(all) : \E k \in 2..Len(all[i].texts) :
                      \E n \in 1..Len(sent) : all[i].texts[k] = sent[n].id /\ sent[n].photo
    IN /\ \A i, j \in 1..Len(all) :
             \A k \in 1..Len(all[i].photos), l \in 1..Len(all[j].photos) :
                 all[i].photos[k] = all[j].photos[l] => i = j /\ k = l
       /\ joined \/ \A n \in 1..Len(sent) : sent[n].photo =>
              \E i \in 1..Len(all) : \E k \in 1..Len(all[i].photos) : all[i].photos[k] = sent[n].id

(* A sender who stops writing sees every batch released and handled          *)
(* (media-debouncer.ts:32, "re-collected and re-fired forever").             *)
BatchesEnd == media # <<>> \/ text # <<>> ~> media = <<>> /\ text = <<>>
=============================================================================
