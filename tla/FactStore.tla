------------------------------ MODULE FactStore ------------------------------
(* The flat fact store of one person (memory/fact-store.ts): the index files *)
(* as the source of truth, facts.json as the view rebuilt from them, the     *)
(* write gate, forgetting, and the consolidation by a model                  *)
(* (memory/consolidation.ts).                                                *)
(*                                                                           *)
(* A text is a fact in one of its wordings: two wordings of one fact are     *)
(* "the same fact" to sameFact, and a text contained in another counts as    *)
(* the same wording.  Importance, the mirror, the raw files and the size     *)
(* bound of the view are left out.                                           *)
EXTENDS Integers, FiniteSets

CONSTANTS
    Known,         \* the facts there are
    Wordings,      \* the ways each can be put
    Writers,       \* callers that write a batch of facts: captures, !save
    Mergers,       \* callers that consolidate
    MaxEntries,    \* bound: entries ever written
    MaxForgets,    \* bound: forgets and automatic removals
    None

VARIABLES
    index,      \* the entries of the index files
    last,       \* the id of the newest entry
    view,       \* facts.json
    removals,   \* removed.jsonl
    batch,      \* [Callers -> what the caller is at, or None]
    stale,      \* history: entries written after the store changed under their gate
    misread,    \* history: entries the person confirmed while they were judged
    forgets

vars == <<index, last, view, removals, batch, stale, misread, forgets>>

Callers == Writers \cup Mergers
Texts == Known \X Wordings
Provenances == {"inferred", "observed", "stated"}
Entry == [id : 1..MaxEntries, text : Texts, prov : Provenances, old : BOOLEAN]
Removal == [reason : {"user_denied", "date_expired"}, refused : SUBSET Texts]

(* A writer between two facts has no text; one that waits for the embedder   *)
(* has, and fresh is history: nothing changed since its gate.  A             *)
(* consolidation holds the pair it asks the model about.                     *)
Batch == [text : Texts \cup {None}, prov : Provenances, fresh : BOOLEAN,
          pair : SUBSET Entry]
Between == [text |-> None, prov |-> "observed", fresh |-> TRUE, pair |-> {}]

TypeOK ==
    /\ index \subseteq Entry /\ view \subseteq Entry
    /\ last \in 0..MaxEntries /\ forgets \in 0..MaxForgets
    /\ \A e \in index : e.id <= last /\ \A f \in index : e.id = f.id => e = f
    /\ removals \subseteq Removal
    /\ \A w \in Callers : batch[w] # None => batch[w] \in Batch
    /\ stale \cup misread \subseteq 1..last

Init == /\ index = {} /\ last = 0 /\ view = {} /\ removals = {}
        /\ batch = [w \in Callers |-> None]
        /\ stale = {} /\ misread = {} /\ forgets = 0
-----------------------------------------------------------------------------
(* fact-similarity.ts *)

Same(t, u) == t[1] = u[1]
Rank(p) == CASE p = "stated" -> 3 [] p = "observed" -> 2 [] OTHER -> 1

(* The texts a removal record matches: those that contain the query, and the *)
(* rewordings of the texts it removed.                                       *)
Refused(query, texts) == query \cup {t \in Texts : \E u \in texts : Same(t, u)}

Suppressed(t) == \E r \in removals : t \in r.refused

TextsOf(entries) == {e.text : e \in entries}
Ids(entries) == {e.id : e \in entries}
Live(entries) == {e \in entries : ~e.old}

(* rebuildFacts: the first entry of each hash, unless expired. *)
Rebuilt(entries) ==
    {e \in Live(entries) : \A f \in entries : f.text = e.text => e.id <= f.id}

(* The entry or the removal just written is news to whoever waits. *)
Overtaken ==
    [w \in Callers |-> IF batch[w] # None /\ batch[w].text # None
                       THEN [batch[w] EXCEPT !.fresh = FALSE] ELSE batch[w]]
-----------------------------------------------------------------------------
(* writeFact *)

(* The hash is looked up among all entries, expired ones too; the person's   *)
(* own word is never refused for having been forgotten.                      *)
Passes(t, p, entries) ==
    t \notin TextsOf(entries) /\ (p = "stated" \/ ~Suppressed(t))

(* The newer wording replaces the older unless that has the stronger word. *)
Outranks(p, matches) == \A m \in matches : Rank(m.prov) <= Rank(p)

Appended(t, p, entries, matches) ==
    (entries \ matches)
        \cup {[id |-> last + 1, text |-> t, prov |-> p, old |-> FALSE]}

(* The person's word lifts the forgets it matches. *)
Lifted(t, p, entries) ==
    IF p = "stated" /\ t \notin TextsOf(entries)
    THEN {r \in removals : r.reason # "user_denied" \/ t \notin r.refused}
    ELSE removals

(* w writes t to the index, which is entries by now: it is refused, or       *)
(* appended in the place of what it rewords, or has to wait for the embedder. *)
Write(w, t, p, entries) ==
    LET matches == {e \in Live(entries) : Same(e.text, t)}
        passes == Passes(t, p, entries) /\ Outranks(p, matches)
    IN /\ removals' = Lifted(t, p, entries)
       /\ \/ /\ ~passes
             /\ index' = entries /\ batch' = [batch EXCEPT ![w] = Between]
             /\ UNCHANGED last
          \/ /\ passes /\ (matches # {} \/ Live(entries) = {})
             /\ last < MaxEntries /\ last' = last + 1
             /\ index' = Appended(t, p, entries, matches)
             /\ batch' = [Overtaken EXCEPT ![w] = Between]
          \/ /\ passes /\ matches = {} /\ Live(entries) # {}
             /\ last < MaxEntries /\ index' = entries
             /\ batch' = [batch EXCEPT ![w] = [Between EXCEPT !.text = t, !.prov = p]]
             /\ UNCHANGED last

(* A capture, a !save or a compaction writes its facts one by one ... *)
WriteNext(w) ==
    /\ batch[w] \in {None, Between}
    /\ \E t \in Texts, p \in {"observed", "stated"} : Write(w, t, p, index)
    /\ UNCHANGED <<view, stale, misread, forgets>>

(* The embedder finds a paraphrase, or it finds none, or it fails. *)
Embedded(w) ==
    /\ batch[w] # None /\ batch[w].text # None
    /\ \/ batch' = [batch EXCEPT ![w] = Between] /\ UNCHANGED <<index, last, stale>>
       \/ /\ last < MaxEntries /\ last' = last + 1
          /\ index' = Appended(batch[w].text, batch[w].prov, index, {})
          /\ stale' = IF batch[w].fresh THEN stale ELSE stale \cup {last + 1}
          /\ batch' = [Overtaken EXCEPT ![w] = Between]
    /\ UNCHANGED <<view, removals, misread, forgets>>

(* ... and ends with a rebuild. *)
Finish(w) ==
    /\ batch[w] = Between /\ view' = Rebuilt(index)
    /\ batch' = [batch EXCEPT ![w] = None]
    /\ UNCHANGED <<index, last, removals, stale, misread, forgets>>
-----------------------------------------------------------------------------
(* consolidation.ts, one pair of a run *)

(* Mutant: the model may rewrite what the person said. *)
MayJudgeAny(pair) == Cardinality(pair) = 2

MayJudge(pair) == Cardinality(pair) = 2 /\ \A e \in pair : e.prov # "stated"

Consolidate(w) ==
    /\ batch[w] = None /\ view' = Rebuilt(index)
    /\ \E pair \in SUBSET view' :
          /\ MayJudge(pair)
          /\ batch' = [batch EXCEPT ![w] = [Between EXCEPT !.pair = pair]]
    /\ UNCHANGED <<index, last, removals, stale, misread, forgets>>

(* The entries confirmed since the pair was read (history). *)
Confirmed(pair, gone) ==
    {e.id : e \in {f \in gone : /\ f.prov = "stated"
                               /\ \E d \in pair : d.id = f.id /\ d.prov # "stated"}}

(* KEEP_SEPARATE, REPLACE or MERGE: what is removed is removed by its id,    *)
(* whatever became of the entry meanwhile.                                   *)
Judged(w) ==
    /\ batch[w] # None /\ batch[w].pair # {}
    /\ \/ batch' = [batch EXCEPT ![w] = None]
          /\ UNCHANGED <<index, last, view, removals, misread>>
       \/ \E d \in batch[w].pair :
             LET gone == {e \in index : e.id = d.id}
             IN /\ index' = index \ gone /\ view' = Rebuilt(index')
                /\ misread' = misread \cup Confirmed(batch[w].pair, gone)
                /\ batch' = [batch EXCEPT ![w] = None]
                /\ UNCHANGED <<last, removals>>
       \/ LET gone == {e \in index : e.id \in Ids(batch[w].pair)}
          IN /\ \E t \in Texts : Write(w, t, "inferred", index \ gone)
             /\ misread' = misread \cup Confirmed(batch[w].pair, gone)
             /\ UNCHANGED view
    /\ UNCHANGED <<stale, forgets>>
-----------------------------------------------------------------------------
(* What is done in one go *)

Denial(query, hit) ==
    [reason |-> "user_denied", refused |-> Refused(query, TextsOf(hit))]

(* !forget and memory_forget: the query is in some wordings of a fact. *)
Forget ==
    /\ forgets < MaxForgets /\ forgets' = forgets + 1
    /\ \E k \in Known : \E query \in (SUBSET ({k} \X Wordings)) \ {{}} :
          LET hit == {e \in index : e.text \in query}
          IN /\ index' = index \ hit
             /\ view' = IF hit = {} THEN view ELSE Rebuilt(index')
             /\ removals' = removals \cup {Denial(query, hit)}
    /\ batch' = Overtaken
    /\ UNCHANGED <<last, stale, misread>>

(* expireStaleDateFacts: whatever shares its first 40 characters goes too. *)
DateExpires ==
    /\ forgets < MaxForgets /\ forgets' = forgets + 1
    /\ \E e \in Live(view) : \E like \in SUBSET ({e.text[1]} \X Wordings) :
          /\ e.text \in like
          /\ index' = {f \in index : f.text \notin like}
          /\ view' = IF index' = index THEN view ELSE Rebuilt(index')
          /\ removals' = removals \cup
                {[reason |-> "date_expired", refused |-> Refused({}, {e.text})]}
    /\ batch' = Overtaken
    /\ UNCHANGED <<last, stale, misread>>

(* Thirty days later the automatic removal is forgotten itself. *)
Lapse ==
    /\ \E r \in removals : /\ r.reason = "date_expired"
                           /\ removals' = removals \ {r}
    /\ UNCHANGED <<index, last, view, batch, stale, misread, forgets>>

(* The time of an entry is up: it stays in the index. *)
Expire ==
    /\ \E e \in Live(index) :
          index' = (index \ {e}) \cup {[e EXCEPT !.old = TRUE]}
    /\ UNCHANGED <<last, view, removals, batch, stale, misread, forgets>>

(* setProvenanceByText, for !save; texts of one fact at a time.              *)
Promote ==
    /\ \E k \in Known : \E texts \in SUBSET ({k} \X Wordings) :
          /\ \E e \in index : e.text \in texts /\ e.prov # "stated"
          /\ index' = {IF e.text \in texts THEN [e EXCEPT !.prov = "stated"] ELSE e
                          : e \in index}
    /\ view' = Rebuilt(index')
    /\ UNCHANGED <<last, removals, batch, stale, misread, forgets>>

Beats(e, f) == \/ Rank(e.prov) > Rank(f.prov)
               \/ e.prov = f.prov /\ e.id > f.id

(* compactDuplicates *)
Compact ==
    /\ index' = {f \in index : f.old \/ ~\E e \in Live(index) :
                     e # f /\ Same(e.text, f.text) /\ Beats(e, f)}
    /\ index' # index /\ view' = Rebuilt(index')
    /\ UNCHANGED <<last, removals, batch, stale, misread, forgets>>

Next ==
    \/ \E w \in Writers : WriteNext(w)
    \/ \E w \in Callers : Embedded(w) \/ Finish(w)
    \/ \E w \in Mergers : Consolidate(w) \/ Judged(w)
    \/ Forget \/ DateExpires \/ Lapse \/ Expire \/ Promote \/ Compact

Spec == Init /\ [][Next]_vars
-----------------------------------------------------------------------------
(* Properties *)

Denied(t) == \E r \in removals : r.reason = "user_denied" /\ t \in r.refused
New(e) == e.id > last

(* A forgotten fact does not come back, in the same words or in others, but  *)
(* by a write that had passed the gate when it was forgotten and waited for  *)
(* the embedder since (fact-store.ts:98).                                    *)
ForgottenStaysGone ==
    [][\A e \in index' : New(e) /\ Denied(e.text)' => e.id \in stale']_vars

(* What the person said in so many words stays, in the newest way they put   *)
(* it, until they forget it or its date passes; but for a fact they          *)
(* confirmed while the model judged it (fact-store.ts:113,                   *)
(* consolidation.ts:213).                                                    *)
StatedIsKept ==
    [][\A e \in index : e.prov = "stated" =>
          \/ \E f \in index' : f.prov = "stated" /\ Same(e.text, f.text)
          \/ \E r \in removals' : e.text \in r.refused
          \/ e.id \in misread']_vars

(* A fact is held once: two live wordings of it mean that one was written    *)
(* while another write or a removal overtook it (fact-store.ts:119).         *)
HeldOnce ==
    \A e, f \in Live(index) :
        Same(e.text, f.text) /\ e # f => {e.id, f.id} \cap stale # {}

(* Between batches the view is what a rebuild would give, but for entries    *)
(* that expired since (fact-store.ts:253).                                   *)
ViewIsIndex ==
    (\A w \in Callers : batch[w] = None) =>
        /\ Rebuilt(index) \subseteq view
        /\ \A e \in view : e \in index \/ [e EXCEPT !.old = TRUE] \in index
=============================================================================
