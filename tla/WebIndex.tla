------------------------------ MODULE WebIndex -------------------------------
(***************************************************************************)
(* The personal web index (src/src/webindex/service.ts, the memory store's *)
(* chunk rows in src/src/memory/embeddings.ts, and the lookup of           *)
(* src/src/tools/local-search.ts): one feed whose items are pages, and one *)
(* page seed, fetched cycle by cycle into a table of documents; vectors    *)
(* come after, now or when the embedder answers again.                     *)
(*                                                                         *)
(* Abstractions.  A page's text is its version; a feed is the set of its   *)
(* items, and its etag the number of items, for items are only added.      *)
(* Politeness and the reading of robots.txt are left out: a disallowed     *)
(* page is one whose fetch yields nothing.                                 *)
(***************************************************************************)
EXTENDS Integers, FiniteSets, FiniteSetsExt

CONSTANTS
  Items,          \* pages of the feed, numbers: published in this order
  Seed,           \* the page seed
  PerCycle,       \* item pages fetched per feed and cycle
  MaxVersion,     \* bound: versions of a page
  MaxTrouble,     \* bound: failed fetches, failed embeddings, crashes
  None

Pages == Items \union {Seed}

VARIABLES published,   \* items in the feed
          version,     \* what each page says now
          etag,        \* the feeds row, or None
          docs,        \* url -> [hash, status], or None
          vectors,     \* url -> the version its chunks are of, or None
          step, todo, page, pending,
          trouble,     \* bound
          left         \* ghost: items a cycle passed by, with a reason

indexVars == <<published, version, etag, docs, vectors, step, todo, page,
               pending, trouble, left>>

Init ==
  /\ published = {} /\ version = [p \in Pages |-> 1]
  /\ etag = None
  /\ docs = [p \in Pages |-> None] /\ vectors = [p \in Pages |-> None]
  /\ step = "idle" /\ todo = {} /\ page = None /\ pending = {}
  /\ trouble = 0 /\ left = {}

web == <<published, version>>

-----------------------------------------------------------------------------
(* The sites.                                                              *)

Publish ==
  /\ Items \ published # {}
  /\ published' = published \union {Min(Items \ published)}
  /\ UNCHANGED <<version, etag, docs, vectors, step, todo, page, pending, trouble, left>>

Change(p) ==
  /\ version[p] < MaxVersion
  /\ version' = [version EXCEPT ![p] = @ + 1]
  /\ UNCHANGED <<published, etag, docs, vectors, step, todo, page, pending, trouble, left>>

-----------------------------------------------------------------------------
(* A cycle: pending documents first, then the feed, then the page seed.    *)

Pending == {p \in Pages : docs[p] # None /\ docs[p].status = "pending"}

\* A cycle that finds one running is skipped.
Refresh ==
  /\ step = "idle"
  /\ step' = "backfill" /\ pending' = Pending
  /\ UNCHANGED <<web, etag, docs, vectors, todo, page, trouble, left>>

\* Embedding begins by deleting the document's chunks.
Cleared(p) == [vectors EXCEPT ![p] = None]

Backfill(p) ==
  /\ step = "backfill" /\ p \in pending
  /\ pending' = pending \ {p}
  /\ vectors' = Cleared(p)
  /\ page' = p /\ step' = "backfilling"
  /\ UNCHANGED <<web, etag, docs, todo, trouble, left>>

\* Rounds go on while one of a round's documents got its vectors.
BackfillEnds ==
  /\ step = "backfill" /\ pending = {}
  /\ step' = "feed"
  /\ UNCHANGED <<web, etag, docs, vectors, todo, page, pending, trouble, left>>

\* The feed: unchanged since the stored etag, a 304.  The new etag is stored
\* before the items are looked at; of the unknown ones so many are taken.
Unknown == {i \in published : docs[i] = None}
Taken(new) == {i \in new : Cardinality({j \in new : j < i}) < PerCycle}

NotModified == etag # None /\ etag = Cardinality(published)

IngestFeed ==
  /\ step = "feed"
  /\ etag' = Cardinality(published)
  /\ todo' = IF NotModified THEN {} ELSE Taken(Unknown)
  /\ left' = IF NotModified THEN left
             ELSE left \union (IF Cardinality(Unknown) > PerCycle
                                 THEN Unknown \ todo' ELSE {})
  /\ step' = "items"
  /\ UNCHANGED <<web, docs, vectors, page, pending, trouble>>

\* No answer leaves the row; an error answer has no etag to store.
FeedFails ==
  /\ step = "feed" /\ trouble < MaxTrouble
  /\ trouble' = trouble + 1
  /\ etag' \in {etag, None}
  /\ step' = "seed"
  /\ UNCHANGED <<web, docs, vectors, todo, page, pending, left>>

ItemsEnd ==
  /\ step = "items" /\ todo = {}
  /\ step' = "seed"
  /\ UNCHANGED <<web, etag, docs, vectors, todo, page, pending, trouble, left>>

\* A page is fetched: one known with this text is left; any other is stored as
\* pending, and its old chunks go before the embedder is asked.
Stored(p) == [docs EXCEPT ![p] = [hash |-> version[p], status |-> "pending"]]

Same(p) == docs[p] # None /\ docs[p].hash = version[p]

AfterPage == IF step = "items" THEN "items" ELSE "end"

Ingest(p) ==
  /\ \/ step = "items" /\ p \in todo
     \/ step = "seed" /\ p = Seed
  /\ todo' = todo \ {p}
  /\ IF Same(p)
       THEN /\ step' = AfterPage
            /\ UNCHANGED <<docs, vectors, page>>
       ELSE /\ docs' = Stored(p)
            /\ vectors' = Cleared(p)
            /\ page' = p
            /\ step' = IF step = "items" THEN "embed_item" ELSE "embed_seed"
  /\ UNCHANGED <<web, etag, pending, trouble, left>>

\* A fetch that fails, a disallowed page, or too little text: nothing is stored.
FetchFails(p) ==
  /\ trouble < MaxTrouble
  /\ \/ step = "items" /\ p \in todo
     \/ step = "seed" /\ p = Seed
  /\ trouble' = trouble + 1
  /\ todo' = todo \ {p}
  /\ left' = IF docs[p] = None THEN left \union {p} ELSE left
  /\ step' = AfterPage
  /\ UNCHANGED <<web, etag, docs, vectors, page, pending>>

Embedding == {"backfilling", "embed_item", "embed_seed"}

AfterEmbed ==
  CASE step = "backfilling" -> "backfill"
    [] step = "embed_item"  -> "items"
    [] step = "embed_seed"  -> "end"

\* The embedder answers: the chunks and the status.
EmbedDoc ==
  /\ step \in Embedding
  /\ vectors' = [vectors EXCEPT ![page] = docs[page].hash]
  /\ docs' = [docs EXCEPT ![page].status = "embedded"]
  /\ step' = AfterEmbed
  /\ UNCHANGED <<web, etag, todo, page, pending, trouble, left>>

\* It fails: the document stays pending.
StatusAfterFailure == docs[page].status

EmbedFails ==
  /\ step \in Embedding /\ trouble < MaxTrouble
  /\ trouble' = trouble + 1
  /\ docs' = [docs EXCEPT ![page].status = StatusAfterFailure]
  /\ step' = AfterEmbed
  /\ UNCHANGED <<web, etag, vectors, todo, page, pending, left>>

CycleEnds ==
  /\ step = "end"
  /\ step' = "idle" /\ page' = None
  /\ UNCHANGED <<web, etag, docs, vectors, todo, pending, trouble, left>>

\* A crash ends the cycle; the tables stay.
Crash ==
  /\ step # "idle" /\ trouble < MaxTrouble
  /\ trouble' = trouble + 1
  /\ step' = "idle" /\ page' = None /\ pending' = {}
  /\ todo' = {} /\ left' = left \union todo
  /\ UNCHANGED <<web, etag, docs, vectors>>

Cycle ==
  \/ Refresh \/ BackfillEnds \/ IngestFeed \/ ItemsEnd \/ EmbedDoc \/ CycleEnds
  \/ \E p \in Pages : Backfill(p) \/ Ingest(p)

Next ==
  \/ Publish \/ \E p \in Pages : Change(p)
  \/ Cycle
  \/ FeedFails \/ EmbedFails \/ Crash
  \/ \E p \in Pages : FetchFails(p)

Spec == Init /\ [][Next]_indexVars

-----------------------------------------------------------------------------

Embedded(p) == docs[p] # None /\ docs[p].status = "embedded"

TypeOK ==
  /\ published \subseteq Items /\ version \in [Pages -> 1..MaxVersion]
  /\ etag \in (0..Cardinality(Items)) \union {None}
  /\ \A p \in Pages :
       /\ docs[p] = None \/ (docs[p].hash \in 1..MaxVersion
                             /\ docs[p].status \in {"pending", "embedded"})
       /\ vectors[p] \in (1..MaxVersion) \union {None}
  /\ step \in {"idle", "backfill", "feed", "items", "seed", "end"} \union Embedding
  /\ todo \subseteq Items /\ pending \subseteq Pages /\ page \in Pages \union {None}
  /\ trouble \in 0..MaxTrouble /\ left \subseteq Pages

\* A search that finds a document finds the text it stands for: chunks are of the
\* stored version, and a document called embedded has them, across failures of the
\* embedder, crashes and new versions (service.ts, ingestPage and embedDoc).
FoundAsStored ==
  \A p \in Pages :
    /\ vectors[p] # None => docs[p] # None /\ vectors[p] = docs[p].hash
    /\ Embedded(p) => vectors[p] = docs[p].hash

\* An item the index has never stored is missing for a reason: the cycle had its
\* fill of others, its page could not be had, or a crash came (service.ts,
\* ingestFeed).
MissingForAReason ==
  step \notin {"items", "embed_item"} /\ etag = Cardinality(published) =>
    \A i \in published : docs[i] = None => i \in left

=============================================================================
