-------------------------------- MODULE Vault --------------------------------
(***************************************************************************)
(* The document vault (src/src/knowledge/vault.ts, src/src/tools/docs.ts,  *)
(* the vault part of src/src/memory/embeddings.ts): files the owner edits, *)
(* and an index of their chunks that a reindex brings up to date.  The     *)
(* heartbeat reindexes, and so does every docs_store of every loop, so     *)
(* reindexes overlap; and each stops at the reading of a file and at its   *)
(* embedding.                                                              *)
(*                                                                         *)
(* Abstractions.  A text stands for its hash and for its chunks; "blank"   *)
(* is a text without chunks.  An edit gives a file a new time.             *)
(***************************************************************************)
EXTENDS Integers, FiniteSets

CONSTANTS
  Paths,          \* files of the vault
  Texts,          \* texts with chunks
  Runs,           \* reindexes that may overlap
  MaxTime,        \* bound: changes to the files
  None

VARIABLES file,      \* path -> [text, at], or None
          row,       \* doc_files: path -> [at, text], or None
          chunks,    \* path -> the text its chunks are of, "part", or None
          run,       \* reindex -> its progress
          now,
          disturbed  \* ghost: paths whose writing a crash cut short for good (see
                     \* Read and Crash)

vaultVars == <<file, row, chunks, run, now, disturbed>>

Idle == [step |-> "idle", left |-> {}, seen |-> {}, path |-> None, at |-> 0,
         saw |-> None, text |-> None]

Init ==
  /\ file = [p \in Paths |-> None]
  /\ row = [p \in Paths |-> None]
  /\ chunks = [p \in Paths |-> None]
  /\ run = [r \in Runs |-> Idle]
  /\ now = 0 /\ disturbed = {}

-----------------------------------------------------------------------------
(* The owner, in any editor; docs_store writes a new file the same way.    *)

Edit(p, t) ==
  /\ now < MaxTime
  /\ now' = now + 1
  /\ file' = [file EXCEPT ![p] = [text |-> t, at |-> now']]
  /\ UNCHANGED <<row, chunks, run, disturbed>>

Touch(p) == file[p] # None /\ Edit(p, file[p].text)

RemoveFile(p) ==
  /\ now < MaxTime /\ file[p] # None
  /\ now' = now + 1
  /\ file' = [file EXCEPT ![p] = None]
  /\ UNCHANGED <<row, chunks, run, disturbed>>

-----------------------------------------------------------------------------
(* One reindex.                                                            *)

\* The walk reads the directories when it gets to them: taken as one look.
Begin(r) ==
  /\ run[r].step = "idle"
  /\ LET there == {p \in Paths : file[p] # None} IN
     run' = [run EXCEPT ![r] = [Idle EXCEPT !.step = "walking", !.left = there,
                                            !.seen = there]]
  /\ UNCHANGED <<file, row, chunks, now, disturbed>>

Unchanged(p) == row[p] # None /\ row[p].at = file[p].at

\* A file whose time the index has is left; of any other the time is kept, the
\* row remembered, and its text read.  A file gone since ends the reindex: stat
\* throws.
Visit(r, p) ==
  /\ run[r].step = "walking" /\ p \in run[r].left
  /\ LET passed == [run[r] EXCEPT !.left = @ \ {p}] IN
     run' = [run EXCEPT ![r] =
       CASE file[p] = None -> Idle
         [] file[p] # None /\ Unchanged(p) -> passed
         [] OTHER -> [passed EXCEPT !.step = "reading", !.path = p, !.at = file[p].at,
                                    !.saw = row[p]]]
  /\ UNCHANGED <<file, row, chunks, now, disturbed>>

\* The text is read; the same text as the row's only has its time refreshed (and
\* torn chunks stay), a blank one is passed over.  One that cannot be read is passed over too.
TimeOfNow(r) == IF file[run[r].path] = None THEN 0 ELSE file[run[r].path].at  \* a bug
TimeOf(r) == run[r].at

SameAsRow(r) ==
  run[r].saw # None /\ run[r].saw.text = file[run[r].path].text

Read(r) ==
  LET p == run[r].path
      back == [run[r] EXCEPT !.step = "walking"] IN
  /\ run[r].step = "reading"
  /\ IF file[p] # None /\ SameAsRow(r)
       THEN /\ row' = [row EXCEPT ![p] = [at |-> TimeOf(r), text |-> file[p].text]]
            /\ disturbed' = IF chunks[p] = file[p].text THEN disturbed
                            ELSE disturbed \union {p}
            /\ run' = [run EXCEPT ![r] = back]
       ELSE /\ run' = [run EXCEPT ![r] =
                 IF file[p] = None \/ file[p].text = "blank" THEN back
                 ELSE [run[r] EXCEPT !.step = "embedding", !.text = file[p].text]]
            /\ UNCHANGED <<row, disturbed>>
  /\ UNCHANGED <<file, chunks, now>>

\* The vectors are here: the old chunks go, the new ones are added one by one,
\* then the row is written.  Nothing else runs between, only a crash.
ClearChunks(r) ==
  /\ run[r].step = "embedding"
  /\ chunks' = [chunks EXCEPT ![run[r].path] = None]
  /\ run' = [run EXCEPT ![r].step = "adding"]
  /\ UNCHANGED <<file, row, now, disturbed>>

AddSome(r) ==
  /\ run[r].step = "adding"
  /\ chunks' = [chunks EXCEPT ![run[r].path] = "part"]
  /\ run' = [run EXCEPT ![r].step = "added"]
  /\ UNCHANGED <<file, row, now, disturbed>>

AddRest(r) ==
  /\ run[r].step = "added"
  /\ chunks' = [chunks EXCEPT ![run[r].path] = run[r].text]
  /\ run' = [run EXCEPT ![r].step = "recording"]
  /\ UNCHANGED <<file, row, now, disturbed>>

UpsertDocFile(r) ==
  /\ run[r].step = "recording"
  /\ row' = [row EXCEPT ![run[r].path] = [at |-> TimeOf(r), text |-> run[r].text]]
  /\ run' = [run EXCEPT ![r].step = "walking"]
  /\ UNCHANGED <<file, chunks, now, disturbed>>

\* The embedder fails: the reindex ends, whatever it had left.
EmbedFails(r) ==
  /\ now < MaxTime         \* bound: the embedder is back once the owner stops
  /\ run[r].step = "embedding"
  /\ run' = [run EXCEPT ![r] = Idle]
  /\ UNCHANGED <<file, row, chunks, now, disturbed>>

\* After the walk the files it did not see leave the index, chunks first.
Gone(r) == {p \in Paths : row[p] # None /\ p \notin run[r].seen}

Purge(r) ==
  /\ run[r].step = "walking" /\ run[r].left = {}
  /\ chunks' = [p \in Paths |-> IF p \in Gone(r) THEN None ELSE chunks[p]]
  /\ row' = [p \in Paths |-> IF p \in Gone(r) THEN None ELSE row[p]]
  /\ run' = [run EXCEPT ![r] = Idle]
  /\ UNCHANGED <<file, now, disturbed>>

Writing == {"adding", "added", "recording"}

\* A crash ends every reindex where it is; the files and the index stay.  The row
\* this reindex saw is not of the file's time, and a later one writes the chunks
\* anew; the row another reindex wrote meanwhile may be.
Crash ==
  /\ now < MaxTime         \* bound: no more crashes once the owner stops
  /\ \E r \in Runs : run[r].step # "idle"
  /\ run' = [r \in Runs |-> Idle]
  /\ disturbed' = disturbed \union
       {run[r].path : r \in {q \in Runs : run[q].step \in Writing
                                            /\ row[run[q].path] \notin {None, run[q].saw}}}
  /\ UNCHANGED <<file, row, chunks, now>>

\* The writes of one file follow each other without a pause.
Step(r) ==
  \/ Begin(r) \/ \E p \in Paths : Visit(r, p)
  \/ Read(r) \/ ClearChunks(r) \/ EmbedFails(r) \/ Purge(r)

Write(r) == AddSome(r) \/ AddRest(r) \/ UpsertDocFile(r)

Owner ==
  \E p \in Paths :
    (\E t \in Texts \union {"blank"} : Edit(p, t)) \/ Touch(p) \/ RemoveFile(p)

NobodyWrites == \A r \in Runs : run[r].step \notin Writing

Next ==
  \/ NobodyWrites /\ Owner
  \/ NobodyWrites /\ \E r \in Runs : Step(r)
  \/ \E r \in Runs : Write(r)
  \/ Crash

Spec == Init /\ [][Next]_vaultVars

-----------------------------------------------------------------------------

TypeOK ==
  /\ \A p \in Paths :
       /\ file[p] = None \/ (file[p].text \in Texts \union {"blank"} /\ file[p].at \in 1..MaxTime)
       /\ row[p] = None \/ (row[p].text \in Texts /\ row[p].at \in 1..MaxTime)
       /\ chunks[p] \in Texts \union {"part", None}
  /\ \A r \in Runs : run[r].step \in {"idle", "walking", "reading", "embedding"} \union Writing
  /\ now \in 0..MaxTime /\ disturbed \subseteq Paths

\* A file whose time the index has, and which every later reindex will therefore
\* pass over, is served as it is: the chunks are of its text.  Across edits during
\* a reindex, crashes between the writes, and overlapping reindexes, unless a crash
\* cut a writing short, and the owner then put the old text back or another reindex
\* had written the row meanwhile (vault.ts, reindexVault: mtime taken before the
\* text, the row written last).
PassedOverIsCurrent ==
  \A p \in Paths \ disturbed :
    NobodyWrites /\ file[p] # None /\ Unchanged(p) => chunks[p] = file[p].text

=============================================================================
