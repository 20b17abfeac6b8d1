------------------------------ MODULE MemoryProofs ------------------------------
(* What is remembered is kept as it is meant, for every value of the         *)
(* constants: the memory of a session, as long as no reset cuts into running *)
(* work; the flat store of facts; the graph; the capture of facts with its   *)
(* review; and at the end all of them, as MCMemory runs them.  Each part has *)
(* its inductive invariant, one lemma per action, and what they say together.*)
EXTENDS MCMemory, FiniteSetTheorems, WellFoundedInduction, TLAPS

-----------------------------------------------------------------------------
(* The memory of a session.  (session/)                                      *)

First(turns, n) == {turns[k] : k \in 1..n}
PrefixOf(s, t) == Len(s) <= Len(t) /\ \A k \in 1..Len(s) : s[k] = t[k]

(* A summary of a transcript t covers a beginning of it. *)
Covers(sum, t) == sum.covers <= Len(t) /\ sum.text = First(t, sum.covers)
SummaryOver(sum, t) == sum # None => Covers(sum, t)

(* A compaction under way read a beginning of the transcript, and a summary  *)
(* that covered less of it than it will: exchanges are only ever appended.   *)
JobOver(job, t) ==
    /\ PrefixOf(job.turns, t)
    /\ Covered(job.summary) < RecentStart(job.turns)
    /\ SummaryOver(job.summary, job.turns)

(* What a dispatch holds. *)
RunOver(r, t) ==
    /\ r.pc = "compacting" => JobOver(r.job, t)
    /\ r.pc \in {"classified", "answering"} /\ r.seen.whole
          => r.seen.shown = Elements(r.past)

EntryOver(c, t) ==
    /\ c.count <= Len(t)
    /\ c.messages.whole => c.messages.shown = First(t, c.count)

(* Nothing happened since the session began.                                 *)
Untouched == transcript = <<>> /\ ~InFlight

(* The reset of the console leaves the cache entry of the session before it. *)
(* The next session never takes it: its count is not that of an empty        *)
(* transcript, and the first dispatch replaces it.                           *)
CacheExact ==
    cache # None => \/ EntryOver(cache, transcript)
                    \/ Untouched /\ cache.count # 0

Exact ==
    ~dirty => /\ \A d \in Dispatches : RunOver(run[d], transcript)
              /\ prewarm # None => JobOver(prewarm, transcript)
              /\ SummaryOver(summary, transcript)
              /\ CacheExact

(* Every part of what is in flight is of the session that runs. *)
StateOf(s, n) == s # None => s.from = {n}
RunOf(r, n) == /\ r # Idle => r.of = n
               /\ r.pc = "answering" => StateOf(r.state, n)
Current ==
    ~dirty => /\ StateOf(state, session)
              /\ \A d \in Dispatches : RunOf(run[d], session)
              /\ extraction # None =>
                    extraction.of = session /\ extraction.state.from = {session}

IInv == TypeOK /\ Exact /\ Current

USE MemoryAssumption
-----------------------------------------------------------------------------
(* Transcripts and their beginnings *)

LEMMA FirstGrows ==
  ASSUME NEW S, NEW t \in Seq(S), NEW e \in S, NEW n \in Nat, n <= Len(t)
  PROVE  First(Append(t, e), n) = First(t, n)
  <1>1. \A k \in 1..n : Append(t, e)[k] = t[k]
    OBVIOUS
  <1> QED
    BY <1>1 DEF First

LEMMA PrefixGrows ==
  ASSUME NEW S, NEW s \in Seq(S), NEW t \in Seq(S), NEW e \in S, PrefixOf(s, t)
  PROVE  PrefixOf(s, Append(t, e))
  <1>1. Len(s) \in Nat /\ Len(t) \in Nat /\ Len(Append(t, e)) = Len(t) + 1
    OBVIOUS
  <1>2. \A k \in 1..Len(s) : Append(t, e)[k] = t[k]
    BY <1>1 DEF PrefixOf
  <1> QED
    BY <1>1, <1>2 DEF PrefixOf

LEMMA FirstOfPrefix ==
  ASSUME NEW S, NEW s \in Seq(S), NEW t \in Seq(S), PrefixOf(s, t),
         NEW n \in Nat, n <= Len(s)
  PROVE  n <= Len(t) /\ First(s, n) = First(t, n)
  <1>1. \A k \in 1..n : s[k] = t[k]
    BY DEF PrefixOf
  <1> QED
    BY <1>1 DEF First, PrefixOf

LEMMA RecentStartType ==
  ASSUME NEW t \in Seq(Exchange)
  PROVE  RecentStart(t) \in Nat /\ RecentStart(t) <= Len(t)
  BY DEF RecentStart

(* The exchanges a compaction adds to the summary are the ones that lie      *)
(* between the summary it read and the recent part.                          *)
LEMMA NewSummaryExact ==
  ASSUME NEW job \in Compaction
  PROVE  /\ NewSummary(job) \in Summary
         /\ \A t \in Seq(Exchange) :
               JobOver(job, t) => Covers(NewSummary(job), t)
  <1> DEFINE turns == job.turns
             sum == job.summary
             new == NewSummary(job)
  <1>1. turns \in Seq(Exchange) /\ sum \in Maybe(Summary)
    BY DEF Compaction, Maybe
  <1>2. Covered(sum) \in Nat /\ Text(sum) \in SUBSET Exchange
    BY <1>1 DEF Covered, Text, Maybe, Summary
  <1>3. RecentStart(turns) \in Nat /\ RecentStart(turns) <= Len(turns)
    BY <1>1, RecentStartType
  <1>4. Archive(turns, sum) \in SUBSET Exchange
    BY <1>1, <1>2, <1>3 DEF Archive
  <1>5. new \in Summary
    BY <1>2, <1>3, <1>4 DEF NewSummary, Summary
  <1>6. ASSUME NEW t \in Seq(Exchange), JobOver(job, t)
        PROVE  Covers(new, t)
    <2>1. Text(sum) = First(turns, Covered(sum))
      BY <1>6 DEF JobOver, SummaryOver, Covers, Text, Covered, First
    <2>2. Covered(sum) < RecentStart(turns)
      BY <1>6 DEF JobOver
    <2>3. 1..RecentStart(turns)
            = (1..Covered(sum)) \cup ((Covered(sum) + 1)..RecentStart(turns))
      BY <1>2, <1>3, <2>2
    <2>4. Text(sum) \cup Archive(turns, sum) = First(turns, RecentStart(turns))
      BY <2>1, <2>3 DEF First, Archive
    <2>5. /\ RecentStart(turns) <= Len(t)
          /\ First(turns, RecentStart(turns)) = First(t, RecentStart(turns))
      BY <1>1, <1>3, <1>6, FirstOfPrefix DEF JobOver
    <2> QED
      BY <2>4, <2>5 DEF NewSummary, Covers
  <1> QED
    BY <1>5, <1>6

(* A compaction that shows everything shows the whole transcript it read.    *)
LEMMA CompactedExact ==
  ASSUME NEW job \in Compaction, NEW outcome \in Outcomes
  PROVE  /\ Compacted(job, outcome) \in History
         /\ \A t \in Seq(Exchange) :
               JobOver(job, t) /\ Compacted(job, outcome).whole
                 => Compacted(job, outcome).shown = Elements(job.turns)
  <1> DEFINE turns == job.turns
             new == NewSummary(job)
  <1>1. turns \in Seq(Exchange) /\ new \in Summary
    BY NewSummaryExact DEF Compaction
  <1>2. RecentStart(turns) \in Nat /\ RecentStart(turns) <= Len(turns)
    BY <1>1, RecentStartType
  <1>3. Recent(turns) \in SUBSET Exchange
    BY <1>1, <1>2 DEF Recent
  <1>4. new.text \in SUBSET Exchange
    BY <1>1 DEF Summary
  <1>5. Compacted(job, outcome) \in History
    BY <1>3, <1>4 DEF Compacted, History, Outcomes
  <1>6. ASSUME NEW t \in Seq(Exchange), JobOver(job, t),
               Compacted(job, outcome).whole
        PROVE  Compacted(job, outcome).shown = Elements(turns)
    <2>1. Compacted(job, outcome).shown = new.text \cup Recent(turns)
      BY <1>6 DEF Compacted, Outcomes
    <2>2. JobOver(job, turns)
      BY <1>1, <1>6 DEF JobOver, PrefixOf
    <2>3. Covers(new, turns)
      BY <1>1, <2>2, NewSummaryExact
    <2>4. new.text = First(turns, RecentStart(turns))
      BY <2>3 DEF Covers, NewSummary
    <2>5. 1..Len(turns) = (1..RecentStart(turns))
                            \cup ((RecentStart(turns) + 1)..Len(turns))
      BY <1>1, <1>2
    <2> QED
      BY <2>1, <2>4, <2>5 DEF First, Recent, Elements
  <1> QED
    BY <1>5, <1>6

(* What needs no summariser is exact: everything, or a summary that already  *)
(* covers whatever is not recent.                                            *)
LEMMA DirectExact ==
  ASSUME NEW turns \in Seq(Exchange), NEW sum \in Maybe(Summary),
         NEW large \in BOOLEAN
  PROVE  /\ Direct(turns, sum, large) \in History
         /\ ~NeedsModel(turns, sum, large) /\ SummaryOver(sum, turns)
               => Direct(turns, sum, large).shown = Elements(turns)
  <1>1. Covered(sum) \in Nat /\ Text(sum) \in SUBSET Exchange
    BY DEF Covered, Text, Maybe, Summary
  <1>2. RecentStart(turns) \in Nat /\ RecentStart(turns) <= Len(turns)
    BY RecentStartType
  <1>3. Recent(turns) \in SUBSET Exchange /\ Elements(turns) \in SUBSET Exchange
    BY <1>2 DEF Recent, Elements
  <1>4. Direct(turns, sum, large) \in History
    BY <1>1, <1>3 DEF Direct, Everything, History
  <1>5. ASSUME ~NeedsModel(turns, sum, large), SummaryOver(sum, turns)
        PROVE  Direct(turns, sum, large).shown = Elements(turns)
    <2>1. CASE ~large \/ turns = <<>>
      BY <2>1 DEF Direct, Everything
    <2>2. CASE large /\ turns # <<>>
      <3>1. Archive(turns, sum) = {}
        BY <1>5, <2>2 DEF NeedsModel
      <3>2. RecentStart(turns) <= Covered(sum)
        <4>1. ASSUME Covered(sum) + 1 <= RecentStart(turns)
              PROVE  turns[RecentStart(turns)] \in Archive(turns, sum)
          BY <1>1, <1>2, <4>1 DEF Archive
        <4> QED
          BY <1>1, <1>2, <3>1, <4>1
      <3>3. Text(sum) = First(turns, Covered(sum)) /\ Covered(sum) <= Len(turns)
        BY <1>5 DEF SummaryOver, Covers, Text, Covered, First
      <3>4. 1..Len(turns) = (1..Covered(sum))
                              \cup ((RecentStart(turns) + 1)..Len(turns))
        BY <1>1, <1>2, <3>2, <3>3
      <3>5. Text(sum) \cup Recent(turns) = Elements(turns)
        BY <3>3, <3>4 DEF First, Recent, Elements
      <3> QED
        BY <2>2, <3>5 DEF Direct
    <2> QED
      BY <2>1, <2>2
  <1> QED
    BY <1>4, <1>5

(* A compaction starts from the transcript and the summary as they are.      *)
LEMMA NewJobExact ==
  ASSUME NEW turns \in Seq(Exchange), NEW sum \in Maybe(Summary),
         NEW large \in BOOLEAN, NEW n \in Sessions,
         NeedsModel(turns, sum, large)
  PROVE  /\ [of |-> n, turns |-> turns, summary |-> sum] \in Compaction
         /\ SummaryOver(sum, turns)
               => JobOver([of |-> n, turns |-> turns, summary |-> sum], turns)
  <1> DEFINE job == [of |-> n, turns |-> turns, summary |-> sum]
  <1>1. Covered(sum) \in Nat
    BY DEF Covered, Maybe, Summary
  <1>2. RecentStart(turns) \in Nat
    BY RecentStartType
  <1>3. Covered(sum) < RecentStart(turns)
    BY <1>1, <1>2 DEF NeedsModel, Archive
  <1>4. job \in Compaction
    BY DEF Compaction, Maybe
  <1>5. PrefixOf(turns, turns)
    BY DEF PrefixOf
  <1> QED
    BY <1>3, <1>4, <1>5 DEF JobOver

(* Appending an exchange leaves everything that was exact exact. *)
LEMMA JobGrows ==
  ASSUME NEW job \in Compaction, NEW t \in Seq(Exchange), NEW e \in Exchange,
         JobOver(job, t)
  PROVE  JobOver(job, Append(t, e))
  BY PrefixGrows DEF JobOver, Compaction

LEMMA SummaryGrows ==
  ASSUME NEW sum \in Maybe(Summary), NEW t \in Seq(Exchange),
         NEW e \in Exchange, SummaryOver(sum, t)
  PROVE  SummaryOver(sum, Append(t, e))
  <1> SUFFICES ASSUME sum # None PROVE Covers(sum, Append(t, e))
    BY DEF SummaryOver
  <1>1. sum.covers \in Nat /\ Covers(sum, t)
    BY DEF SummaryOver, Maybe, Summary
  <1>2. First(Append(t, e), sum.covers) = First(t, sum.covers)
    BY <1>1, FirstGrows DEF Covers
  <1> QED
    BY <1>1, <1>2 DEF Covers

Entry == [of : Sessions, count : Nat, messages : History]

LEMMA EntryGrows ==
  ASSUME NEW c \in Entry, NEW t \in Seq(Exchange), NEW e \in Exchange,
         EntryOver(c, t)
  PROVE  EntryOver(c, Append(t, e))
  <1>1. c.count \in Nat /\ c.count <= Len(t)
    BY DEF Entry, EntryOver
  <1>2. First(Append(t, e), c.count) = First(t, c.count)
    BY <1>1, FirstGrows
  <1> QED
    BY <1>1, <1>2 DEF EntryOver
-----------------------------------------------------------------------------
(* Dispatches *)

LEMMA RunCases ==
  ASSUME NEW r \in Run
  PROVE  /\ r.pc = "compacting" =>
              r # Idle /\ r.of \in Sessions /\ r.job \in Compaction
         /\ r.pc = "classified" =>
              /\ r # Idle /\ r.of \in Sessions
              /\ r.seen \in History /\ r.past \in Seq(Exchange)
         /\ r.pc = "answering" =>
              /\ r # Idle /\ r.of \in Sessions
              /\ r.seen \in History /\ r.past \in Seq(Exchange)
              /\ r.state \in Maybe(State)
  BY DEF Run, Idle

LEMMA ClassifiedType ==
  ASSUME NEW n \in Sessions, NEW seen \in History, NEW past \in Seq(Exchange)
  PROVE  [pc |-> "classified", of |-> n, seen |-> seen, past |-> past] \in Run
  BY DEF Run

(* While something is in flight the cache is of this transcript. *)
LEMMA CacheInFlight ==
  ASSUME IInv, ~dirty, InFlight, cache # None
  PROVE  EntryOver(cache, transcript)
  BY DEF IInv, Exact, CacheExact, Untouched

LEMMA InitIInv == Init => IInv
  <1> SUFFICES ASSUME Init PROVE IInv
    OBVIOUS
  <1>1. TypeOK
    <2>1. Idle \in Run /\ 0 \in Sessions /\ <<>> \in Seq(Exchange)
      BY DEF Run, Sessions
    <2>2. run \in [Dispatches -> Run]
      BY <2>1 DEF Init
    <2>3. written \in 0..MaxExchanges
      BY DEF Init
    <2>4. /\ session \in Sessions /\ transcript \in Seq(Exchange)
          /\ None \in Maybe(Summary) /\ None \in Maybe(State)
          /\ None \in Maybe([of : Sessions, count : Nat, messages : History])
          /\ None \in Maybe(Compaction)
          /\ None \in Maybe([of : Sessions, state : State])
      BY <2>1 DEF Init, Maybe
    <2>5. dirty \in BOOLEAN
      BY DEF Init
    <2> QED
      BY <2>2, <2>3, <2>4, <2>5 DEF Init, TypeOK
  <1>2. Exact
    BY DEF Init, Exact, RunOver, SummaryOver, CacheExact, Idle
  <1>3. Current
    BY DEF Init, Current, StateOf, RunOf, Idle
  <1> QED
    BY <1>1, <1>2, <1>3 DEF IInv

(* One dispatch moves on; the transcript stays as it is. *)
LEMMA OneRun ==
  ASSUME IInv, NEW d \in Dispatches, NEW r \in Run,
         run' = [run EXCEPT ![d] = r],
         ~dirty => RunOver(r, transcript) /\ RunOf(r, session),
         UNCHANGED <<session, transcript, dirty, extraction, state>>
  PROVE  /\ run' \in [Dispatches -> Run]
         /\ Current'
         /\ ~dirty' => \A x \in Dispatches : RunOver(run'[x], transcript')
  <1>1. run' \in [Dispatches -> Run]
    BY DEF IInv, TypeOK
  <1>2. \A x \in Dispatches : run'[x] = IF x = d THEN r ELSE run[x]
    BY DEF IInv, TypeOK
  <1>3. ~dirty => \A x \in Dispatches : RunOver(run'[x], transcript)
    BY <1>2 DEF IInv, Exact
  <1>4. ~dirty => \A x \in Dispatches : RunOf(run'[x], session)
    BY <1>2 DEF IInv, Current
  <1>5. Current'
    BY <1>4 DEF IInv, Current
  <1> QED
    BY <1>1, <1>3, <1>5

LEMMA BeginIInv ==
  ASSUME IInv, NEW d \in Dispatches, NEW large \in BOOLEAN, Begin(d, large)
  PROVE  IInv'
  <1>1. /\ transcript \in Seq(Exchange) /\ session \in Sessions
        /\ summary \in Maybe(Summary)
        /\ ~dirty => SummaryOver(summary, transcript)
    BY DEF IInv, TypeOK, Exact
  <1>2. UNCHANGED <<session, transcript, summary, state, prewarm, extraction,
                    written, dirty>>
    BY DEF Begin
  <1>3. SUFFICES \E r \in Run :
          /\ run' = [run EXCEPT ![d] = r]
          /\ ~dirty => RunOver(r, transcript) /\ RunOf(r, session)
          /\ \/ cache' = cache /\ ~(~dirty /\ cache # None /\ ~EntryOver(cache, transcript))
             \/ cache' \in Entry /\ (~dirty => EntryOver(cache', transcript))
    <2>1. PICK r \in Run :
          /\ run' = [run EXCEPT ![d] = r]
          /\ ~dirty => RunOver(r, transcript) /\ RunOf(r, session)
          /\ \/ cache' = cache /\ ~(~dirty /\ cache # None /\ ~EntryOver(cache, transcript))
             \/ cache' \in Entry /\ (~dirty => EntryOver(cache', transcript))
      BY <1>3
    <2>2. /\ run' \in [Dispatches -> Run]
          /\ Current'
          /\ ~dirty' => \A x \in Dispatches : RunOver(run'[x], transcript')
      BY <1>2, <2>1, OneRun
    <2>3. TypeOK'
      BY <1>2, <2>1, <2>2 DEF IInv, TypeOK, Maybe, Entry
    <2>4. ~dirty => CacheExact'
      BY <1>2, <2>1 DEF CacheExact
    <2>5. Exact'
      BY <1>2, <2>2, <2>4 DEF IInv, Exact
    <2> QED
      BY <2>2, <2>3, <2>5 DEF IInv
  <1>4. CASE CacheValid
    <2> DEFINE r == Classifying(cache.messages, transcript)
    <2>1. run' = [run EXCEPT ![d] = r] /\ cache' = cache
      BY <1>4 DEF Begin
    <2>2. cache # None /\ cache \in Entry /\ cache.count = Len(transcript)
      BY <1>4 DEF CacheValid, IInv, TypeOK, Maybe, Entry
    <2>3. r \in Run
      BY <1>1, <2>2, ClassifiedType DEF Classifying, Entry
    <2>4. ~dirty => EntryOver(cache, transcript)
      <3> SUFFICES ASSUME ~dirty PROVE ~(Untouched /\ cache.count # 0)
        BY <2>2 DEF IInv, Exact, CacheExact
      <3> QED
        BY <2>2 DEF Untouched
    <2>5. ~dirty => RunOver(r, transcript)
      BY <2>2, <2>4 DEF RunOver, EntryOver, Classifying, Elements, First
    <2>6. RunOf(r, session)
      BY DEF RunOf, Classifying
    <2> QED
      BY <2>1, <2>3, <2>4, <2>5, <2>6
  <1>5. CASE ~CacheValid /\ NeedsModel(transcript, summary, large)
    <2> DEFINE job == [of |-> session, turns |-> transcript, summary |-> summary]
               r == [pc |-> "compacting", of |-> session, job |-> job]
    <2>1. run' = [run EXCEPT ![d] = r] /\ cache' = cache
      BY <1>5 DEF Begin
    <2>2. job \in Compaction /\ (~dirty => JobOver(job, transcript))
      BY <1>1, <1>5, NewJobExact
    <2>3. r \in Run
      BY <1>1, <2>2 DEF Run
    <2>4. RunOf(r, session) /\ (~dirty => RunOver(r, transcript))
      BY <2>2 DEF RunOf, RunOver
    <2>5. transcript # <<>>
      <3>1. RecentStart(<<>>) = 0
        BY DEF RecentStart
      <3>2. Covered(summary) \in Nat
        BY <1>1 DEF Covered, Maybe, Summary
      <3> QED
        BY <1>5, <3>1, <3>2 DEF NeedsModel, Archive
    <2>6. ~(~dirty /\ cache # None /\ ~EntryOver(cache, transcript))
      BY <2>5 DEF IInv, Exact, CacheExact, Untouched
    <2> QED
      BY <2>1, <2>3, <2>4, <2>6
  <1>6. CASE ~CacheValid /\ ~NeedsModel(transcript, summary, large)
    <2> DEFINE messages == Direct(transcript, summary, large)
               r == Classifying(messages, transcript)
    <2>1. /\ run' = [run EXCEPT ![d] = r]
          /\ cache' = Cached(session, transcript, messages)
      BY <1>6 DEF Begin
    <2>2. /\ messages \in History
          /\ ~dirty => messages.shown = Elements(transcript)
      BY <1>1, <1>6, DirectExact
    <2>3. r \in Run
      BY <1>1, <2>2, ClassifiedType DEF Classifying
    <2>4. RunOf(r, session) /\ (~dirty => RunOver(r, transcript))
      BY <2>2 DEF RunOf, RunOver, Classifying
    <2>5. cache' \in Entry
      BY <1>1, <2>1, <2>2 DEF Cached, Entry
    <2>6. ~dirty => EntryOver(cache', transcript)
      BY <1>1, <2>1, <2>2 DEF Cached, EntryOver, Elements, First
    <2> QED
      BY <2>1, <2>3, <2>4, <2>5, <2>6
  <1> QED
    BY <1>4, <1>5, <1>6

(* A compaction that ends leaves an exact entry and an exact summary. *)
LEMMA JobDone ==
  ASSUME IInv, NEW job \in Compaction, NEW outcome \in Outcomes,
         ~dirty => JobOver(job, transcript), SaveSummary(job, outcome)
  PROVE  LET c == Cached(job.of, job.turns, Compacted(job, outcome))
         IN  /\ c \in Entry
             /\ ~dirty => EntryOver(c, transcript)
             /\ summary' \in Maybe(Summary)
             /\ ~dirty => SummaryOver(summary', transcript)
  <1> DEFINE c == Cached(job.of, job.turns, Compacted(job, outcome))
  <1>1. /\ job.turns \in Seq(Exchange) /\ job.of \in Sessions
        /\ transcript \in Seq(Exchange)
    BY DEF Compaction, IInv, TypeOK
  <1>2. c \in Entry
    BY <1>1, CompactedExact DEF Cached, Entry
  <1>3. ASSUME ~dirty, Compacted(job, outcome).whole
        PROVE  Compacted(job, outcome).shown = First(transcript, Len(job.turns))
    <2>1. Compacted(job, outcome).shown = First(job.turns, Len(job.turns))
      BY <1>1, <1>3, CompactedExact DEF Elements, First
    <2>2. First(job.turns, Len(job.turns)) = First(transcript, Len(job.turns))
      BY <1>1, <1>3, FirstOfPrefix DEF JobOver
    <2> QED
      BY <2>1, <2>2
  <1>4. ~dirty => EntryOver(c, transcript)
    BY <1>3 DEF EntryOver, Cached, JobOver, PrefixOf
  <1>5. summary' \in Maybe(Summary)
    BY NewSummaryExact DEF SaveSummary, IInv, TypeOK, Maybe
  <1>6. ~dirty => SummaryOver(summary', transcript)
    BY <1>1, NewSummaryExact DEF SaveSummary, SummaryOver, IInv, Exact
  <1> QED
    BY <1>2, <1>4, <1>5, <1>6

LEMMA CompactionDoneIInv ==
  ASSUME IInv, NEW d \in Dispatches, NEW outcome \in Outcomes,
         CompactionDone(d, outcome)
  PROVE  IInv'
  <1> DEFINE job == run[d].job
             r == [pc |-> "classified", of |-> run[d].of, past |-> job.turns,
                   seen |-> Compacted(job, outcome)]
  <1>1. /\ run[d].pc = "compacting"
        /\ SaveSummary(job, outcome)
        /\ cache' = Cached(job.of, job.turns, Compacted(job, outcome))
        /\ run' = [run EXCEPT ![d] = r]
        /\ UNCHANGED <<session, transcript, state, prewarm, extraction, written,
                       dirty>>
    BY DEF CompactionDone, IInv, TypeOK
  <1>2. run[d] \in Run
    BY DEF IInv, TypeOK
  <1>3. run[d] # Idle /\ run[d].of \in Sessions /\ job \in Compaction
    BY <1>1, <1>2, RunCases
  <1>4. job.turns \in Seq(Exchange) /\ transcript \in Seq(Exchange)
    BY <1>3 DEF Compaction, IInv, TypeOK
  <1>5. ~dirty => JobOver(job, transcript)
    BY <1>1 DEF IInv, Exact, RunOver
  <1>6. r \in Run
    BY <1>3, <1>4, ClassifiedType, CompactedExact
  <1>7. ~dirty => RunOver(r, transcript) /\ RunOf(r, session)
    BY <1>3, <1>4, <1>5, CompactedExact DEF RunOver, RunOf, IInv, Current
  <1>8. /\ run' \in [Dispatches -> Run]
        /\ Current'
        /\ ~dirty' => \A x \in Dispatches : RunOver(run'[x], transcript')
    BY <1>1, <1>6, <1>7, OneRun
  <1>9. /\ cache' \in Entry /\ summary' \in Maybe(Summary)
        /\ ~dirty => /\ EntryOver(cache', transcript)
                     /\ SummaryOver(summary', transcript)
    BY <1>1, <1>3, <1>5, JobDone
  <1>10. TypeOK'
    BY <1>1, <1>8, <1>9 DEF IInv, TypeOK, Maybe, Entry
  <1>11. Exact'
    BY <1>1, <1>8, <1>9 DEF IInv, Exact, CacheExact
  <1> QED
    BY <1>8, <1>10, <1>11 DEF IInv

(* The state that is read is the session's; or the dispatch gives up. *)
LEMMA LoadFailIInv ==
  ASSUME IInv, NEW d \in Dispatches, LoadState(d) \/ Fail(d)
  PROVE  IInv'
  <1>1. run[d].pc \in {"classified", "answering"} /\ run[d] \in Run
    BY DEF LoadState, Fail, IInv, TypeOK
  <1>2. /\ run[d] # Idle /\ run[d].of \in Sessions
        /\ run[d].seen \in History /\ run[d].past \in Seq(Exchange)
    BY <1>1, RunCases
  <1>3. UNCHANGED <<session, transcript, summary, state, cache, prewarm,
                    extraction, written, dirty>>
    BY DEF LoadState, Fail
  <1>4. \E r \in Run : /\ run' = [run EXCEPT ![d] = r]
                       /\ ~dirty => RunOver(r, transcript) /\ RunOf(r, session)
    <2>1. CASE Fail(d)
      <3>1. Idle \in Run /\ RunOver(Idle, transcript) /\ RunOf(Idle, session)
        BY DEF Run, Idle, RunOver, RunOf
      <3> QED
        BY <2>1, <3>1 DEF Fail
    <2>2. CASE LoadState(d)
      <3> DEFINE r == [pc |-> "answering", of |-> run[d].of, seen |-> run[d].seen,
                       past |-> run[d].past, state |-> state]
      <3>1. run' = [run EXCEPT ![d] = r]
        BY <2>2 DEF LoadState, IInv, TypeOK
      <3>2. r \in Run
        BY <1>2 DEF Run, IInv, TypeOK
      <3>3. ~dirty => RunOver(r, transcript)
        BY <1>1 DEF RunOver, IInv, Exact
      <3>4. ~dirty => RunOf(r, session)
        BY <1>2 DEF RunOf, IInv, Current
      <3> QED
        BY <3>1, <3>2, <3>3, <3>4
    <2> QED
      BY <2>1, <2>2
  <1>5. /\ run' \in [Dispatches -> Run]
        /\ Current'
        /\ ~dirty' => \A x \in Dispatches : RunOver(run'[x], transcript')
    BY <1>3, <1>4, OneRun
  <1>6. TypeOK'
    BY <1>3, <1>5 DEF IInv, TypeOK
  <1>7. ~dirty /\ cache # None => EntryOver(cache, transcript)
    BY <1>2, CacheInFlight DEF InFlight
  <1>8. Exact'
    BY <1>3, <1>5, <1>7 DEF IInv, Exact, CacheExact
  <1> QED
    BY <1>5, <1>6, <1>8 DEF IInv

LEMMA MechanicalType ==
  ASSUME NEW r, r.of \in Sessions, r.state \in Maybe(State)
  PROVE  /\ Mechanical(r) \in State
         /\ \A n \in Sessions :
               r.of = n /\ StateOf(r.state, n) => Mechanical(r).from = {n}
  <1>1. CASE r.state = None
    BY <1>1 DEF Mechanical, State
  <1>2. CASE r.state # None
    <2> DEFINE s == r.state
    <2>1. s \in State
      BY <1>2 DEF Maybe
    <2>2. s.from \cup {r.of} \in SUBSET Sessions /\ s.turns + 1 \in Nat
      BY <2>1 DEF State
    <2>3. Mechanical(r) = [s EXCEPT !.turns = s.turns + 1,
                                    !.from = s.from \cup {r.of}]
      BY <1>2 DEF Mechanical
    <2>4. Mechanical(r) \in State
      BY <2>1, <2>2, <2>3 DEF State
    <2>5. Mechanical(r).from = s.from \cup {r.of}
      BY <2>1, <2>3 DEF State
    <2> QED
      BY <1>2, <2>4, <2>5 DEF StateOf
  <1> QED
    BY <1>1, <1>2

LEMMA AnswerIInv ==
  ASSUME IInv, NEW d \in Dispatches, NEW large \in BOOLEAN, Answer(d, large)
  PROVE  IInv'
  <1> DEFINE s == Mechanical(run[d])
             e == [of |-> run[d].of, n |-> written + 1]
             turns == Append(transcript, e)
             wait == NeedsModel(turns, summary, large)
             job == [of |-> session, turns |-> turns, summary |-> summary]
             entry == Cached(session, turns, Direct(turns, summary, large))
             asked == [of |-> run[d].of, state |-> s]
  <1>1. /\ run[d].pc = "answering" /\ written < MaxExchanges
        /\ written' = written + 1 /\ state' = s /\ transcript' = turns
        /\ extraction' \in {asked, extraction}
        /\ prewarm' = IF prewarm = None /\ wait THEN job ELSE prewarm
        /\ cache' = IF prewarm = None /\ ~wait THEN entry ELSE cache
        /\ run' = [run EXCEPT ![d] = Idle]
        /\ UNCHANGED <<session, summary, dirty>>
    BY DEF Answer
  <1>2. /\ session \in Sessions /\ transcript \in Seq(Exchange)
        /\ summary \in Maybe(Summary) /\ written \in 0..MaxExchanges
        /\ run \in [Dispatches -> Run] /\ run[d] \in Run
        /\ prewarm \in Maybe(Compaction) /\ cache \in Maybe(Entry)
    BY DEF IInv, TypeOK, Entry
  <1>3. run[d] # Idle /\ run[d].of \in Sessions /\ run[d].state \in Maybe(State)
    BY <1>1, <1>2, RunCases
  <1>4. s \in State
    BY <1>3, MechanicalType
  <1>5. e \in Exchange /\ turns \in Seq(Exchange)
    BY <1>1, <1>2, <1>3 DEF Exchange
  <1>6. ~dirty => SummaryOver(summary, turns)
    BY <1>2, <1>5, SummaryGrows DEF IInv, Exact
  <1>7. prewarm' \in Maybe(Compaction)
        /\ (~dirty /\ prewarm' # None => JobOver(prewarm', turns))
    <2>1. CASE prewarm = None /\ wait
      <3>1. job \in Compaction /\ (~dirty => JobOver(job, turns))
        BY <1>2, <1>5, <1>6, <2>1, NewJobExact
      <3> QED
        BY <1>1, <2>1, <3>1 DEF Maybe
    <2>2. CASE ~(prewarm = None /\ wait)
      <3>1. prewarm' = prewarm
        BY <1>1, <2>2
      <3>2. ~dirty /\ prewarm # None => JobOver(prewarm, turns)
        BY <1>2, <1>5, JobGrows DEF IInv, Exact, Maybe
      <3> QED
        BY <1>2, <3>1, <3>2
    <2> QED
      BY <2>1, <2>2
  <1>8. cache' \in Maybe(Entry) /\ (~dirty /\ cache' # None => EntryOver(cache', turns))
    <2>1. CASE prewarm = None /\ ~wait
      <3>1. /\ Direct(turns, summary, large) \in History
            /\ ~dirty => Direct(turns, summary, large).shown = Elements(turns)
        BY <1>2, <1>5, <1>6, <2>1, DirectExact
      <3>2. entry \in Entry
        BY <1>2, <1>5, <3>1 DEF Cached, Entry
      <3>3. ~dirty => EntryOver(entry, turns)
        BY <1>5, <3>1 DEF Cached, EntryOver, Elements, First
      <3> QED
        BY <1>1, <2>1, <3>2, <3>3 DEF Maybe
    <2>2. CASE ~(prewarm = None /\ ~wait)
      <3>1. cache' = cache
        BY <1>1, <2>2
      <3>2. ~dirty /\ cache # None => EntryOver(cache, transcript)
        BY <1>3, CacheInFlight DEF InFlight
      <3>3. ~dirty /\ cache # None => EntryOver(cache, turns)
        BY <1>2, <1>5, <3>2, EntryGrows DEF Maybe
      <3> QED
        BY <1>2, <3>1, <3>3
    <2> QED
      BY <2>1, <2>2
  <1>9. Idle \in Run
    BY DEF Run
  <1>10. \A x \in Dispatches : run'[x] = IF x = d THEN Idle ELSE run[x]
    BY <1>1, <1>2
  <1>11. ~dirty => \A x \in Dispatches : RunOver(run'[x], turns)
    <2> SUFFICES ASSUME ~dirty, NEW x \in Dispatches
                 PROVE  RunOver(run'[x], turns)
      OBVIOUS
    <2>1. RunOver(Idle, turns)
      BY DEF RunOver, Idle
    <2>2. RunOver(run[x], turns)
      <3>1. run[x] \in Run /\ RunOver(run[x], transcript)
        BY <1>2 DEF IInv, Exact
      <3>2. run[x].pc = "compacting" => JobOver(run[x].job, turns)
        BY <1>2, <1>5, <3>1, RunCases, JobGrows DEF RunOver
      <3> QED
        BY <3>1, <3>2 DEF RunOver
    <2> QED
      BY <1>10, <2>1, <2>2
  <1>12. Exact'
    BY <1>1, <1>6, <1>7, <1>8, <1>11 DEF Exact, CacheExact
  <1>13. extraction' \in Maybe([of : Sessions, state : State])
    BY <1>1, <1>3, <1>4 DEF IInv, TypeOK, Maybe
  <1>14. TypeOK'
    <2>1. written' \in 0..MaxExchanges
      BY <1>1, <1>2
    <2>2. run' \in [Dispatches -> Run]
      BY <1>1, <1>2, <1>9
    <2>3. state' \in Maybe(State)
      BY <1>1, <1>4 DEF Maybe
    <2> QED
      BY <1>1, <1>5, <1>7, <1>8, <1>13, <2>1, <2>2, <2>3
         DEF IInv, TypeOK, Entry
  <1>15. Current'
    <2> SUFFICES ASSUME ~dirty PROVE Current'
      BY <1>1 DEF Current
    <2>1. run[d].of = session /\ StateOf(run[d].state, session)
      BY <1>1, <1>3 DEF IInv, Current, RunOf
    <2>2. s.from = {session}
      BY <1>2, <1>3, <2>1, MechanicalType
    <2>3. StateOf(state', session)
      BY <1>1, <2>2 DEF StateOf
    <2>4. \A x \in Dispatches : RunOf(run'[x], session)
      <3>1. RunOf(Idle, session)
        BY DEF RunOf, Idle
      <3> QED
        BY <1>10, <3>1 DEF IInv, Current
    <2>5. extraction' # None =>
            extraction'.of = session /\ extraction'.state.from = {session}
      BY <1>1, <2>1, <2>2 DEF IInv, Current
    <2> QED
      BY <1>1, <2>3, <2>4, <2>5 DEF Current
  <1> QED
    BY <1>12, <1>14, <1>15 DEF IInv

LEMMA PrewarmDoneIInv ==
  ASSUME IInv, NEW outcome \in Outcomes, PrewarmDone(outcome)
  PROVE  IInv'
  <1>1. /\ prewarm # None /\ prewarm' = None
        /\ SaveSummary(prewarm, outcome)
        /\ cache' = Cached(prewarm.of, prewarm.turns, Compacted(prewarm, outcome))
        /\ UNCHANGED <<session, transcript, state, run, extraction, written, dirty>>
    BY DEF PrewarmDone
  <1>2. prewarm \in Compaction /\ (~dirty => JobOver(prewarm, transcript))
    BY <1>1 DEF IInv, TypeOK, Exact, Maybe
  <1>3. /\ cache' \in Entry /\ summary' \in Maybe(Summary)
        /\ ~dirty => /\ EntryOver(cache', transcript)
                     /\ SummaryOver(summary', transcript)
    BY <1>1, <1>2, JobDone
  <1>4. TypeOK'
    BY <1>1, <1>3 DEF IInv, TypeOK, Maybe, Entry
  <1>5. Exact'
    BY <1>1, <1>3 DEF IInv, Exact, CacheExact
  <1>6. Current'
    BY <1>1 DEF IInv, Current
  <1> QED
    BY <1>4, <1>5, <1>6 DEF IInv

(* What the extraction makes of the state that is there now. *)
LEMMA ExtractionState ==
  ASSUME IInv, NEW ok \in BOOLEAN, ExtractionDone(ok)
  PROVE  LET latest == IF state = None THEN extraction.state ELSE state
         IN  /\ state' \in State /\ state'.turns = latest.turns
             /\ state'.from = IF ok THEN latest.from \cup {extraction.of}
                                    ELSE latest.from
  <1> DEFINE latest == IF state = None THEN extraction.state ELSE state
  <1>1. extraction \in [of : Sessions, state : State]
    BY DEF ExtractionDone, IInv, TypeOK, Maybe
  <1>2. latest \in State
    BY <1>1 DEF IInv, TypeOK, Maybe
  <1>3. latest.from \cup {extraction.of} \in SUBSET Sessions /\ latest.turns \in Nat
    BY <1>1, <1>2 DEF State
  <1>4. CASE ok
    <2>1. state' = [latest EXCEPT !.semantic = latest.turns,
                                  !.from = latest.from \cup {extraction.of}]
      BY <1>4 DEF ExtractionDone
    <2> QED
      BY <1>2, <1>3, <1>4, <2>1 DEF State
  <1>5. CASE ~ok
    <2>1. state' = [latest EXCEPT !.semantic = latest.turns]
      BY <1>5 DEF ExtractionDone
    <2> QED
      BY <1>2, <1>3, <1>5, <2>1 DEF State
  <1> QED
    BY <1>4, <1>5

LEMMA ExtractionDoneIInv ==
  ASSUME IInv, NEW ok \in BOOLEAN, ExtractionDone(ok)
  PROVE  IInv'
  <1>1. /\ extraction # None /\ extraction' = None
        /\ UNCHANGED <<session, transcript, summary, cache, run, prewarm, written,
                       dirty>>
    BY DEF ExtractionDone
  <1>2. state' \in State
    BY ExtractionState
  <1>3. TypeOK'
    BY <1>1, <1>2 DEF IInv, TypeOK, Maybe
  <1>4. ~dirty /\ cache # None => EntryOver(cache, transcript)
    BY <1>1, CacheInFlight DEF InFlight
  <1>5. Exact'
    BY <1>1, <1>4 DEF IInv, Exact, CacheExact
  <1>6. Current'
    <2> SUFFICES ASSUME ~dirty PROVE Current'
      BY <1>1 DEF Current
    <2> DEFINE latest == IF state = None THEN extraction.state ELSE state
    <2>1. extraction.of = session /\ extraction.state.from = {session}
      BY <1>1 DEF IInv, Current
    <2>2. StateOf(state, session)
      BY DEF IInv, Current
    <2>3. latest.from = {session}
      BY <2>1, <2>2 DEF StateOf
    <2>4. StateOf(state', session)
      BY <2>1, <2>3, ExtractionState DEF StateOf
    <2> QED
      BY <1>1, <2>4 DEF IInv, Current
  <1> QED
    BY <1>3, <1>5, <1>6 DEF IInv

(* A reset while nothing is in flight begins a session that owes nothing to  *)
(* the one before it.                                                        *)
LEMMA ResetIInv ==
  ASSUME IInv, NEW dropCache \in BOOLEAN, Reset(dropCache)
  PROVE  IInv'
  <1>1. /\ session < MaxResets /\ session' = session + 1
        /\ transcript' = <<>> /\ summary' = None /\ state' = None
        /\ cache' = IF dropCache THEN None ELSE cache
        /\ dirty' = (dirty \/ InFlight)
        /\ UNCHANGED <<run, prewarm, extraction, written>>
    BY DEF Reset
  <1>2. TypeOK'
    <2>1. session' \in Sessions /\ transcript' \in Seq(Exchange)
      BY <1>1 DEF IInv, TypeOK, Sessions
    <2>2. /\ summary' \in Maybe(Summary) /\ state' \in Maybe(State)
          /\ cache' \in Maybe([of : Sessions, count : Nat, messages : History])
      BY <1>1 DEF IInv, TypeOK, Maybe
    <2>3. dirty' \in BOOLEAN
      BY <1>1 DEF IInv, TypeOK, InFlight
    <2> QED
      BY <1>1, <2>1, <2>2, <2>3 DEF IInv, TypeOK
  <1>3. ASSUME ~dirty'
        PROVE  /\ ~dirty /\ ~InFlight /\ ~InFlight'
               /\ prewarm' = None /\ extraction' = None
               /\ \A d \in Dispatches : run'[d] = Idle
    BY <1>1, <1>3 DEF InFlight
  <1>4. ASSUME ~dirty', cache' # None, cache'.count = 0
        PROVE  EntryOver(cache', transcript')
    <2>1. cache' = cache /\ EntryOver(cache, transcript)
      BY <1>1, <1>3, <1>4 DEF IInv, Exact, CacheExact
    <2>2. First(transcript, 0) = {} /\ First(transcript', 0) = {}
      BY DEF First
    <2>3. Len(transcript') = 0 /\ cache.count = 0
      BY <1>1, <1>4, <2>1
    <2>4. cache.messages.whole => cache.messages.shown = {}
      BY <2>1, <2>2, <2>3 DEF EntryOver
    <2>5. EntryOver(cache, <<>>)
      BY <2>3, <2>4 DEF EntryOver, First
    <2> QED
      BY <1>1, <2>1, <2>5
  <1>5. Exact'
    <2> SUFFICES ASSUME ~dirty' PROVE Exact'
      BY DEF Exact
    <2>1. \A d \in Dispatches : RunOver(run'[d], transcript')
      BY <1>3 DEF RunOver, Idle
    <2>2. SummaryOver(summary', transcript')
      BY <1>1 DEF SummaryOver
    <2>3. CacheExact'
      BY <1>1, <1>3, <1>4 DEF CacheExact, Untouched
    <2> QED
      BY <1>3, <2>1, <2>2, <2>3 DEF Exact
  <1>6. Current'
    BY <1>1, <1>3 DEF Current, StateOf, RunOf, Idle
  <1> QED
    BY <1>2, <1>5, <1>6 DEF IInv

LEMMA OtherIInv ==
  ASSUME IInv, CacheExpires \/ UNCHANGED vars
  PROVE  IInv'
  <1>1. cache' \in {None, cache}
        /\ UNCHANGED <<session, transcript, summary, state, run, prewarm,
                       extraction, written, dirty>>
    BY DEF CacheExpires, vars
  <1>2. TypeOK'
    BY <1>1 DEF IInv, TypeOK, Maybe
  <1>3. Exact'
    BY <1>1 DEF IInv, Exact, CacheExact, Untouched, InFlight
  <1>4. Current'
    BY <1>1 DEF IInv, Current
  <1> QED
    BY <1>2, <1>3, <1>4 DEF IInv

LEMMA NextIInv == IInv /\ [Next]_vars => IInv'
  BY BeginIInv, CompactionDoneIInv, LoadFailIInv, AnswerIInv, PrewarmDoneIInv,
     ExtractionDoneIInv, ResetIInv, OtherIInv DEF Next
-----------------------------------------------------------------------------
(* The inductive invariant holds in every behaviour. *)
THEOREM Inductive == Spec => []IInv
  BY InitIInv, NextIInv, PTL DEF Spec

(* The files, the cache and the running dispatches keep their types. *)
THEOREM TypeCorrect == Spec => []TypeOK
  <1>1. IInv => TypeOK
    BY DEF IInv
  <1> QED
    BY <1>1, Inductive, PTL

(* Unless a reset cut into running work, what a dispatch shows its model is  *)
(* exactly the session, from the cache or built anew, whichever compactions  *)
(* overlapped and in whatever order they ended.                              *)
THEOREM ShownIsExact == Spec => []HistoryExact
  <1>1. IInv => HistoryExact
    BY DEF IInv, Exact, RunOver, HistoryExact
  <1> QED
    BY <1>1, Inductive, PTL

(* The summary file covers the beginning of the transcript it says it covers.*)
THEOREM SummaryIsExact == Spec => []SummaryExact
  <1>1. IInv => SummaryExact
    BY DEF IInv, Exact, SummaryOver, Covers, First, SummaryExact
  <1> QED
    BY <1>1, Inductive, PTL

(* After a reset with nothing in flight the state file is of the new session.*)
THEOREM StateIsFresh == Spec => []StateFresh
  <1>1. IInv => StateFresh
    BY DEF IInv, Current, StateOf, StateFresh
  <1> QED
    BY <1>1, Inductive, PTL

LEMMA NoTurnBack ==
  ASSUME IInv, [Next]_vars, extraction # None, extraction' = None, state # None
  PROVE  state'.turns >= state.turns
  <1>1. CASE \E ok \in BOOLEAN : ExtractionDone(ok)
    <2>1. state'.turns = state.turns /\ state.turns \in Nat
      BY <1>1, ExtractionState DEF IInv, TypeOK, Maybe, State
    <2> QED
      BY <2>1
  <1>2. CASE \E d \in Dispatches, large \in BOOLEAN : Answer(d, large)
    BY <1>2 DEF Answer
  <1> QED
    BY <1>1, <1>2 DEF Next, Begin, CompactionDone, LoadState, Fail,
       PrewarmDone, CacheExpires, Reset, vars

(* An extraction that ends late does not undo a turn that was saved meanwhile.*)
THEOREM LateExtractionIsHarmless == Spec => ExtractionKeepsTurns
  BY NoTurnBack, Inductive, PTL DEF Spec, ExtractionKeepsTurns
-----------------------------------------------------------------------------
(* The flat store.  (memory/fact-store.ts, memory/consolidation.ts)          *)

Waits(w) == batch[w] # None /\ batch[w].text # None
AtRest(w) == batch[w] = None \/ batch[w].pair # {}

(* A writer nothing overtook while it waits for the embedder will still pass *)
(* the gate it has passed.                                                   *)
FreshIsAlone == \A w \in F!Callers : Waits(w) /\ batch[w].fresh =>
    /\ ~F!Denied(batch[w].text)
    /\ \A e \in F!Live(index) : ~F!Same(e.text, batch[w].text)

(* A consolidation asks about nothing the person had said by then. *)
PairsAreOpen == \A w \in F!Callers :
    batch[w] # None => \A e \in batch[w].pair : e.prov # "stated"

(* The view is the index between the batches, of which a consolidation that  *)
(* waits for its model is none.                                              *)
InStep ==
    (\A w \in F!Callers : AtRest(w)) =>
        /\ F!Rebuilt(index) \subseteq view
        /\ \A e \in view : e \in index \/ [e EXCEPT !.old = TRUE] \in index

StoreTypes == F!TypeOK /\ batch \in [F!Callers -> F!Batch \cup {None}]
StoreInv == StoreTypes /\ FreshIsAlone /\ PairsAreOpen /\ InStep /\ F!HeldOnce

(* What a step of the store may not do. *)
NoneComesBack == \A e \in index' : F!New(e) /\ F!Denied(e.text)' => e.id \in stale'
NoneIsDropped == \A e \in index : e.prov = "stated" =>
    \/ \E f \in index' : f.prov = "stated" /\ F!Same(e.text, f.text)
    \/ \E r \in removals' : e.text \in r.refused
    \/ e.id \in misread'

USE StoreAssumption

LEMMA InitStore == F!Init => StoreInv
  <1> SUFFICES ASSUME F!Init PROVE StoreInv
    OBVIOUS
  <1>1. /\ index = {} /\ view = {} /\ removals = {} /\ last = 0 /\ forgets = 0
        /\ batch = [w \in F!Callers |-> None] /\ stale = {} /\ misread = {}
    BY DEF F!Init
  <1>2. StoreTypes
    BY <1>1 DEF StoreTypes, F!TypeOK
  <1>3. FreshIsAlone /\ PairsAreOpen
    BY <1>1 DEF FreshIsAlone, PairsAreOpen, Waits
  <1>4. InStep /\ F!HeldOnce
    BY <1>1 DEF InStep, F!HeldOnce, F!Rebuilt, F!Live
  <1> QED
    BY <1>2, <1>3, <1>4 DEF StoreInv

(* What was only taken out of the index and of the removals disturbs nobody. *)
LEMMA FewerAlone ==
  ASSUME FreshIsAlone, F!Live(index') \subseteq F!Live(index), removals' \subseteq removals,
         \A w \in F!Callers : Waits(w)' /\ batch'[w].fresh =>
            Waits(w) /\ batch[w].fresh /\ batch'[w].text = batch[w].text
  PROVE  FreshIsAlone'
  BY DEF FreshIsAlone, F!Denied

LEMMA OvertakenFacts ==
  ASSUME StoreTypes
  PROVE  /\ F!Overtaken \in [F!Callers -> F!Batch \cup {None}]
         /\ \A w \in F!Callers :
               /\ F!Overtaken[w] = None <=> batch[w] = None
               /\ batch[w] # None => F!Overtaken[w].pair = batch[w].pair
               /\ F!Overtaken[w] # None /\ F!Overtaken[w].text # None
                     => ~F!Overtaken[w].fresh
  <1>1. ASSUME NEW w \in F!Callers
        PROVE  /\ F!Overtaken[w] \in F!Batch \cup {None}
               /\ F!Overtaken[w] = None <=> batch[w] = None
               /\ batch[w] # None => F!Overtaken[w].pair = batch[w].pair
               /\ F!Overtaken[w] # None /\ F!Overtaken[w].text # None
                     => ~F!Overtaken[w].fresh
    <2>1. batch[w] \in F!Batch \cup {None}
      BY DEF StoreTypes
    <2>2. F!Overtaken[w] = IF batch[w] # None /\ batch[w].text # None
                           THEN [batch[w] EXCEPT !.fresh = FALSE] ELSE batch[w]
      BY DEF F!Overtaken
    <2>3. CASE batch[w] # None /\ batch[w].text # None
      <3>1. F!Overtaken[w] = [batch[w] EXCEPT !.fresh = FALSE] /\ batch[w] \in F!Batch
        BY <2>1, <2>2, <2>3
      <3>2. F!Overtaken[w] \in F!Batch /\ ~F!Overtaken[w].fresh
            /\ F!Overtaken[w].pair = batch[w].pair
        BY <3>1 DEF F!Batch
      <3> QED
        BY <2>3, <3>2
    <2>4. CASE ~(batch[w] # None /\ batch[w].text # None)
      BY <2>1, <2>2, <2>4
    <2> QED
      BY <2>3, <2>4
  <1>2. F!Overtaken = [w \in F!Callers |-> F!Overtaken[w]]
    BY DEF F!Overtaken
  <1> QED
    BY <1>1, <1>2

(* What becomes of the entries when one is written in the place of others.   *)
Written(t, p) == [id |-> last + 1, text |-> t, prov |-> p, old |-> FALSE]
Grown(after, new, kept) ==
    /\ after = kept \cup {new} /\ after \subseteq F!Entry
    /\ \A e \in after : e.id <= last + 1 /\ \A f \in after : e.id = f.id => e = f
    /\ \A e \in after : e.id > last => e = new
    /\ F!Live(after) = F!Live(kept) \cup {new} /\ F!Live(kept) \subseteq F!Live(index)

LEMMA AppendedFacts ==
  ASSUME StoreTypes, last < MaxEntries, NEW t \in F!Texts, NEW p \in F!Provenances,
         NEW entries \in SUBSET index, NEW gone \in SUBSET entries,
         NEW after, after = F!Appended(t, p, entries, gone)
  PROVE  Grown(after, Written(t, p), entries \ gone)
  <1> DEFINE new == Written(t, p)
  <1>1. last \in Nat /\ last + 1 \in 1..MaxEntries /\ index \subseteq F!Entry
        /\ \A e \in index : e.id <= last /\ \A f \in index : e.id = f.id => e = f
    BY DEF StoreTypes, F!TypeOK
  <1>2. new \in F!Entry /\ new.id = last + 1 /\ ~new.old
    BY <1>1 DEF F!Entry, Written
  <1>3. after = (entries \ gone) \cup {new}
    BY DEF F!Appended, Written
  <1>4. after \subseteq F!Entry
    BY <1>1, <1>2, <1>3
  <1>5. \A e \in after : e \in index \/ e = new
    BY <1>3
  <1>6. \A e \in index : e.id \in Nat /\ e.id <= last
    BY <1>1 DEF F!Entry
  <1> HIDE DEF new
  <1>7. \A e \in after : e.id <= last + 1 /\ \A f \in after : e.id = f.id => e = f
    BY <1>1, <1>2, <1>5, <1>6
  <1>8. \A e \in after : e.id > last => e = new
    BY <1>1, <1>5, <1>6
  <1>9. F!Live(after) = F!Live(entries \ gone) \cup {new}
    BY <1>2, <1>3 DEF F!Live
  <1>10. F!Live(entries \ gone) \subseteq F!Live(index)
    BY DEF F!Live
  <1> QED
    BY <1>3, <1>4, <1>7, <1>8, <1>9, <1>10 DEF new, Grown

LEMMA RankFacts ==
  ASSUME NEW p \in F!Provenances
  PROVE  /\ F!Rank(p) \in 1..3 /\ F!Rank("stated") = 3
         /\ F!Rank(p) = 3 => p = "stated"
  BY DEF F!Rank, F!Provenances

(* What is held once stays so when one is written for all that say the same, *)
(* or when what is written is known to be overtaken.                         *)
LEMMA AppendedOnce ==
  ASSUME StoreTypes, F!HeldOnce, last < MaxEntries, NEW t \in F!Texts,
         NEW p \in F!Provenances, NEW entries \in SUBSET index, NEW gone \in SUBSET entries,
         index' = F!Appended(t, p, entries, gone), stale \subseteq stale',
         (\A e \in F!Live(entries \ gone) : ~F!Same(e.text, t)) \/ last + 1 \in stale'
  PROVE  F!HeldOnce'
  <1> DEFINE new == Written(t, p)
  <1>1. Grown(index', new, entries \ gone)
    BY AppendedFacts
  <1>2. /\ F!Live(index') = F!Live(entries \ gone) \cup {new}
        /\ F!Live(entries \ gone) \subseteq F!Live(index)
    BY <1>1 DEF Grown
  <1>5. new.text = t /\ new.id = last + 1
    BY DEF Written
  <1> HIDE DEF new
  <1> SUFFICES ASSUME NEW e \in F!Live(index'), NEW f \in F!Live(index'),
                      F!Same(e.text, f.text), e # f
               PROVE  {e.id, f.id} \cap stale' # {}
    BY DEF F!HeldOnce
  <1>3. CASE e \in F!Live(index) /\ f \in F!Live(index)
    BY <1>3 DEF F!HeldOnce
  <1>4. CASE e = new \/ f = new
    <2>1. \E g \in F!Live(entries \ gone) : F!Same(g.text, t)
      BY <1>2, <1>4, <1>5 DEF F!Same
    <2>2. last + 1 \in stale'
      BY <2>1
    <2> QED
      BY <1>4, <1>5, <2>2
  <1> QED
    BY <1>2, <1>3, <1>4

LEMMA LiftedFacts ==
  ASSUME StoreTypes, NEW t \in F!Texts, NEW p \in F!Provenances, NEW entries \in SUBSET index
  PROVE  /\ F!Lifted(t, p, entries) \subseteq removals
         /\ F!Passes(t, p, entries) =>
               ~\E r \in F!Lifted(t, p, entries) : r.reason = "user_denied" /\ t \in r.refused
  <1>1. F!Lifted(t, p, entries) \subseteq removals
    BY DEF F!Lifted
  <1>2. ASSUME F!Passes(t, p, entries)
        PROVE  ~\E r \in F!Lifted(t, p, entries) : r.reason = "user_denied" /\ t \in r.refused
    <2>1. CASE p = "stated"
      BY <1>2, <2>1 DEF F!Passes, F!Lifted
    <2>2. CASE p # "stated"
      BY <1>1, <1>2, <2>2 DEF F!Passes, F!Suppressed
    <2> QED
      BY <2>1, <2>2
  <1> QED
    BY <1>1, <1>2

(* A caller that is writing is at none of the consolidations. *)
Writing(x) == x \in F!Batch /\ x.pair = {}

(* Those beside it go on with what they held. *)
OthersStay(w) ==
    /\ batch' \in [F!Callers -> F!Batch \cup {None}] /\ Writing(batch'[w])
    /\ \A v \in F!Callers \ {w} : batch[v] # None <=> batch'[v] # None
    /\ \A v \in F!Callers \ {w} : batch[v] # None => batch'[v].pair = batch[v].pair

LEMMA BetweenFacts ==
  /\ Writing(F!Between) /\ F!Between.text = None
  /\ \A t \in F!Texts, p \in F!Provenances :
        LET x == [F!Between EXCEPT !.text = t, !.prov = p]
        IN  Writing(x) /\ x.text = t /\ x.prov = p /\ x.fresh
  BY DEF Writing, F!Between, F!Batch, F!Provenances

LEMMA OthersFacts ==
  ASSUME StoreTypes, NEW w \in F!Callers, NEW x, Writing(x),
         batch' = [batch EXCEPT ![w] = x] \/ batch' = [F!Overtaken EXCEPT ![w] = x]
  PROVE  OthersStay(w) /\ batch'[w] = x
  <1>1. x \in F!Batch
    BY DEF Writing
  <1>2. CASE batch' = [batch EXCEPT ![w] = x]
    BY <1>1, <1>2 DEF StoreTypes, OthersStay
  <1>3. CASE batch' = [F!Overtaken EXCEPT ![w] = x]
    BY <1>1, <1>3, OvertakenFacts DEF StoreTypes, OthersStay
  <1> QED
    BY <1>2, <1>3

LEMMA OthersHold ==
  ASSUME NEW w \in F!Callers, OthersStay(w), PairsAreOpen
  PROVE  PairsAreOpen' /\ InStep'
  <1>1. batch'[w] # None /\ batch'[w].pair = {}
    BY DEF OthersStay, Writing
  <1>2. PairsAreOpen'
    BY <1>1 DEF OthersStay, PairsAreOpen
  <1>3. InStep'
    BY <1>1 DEF InStep, AtRest
  <1> QED
    BY <1>2, <1>3

(* Fewer entries, none of them written again. *)
LEMMA FewerTypes ==
  ASSUME StoreTypes, NEW entries \in SUBSET index
  PROVE  /\ entries \subseteq F!Entry
         /\ \A e \in entries : e.id <= last /\ \A f \in entries : e.id = f.id => e = f
         /\ F!Live(entries) \subseteq F!Live(index)
         /\ F!Rebuilt(entries) \subseteq F!Entry
  BY DEF StoreTypes, F!TypeOK, F!Live, F!Rebuilt

LEMMA FewerOnce ==
  ASSUME F!HeldOnce, F!Live(index') \subseteq F!Live(index), stale \subseteq stale'
  PROVE  F!HeldOnce'
  BY DEF F!HeldOnce

LEMMA FewerBack ==
  ASSUME StoreTypes, \A e \in index' : \E f \in index : f.id = e.id
  PROVE  NoneComesBack
  <1>1. \A e \in index : e.id \in Nat /\ e.id <= last /\ last \in Nat
    BY DEF StoreTypes, F!TypeOK, F!Entry
  <1>2. \A e \in index' : ~F!New(e)
    BY <1>1 DEF F!New
  <1> QED
    BY <1>2 DEF NoneComesBack

(* One fact is written: what was stated among the entries stays so.          *)
LEMMA WriteInv ==
  ASSUME StoreInv, NEW w \in F!Callers, NEW t \in F!Texts, NEW p \in F!Provenances,
         NEW entries \in SUBSET index, F!Write(w, t, p, entries),
         UNCHANGED <<view, stale, forgets>>,
         misread' \subseteq 1..last
  PROVE  /\ StoreInv' /\ NoneComesBack
         /\ \A e \in entries : e.prov = "stated" =>
               \E f \in index' : f.prov = "stated" /\ F!Same(e.text, f.text)
  <1> DEFINE matches == {e \in F!Live(entries) : F!Same(e.text, t)}
             passes == F!Passes(t, p, entries) /\ F!Outranks(p, matches)
             asked == [F!Between EXCEPT !.text = t, !.prov = p]
  <1>1. StoreTypes /\ FreshIsAlone /\ PairsAreOpen /\ F!HeldOnce
    BY DEF StoreInv
  <1>2. removals' = F!Lifted(t, p, entries)
    BY DEF F!Write
  <1>3. removals' \subseteq removals
        /\ (F!Passes(t, p, entries) => ~F!Denied(t)')
    BY <1>1, <1>2, LiftedFacts DEF F!Denied
  <1>4. \/ /\ ~passes
           /\ index' = entries /\ batch' = [batch EXCEPT ![w] = F!Between] /\ last' = last
        \/ /\ passes /\ last < MaxEntries /\ last' = last + 1
           /\ matches # {} \/ F!Live(entries) = {}
           /\ index' = F!Appended(t, p, entries, matches)
           /\ batch' = [F!Overtaken EXCEPT ![w] = F!Between]
        \/ /\ passes /\ matches = {} /\ last' = last
           /\ index' = entries /\ batch' = [batch EXCEPT ![w] = asked]
    BY DEF F!Write
  <1>5. matches \in SUBSET entries
    BY DEF F!Live
  <1>6. /\ Writing(F!Between) /\ F!Between.text = None
        /\ Writing(asked) /\ asked.text = t /\ asked.fresh
    BY BetweenFacts
  <1>7. OthersStay(w)
    BY <1>1, <1>4, <1>6, OthersFacts
  <1>8. PairsAreOpen' /\ InStep'
    BY <1>1, <1>7, OthersHold
  <1>9. ASSUME index' = entries, last' = last
        PROVE  StoreTypes' /\ F!HeldOnce' /\ NoneComesBack
    <2>1. index' \subseteq F!Entry
          /\ \A e \in index' : e.id <= last' /\ \A f \in index' : e.id = f.id => e = f
      BY <1>1, <1>9, FewerTypes
    <2>2. F!TypeOK'
      BY <1>1, <1>3, <1>7, <1>9, <2>1 DEF StoreTypes, F!TypeOK, OthersStay
    <2>3. F!HeldOnce'
      BY <1>1, <1>9, FewerTypes, FewerOnce
    <2>4. NoneComesBack
      BY <1>1, <1>9, FewerBack
    <2> QED
      BY <1>7, <2>2, <2>3, <2>4 DEF StoreTypes, OthersStay
  <1>10. CASE ~passes /\ index' = entries /\ batch' = [batch EXCEPT ![w] = F!Between]
              /\ last' = last
    <2>1. FreshIsAlone'
      BY <1>1, <1>3, <1>6, <1>10, FewerTypes, FewerAlone DEF Waits, StoreTypes
    <2> QED
      BY <1>1, <1>8, <1>9, <1>10, <2>1 DEF StoreInv, F!Same
  <1>11. CASE passes /\ last < MaxEntries /\ last' = last + 1
              /\ (matches # {} \/ F!Live(entries) = {})
              /\ index' = F!Appended(t, p, entries, matches)
              /\ batch' = [F!Overtaken EXCEPT ![w] = F!Between]
    <2>1. Grown(index', Written(t, p), entries \ matches)
      BY <1>1, <1>5, <1>11, AppendedFacts
    <2>2. StoreTypes'
      <3>1. last \in 0..MaxEntries /\ last' \in 0..MaxEntries /\ last' = last + 1
            /\ stale' \cup misread' \subseteq 1..last
        <4>1. last \in 0..MaxEntries /\ stale \cup misread \subseteq 1..last
          BY <1>1 DEF StoreTypes, F!TypeOK
        <4>2. last < MaxEntries /\ last' = last + 1 /\ MaxEntries \in Nat
          BY <1>11
        <4>3. stale' \cup misread' \subseteq 1..last
          BY <4>1
        <4>4. last' \in 0..MaxEntries
          BY <4>1, <4>2
        <4> QED
          BY <4>1, <4>2, <4>3, <4>4
      <3>2. stale' \cup misread' \subseteq 1..last'
        BY <3>1
      <3>3. index' \subseteq F!Entry /\ \A e \in index' :
               e.id <= last' /\ \A f \in index' : e.id = f.id => e = f
        BY <2>1, <3>1 DEF Grown
      <3>4. view' \subseteq F!Entry /\ forgets' \in 0..MaxForgets
            /\ removals' \subseteq F!Removal
        BY <1>1, <1>3 DEF StoreTypes, F!TypeOK
      <3>5. batch' \in [F!Callers -> F!Batch \cup {None}]
        BY <1>7 DEF OthersStay
      <3> QED
        BY <3>1, <3>2, <3>3, <3>4, <3>5 DEF StoreTypes, F!TypeOK
    <2>3. \A e \in F!Live(entries \ matches) : ~F!Same(e.text, t)
      BY DEF F!Live
    <2>4. F!HeldOnce'
      BY <1>1, <1>5, <1>11, <2>3, AppendedOnce
    <2>5. FreshIsAlone'
      BY <1>1, <1>6, <1>11, OvertakenFacts DEF FreshIsAlone, Waits
    <2>6. NoneComesBack
      BY <1>3, <1>11, <2>1 DEF NoneComesBack, Grown, Written, F!New, F!Denied
    <2>7. ASSUME NEW e \in entries, e.prov = "stated"
          PROVE  \E f \in index' : f.prov = "stated" /\ F!Same(e.text, f.text)
      <3>1. CASE e \in matches
        <4>1. F!Rank(e.prov) <= F!Rank(p)
          BY <1>11, <3>1 DEF F!Outranks
        <4>2. p = "stated"
          BY <2>7, <4>1, RankFacts
        <4>3. Written(t, p) \in index' /\ Written(t, p).prov = "stated"
              /\ Written(t, p).text = t
          BY <2>1, <4>2 DEF Grown, Written
        <4>4. F!Same(e.text, t)
          BY <3>1
        <4> QED
          BY <4>3, <4>4
      <3>2. CASE e \notin matches
        BY <2>1, <2>7, <3>2 DEF Grown, F!Same
      <3> QED
        BY <3>1, <3>2
    <2> QED
      BY <1>8, <2>2, <2>4, <2>5, <2>6, <2>7 DEF StoreInv
  <1>12. CASE passes /\ matches = {} /\ last' = last
              /\ index' = entries /\ batch' = [batch EXCEPT ![w] = asked]
    <2>1. FreshIsAlone'
      <3> SUFFICES ASSUME NEW v \in F!Callers, Waits(v)', batch'[v].fresh
                   PROVE  /\ \A r \in removals' : ~(r.reason = "user_denied" /\ batch'[v].text \in r.refused)
                          /\ \A e \in F!Live(index') : ~F!Same(e.text, batch'[v].text)
        BY DEF FreshIsAlone, F!Denied
      <3>1. CASE v = w
        <4>1. batch'[v].text = t
          BY <1>1, <1>6, <1>12, <3>1 DEF StoreTypes
        <4> QED
          BY <1>3, <1>12, <4>1 DEF F!Denied, F!Same
      <3>2. CASE v # w
        <4>1. batch'[v] = batch[v]
          BY <1>1, <1>12, <3>2 DEF StoreTypes
        <4>2. /\ ~F!Denied(batch[v].text)
              /\ \A e \in F!Live(index) : ~F!Same(e.text, batch[v].text)
          BY <1>1, <4>1 DEF FreshIsAlone, Waits
        <4>3. F!Live(index') \subseteq F!Live(index)
          BY <1>1, <1>12, FewerTypes
        <4> QED
          BY <1>3, <4>1, <4>2, <4>3 DEF F!Denied
      <3> QED
        BY <3>1, <3>2
    <2> QED
      BY <1>8, <1>9, <1>12, <2>1 DEF StoreInv, F!Same
  <1> QED
    BY <1>4, <1>10, <1>11, <1>12

(* A step keeps the invariant and undoes nothing. *)
StoreStep == StoreInv' /\ NoneComesBack /\ NoneIsDropped

LEMMA RebuiltInStep ==
  ASSUME view' = F!Rebuilt(index'), index' \subseteq F!Entry
  PROVE  InStep' /\ view' \subseteq F!Entry
  <1>1. F!Rebuilt(index') \subseteq index'
    BY DEF F!Rebuilt, F!Live
  <1>2. InStep'
    BY <1>1 DEF InStep
  <1> QED
    BY <1>1, <1>2

LEMMA FewerInv ==
  ASSUME StoreInv, index' \subseteq index, last' = last, stale' = stale,
         misread' \subseteq 1..last, forgets' \in 0..MaxForgets,
         removals' \subseteq F!Removal, batch' \in [F!Callers -> F!Batch \cup {None}],
         view' \subseteq F!Entry, InStep', FreshIsAlone', PairsAreOpen'
  PROVE  StoreInv' /\ NoneComesBack
  <1>1. StoreTypes /\ F!HeldOnce
    BY DEF StoreInv
  <1>2. /\ index' \subseteq F!Entry
        /\ \A e \in index' : e.id <= last' /\ \A f \in index' : e.id = f.id => e = f
        /\ F!Live(index') \subseteq F!Live(index)
    BY <1>1, FewerTypes
  <1>3. StoreTypes'
    BY <1>1, <1>2 DEF StoreTypes, F!TypeOK
  <1>4. F!HeldOnce'
    BY <1>1, <1>2, FewerOnce
  <1>5. NoneComesBack
    BY <1>1, FewerBack
  <1> QED
    BY <1>3, <1>4, <1>5 DEF StoreInv

LEMMA IndexKept ==
  ASSUME index \subseteq index'
  PROVE  NoneIsDropped
  BY DEF NoneIsDropped, F!Same

LEMMA WriteNextStep ==
  ASSUME StoreInv, NEW w \in Writers, F!WriteNext(w)
  PROVE  StoreStep
  <1>1. PICK t \in F!Texts, p \in {"observed", "stated"} : F!Write(w, t, p, index)
    BY DEF F!WriteNext
  <1>2. UNCHANGED <<view, stale, misread, forgets>> /\ misread' \subseteq 1..last
    BY DEF F!WriteNext, StoreInv, StoreTypes, F!TypeOK
  <1>3. w \in F!Callers /\ p \in F!Provenances /\ index \in SUBSET index
    BY DEF F!Callers, F!Provenances
  <1>4. /\ StoreInv' /\ NoneComesBack
        /\ \A e \in index : e.prov = "stated" =>
              \E f \in index' : f.prov = "stated" /\ F!Same(e.text, f.text)
    BY <1>1, <1>2, <1>3, WriteInv
  <1> QED
    BY <1>4 DEF StoreStep, NoneIsDropped

LEMMA EmbeddedStep ==
  ASSUME StoreInv, NEW w \in F!Callers, F!Embedded(w)
  PROVE  StoreStep
  <1>1. StoreTypes /\ FreshIsAlone /\ PairsAreOpen /\ F!HeldOnce
    BY DEF StoreInv
  <1>2. batch[w] \in F!Batch /\ batch[w].text \in F!Texts
        /\ batch[w].prov \in F!Provenances
    BY <1>1 DEF F!Embedded, StoreTypes, F!Batch
  <1>3. UNCHANGED <<view, removals, misread, forgets>>
    BY DEF F!Embedded
  <1>4. Writing(F!Between) /\ F!Between.text = None
    BY BetweenFacts
  <1>5. CASE batch' = [batch EXCEPT ![w] = F!Between] /\ UNCHANGED <<index, last, stale>>
    <2>1. OthersStay(w)
      BY <1>1, <1>4, <1>5, OthersFacts
    <2>2. PairsAreOpen' /\ InStep'
      BY <1>1, <2>1, OthersHold
    <2>3. FreshIsAlone'
      BY <1>1, <1>3, <1>4, <1>5, FewerAlone DEF Waits, StoreTypes
    <2>4. StoreInv' /\ NoneComesBack
      BY <1>1, <1>3, <1>5, <2>1, <2>2, <2>3, FewerInv DEF OthersStay, StoreTypes, F!TypeOK
    <2> QED
      BY <1>5, <2>4, IndexKept DEF StoreStep
  <1>6. CASE /\ last < MaxEntries /\ last' = last + 1
             /\ index' = F!Appended(batch[w].text, batch[w].prov, index, {})
             /\ stale' = IF batch[w].fresh THEN stale ELSE stale \cup {last + 1}
             /\ batch' = [F!Overtaken EXCEPT ![w] = F!Between]
    <2> DEFINE t == batch[w].text
               p == batch[w].prov
    <2>1. Grown(index', Written(t, p), index \ {})
      BY <1>1, <1>2, <1>6, AppendedFacts
    <2>2. OthersStay(w)
      BY <1>1, <1>4, <1>6, OthersFacts
    <2>3. PairsAreOpen' /\ InStep'
      BY <1>1, <2>2, OthersHold
    <2>4. FreshIsAlone'
      BY <1>1, <1>4, <1>6, OvertakenFacts DEF FreshIsAlone, Waits
    <2>5. ASSUME batch[w].fresh PROVE F!HeldOnce' /\ NoneComesBack
      <3>1. ~F!Denied(t) /\ \A e \in F!Live(index) : ~F!Same(e.text, t)
        BY <1>1, <1>2, <2>5 DEF FreshIsAlone, Waits, F!Embedded
      <3>2. ~(\E r \in removals' : r.reason = "user_denied" /\ t \in r.refused)
        BY <1>3, <3>1 DEF F!Denied
      <3>3. index \ {} = index /\ stale' = stale
        BY <1>6, <2>5
      <3>4. F!HeldOnce'
        <4>1. \A e \in F!Live(index \ {}) : ~F!Same(e.text, t)
          BY <3>1, <3>3
        <4> QED
          BY <1>1, <1>2, <1>6, <3>3, <4>1, AppendedOnce
      <3>5. NoneComesBack
        BY <2>1, <3>2 DEF NoneComesBack, Grown, Written, F!New, F!Denied
      <3> QED
        BY <3>4, <3>5
    <2>6. ASSUME ~batch[w].fresh PROVE F!HeldOnce' /\ NoneComesBack
      <3>1. stale' = stale \cup {last + 1}
        BY <1>6, <2>6
      <3>2. F!HeldOnce'
        <4>1. last + 1 \in stale' /\ stale \subseteq stale'
          BY <3>1
        <4>2. index \in SUBSET index /\ {} \in SUBSET index
          OBVIOUS
        <4> QED
          BY <1>1, <1>2, <1>6, <4>1, <4>2, AppendedOnce
      <3>3. NoneComesBack
        BY <2>1, <3>1 DEF NoneComesBack, Grown, Written, F!New
      <3> QED
        BY <3>2, <3>3
    <2>7. F!HeldOnce' /\ NoneComesBack
      BY <2>5, <2>6
    <2>8. StoreTypes'
      <3>1. last \in 0..MaxEntries /\ stale \cup misread \subseteq 1..last
        BY <1>1 DEF StoreTypes, F!TypeOK
      <3>2. last' = last + 1 /\ last' \in 0..MaxEntries
        BY <1>6, <3>1
      <3>3. stale' \cup misread' \subseteq 1..last'
        BY <1>3, <1>6, <3>1, <3>2
      <3>4. index' \subseteq F!Entry /\ \A e \in index' :
               e.id <= last' /\ \A f \in index' : e.id = f.id => e = f
        BY <2>1, <3>2 DEF Grown
      <3>5. view' \subseteq F!Entry /\ forgets' \in 0..MaxForgets
            /\ removals' \subseteq F!Removal
        BY <1>1, <1>3 DEF StoreTypes, F!TypeOK
      <3>6. batch' \in [F!Callers -> F!Batch \cup {None}]
        BY <2>2 DEF OthersStay
      <3> QED
        BY <3>2, <3>3, <3>4, <3>5, <3>6 DEF StoreTypes, F!TypeOK
    <2>9. NoneIsDropped
      BY <2>1, IndexKept DEF Grown
    <2> QED
      BY <2>3, <2>4, <2>7, <2>8, <2>9 DEF StoreStep, StoreInv
  <1> QED
    BY <1>5, <1>6 DEF F!Embedded

LEMMA FinishStep ==
  ASSUME StoreInv, NEW w \in F!Callers, F!Finish(w)
  PROVE  StoreStep
  <1>1. StoreTypes /\ FreshIsAlone /\ PairsAreOpen
    BY DEF StoreInv
  <1>2. /\ view' = F!Rebuilt(index') /\ batch' = [batch EXCEPT ![w] = None]
        /\ UNCHANGED <<index, last, removals, stale, misread, forgets>>
    BY DEF F!Finish
  <1>3. InStep' /\ view' \subseteq F!Entry
    BY <1>1, <1>2, RebuiltInStep DEF StoreTypes, F!TypeOK
  <1>4. FreshIsAlone'
    BY <1>1, <1>2, FewerAlone DEF Waits, StoreTypes
  <1>5. PairsAreOpen'
    BY <1>1, <1>2 DEF PairsAreOpen, StoreTypes
  <1>6. StoreInv' /\ NoneComesBack
    BY <1>1, <1>2, <1>3, <1>4, <1>5, FewerInv DEF StoreTypes, F!TypeOK
  <1> QED
    BY <1>2, <1>6, IndexKept DEF StoreStep

(* A consolidation begins with a rebuild and asks about what it shows. *)
LEMMA ConsolidateStep ==
  ASSUME StoreInv, NEW w \in Mergers, F!Consolidate(w)
  PROVE  StoreStep
  <1>1. StoreTypes /\ FreshIsAlone /\ PairsAreOpen /\ w \in F!Callers
    BY DEF StoreInv, F!Callers
  <1>2. PICK pair \in SUBSET view' :
           /\ F!MayJudge(pair)
           /\ batch' = [batch EXCEPT ![w] = [F!Between EXCEPT !.pair = pair]]
    BY DEF F!Consolidate
  <1>3. /\ view' = F!Rebuilt(index')
        /\ UNCHANGED <<index, last, removals, stale, misread, forgets>>
    BY DEF F!Consolidate
  <1>4. InStep' /\ view' \subseteq F!Entry
    BY <1>1, <1>3, RebuiltInStep DEF StoreTypes, F!TypeOK
  <1> DEFINE x == [F!Between EXCEPT !.pair = pair]
  <1>5. x \in F!Batch /\ x.text = None /\ x.pair = pair
    BY <1>4 DEF F!Between, F!Batch, F!Provenances
  <1>6. \A e \in pair : e.prov # "stated"
    BY <1>2 DEF F!MayJudge
  <1> HIDE DEF x
  <1>7. batch' = [batch EXCEPT ![w] = x]
    BY <1>2 DEF x
  <1>8. FreshIsAlone'
    BY <1>1, <1>3, <1>5, <1>7, FewerAlone DEF Waits, StoreTypes
  <1>9. PairsAreOpen'
    BY <1>1, <1>5, <1>6, <1>7 DEF PairsAreOpen, StoreTypes
  <1>10. StoreInv' /\ NoneComesBack
    BY <1>1, <1>3, <1>4, <1>5, <1>7, <1>8, <1>9, FewerInv DEF StoreTypes, F!TypeOK
  <1> QED
    BY <1>3, <1>10, IndexKept DEF StoreStep

(* What is removed by its id was not said when the model was asked: the      *)
(* person said it meanwhile, or never.                                       *)
LEMMA ConfirmedFacts ==
  ASSUME StoreInv, NEW w \in F!Callers, batch[w] # None, NEW pair, pair = batch[w].pair,
         NEW gone \in SUBSET index, \A e \in gone : e.id \in F!Ids(pair)
  PROVE  /\ F!Confirmed(pair, gone) \subseteq 1..last
         /\ \A e \in gone : e.prov = "stated" => e.id \in F!Confirmed(pair, gone)
  <1>1. \A d \in pair : d.prov # "stated"
    BY DEF StoreInv, PairsAreOpen
  <1>2. \A e \in gone : \E d \in pair : d.id = e.id
    BY DEF F!Ids
  <1>3. \A e \in index : e.id \in 1..last
    BY DEF StoreInv, StoreTypes, F!TypeOK, F!Entry
  <1>4. F!Confirmed(pair, gone) \subseteq 1..last
    BY <1>3 DEF F!Confirmed
  <1> QED
    BY <1>1, <1>2, <1>4 DEF F!Confirmed

LEMMA JudgedStep ==
  ASSUME StoreInv, NEW w \in Mergers, F!Judged(w)
  PROVE  StoreStep
  <1>1. StoreTypes /\ FreshIsAlone /\ PairsAreOpen /\ InStep /\ w \in F!Callers
    BY DEF StoreInv, F!Callers
  <1>2. batch[w] # None /\ batch[w].pair # {} /\ UNCHANGED <<stale, forgets>>
    BY DEF F!Judged
  <1> DEFINE pair == batch[w].pair
  <1>3. CASE batch' = [batch EXCEPT ![w] = None]
             /\ UNCHANGED <<index, last, view, removals, misread>>
    <2>1. FreshIsAlone'
      BY <1>1, <1>3, FewerAlone DEF Waits, StoreTypes
    <2>2. PairsAreOpen'
      BY <1>1, <1>3 DEF PairsAreOpen, StoreTypes
    <2>3. \A v \in F!Callers : AtRest(v)' => AtRest(v)
      BY <1>1, <1>2, <1>3 DEF AtRest, StoreTypes
    <2>4. InStep'
      BY <1>1, <1>3, <2>3 DEF InStep, F!Rebuilt, F!Live
    <2>5. StoreInv' /\ NoneComesBack
      BY <1>1, <1>2, <1>3, <2>1, <2>2, <2>4, FewerInv DEF StoreTypes, F!TypeOK
    <2> QED
      BY <1>3, <2>5, IndexKept DEF StoreStep
  <1>4. ASSUME NEW gone \in SUBSET index, \A e \in gone : e.id \in F!Ids(pair),
               index' = index \ gone, view' = F!Rebuilt(index'),
               misread' = misread \cup F!Confirmed(pair, gone),
               batch' = [batch EXCEPT ![w] = None], UNCHANGED <<last, removals>>
        PROVE  StoreStep
    <2>1. /\ F!Confirmed(pair, gone) \subseteq 1..last
          /\ \A e \in gone : e.prov = "stated" => e.id \in F!Confirmed(pair, gone)
      BY <1>1, <1>2, <1>4, ConfirmedFacts
    <2>2. F!Live(index') \subseteq F!Live(index) /\ index' \subseteq F!Entry
      BY <1>1, <1>4, FewerTypes
    <2>3. FreshIsAlone'
      BY <1>1, <1>4, <2>2, FewerAlone DEF Waits, StoreTypes
    <2>4. PairsAreOpen'
      BY <1>1, <1>4 DEF PairsAreOpen, StoreTypes
    <2>5. InStep' /\ view' \subseteq F!Entry
      BY <1>4, <2>2, RebuiltInStep
    <2>6. StoreInv' /\ NoneComesBack
      BY <1>1, <1>2, <1>4, <2>1, <2>3, <2>4, <2>5, FewerInv DEF StoreTypes, F!TypeOK
    <2>7. NoneIsDropped
      BY <1>4, <2>1 DEF NoneIsDropped, F!Same
    <2> QED
      BY <2>6, <2>7 DEF StoreStep
  <1>5. ASSUME NEW d \in pair, LET gone == {e \in index : e.id = d.id}
                               IN  /\ index' = index \ gone /\ view' = F!Rebuilt(index')
                                   /\ misread' = misread \cup F!Confirmed(batch[w].pair, gone)
                                   /\ batch' = [batch EXCEPT ![w] = None]
                                   /\ UNCHANGED <<last, removals>>
        PROVE  StoreStep
    <2>1. \A e \in {f \in index : f.id = d.id} : e.id \in F!Ids(pair)
      BY DEF F!Ids
    <2> QED
      BY <1>4, <1>5, <2>1
  <1>6. CASE LET gone == {e \in index : e.id \in F!Ids(pair)}
             IN  /\ \E t \in F!Texts : F!Write(w, t, "inferred", index \ gone)
                 /\ misread' = misread \cup F!Confirmed(pair, gone)
                 /\ UNCHANGED view
    <2> DEFINE gone == {e \in index : e.id \in F!Ids(pair)}
    <2>1. PICK t \in F!Texts : F!Write(w, t, "inferred", index \ gone)
      BY <1>6
    <2>2. misread' = misread \cup F!Confirmed(pair, gone) /\ view' = view
      BY <1>6
    <2>3. gone \in SUBSET index /\ \A e \in gone : e.id \in F!Ids(pair)
      OBVIOUS
    <2> HIDE DEF gone
    <2>4. /\ F!Confirmed(pair, gone) \subseteq 1..last
          /\ \A e \in gone : e.prov = "stated" => e.id \in F!Confirmed(pair, gone)
      BY <1>1, <1>2, <2>3, ConfirmedFacts
    <2>5. misread' \subseteq 1..last
      BY <1>1, <2>2, <2>4 DEF StoreTypes, F!TypeOK
    <2>6. "inferred" \in F!Provenances
      BY DEF F!Provenances
    <2>7. /\ StoreInv' /\ NoneComesBack
          /\ \A e \in index \ gone : e.prov = "stated" =>
                \E f \in index' : f.prov = "stated" /\ F!Same(e.text, f.text)
      BY <1>1, <1>2, <2>1, <2>2, <2>5, <2>6, WriteInv
    <2>8. NoneIsDropped
      BY <2>2, <2>4, <2>7 DEF NoneIsDropped
    <2> QED
      BY <2>7, <2>8 DEF StoreStep
  <1> QED
    BY <1>3, <1>5, <1>6 DEF F!Judged

(* What is removed overtakes those that wait. *)
LEMMA OvertakenRest ==
  ASSUME StoreTypes, PairsAreOpen, batch' = F!Overtaken
  PROVE  /\ batch' \in [F!Callers -> F!Batch \cup {None}]
         /\ FreshIsAlone' /\ PairsAreOpen'
         /\ \A v \in F!Callers : AtRest(v)' => AtRest(v)
  BY OvertakenFacts DEF FreshIsAlone, PairsAreOpen, Waits, AtRest

(* A removal, whose record refuses what it removed. *)
LEMMA RemovalStep ==
  ASSUME StoreInv, NEW hit \in SUBSET index, NEW record \in F!Removal,
         index' = index \ hit, \A e \in hit : e.text \in record.refused,
         removals' = removals \cup {record}, batch' = F!Overtaken,
         forgets' \in 0..MaxForgets, UNCHANGED <<last, stale, misread>>,
         view' = F!Rebuilt(index') \/ (index' = index /\ view' = view)
  PROVE  StoreStep
  <1>1. StoreTypes /\ PairsAreOpen /\ InStep
    BY DEF StoreInv
  <1>2. /\ batch' \in [F!Callers -> F!Batch \cup {None}]
        /\ FreshIsAlone' /\ PairsAreOpen'
        /\ \A v \in F!Callers : AtRest(v)' => AtRest(v)
    BY <1>1, OvertakenRest
  <1>3. index' \subseteq F!Entry
    BY <1>1 DEF StoreTypes, F!TypeOK
  <1>4. InStep' /\ view' \subseteq F!Entry
    <2>1. CASE view' = F!Rebuilt(index')
      BY <1>3, <2>1, RebuiltInStep
    <2>2. CASE index' = index /\ view' = view
      BY <1>1, <1>2, <2>2 DEF InStep, F!Rebuilt, F!Live, StoreTypes, F!TypeOK
    <2> QED
      BY <2>1, <2>2
  <1>5. removals' \subseteq F!Removal /\ misread' \subseteq 1..last
    BY <1>1 DEF StoreTypes, F!TypeOK
  <1>6. StoreInv' /\ NoneComesBack
    BY <1>2, <1>4, <1>5, FewerInv
  <1>7. NoneIsDropped
    BY DEF NoneIsDropped, F!Same
  <1> QED
    BY <1>6, <1>7 DEF StoreStep

LEMMA RefusedFacts ==
  ASSUME NEW query \in SUBSET F!Texts, NEW texts \in SUBSET F!Texts
  PROVE  /\ F!Refused(query, texts) \subseteq F!Texts
         /\ query \subseteq F!Refused(query, texts)
         /\ \A t \in F!Texts, u \in texts : F!Same(t, u) => t \in F!Refused(query, texts)
  BY DEF F!Refused

(* The wordings of one fact. *)
LEMMA WordingFacts ==
  ASSUME NEW k \in Known, NEW like \in SUBSET ({k} \X Wordings)
  PROVE  like \in SUBSET F!Texts /\ \A t \in like : t[1] = k
  BY DEF F!Texts

LEMMA ForgetStep ==
  ASSUME StoreInv, F!Forget
  PROVE  StoreStep
  <1>1. /\ forgets < MaxForgets /\ forgets' = forgets + 1 /\ batch' = F!Overtaken
        /\ UNCHANGED <<last, stale, misread>>
    BY DEF F!Forget
  <1>2. PICK k \in Known : \E query \in (SUBSET ({k} \X Wordings)) \ {{}} :
          LET hit == {e \in index : e.text \in query}
          IN /\ index' = index \ hit
             /\ view' = IF hit = {} THEN view ELSE F!Rebuilt(index')
             /\ removals' = removals \cup {F!Denial(query, hit)}
    BY DEF F!Forget
  <1>3. PICK query \in (SUBSET ({k} \X Wordings)) \ {{}} :
          LET hit == {e \in index : e.text \in query}
          IN /\ index' = index \ hit
             /\ view' = IF hit = {} THEN view ELSE F!Rebuilt(index')
             /\ removals' = removals \cup {F!Denial(query, hit)}
    BY <1>2
  <1> DEFINE hit == {e \in index : e.text \in query}
             record == F!Denial(query, hit)
  <1>4. index \subseteq F!Entry /\ forgets \in 0..MaxForgets
    BY DEF StoreInv, StoreTypes, F!TypeOK
  <1>5. query \in SUBSET F!Texts
    BY WordingFacts
  <1>6. F!TextsOf(hit) \in SUBSET F!Texts
    BY <1>4 DEF F!TextsOf, F!Entry
  <1>7. record \in F!Removal /\ query \subseteq record.refused
    BY <1>5, <1>6, RefusedFacts DEF F!Denial, F!Removal
  <1>8. forgets' \in 0..MaxForgets
    BY <1>1, <1>4
  <1>9. /\ hit \in SUBSET index /\ \A e \in hit : e.text \in record.refused
        /\ index' = index \ hit /\ removals' = removals \cup {record}
        /\ view' = F!Rebuilt(index') \/ (index' = index /\ view' = view)
    BY <1>3, <1>7
  <1> HIDE DEF hit, record
  <1> QED
    BY <1>1, <1>7, <1>8, <1>9, RemovalStep

LEMMA DateExpiresStep ==
  ASSUME StoreInv, F!DateExpires
  PROVE  StoreStep
  <1>1. /\ forgets < MaxForgets /\ forgets' = forgets + 1 /\ batch' = F!Overtaken
        /\ UNCHANGED <<last, stale, misread>>
    BY DEF F!DateExpires
  <1>2. /\ index \subseteq F!Entry /\ forgets \in 0..MaxForgets /\ view \subseteq F!Entry
    BY DEF StoreInv, StoreTypes, F!TypeOK
  <1>3. PICK d \in F!Live(view) : \E like \in SUBSET ({d.text[1]} \X Wordings) :
          /\ index' = {f \in index : f.text \notin like}
          /\ view' = IF index' = index THEN view ELSE F!Rebuilt(index')
          /\ removals' = removals \cup
                {[reason |-> "date_expired", refused |-> F!Refused({}, {d.text})]}
    BY DEF F!DateExpires
  <1>4. PICK like \in SUBSET ({d.text[1]} \X Wordings) :
          /\ index' = {f \in index : f.text \notin like}
          /\ view' = IF index' = index THEN view ELSE F!Rebuilt(index')
          /\ removals' = removals \cup
                {[reason |-> "date_expired", refused |-> F!Refused({}, {d.text})]}
    BY <1>3
  <1>5. d.text \in F!Texts /\ d.text[1] \in Known
    BY <1>2 DEF F!Live, F!Entry, F!Texts
  <1>6. like \in SUBSET F!Texts /\ \A t \in like : F!Same(t, d.text)
    BY <1>5, WordingFacts DEF F!Same
  <1> DEFINE hit == {f \in index : f.text \in like}
             record == [reason |-> "date_expired", refused |-> F!Refused({}, {d.text})]
  <1>7. /\ F!Refused({}, {d.text}) \subseteq F!Texts
        /\ \A t \in F!Texts : F!Same(t, d.text) => t \in F!Refused({}, {d.text})
    BY <1>5, RefusedFacts
  <1>8. record \in F!Removal
    BY <1>7 DEF F!Removal
  <1>9. forgets' \in 0..MaxForgets
    BY <1>1, <1>2
  <1>10. /\ hit \in SUBSET index /\ \A e \in hit : e.text \in record.refused
    BY <1>6, <1>7
  <1>11. /\ index' = index \ hit /\ removals' = removals \cup {record}
         /\ view' = F!Rebuilt(index') \/ (index' = index /\ view' = view)
    BY <1>4
  <1> HIDE DEF hit, record
  <1> QED
    BY <1>1, <1>8, <1>9, <1>10, <1>11, RemovalStep

LEMMA LapseStep ==
  ASSUME StoreInv, F!Lapse
  PROVE  StoreStep
  <1>1. StoreTypes /\ FreshIsAlone /\ PairsAreOpen /\ InStep
    BY DEF StoreInv
  <1>2. /\ removals' \subseteq removals
        /\ UNCHANGED <<index, last, view, batch, stale, misread, forgets>>
    BY DEF F!Lapse
  <1>3. FreshIsAlone'
    BY <1>1, <1>2, FewerAlone DEF Waits
  <1>4. PairsAreOpen' /\ InStep'
    BY <1>1, <1>2 DEF PairsAreOpen, InStep, AtRest, F!Rebuilt, F!Live
  <1>5. StoreInv' /\ NoneComesBack
    BY <1>1, <1>2, <1>3, <1>4, FewerInv DEF StoreTypes, F!TypeOK
  <1> QED
    BY <1>2, <1>5, IndexKept DEF StoreStep

(* Marking entries, as over or as stated, leaves them what they are. *)
Marks ==
    /\ index' \subseteq F!Entry
    /\ \A e, f \in index' : e.id = f.id => e = f
    /\ \A f \in index' : \E e \in index : e.id = f.id /\ e.text = f.text /\ (e.old => f.old)
    /\ UNCHANGED <<last, removals, batch, stale, misread, forgets>>

LEMMA MarksStep ==
  ASSUME StoreInv, Marks, InStep', view' \subseteq F!Entry
  PROVE  StoreInv' /\ NoneComesBack
  <1>1. StoreTypes /\ FreshIsAlone /\ PairsAreOpen /\ F!HeldOnce
    BY DEF StoreInv
  <1>2. StoreTypes'
    BY <1>1 DEF Marks, StoreTypes, F!TypeOK
  <1>3. \A f \in F!Live(index') : \E e \in F!Live(index) : e.id = f.id /\ e.text = f.text
    BY <1>1 DEF Marks, F!Live, StoreTypes, F!TypeOK, F!Entry
  <1>4. FreshIsAlone'
    BY <1>1, <1>3 DEF Marks, FreshIsAlone, Waits, F!Denied
  <1>5. PairsAreOpen'
    BY <1>1 DEF Marks, PairsAreOpen
  <1>6. F!HeldOnce'
    <2> SUFFICES ASSUME NEW e \in F!Live(index'), NEW f \in F!Live(index'),
                        F!Same(e.text, f.text), e # f
                 PROVE  {e.id, f.id} \cap stale' # {}
      BY DEF F!HeldOnce
    <2>1. PICK d \in F!Live(index) : d.id = e.id /\ d.text = e.text
      BY <1>3
    <2>2. PICK g \in F!Live(index) : g.id = f.id /\ g.text = f.text
      BY <1>3
    <2>3. e.id # f.id
      BY DEF Marks, F!Live
    <2>4. {d.id, g.id} \cap stale # {}
      BY <1>1, <2>1, <2>2, <2>3 DEF F!HeldOnce
    <2> QED
      BY <2>1, <2>2, <2>4 DEF Marks
  <1>7. NoneComesBack
    BY <1>1, FewerBack DEF Marks
  <1> QED
    BY <1>2, <1>4, <1>5, <1>6, <1>7 DEF StoreInv

LEMMA ExpireStep ==
  ASSUME StoreInv, F!Expire
  PROVE  StoreStep
  <1>1. StoreTypes /\ InStep
    BY DEF StoreInv
  <1>2. PICK d \in F!Live(index) : index' = (index \ {d}) \cup {[d EXCEPT !.old = TRUE]}
    BY DEF F!Expire
  <1>3. UNCHANGED <<last, view, removals, batch, stale, misread, forgets>>
    BY DEF F!Expire
  <1> DEFINE over == [d EXCEPT !.old = TRUE]
  <1>4. d \in index /\ d \in F!Entry /\ ~d.old
    BY <1>1 DEF F!Live, StoreTypes, F!TypeOK
  <1>5. over \in F!Entry /\ over.id = d.id /\ over.text = d.text /\ over.prov = d.prov /\ over.old
    BY <1>4 DEF F!Entry
  <1>6. \A e, f \in index : e.id = f.id => e = f
    BY <1>1 DEF StoreTypes, F!TypeOK
  <1>7. index \subseteq F!Entry /\ view \subseteq F!Entry
    BY <1>1 DEF StoreTypes, F!TypeOK
  <1>8. index' = (index \ {d}) \cup {over}
    BY <1>2
  <1> HIDE DEF over
  <1>9. Marks
    <2>1. \A e, f \in index' : e.id = f.id => e = f
      BY <1>4, <1>5, <1>6, <1>8
    <2>2. \A f \in index' : \E e \in index : e.id = f.id /\ e.text = f.text /\ (e.old => f.old)
      BY <1>4, <1>5, <1>8
    <2> QED
      BY <1>3, <1>5, <1>7, <1>8, <2>1, <2>2 DEF Marks
  <1>10. InStep'
    <2> SUFFICES ASSUME \A w \in F!Callers : AtRest(w)'
                 PROVE  /\ F!Rebuilt(index') \subseteq view
                        /\ \A e \in view : e \in index' \/ [e EXCEPT !.old = TRUE] \in index'
      BY <1>3 DEF InStep
    <2>1. /\ F!Rebuilt(index) \subseteq view
          /\ \A e \in view : e \in index \/ [e EXCEPT !.old = TRUE] \in index
      BY <1>3 DEF StoreInv, InStep, AtRest
    <2>2. F!Rebuilt(index') \subseteq F!Rebuilt(index)
      <3> SUFFICES ASSUME NEW e \in F!Rebuilt(index') PROVE e \in F!Rebuilt(index)
        OBVIOUS
      <3>1. e \in index' /\ ~e.old /\ \A f \in index' : f.text = e.text => e.id <= f.id
        BY DEF F!Rebuilt, F!Live
      <3>2. e \in index
        BY <1>5, <1>8, <3>1
      <3>3. \A f \in index : f.text = e.text => e.id <= f.id
        BY <1>5, <1>8, <3>1
      <3> QED
        BY <3>1, <3>2, <3>3 DEF F!Rebuilt, F!Live
    <2>3. ASSUME NEW e \in view PROVE e \in index' \/ [e EXCEPT !.old = TRUE] \in index'
      <3>1. CASE e = d
        BY <1>8, <3>1 DEF over
      <3>2. CASE e # d
        <4>1. e \in F!Entry
          BY <1>7
        <4>2. [e EXCEPT !.old = TRUE] # d
          BY <1>4, <4>1 DEF F!Entry
        <4> QED
          BY <1>8, <2>1, <3>2, <4>2
      <3> QED
        BY <3>1, <3>2
    <2> QED
      BY <2>1, <2>2, <2>3
  <1>11. StoreInv' /\ NoneComesBack
    BY <1>3, <1>7, <1>9, <1>10, MarksStep
  <1>12. NoneIsDropped
    BY <1>5, <1>8 DEF NoneIsDropped, F!Same
  <1> QED
    BY <1>11, <1>12 DEF StoreStep

LEMMA PromoteStep ==
  ASSUME StoreInv, F!Promote
  PROVE  StoreStep
  <1>1. PICK k \in Known : \E texts \in SUBSET ({k} \X Wordings) :
          index' = {IF e.text \in texts THEN [e EXCEPT !.prov = "stated"] ELSE e
                       : e \in index}
    BY DEF F!Promote
  <1>2. PICK texts \in SUBSET ({k} \X Wordings) :
          index' = {IF e.text \in texts THEN [e EXCEPT !.prov = "stated"] ELSE e
                       : e \in index}
    BY <1>1
  <1>3. /\ view' = F!Rebuilt(index')
        /\ UNCHANGED <<last, removals, batch, stale, misread, forgets>>
    BY DEF F!Promote
  <1>4. index \subseteq F!Entry /\ \A e, f \in index : e.id = f.id => e = f
    BY DEF StoreInv, StoreTypes, F!TypeOK
  <1> DEFINE said_(e) == IF e.text \in texts THEN [e EXCEPT !.prov = "stated"] ELSE e
  <1>5. \A e \in index : /\ said_(e) \in F!Entry /\ said_(e).id = e.id
                         /\ said_(e).text = e.text /\ said_(e).old = e.old
                         /\ e.prov = "stated" => said_(e).prov = "stated"
    BY <1>4 DEF F!Entry, F!Provenances
  <1>6. index' = {said_(e) : e \in index}
    BY <1>2
  <1> HIDE DEF said_
  <1>7. Marks
    BY <1>3, <1>4, <1>5, <1>6 DEF Marks
  <1>8. InStep' /\ view' \subseteq F!Entry
    BY <1>3, <1>7, RebuiltInStep DEF Marks
  <1>9. StoreInv' /\ NoneComesBack
    BY <1>7, <1>8, MarksStep
  <1>10. NoneIsDropped
    BY <1>5, <1>6 DEF NoneIsDropped, F!Same
  <1> QED
    BY <1>9, <1>10 DEF StoreStep

(* Any set of naturals has a least element. *)
LEMMA LeastNat ==
  ASSUME NEW T \in SUBSET Nat, T # {}
  PROVE  \E x \in T : \A y \in T : x <= y
  <1> DEFINE R == OpToRel(<, Nat)
  <1>1. IsWellFoundedOn(R, Nat)
    BY NatLessThanWellFounded
  <1>2. \A x, y \in Nat : x < y => <<x, y>> \in R
    BY DEF OpToRel
  <1> HIDE DEF R
  <1>3. PICK x \in T : \A y \in T : ~(<<y, x>> \in R)
    BY <1>1, WFMin
  <1>4. \A y \in T : ~(y < x)
    BY <1>2, <1>3
  <1> QED
    BY <1>4

(* Among the newest of a set of entries there is one.                        *)
LEMMA NewestEntry ==
  ASSUME NEW entries \in SUBSET F!Entry, entries # {}
  PROVE  \E e \in entries : \A f \in entries : f.id <= e.id
  <1> DEFINE T == {MaxEntries - e.id : e \in entries}
  <1>1. \A e \in entries : e.id \in Nat /\ MaxEntries - e.id \in Nat
    BY DEF F!Entry
  <1>2. T \in SUBSET Nat /\ T # {}
    BY <1>1
  <1>3. PICK x \in T : \A y \in T : x <= y
    BY <1>2, LeastNat
  <1>4. PICK e \in entries : x = MaxEntries - e.id
    BY <1>3
  <1>5. \A f \in entries : MaxEntries - e.id <= MaxEntries - f.id
    BY <1>3, <1>4
  <1> QED
    BY <1>1, <1>5

(* The newest of what was stated of a fact is beaten by none. *)
LEMMA CompactStep ==
  ASSUME StoreInv, F!Compact
  PROVE  StoreStep
  <1>1. StoreTypes /\ FreshIsAlone /\ PairsAreOpen
    BY DEF StoreInv
  <1>2. /\ index' = {f \in index : f.old \/ ~\E e \in F!Live(index) :
                       e # f /\ F!Same(e.text, f.text) /\ F!Beats(e, f)}
        /\ view' = F!Rebuilt(index')
        /\ UNCHANGED <<last, removals, batch, stale, misread, forgets>>
    BY DEF F!Compact
  <1>3. index' \subseteq index /\ index' \subseteq F!Entry
    BY <1>1, <1>2 DEF StoreTypes, F!TypeOK
  <1>4. InStep' /\ view' \subseteq F!Entry
    BY <1>2, <1>3, RebuiltInStep
  <1>5. F!Live(index') \subseteq F!Live(index)
    BY <1>3 DEF F!Live
  <1>6. FreshIsAlone' /\ PairsAreOpen'
    BY <1>1, <1>2, <1>5, FewerAlone DEF Waits, PairsAreOpen
  <1>7. StoreInv' /\ NoneComesBack
    BY <1>1, <1>2, <1>3, <1>4, <1>6, FewerInv DEF StoreTypes, F!TypeOK
  <1>8. NoneIsDropped
    <2> SUFFICES ASSUME NEW e \in index, e.prov = "stated"
                 PROVE  \E f \in index' : f.prov = "stated" /\ F!Same(e.text, f.text)
      BY DEF NoneIsDropped
    <2>1. CASE e.old
      BY <1>2, <2>1 DEF F!Same
    <2>2. CASE ~e.old
      <3> DEFINE those == {f \in F!Live(index) : f.prov = "stated" /\ F!Same(e.text, f.text)}
      <3>1. those \in SUBSET F!Entry /\ e \in those
        BY <1>1, <2>2 DEF StoreTypes, F!TypeOK, F!Live, F!Same
      <3>2. PICK f \in those : \A g \in those : g.id <= f.id
        BY <3>1, NewestEntry
      <3>3. f \in index /\ ~f.old /\ f.prov = "stated" /\ F!Same(e.text, f.text)
        BY DEF F!Live
      <3>4. ASSUME NEW g \in F!Live(index), F!Same(g.text, f.text), F!Beats(g, f)
            PROVE  FALSE
        <4>1. g \in F!Entry /\ f \in F!Entry
          BY <1>1, <3>3 DEF StoreTypes, F!TypeOK, F!Live
        <4>2. g.prov \in F!Provenances /\ g.id \in Nat /\ f.id \in Nat
          BY <4>1 DEF F!Entry
        <4>3. ~(F!Rank(g.prov) > F!Rank(f.prov))
          BY <3>3, <4>2, RankFacts
        <4>4. g.prov = "stated" /\ g.id > f.id
          BY <3>3, <3>4, <4>3 DEF F!Beats
        <4>5. F!Same(e.text, g.text)
          BY <3>3, <3>4 DEF F!Same
        <4>6. g.id <= f.id
          BY <3>2, <4>4, <4>5
        <4> QED
          BY <4>2, <4>4, <4>6
      <3>5. f \in index'
        BY <1>2, <3>3, <3>4
      <3> QED
        BY <3>3, <3>5
    <2> QED
      BY <2>1, <2>2
  <1> QED
    BY <1>7, <1>8 DEF StoreStep

LEMMA NextStore == StoreInv /\ [F!Next]_storeVars => StoreStep
  <1> SUFFICES ASSUME StoreInv, [F!Next]_storeVars PROVE StoreStep
    OBVIOUS
  <1>1. ASSUME UNCHANGED storeVars PROVE StoreStep
    <2>1. StoreInv'
      BY <1>1 DEF StoreInv, StoreTypes, F!TypeOK, FreshIsAlone, PairsAreOpen, InStep,
         F!HeldOnce, storeVars, Waits, AtRest, F!Denied, F!Live, F!Rebuilt, F!Same
    <2>2. NoneComesBack
      BY <1>1, FewerBack DEF storeVars, StoreInv
    <2> QED
      BY <1>1, <2>1, <2>2, IndexKept DEF StoreStep, storeVars
  <1> QED
    BY <1>1, WriteNextStep, EmbeddedStep, FinishStep, ConsolidateStep, JudgedStep,
       ForgetStep, DateExpiresStep, LapseStep, ExpireStep, PromoteStep, CompactStep
    DEF F!Next

LEMMA StoreMeans ==
  ASSUME StoreInv
  PROVE  F!TypeOK /\ F!HeldOnce /\ F!ViewIsIndex
  <1>1. (\A w \in F!Callers : batch[w] = None) => \A w \in F!Callers : AtRest(w)
    BY DEF AtRest
  <1> QED
    BY <1>1 DEF StoreInv, StoreTypes, InStep, F!ViewIsIndex
-----------------------------------------------------------------------------
(* The graph.  (memory/graph-store.ts)                                       *)

Node == [text : GraphTexts, prov : {"observed", "stated"}, old : BOOLEAN]
AddCall == [pc : {"idle", "embed", "judge", "link"}, text : GraphTexts \cup {None},
            prov : {"observed", "stated"}, olds : SUBSET (1..MaxId), id : 0..MaxId]

GraphTypes ==
    /\ G!TypeOK /\ nodes \in [DOMAIN nodes -> Node] /\ add \in [Adds -> AddCall]
    /\ \A a \in Adds : G!Busy(a) => add[a].text \in GraphTexts

(* A call that found no duplicate still finds none, and two calls do not add *)
(* one fact, but where the race is on record.                                *)
RacesAreNoted ==
    /\ \A a \in Adds : add[a].pc = "judge" => \A i \in DOMAIN nodes :
          G!Same(nodes[i].text, add[a].text) => add[a].text[1] \in raced
    /\ \A a, b \in Adds :
          a # b /\ G!Busy(a) /\ G!Busy(b) /\ G!Same(add[a].text, add[b].text)
             => add[a].text[1] \in raced

(* While a forget is under way nothing it has looked for is left, and all    *)
(* that is on its way is excused; after it nothing it has looked for is on   *)
(* its way, but what is excused or stated.                                   *)
ForgettingIsNoted == forgetting # None =>
    /\ forgetting \in G!Forgetting /\ forgetting.looked \subseteq forgetting.query.hits
    /\ \A i \in DOMAIN nodes : nodes[i].text \in forgetting.looked =>
          nodes[i].prov = "stated" \/ nodes[i].text \in excused
    /\ \A a \in Adds : G!Busy(a) /\ add[a].text \in forgetting.query.hits
          => add[a].text \in excused
ForgottenIsRefused == \A r \in forgotten :
    /\ r.looked \subseteq r.refused
    /\ \A a \in Adds : G!Busy(a) /\ add[a].text \in r.looked
          => add[a].prov = "stated" \/ add[a].text \in excused

(* What a call will mark as replaced was there before its node. *)
OldsAreOlder == \A a \in Adds :
    /\ add[a].pc = "judge" => add[a].olds \subseteq 1..top
    /\ add[a].pc = "link" => \A o \in add[a].olds : o < add[a].id

GraphInv ==
    /\ GraphTypes /\ RacesAreNoted /\ ForgettingIsNoted /\ ForgottenIsRefused
    /\ OldsAreOlder
    /\ G!StoredOnce /\ G!ForgottenIsGone /\ G!HistoryIsWalkable

USE GraphAssumption

LEMMA IdleFacts == G!Idle \in AddCall /\ G!Idle.pc = "idle"
  <1>1. 0 \in 0..MaxId /\ {} \in SUBSET (1..MaxId)
    OBVIOUS
  <1> QED
    BY <1>1 DEF G!Idle, AddCall

Begun(t, p) == [G!Idle EXCEPT !.pc = "embed", !.text = t, !.prov = p]

LEMMA BegunFacts ==
  ASSUME NEW t \in GraphTexts, NEW p \in {"observed", "stated"}
  PROVE  /\ Begun(t, p) \in AddCall /\ Begun(t, p).pc = "embed"
         /\ Begun(t, p).text = t /\ Begun(t, p).prov = p
  <1> DEFINE r == G!Idle
             x == Begun(t, p)
             y == [r EXCEPT !.pc = "embed"]
             z == [y EXCEPT !.text = t]
  <1>1. r \in AddCall
    BY IdleFacts
  <1> HIDE DEF r
  <1>2. y \in AddCall /\ y.pc = "embed"
    BY <1>1 DEF AddCall
  <1> HIDE DEF y
  <1>3. z \in AddCall /\ z.pc = "embed" /\ z.text = t
    BY <1>2 DEF AddCall
  <1> HIDE DEF z
  <1>4. x = [z EXCEPT !.prov = p]
    BY DEF r, y, z, Begun
  <1> QED
    BY <1>3, <1>4 DEF AddCall

LEMMA InitGraph == G!Init => GraphInv
  <1> SUFFICES ASSUME G!Init PROVE GraphInv
    OBVIOUS
  <1>1. /\ nodes = [i \in {} |-> None] /\ newer = {} /\ top = 0
        /\ add = [a \in Adds |-> G!Idle] /\ forgetting = None /\ forgotten = {}
        /\ raced = {} /\ excused = {}
    BY DEF G!Init
  <1>2. DOMAIN nodes = {}
    BY <1>1
  <1>3. \A a \in Adds : add[a] \in AddCall /\ add[a].pc = "idle" /\ ~G!Busy(a)
    BY <1>1, IdleFacts DEF G!Busy
  <1>4. GraphTypes
    BY <1>1, <1>2, <1>3 DEF GraphTypes, G!TypeOK, AddCall
  <1> QED
    BY <1>1, <1>2, <1>3, <1>4 DEF GraphInv, RacesAreNoted, ForgettingIsNoted,
       ForgottenIsRefused, OldsAreOlder, G!StoredOnce, G!ForgottenIsGone,
       G!HistoryIsWalkable

(* A call that ends leaves fewer of them. *)
LEMMA EndsStep ==
  ASSUME GraphInv, NEW a \in Adds, add' = [add EXCEPT ![a] = G!Idle],
         UNCHANGED <<nodes, newer, top, forgetting, forgotten, raced, excused>>
  PROVE  GraphInv'
  <1>1. \A b \in Adds : add'[b] = IF b = a THEN G!Idle ELSE add[b]
    BY DEF GraphInv, GraphTypes
  <1>2. \A b \in Adds : G!Busy(b)' => G!Busy(b) /\ add'[b] = add[b]
    BY <1>1, IdleFacts DEF G!Busy
  <1>3. add' \in [Adds -> AddCall]
    BY <1>1, IdleFacts DEF GraphInv, GraphTypes
  <1>4. GraphTypes'
    BY <1>1, <1>2, <1>3 DEF GraphInv, GraphTypes, G!TypeOK, AddCall
  <1>5. RacesAreNoted'
    BY <1>1, <1>2 DEF GraphInv, RacesAreNoted, G!Busy
  <1>6. ForgettingIsNoted' /\ ForgottenIsRefused'
    BY <1>1, <1>2 DEF GraphInv, ForgettingIsNoted, ForgottenIsRefused
  <1>7. OldsAreOlder'
    BY <1>1, IdleFacts DEF GraphInv, OldsAreOlder
  <1>8. (G!StoredOnce /\ G!ForgottenIsGone /\ G!HistoryIsWalkable)'
    BY DEF GraphInv, G!StoredOnce, G!ForgottenIsGone, G!HistoryIsWalkable
  <1> QED
    BY <1>4, <1>5, <1>6, <1>7, <1>8 DEF GraphInv

LEMMA BeginStep ==
  ASSUME GraphInv, NEW a \in Adds, NEW t \in GraphTexts, NEW p \in {"observed", "stated"},
         G!Begin(a, t, p)
  PROVE  GraphInv'
  <1> DEFINE x == Begun(t, p)
  <1>1. /\ ~G!Busy(a) /\ (p = "stated" \/ ~G!Suppressed(t)) /\ add' = [add EXCEPT ![a] = x]
        /\ raced' = IF \E b \in Adds : G!Busy(b) /\ G!Same(add[b].text, t)
                    THEN raced \cup {t[1]} ELSE raced
        /\ excused' = IF forgetting # None /\ t \in forgetting.query.hits
                      THEN excused \cup {t} ELSE excused
        /\ UNCHANGED <<nodes, newer, top, forgetting, forgotten>>
    BY DEF G!Begin, Begun
  <1>2. x \in AddCall /\ x.pc = "embed" /\ x.text = t /\ x.prov = p
    BY BegunFacts
  <1> HIDE DEF x
  <1>3. \A b \in Adds : add'[b] = IF b = a THEN x ELSE add[b]
    BY <1>1 DEF GraphInv, GraphTypes
  <1>4. raced \subseteq raced' /\ excused \subseteq excused'
    BY <1>1
  <1>5. \A b \in Adds : b # a => (G!Busy(b)' <=> G!Busy(b))
    BY <1>3 DEF G!Busy
  <1>6. GraphTypes'
    <2>1. add' \in [Adds -> AddCall]
      BY <1>1, <1>2 DEF GraphInv, GraphTypes
    <2>2. raced' \subseteq G!FactsIn(GraphTexts) /\ excused' \subseteq GraphTexts
      BY <1>1 DEF GraphInv, GraphTypes, G!TypeOK, G!FactsIn
    <2>3. \A b \in Adds : G!Busy(b)' => add'[b].text \in GraphTexts
      BY <1>2, <1>3, <1>5 DEF GraphInv, GraphTypes
    <2>4. \A b \in Adds : /\ add'[b].pc \in {"idle", "embed", "judge", "link"}
                          /\ add'[b].text \in GraphTexts \cup {None}
                          /\ add'[b].olds \subseteq 1..MaxId
      BY <2>1 DEF AddCall
    <2> QED
      BY <1>1, <2>1, <2>2, <2>3, <2>4 DEF GraphInv, GraphTypes, G!TypeOK
  <1>7. RacesAreNoted'
    <2>1. \A b \in Adds : add'[b].pc = "judge" => \A i \in DOMAIN nodes' :
             G!Same(nodes'[i].text, add'[b].text) => add'[b].text[1] \in raced'
      BY <1>1, <1>2, <1>3, <1>4 DEF GraphInv, RacesAreNoted
    <2>2. \A b \in Adds : b # a /\ G!Busy(b) /\ G!Same(add[b].text, t) => t[1] \in raced'
      BY <1>1
    <2>3. ASSUME NEW b \in Adds, NEW c \in Adds, b # c, G!Busy(b)', G!Busy(c)',
                 G!Same(add'[b].text, add'[c].text)
          PROVE  add'[b].text[1] \in raced'
      <3>1. CASE b # a /\ c # a
        BY <1>3, <1>4, <1>5, <2>3, <3>1 DEF GraphInv, RacesAreNoted
      <3>2. CASE b = a
        BY <1>2, <1>3, <1>5, <2>2, <2>3, <3>2 DEF G!Same
      <3>3. CASE c = a
        BY <1>2, <1>3, <1>5, <2>2, <2>3, <3>3 DEF G!Same
      <3> QED
        BY <3>1, <3>2, <3>3
    <2> QED
      BY <2>1, <2>3 DEF RacesAreNoted
  <1>8. ForgettingIsNoted'
    <2> SUFFICES ASSUME forgetting # None PROVE ForgettingIsNoted'
      BY <1>1 DEF ForgettingIsNoted
    <2>1. ASSUME NEW b \in Adds, G!Busy(b)', add'[b].text \in forgetting.query.hits
          PROVE  add'[b].text \in excused'
      <3>1. CASE b = a
        BY <1>1, <1>2, <1>3, <2>1, <3>1
      <3>2. CASE b # a
        BY <1>1, <1>3, <1>4, <1>5, <2>1, <3>2 DEF GraphInv, ForgettingIsNoted
      <3> QED
        BY <3>1, <3>2
    <2> QED
      BY <1>1, <1>4, <2>1 DEF GraphInv, ForgettingIsNoted
  <1>9. ForgottenIsRefused'
    <2> SUFFICES ASSUME NEW r \in forgotten, NEW b \in Adds, G!Busy(b)',
                        add'[b].text \in r.looked
                 PROVE  add'[b].prov = "stated" \/ add'[b].text \in excused'
      BY <1>1 DEF GraphInv, ForgottenIsRefused
    <2>1. CASE b = a
      BY <1>1, <1>2, <1>3, <2>1 DEF GraphInv, ForgottenIsRefused, G!Suppressed
    <2>2. CASE b # a
      BY <1>1, <1>3, <1>4, <1>5, <2>2 DEF GraphInv, ForgottenIsRefused
    <2> QED
      BY <2>1, <2>2
  <1>10. OldsAreOlder'
    BY <1>1, <1>2, <1>3 DEF GraphInv, OldsAreOlder
  <1>11. (G!StoredOnce /\ G!ForgottenIsGone /\ G!HistoryIsWalkable)'
    BY <1>1, <1>4 DEF GraphInv, G!StoredOnce, G!ForgottenIsGone, G!HistoryIsWalkable
  <1> QED
    BY <1>6, <1>7, <1>8, <1>9, <1>10, <1>11 DEF GraphInv

LEMMA SearchStep ==
  ASSUME GraphInv, NEW a \in Adds, G!Search(a)
  PROVE  GraphInv'
  <1> DEFINE t == add[a].text
  <1>1. /\ add[a].pc = "embed"
        /\ UNCHANGED <<nodes, newer, top, forgetting, forgotten, excused>>
    BY DEF G!Search
  <1>2. ASSUME add' = [add EXCEPT ![a] = G!Idle], UNCHANGED raced PROVE GraphInv'
    BY <1>1, <1>2, EndsStep
  <1>3. ASSUME NEW others \in SUBSET Others, G!Duplicate(t, others) \subseteq others,
               NEW olds \in SUBSET {i \in DOMAIN nodes : ~G!Same(nodes[i].text, t)},
               add' = [add EXCEPT ![a].pc = "judge", ![a].olds = olds],
               raced' = IF G!Stored(t) /\ G!Duplicate(t, others) # {}
                        THEN raced \cup {t[1]} ELSE raced
        PROVE  GraphInv'
    <2>1. add' = [add EXCEPT ![a].pc = "judge", ![a].olds = olds]
      BY <1>3
    <2>20. \A i \in DOMAIN nodes : G!Same(nodes[i].text, t) => t[1] \in raced'
      <3> SUFFICES ASSUME NEW i \in DOMAIN nodes, G!Same(nodes[i].text, t)
                   PROVE  t[1] \in raced'
        OBVIOUS
      <3>1. G!Stored(t)
        BY DEF G!Stored
      <3>2. nodes[i].text \in {u \in {nodes[j].text : j \in DOMAIN nodes} \cup others : G!Same(u, t)}
        OBVIOUS
      <3>3. G!Duplicate(t, others) # {}
        BY <3>2 DEF G!Duplicate
      <3> QED
        BY <1>3, <3>1, <3>3
    <2>21. raced \subseteq raced'
      BY <1>3
    <2>22. t \in GraphTexts
      BY <1>1 DEF GraphInv, GraphTypes, G!Busy
    <2>23. raced' \subseteq G!FactsIn(GraphTexts)
      BY <1>3, <2>22 DEF GraphInv, GraphTypes, G!TypeOK, G!FactsIn
    <2> DEFINE x == [[add[a] EXCEPT !.pc = "judge"] EXCEPT !.olds = olds]
    <2>2. \A b \in Adds : add'[b] = IF b = a THEN x ELSE add[b]
      BY <2>1 DEF GraphInv, GraphTypes
    <2>3. olds \subseteq 1..top /\ olds \subseteq 1..MaxId
      BY DEF GraphInv, GraphTypes, G!TypeOK
    <2>4. /\ x \in AddCall /\ x.pc = "judge" /\ x.olds = olds
          /\ x.text = add[a].text /\ x.prov = add[a].prov
      BY <2>3 DEF GraphInv, GraphTypes, AddCall
    <2> HIDE DEF x
    <2>5. \A b \in Adds : /\ G!Busy(b)' <=> G!Busy(b)
                          /\ add'[b].text = add[b].text /\ add'[b].prov = add[b].prov
      BY <1>1, <2>2, <2>4 DEF G!Busy
    <2>6. GraphTypes'
      <3>1. add' \in [Adds -> AddCall]
        BY <2>1, <2>2, <2>4 DEF GraphInv, GraphTypes
      <3>2. \A b \in Adds : /\ add'[b].pc \in {"idle", "embed", "judge", "link"}
                            /\ add'[b].text \in GraphTexts \cup {None}
                            /\ add'[b].olds \subseteq 1..MaxId
        BY <3>1 DEF AddCall
      <3>3. \A b \in Adds : G!Busy(b)' => add'[b].text \in GraphTexts
        BY <2>5 DEF GraphInv, GraphTypes
      <3> QED
        BY <1>1, <2>23, <3>1, <3>2, <3>3 DEF GraphInv, GraphTypes, G!TypeOK
    <2>7. RacesAreNoted'
      <3>1. ASSUME NEW b \in Adds, add'[b].pc = "judge", NEW i \in DOMAIN nodes',
                   G!Same(nodes'[i].text, add'[b].text)
            PROVE  add'[b].text[1] \in raced'
        <4>1. CASE b = a
          BY <1>1, <2>5, <2>20, <3>1, <4>1
        <4>2. CASE b # a
          BY <1>1, <2>2, <2>21, <3>1, <4>2 DEF GraphInv, RacesAreNoted
        <4> QED
          BY <4>1, <4>2
      <3>2. \A b, c \in Adds :
               b # c /\ G!Busy(b)' /\ G!Busy(c)' /\ G!Same(add'[b].text, add'[c].text)
                  => add'[b].text[1] \in raced'
        BY <1>1, <2>5, <2>21 DEF GraphInv, RacesAreNoted
      <3> QED
        BY <3>1, <3>2 DEF RacesAreNoted
    <2>8. ForgettingIsNoted' /\ ForgottenIsRefused'
      BY <1>1, <2>5 DEF GraphInv, ForgettingIsNoted, ForgottenIsRefused
    <2>9. OldsAreOlder'
      BY <1>1, <2>2, <2>3, <2>4 DEF GraphInv, OldsAreOlder
    <2>10. (G!StoredOnce /\ G!ForgottenIsGone /\ G!HistoryIsWalkable)'
      BY <1>1, <2>21 DEF GraphInv, G!StoredOnce, G!ForgottenIsGone, G!HistoryIsWalkable
    <2> QED
      BY <2>6, <2>7, <2>8, <2>9, <2>10 DEF GraphInv
  <1> QED
    BY <1>2, <1>3 DEF G!Search

LEMMA CreateStep ==
  ASSUME GraphInv, NEW a \in Adds, G!Create(a)
  PROVE  GraphInv'
  <1> DEFINE new == [text |-> add[a].text, prov |-> add[a].prov, old |-> FALSE]
             x == [[add[a] EXCEPT !.pc = "link"] EXCEPT !.id = top']
  <1>1. /\ add[a].pc = "judge" /\ top < MaxId /\ top' = top + 1
        /\ nodes' = [i \in DOMAIN nodes \cup {top'} |->
                       IF i \in DOMAIN nodes THEN nodes[i] ELSE new]
        /\ add' = [add EXCEPT ![a].pc = "link", ![a].id = top']
        /\ UNCHANGED <<newer, forgetting, forgotten, raced, excused>>
    BY DEF G!Create
  <1>2. /\ GraphTypes /\ top \in 0..MaxId /\ DOMAIN nodes \subseteq 1..top
        /\ newer \subseteq (DOMAIN nodes) \X (DOMAIN nodes)
        /\ add \in [Adds -> AddCall] /\ nodes \in [DOMAIN nodes -> Node]
    BY DEF GraphInv, GraphTypes, G!TypeOK
  <1>3. top \in Nat /\ top' = top + 1 /\ top' \in 0..MaxId /\ top' \notin DOMAIN nodes
    BY <1>1, <1>2
  <1>4. G!Busy(a) /\ add[a].text \in GraphTexts
    BY <1>1, <1>2 DEF GraphTypes, G!Busy
  <1>5. new \in Node /\ new.text = add[a].text /\ new.prov = add[a].prov
    BY <1>2, <1>4 DEF Node, AddCall
  <1>6. /\ x \in AddCall /\ x.pc = "link" /\ x.id = top' /\ x.olds = add[a].olds
        /\ x.text = add[a].text /\ x.prov = add[a].prov
    BY <1>2, <1>3 DEF AddCall
  <1>7. \A b \in Adds : add'[b] = IF b = a THEN x ELSE add[b]
    BY <1>1, <1>2
  <1> HIDE DEF new, x
  <1>8. /\ DOMAIN nodes' = DOMAIN nodes \cup {top'}
        /\ \A i \in DOMAIN nodes : nodes'[i] = nodes[i]
        /\ nodes'[top'] = new
    BY <1>1, <1>3
  <1>9. \A b \in Adds : /\ G!Busy(b)' <=> G!Busy(b)
                        /\ add'[b].text = add[b].text /\ add'[b].prov = add[b].prov
    BY <1>4, <1>6, <1>7 DEF G!Busy
  <1>10. GraphTypes'
    <2>1. add' \in [Adds -> AddCall]
      BY <1>1, <1>2, <1>6, <1>7
    <2>2. nodes' \in [DOMAIN nodes' -> Node]
      BY <1>1, <1>2, <1>5, <1>8
    <2>3. DOMAIN nodes' \subseteq 1..top'
      BY <1>2, <1>3, <1>8
    <2>4. \A i \in DOMAIN nodes' : /\ nodes'[i].text \in GraphTexts /\ nodes'[i].old \in BOOLEAN
                                   /\ nodes'[i].prov \in {"observed", "stated"}
      BY <2>2 DEF Node
    <2>5. \A b \in Adds : /\ add'[b].pc \in {"idle", "embed", "judge", "link"}
                          /\ add'[b].text \in GraphTexts \cup {None}
                          /\ add'[b].olds \subseteq 1..MaxId
      BY <2>1 DEF AddCall
    <2>6. \A b \in Adds : G!Busy(b)' => add'[b].text \in GraphTexts
      BY <1>2, <1>9 DEF GraphTypes
    <2>7. newer' \subseteq (DOMAIN nodes') \X (DOMAIN nodes')
      BY <1>1, <1>2, <1>8
    <2> QED
      BY <1>1, <1>2, <1>3, <2>1, <2>2, <2>3, <2>4, <2>5, <2>6, <2>7 DEF GraphTypes, G!TypeOK
  <1>11. RacesAreNoted'
    <2>1. ASSUME NEW b \in Adds, add'[b].pc = "judge", NEW i \in DOMAIN nodes',
                 G!Same(nodes'[i].text, add'[b].text)
          PROVE  add'[b].text[1] \in raced'
      <3>1. b # a /\ add'[b] = add[b] /\ G!Busy(b)
        BY <1>6, <1>7, <2>1 DEF G!Busy
      <3>2. CASE i \in DOMAIN nodes
        BY <1>1, <1>8, <2>1, <3>1, <3>2 DEF GraphInv, RacesAreNoted
      <3>3. CASE i = top'
        BY <1>1, <1>4, <1>5, <1>8, <2>1, <3>1, <3>3 DEF GraphInv, RacesAreNoted, G!Same
      <3> QED
        BY <1>8, <3>2, <3>3
    <2>2. \A b, c \in Adds :
             b # c /\ G!Busy(b)' /\ G!Busy(c)' /\ G!Same(add'[b].text, add'[c].text)
                => add'[b].text[1] \in raced'
      <3>1. \A b, c \in Adds :
               b # c /\ G!Busy(b) /\ G!Busy(c) /\ G!Same(add[b].text, add[c].text)
                  => add[b].text[1] \in raced
        BY DEF GraphInv, RacesAreNoted
      <3>2. raced' = raced
        BY <1>1
      <3> QED
        BY <1>9, <3>1, <3>2 DEF G!Same
    <2> QED
      BY <2>1, <2>2 DEF RacesAreNoted
  <1>12. ForgettingIsNoted'
    <2> SUFFICES ASSUME forgetting # None PROVE ForgettingIsNoted'
      BY <1>1 DEF ForgettingIsNoted
    <2>1. /\ forgetting \in G!Forgetting /\ forgetting.looked \subseteq forgetting.query.hits
          /\ \A i \in DOMAIN nodes : nodes[i].text \in forgetting.looked =>
                nodes[i].prov = "stated" \/ nodes[i].text \in excused
          /\ \A b \in Adds : G!Busy(b) /\ add[b].text \in forgetting.query.hits
                => add[b].text \in excused
      BY DEF GraphInv, ForgettingIsNoted
    <2>2. new.text \in forgetting.looked => new.text \in excused
      BY <1>4, <1>5, <2>1
    <2>3. \A i \in DOMAIN nodes' : nodes'[i].text \in forgetting.looked =>
             nodes'[i].prov = "stated" \/ nodes'[i].text \in excused
      BY <1>8, <2>1, <2>2
    <2>4. \A b \in Adds : G!Busy(b)' /\ add'[b].text \in forgetting.query.hits
             => add'[b].text \in excused
      BY <1>9, <2>1
    <2> QED
      BY <1>1, <2>1, <2>3, <2>4 DEF ForgettingIsNoted
  <1>13. ForgottenIsRefused'
    <2>1. ASSUME NEW r \in forgotten, NEW b \in Adds, G!Busy(b)', add'[b].text \in r.looked
          PROVE  add'[b].prov = "stated" \/ add'[b].text \in excused
      <3>1. G!Busy(b) /\ add[b].text \in r.looked
        BY <1>9, <2>1
      <3>2. add[b].prov = "stated" \/ add[b].text \in excused
        BY <3>1 DEF GraphInv, ForgottenIsRefused
      <3> QED
        BY <1>9, <3>2
    <2> QED
      BY <1>1, <2>1 DEF GraphInv, ForgottenIsRefused
  <1>14. OldsAreOlder'
    <2>1. add[a].olds \subseteq 1..top
      BY <1>1 DEF GraphInv, OldsAreOlder
    <2>2. \A o \in x.olds : o < x.id
      BY <1>3, <1>6, <2>1
    <2>3. \A b \in Adds : add[b].pc = "judge" => add[b].olds \subseteq 1..top'
      BY <1>3 DEF GraphInv, OldsAreOlder
    <2> QED
      BY <1>6, <1>7, <2>2, <2>3 DEF GraphInv, OldsAreOlder
  <1>15. G!StoredOnce'
    <2>1. \A i \in DOMAIN nodes : G!Same(nodes[i].text, new.text) => new.text[1] \in raced
      BY <1>1, <1>5 DEF GraphInv, RacesAreNoted
    <2> SUFFICES ASSUME NEW i \in DOMAIN nodes', NEW j \in DOMAIN nodes',
                        G!Same(nodes'[i].text, nodes'[j].text), i # j
                 PROVE  nodes'[i].text[1] \in raced'
      BY DEF G!StoredOnce
    <2>2. CASE i \in DOMAIN nodes /\ j \in DOMAIN nodes
      BY <1>1, <1>8, <2>2 DEF GraphInv, G!StoredOnce
    <2>3. CASE i = top' /\ j \in DOMAIN nodes
      BY <1>1, <1>8, <2>1, <2>3 DEF G!Same
    <2>4. CASE j = top' /\ i \in DOMAIN nodes
      BY <1>1, <1>8, <2>1, <2>4 DEF G!Same
    <2> QED
      BY <1>8, <2>2, <2>3, <2>4
  <1>16. G!ForgottenIsGone'
    BY <1>1, <1>4, <1>5, <1>8 DEF GraphInv, G!ForgottenIsGone, ForgottenIsRefused
  <1>17. G!HistoryIsWalkable'
    <2>1. \A e \in newer : e[2] \in DOMAIN nodes
      BY <1>2
    <2> QED
      BY <1>1, <1>8, <2>1 DEF GraphInv, G!HistoryIsWalkable
  <1> QED
    BY <1>10, <1>11, <1>12, <1>13, <1>14, <1>15, <1>16, <1>17 DEF GraphInv

(* Nodes that are only marked, or only lost, are those there were. *)
NodesKept ==
    /\ DOMAIN nodes' \subseteq DOMAIN nodes /\ nodes' \in [DOMAIN nodes' -> Node]
    /\ \A i \in DOMAIN nodes' :
          /\ nodes'[i].text = nodes[i].text
          /\ nodes[i].prov = "stated" => nodes'[i].prov = "stated"
    /\ newer' \subseteq (DOMAIN nodes') \X (DOMAIN nodes')

LEMMA KeptStep ==
  ASSUME GraphInv, NodesKept, G!HistoryIsWalkable',
         UNCHANGED <<top, add, forgetting, forgotten, raced, excused>>
  PROVE  GraphInv'
  <1>1. GraphTypes'
    <2>1. \A i \in DOMAIN nodes' : /\ nodes'[i].text \in GraphTexts /\ nodes'[i].old \in BOOLEAN
                                   /\ nodes'[i].prov \in {"observed", "stated"}
      BY DEF NodesKept, Node
    <2> QED
      BY <2>1 DEF GraphInv, GraphTypes, G!TypeOK, NodesKept, G!Busy
  <1>2. RacesAreNoted' /\ G!StoredOnce'
    BY DEF GraphInv, NodesKept, RacesAreNoted, G!StoredOnce, G!Busy
  <1>3. ForgettingIsNoted' /\ ForgottenIsRefused' /\ G!ForgottenIsGone'
    BY DEF GraphInv, NodesKept, ForgettingIsNoted, ForgottenIsRefused, G!ForgottenIsGone, G!Busy
  <1>4. OldsAreOlder'
    BY DEF GraphInv, OldsAreOlder
  <1> QED
    BY <1>1, <1>2, <1>3, <1>4 DEF GraphInv

LEMMA LinkStep ==
  ASSUME GraphInv, NEW a \in Adds, G!Link(a)
  PROVE  GraphInv'
  <1>1. /\ add[a].pc = "link" /\ add' = [add EXCEPT ![a] = G!Idle]
        /\ UNCHANGED <<top, forgetting, forgotten, raced, excused>>
    BY DEF G!Link
  <1>2. PICK olds \in SUBSET (add[a].olds \cap DOMAIN nodes) :
          /\ add[a].id \notin DOMAIN nodes => olds = {}
          /\ newer' = newer \cup G!Edges(add[a].id, olds)
          /\ nodes' = [i \in DOMAIN nodes |-> [nodes[i] EXCEPT !.old = @ \/ i \in olds]]
    BY DEF G!Link
  <1>3. /\ newer \subseteq (DOMAIN nodes) \X (DOMAIN nodes)
        /\ nodes \in [DOMAIN nodes -> Node] /\ DOMAIN nodes \subseteq 1..top
    BY DEF GraphInv, GraphTypes, G!TypeOK
  <1>4. DOMAIN nodes' = DOMAIN nodes
    BY <1>2
  <1>5. ASSUME NEW i \in DOMAIN nodes
        PROVE  /\ nodes'[i] \in Node /\ nodes'[i].text = nodes[i].text
               /\ nodes'[i].prov = nodes[i].prov
               /\ nodes'[i].old <=> nodes[i].old \/ i \in olds
    <2>1. nodes'[i] = [nodes[i] EXCEPT !.old = nodes[i].old \/ i \in olds]
      BY <1>2
    <2>2. nodes[i] \in Node /\ nodes[i].old \in BOOLEAN
      BY <1>3 DEF Node
    <2>3. (nodes[i].old \/ i \in olds) \in BOOLEAN
      OBVIOUS
    <2> QED
      BY <2>1, <2>2, <2>3 DEF Node
  <1>6. NodesKept
    <2>1. nodes' \in [DOMAIN nodes' -> Node]
      BY <1>2, <1>4, <1>5
    <2>2. G!Edges(add[a].id, olds) \subseteq (DOMAIN nodes) \X (DOMAIN nodes)
      BY <1>2 DEF G!Edges
    <2> QED
      BY <1>2, <1>3, <1>4, <1>5, <2>1, <2>2 DEF NodesKept
  <1>7. G!HistoryIsWalkable'
    <2> SUFFICES ASSUME NEW e \in newer' PROVE e[2] < e[1] /\ nodes'[e[2]].old
      BY DEF G!HistoryIsWalkable
    <2>1. CASE e \in newer
      BY <1>3, <1>5, <2>1 DEF GraphInv, G!HistoryIsWalkable
    <2>2. CASE e \in G!Edges(add[a].id, olds)
      <3>1. e[1] = add[a].id /\ e[2] \in olds
        BY <2>2 DEF G!Edges
      <3>2. e[2] < e[1]
        BY <1>1, <1>2, <3>1 DEF GraphInv, OldsAreOlder
      <3> QED
        BY <1>5, <3>1, <3>2
    <2> QED
      BY <1>2, <2>1, <2>2
  <1>8. \A b \in Adds : add'[b] = IF b = a THEN G!Idle ELSE add[b]
    BY <1>1 DEF GraphInv, GraphTypes
  <1>9. \A b \in Adds : G!Busy(b)' => G!Busy(b) /\ add'[b] = add[b]
    BY <1>8, IdleFacts DEF G!Busy
  <1>10. GraphTypes'
    <2>1. add' \in [Adds -> AddCall]
      BY <1>1, <1>8, IdleFacts DEF GraphInv, GraphTypes
    <2>2. \A i \in DOMAIN nodes' : /\ nodes'[i].text \in GraphTexts /\ nodes'[i].old \in BOOLEAN
                                   /\ nodes'[i].prov \in {"observed", "stated"}
      BY <1>6 DEF NodesKept, Node
    <2>3. \A b \in Adds : /\ add'[b].pc \in {"idle", "embed", "judge", "link"}
                          /\ add'[b].text \in GraphTexts \cup {None}
                          /\ add'[b].olds \subseteq 1..MaxId
      BY <2>1 DEF AddCall
    <2>4. \A b \in Adds : G!Busy(b)' => add'[b].text \in GraphTexts
      BY <1>9 DEF GraphInv, GraphTypes
    <2> QED
      BY <1>1, <1>6, <2>1, <2>2, <2>3, <2>4 DEF GraphInv, GraphTypes, G!TypeOK, NodesKept
  <1>11. RacesAreNoted'
    <2>1. \A b \in Adds : add'[b].pc = "judge" => G!Busy(b)'
      BY DEF G!Busy
    <2> QED
      BY <1>1, <1>6, <1>9, <2>1 DEF GraphInv, NodesKept, RacesAreNoted
  <1>12. ForgettingIsNoted' /\ ForgottenIsRefused' /\ G!ForgottenIsGone' /\ G!StoredOnce'
    BY <1>1, <1>6, <1>9 DEF GraphInv, NodesKept, ForgettingIsNoted, ForgottenIsRefused,
       G!ForgottenIsGone, G!StoredOnce
  <1>13. OldsAreOlder'
    BY <1>1, <1>8, IdleFacts DEF GraphInv, OldsAreOlder
  <1> QED
    BY <1>7, <1>10, <1>11, <1>12, <1>13 DEF GraphInv

LEMMA AddFailsStep ==
  ASSUME GraphInv, NEW a \in Adds, G!AddFails(a)
  PROVE  GraphInv'
  BY EndsStep DEF G!AddFails

(* What is deleted goes with its edges. *)
LEMMA DetachFacts ==
  ASSUME GraphInv, NEW ids \in SUBSET DOMAIN nodes, G!Detach(ids)
  PROVE  /\ NodesKept /\ G!HistoryIsWalkable'
         /\ DOMAIN nodes' = DOMAIN nodes \ ids
  <1>1. /\ newer \subseteq (DOMAIN nodes) \X (DOMAIN nodes)
        /\ nodes \in [DOMAIN nodes -> Node]
    BY DEF GraphInv, GraphTypes, G!TypeOK
  <1>2. /\ nodes' = [i \in DOMAIN nodes \ ids |-> nodes[i]]
        /\ newer' = {e \in newer : {e[1], e[2]} \cap ids = {}}
    BY DEF G!Detach
  <1>3. DOMAIN nodes' = DOMAIN nodes \ ids /\ \A i \in DOMAIN nodes' : nodes'[i] = nodes[i]
    BY <1>2
  <1>4. nodes' \in [DOMAIN nodes' -> Node]
    BY <1>1, <1>2, <1>3
  <1>5. \A e \in newer' : e \in newer /\ e[1] \notin ids /\ e[2] \notin ids
    BY <1>2
  <1>6. newer' \subseteq (DOMAIN nodes') \X (DOMAIN nodes')
    BY <1>1, <1>3, <1>5
  <1>7. G!HistoryIsWalkable'
    BY <1>1, <1>3, <1>5 DEF GraphInv, G!HistoryIsWalkable
  <1> QED
    BY <1>3, <1>4, <1>6, <1>7 DEF NodesKept

(* The part of a forget that both of its queries share: what is looked for   *)
(* is gone, and what is on its way is excused.                               *)
LEMMA LookedStep ==
  ASSUME GraphInv, NodesKept, G!HistoryIsWalkable', UNCHANGED <<top, add, forgotten, raced>>,
         excused \subseteq excused', excused' \subseteq GraphTexts, forgetting' \in G!Forgetting,
         forgetting'.looked \subseteq forgetting'.query.hits,
         \A i \in DOMAIN nodes' : nodes'[i].text \in forgetting'.looked =>
            nodes'[i].prov = "stated" \/ nodes'[i].text \in excused',
         \A a \in Adds : G!Busy(a) /\ add[a].text \in forgetting'.query.hits
            => add[a].text \in excused'
  PROVE  GraphInv'
  <1>1. GraphTypes'
    <2>1. \A i \in DOMAIN nodes' : /\ nodes'[i].text \in GraphTexts /\ nodes'[i].old \in BOOLEAN
                                   /\ nodes'[i].prov \in {"observed", "stated"}
      BY DEF NodesKept, Node
    <2> QED
      BY <2>1 DEF GraphInv, GraphTypes, G!TypeOK, NodesKept, G!Busy
  <1>2. RacesAreNoted' /\ G!StoredOnce'
    BY DEF GraphInv, NodesKept, RacesAreNoted, G!StoredOnce, G!Busy
  <1>3. ForgettingIsNoted'
    BY DEF ForgettingIsNoted, G!Busy
  <1>4. ForgottenIsRefused' /\ G!ForgottenIsGone'
    BY DEF GraphInv, NodesKept, ForgottenIsRefused, G!ForgottenIsGone, G!Busy
  <1>5. OldsAreOlder'
    BY DEF GraphInv, OldsAreOlder
  <1> QED
    BY <1>1, <1>2, <1>3, <1>4, <1>5 DEF GraphInv

LEMMA HasTextFacts ==
  ASSUME GraphInv, NEW texts, G!Detach(G!HasText(texts))
  PROVE  /\ NodesKept /\ G!HistoryIsWalkable'
         /\ \A i \in DOMAIN nodes' : nodes'[i].text \notin texts
  <1> DEFINE ids == G!HasText(texts)
  <1>1. ids \in SUBSET DOMAIN nodes
    BY DEF G!HasText
  <1>2. \A i \in DOMAIN nodes \ ids : nodes[i].text \notin texts
    BY DEF G!HasText
  <1> HIDE DEF ids
  <1>3. NodesKept /\ G!HistoryIsWalkable' /\ DOMAIN nodes' = DOMAIN nodes \ ids
    BY <1>1, DetachFacts DEF ids
  <1> QED
    BY <1>2, <1>3 DEF NodesKept

LEMMA StillKept ==
  ASSUME GraphInv, UNCHANGED <<nodes, newer>>
  PROVE  NodesKept /\ G!HistoryIsWalkable'
  BY DEF GraphInv, GraphTypes, G!TypeOK, NodesKept, G!HistoryIsWalkable

LEMMA ForgetGraphStep ==
  ASSUME GraphInv, NEW q \in Queries, NEW reached \in BOOLEAN, G!Forget(q, reached)
  PROVE  GraphInv'
  <1>1. /\ IF reached
           THEN /\ G!Detach(G!HasText(q.exact))
                /\ forgetting' = [query |-> q, looked |-> q.exact,
                                  again |-> G!HasText(q.exact) = {} /\ q.long]
           ELSE /\ forgetting' = [query |-> q, looked |-> {}, again |-> FALSE]
                /\ UNCHANGED <<nodes, newer>>
        /\ excused' = excused \cup
              {t \in q.hits : \E a \in Adds : G!Busy(a) /\ add[a].text = t}
        /\ UNCHANGED <<top, add, forgotten, raced>>
    BY DEF G!Forget
  <1>2. q.exact \subseteq q.hits /\ q.hits \subseteq GraphTexts /\ q.long \in BOOLEAN
    BY DEF GraphAssumption
  <1>3. excused \subseteq excused' /\ excused' \subseteq GraphTexts
    BY <1>1, <1>2 DEF GraphInv, GraphTypes, G!TypeOK
  <1>4. \A a \in Adds : G!Busy(a) /\ add[a].text \in q.hits => add[a].text \in excused'
    BY <1>1
  <1>5. forgetting' \in G!Forgetting /\ forgetting'.query = q
    <2>1. CASE reached
      <3> DEFINE more == G!HasText(q.exact) = {} /\ q.long
      <3>1. more \in BOOLEAN
        BY <1>2
      <3>2. forgetting' = [query |-> q, looked |-> q.exact, again |-> more]
        BY <1>1, <2>1
      <3> DEFINE those == q.exact
      <3>3. those \in SUBSET GraphTexts
        BY <1>2
      <3>4. forgetting' = [query |-> q, looked |-> those, again |-> more]
        BY <3>2
      <3> HIDE DEF more, those
      <3>5. [query |-> q, looked |-> those, again |-> more] \in G!Forgetting
        BY <3>1, <3>3 DEF G!Forgetting
      <3>6. [query |-> q, looked |-> those, again |-> more].query = q
        OBVIOUS
      <3> QED
        BY <3>4, <3>5, <3>6, Zenon
    <2>2. CASE ~reached
      <3>1. forgetting' = [query |-> q, looked |-> {}, again |-> FALSE]
        BY <1>1, <2>2
      <3>2. [query |-> q, looked |-> {}, again |-> FALSE] \in G!Forgetting
        BY DEF G!Forgetting
      <3>3. [query |-> q, looked |-> {}, again |-> FALSE].query = q
        OBVIOUS
      <3> QED
        BY <3>1, <3>2, <3>3, Zenon
    <2> QED
      BY <2>1, <2>2
  <1>6. CASE reached
    <2>1. /\ NodesKept /\ G!HistoryIsWalkable'
          /\ \A i \in DOMAIN nodes' : nodes'[i].text \notin q.exact
      BY <1>1, <1>6, HasTextFacts
    <2>2. forgetting'.looked = q.exact
      BY <1>1, <1>6
    <2> QED
      BY <1>1, <1>2, <1>3, <1>4, <1>5, <2>1, <2>2, LookedStep
  <1>7. CASE ~reached
    <2>1. NodesKept /\ G!HistoryIsWalkable'
      BY <1>1, <1>7, StillKept
    <2>2. forgetting'.looked = {}
      BY <1>1, <1>7
    <2> QED
      BY <1>1, <1>2, <1>3, <1>4, <1>5, <2>1, <2>2, LookedStep
  <1> QED
    BY <1>6, <1>7

LEMMA ForgetWordsStep ==
  ASSUME GraphInv, NEW reached \in BOOLEAN, G!ForgetWords(reached)
  PROVE  GraphInv'
  <1> DEFINE q == forgetting.query
  <1>1. /\ forgetting # None
        /\ IF reached
           THEN /\ G!Detach(G!HasText(q.words))
                /\ forgetting' = [[forgetting EXCEPT !.again = FALSE] EXCEPT !.looked = q.hits]
           ELSE /\ forgetting' = [forgetting EXCEPT !.again = FALSE]
                /\ UNCHANGED <<nodes, newer>>
        /\ UNCHANGED <<top, add, forgotten, raced, excused>>
    BY DEF G!ForgetWords
  <1>2. /\ forgetting \in G!Forgetting /\ q \in Queries /\ forgetting.looked \subseteq q.hits
        /\ \A i \in DOMAIN nodes : nodes[i].text \in forgetting.looked =>
              nodes[i].prov = "stated" \/ nodes[i].text \in excused
        /\ \A a \in Adds : G!Busy(a) /\ add[a].text \in q.hits => add[a].text \in excused
    BY <1>1 DEF GraphInv, ForgettingIsNoted, G!Forgetting
  <1>3. q.hits \subseteq q.words /\ q.hits \in SUBSET GraphTexts
    BY <1>2 DEF GraphAssumption
  <1>4. excused \subseteq excused' /\ excused' \subseteq GraphTexts
    BY <1>1 DEF GraphInv, GraphTypes, G!TypeOK
  <1>5. CASE reached
    <2>1. /\ NodesKept /\ G!HistoryIsWalkable'
          /\ \A i \in DOMAIN nodes' : nodes'[i].text \notin q.words
      BY <1>1, <1>5, HasTextFacts
    <2>2. forgetting' \in G!Forgetting /\ forgetting'.looked = q.hits /\ forgetting'.query = q
      BY <1>1, <1>2, <1>3, <1>5 DEF G!Forgetting
    <2> QED
      BY <1>1, <1>2, <1>3, <1>4, <2>1, <2>2, LookedStep
  <1>6. CASE ~reached
    <2>1. NodesKept /\ G!HistoryIsWalkable' /\ UNCHANGED nodes
      BY <1>1, <1>6, StillKept
    <2>2. /\ forgetting' \in G!Forgetting /\ forgetting'.looked = forgetting.looked
          /\ forgetting'.query = q
      BY <1>1, <1>2, <1>6 DEF G!Forgetting
    <2>3. \A i \in DOMAIN nodes' : nodes'[i].text \in forgetting'.looked =>
            nodes'[i].prov = "stated" \/ nodes'[i].text \in excused'
      BY <1>1, <1>2, <2>1, <2>2
    <2> QED
      BY <1>1, <1>2, <1>4, <2>1, <2>2, <2>3, LookedStep
  <1> QED
    BY <1>5, <1>6

LEMMA RecordedStep ==
  ASSUME GraphInv, G!Recorded
  PROVE  GraphInv'
  <1> DEFINE hits == forgetting.query.hits
  <1>1. /\ forgetting # None /\ forgetting' = None
        /\ UNCHANGED <<nodes, newer, top, add, raced, excused>>
    BY DEF G!Recorded
  <1>2. PICK held \in SUBSET hits :
          forgotten' = forgotten \cup
             {[refused |-> hits \cup {t \in GraphTexts : \E u \in held : G!Same(t, u)},
               looked |-> forgetting.looked]}
    BY DEF G!Recorded
  <1> DEFINE refused == hits \cup {t \in GraphTexts : \E u \in held : G!Same(t, u)}
             r == [refused |-> refused, looked |-> forgetting.looked]
  <1>3. forgetting \in G!Forgetting /\ forgetting.looked \subseteq hits
    BY <1>1 DEF GraphInv, ForgettingIsNoted
  <1>4. hits \subseteq GraphTexts
    BY <1>3 DEF G!Forgetting, GraphAssumption
  <1>5. refused \in SUBSET GraphTexts /\ hits \subseteq refused
    BY <1>4
  <1>6. forgetting.looked \in SUBSET GraphTexts
    BY <1>3 DEF G!Forgetting
  <1> HIDE DEF refused
  <1>7. r \in G!Removal /\ r.looked = forgetting.looked /\ r.looked \subseteq r.refused
    BY <1>3, <1>5, <1>6 DEF G!Removal
  <1>8. forgotten' = forgotten \cup {r}
    BY <1>2 DEF refused
  <1> HIDE DEF r
  <1>9. GraphTypes'
    BY <1>1, <1>7, <1>8 DEF GraphInv, GraphTypes, G!TypeOK, G!Busy
  <1>10. ForgottenIsRefused'
    <2>1. \A a \in Adds : G!Busy(a) /\ add[a].text \in r.looked => add[a].text \in excused
      BY <1>1, <1>3, <1>7 DEF GraphInv, ForgettingIsNoted
    <2> QED
      BY <1>1, <1>7, <1>8, <2>1 DEF GraphInv, ForgottenIsRefused, G!Busy
  <1>11. G!ForgottenIsGone'
    <2>1. \A i \in DOMAIN nodes : nodes[i].text \in r.looked =>
             nodes[i].prov = "stated" \/ nodes[i].text \in excused
      BY <1>1, <1>7 DEF GraphInv, ForgettingIsNoted
    <2> QED
      BY <1>1, <1>8, <2>1 DEF GraphInv, G!ForgottenIsGone
  <1>12. RacesAreNoted' /\ G!StoredOnce' /\ G!HistoryIsWalkable' /\ OldsAreOlder'
    BY <1>1 DEF GraphInv, RacesAreNoted, G!StoredOnce, G!HistoryIsWalkable, OldsAreOlder, G!Busy
  <1>13. ForgettingIsNoted'
    BY <1>1 DEF ForgettingIsNoted
  <1> QED
    BY <1>9, <1>10, <1>11, <1>12, <1>13 DEF GraphInv

LEMMA PromoteGraphStep ==
  ASSUME GraphInv, NEW i \in DOMAIN nodes, G!Promote(i)
  PROVE  GraphInv'
  <1>1. /\ nodes' = [nodes EXCEPT ![i].prov = "stated"]
        /\ UNCHANGED <<newer, top, add, forgetting, forgotten, raced, excused>>
    BY DEF G!Promote
  <1>2. /\ newer \subseteq (DOMAIN nodes) \X (DOMAIN nodes)
        /\ nodes \in [DOMAIN nodes -> Node]
    BY DEF GraphInv, GraphTypes, G!TypeOK
  <1>3. DOMAIN nodes' = DOMAIN nodes
    BY <1>1
  <1>4. \A j \in DOMAIN nodes :
           /\ nodes'[j] \in Node /\ nodes'[j].text = nodes[j].text
           /\ nodes'[j].old = nodes[j].old
           /\ nodes[j].prov = "stated" => nodes'[j].prov = "stated"
    BY <1>1, <1>2 DEF Node
  <1>5. nodes' \in [DOMAIN nodes' -> Node]
    BY <1>1, <1>3, <1>4
  <1>6. NodesKept
    BY <1>1, <1>2, <1>3, <1>4, <1>5 DEF NodesKept
  <1>7. G!HistoryIsWalkable'
    BY <1>1, <1>2, <1>4 DEF GraphInv, G!HistoryIsWalkable
  <1> QED
    BY <1>1, <1>6, <1>7, KeptStep

LEMMA FadeStep ==
  ASSUME GraphInv, NEW i \in DOMAIN nodes, G!Fade(i)
  PROVE  GraphInv'
  <1>1. G!Detach({i}) /\ {i} \in SUBSET DOMAIN nodes
        /\ UNCHANGED <<top, add, forgetting, forgotten, raced, excused>>
    BY DEF G!Fade
  <1>2. NodesKept /\ G!HistoryIsWalkable'
    BY <1>1, DetachFacts
  <1> QED
    BY <1>1, <1>2, KeptStep

LEMMA NextGraph == GraphInv /\ [G!Next]_graphVars => GraphInv'
  <1> SUFFICES ASSUME GraphInv, [G!Next]_graphVars PROVE GraphInv'
    OBVIOUS
  <1>1. ASSUME UNCHANGED graphVars PROVE GraphInv'
    <2>1. NodesKept /\ G!HistoryIsWalkable'
      BY <1>1 DEF graphVars, NodesKept, GraphInv, GraphTypes, G!TypeOK, G!HistoryIsWalkable
    <2> QED
      BY <1>1, <2>1, KeptStep DEF graphVars
  <1> QED
    BY <1>1, BeginStep, SearchStep, CreateStep, LinkStep, AddFailsStep, ForgetGraphStep,
       ForgetWordsStep, RecordedStep, PromoteGraphStep, FadeStep DEF G!Next

-----------------------------------------------------------------------------
(* The capture of facts and its review.  (services/memory-capture.ts,        *)
(* commands/builtin.ts)                                                      *)

Mark == [processed : 0..MaxSaid, captured : SUBSET C!Facts]
Capturing == [pc : {"extracting", "writing"}, window : SUBSET C!Entries,
              found : SUBSET C!Entries, upto : 1..MaxSaid, state : [Chats -> Mark],
              old : BOOLEAN]
Resetting == [pc : {"cleared", "extracting", "listing"}, base : 0..MaxSaid,
              len : 0..MaxSaid, tail : SUBSET C!Entries, facts : SUBSET C!Entries,
              captured : SUBSET C!Facts]

CaptureTypes ==
    /\ said \in [Chats -> 0..MaxSaid] /\ start \in [Chats -> 0..MaxSaid]
    /\ quiet \subseteq C!Entries /\ read \subseteq C!Entries
    /\ due \subseteq Chats /\ missed \subseteq Chats
    /\ foreign \subseteq Chats /\ slipped \subseteq Chats
    /\ marker \in [Chats -> Mark]
    /\ capture \in [Chats -> Capturing \cup {None}]
    /\ reset \in [Chats -> Resetting \cup {None}]
    /\ prov \in [C!Facts -> {"none", "observed", "stated"}]
    /\ clears \in 0..MaxClears

Before(entries, s, i) == \A e \in entries : e[1] = s /\ e[2] <= i
After(entries, s, i)  == \A e \in entries : e[1] = s /\ e[2] > i
InStore(facts) == \A f \in facts : prov[f] # "none"

(* What a chat, its capture and its reset hold, whatever happens. *)
CaptureHolds(s) == capture[s] # None =>
    /\ capture[s].found \subseteq capture[s].window
    /\ Before(capture[s].window, s, said[s])
    /\ Cardinality(capture[s].window \ quiet) > 1
    /\ InStore(capture[s].state[s].captured)
ResetHolds(s) == reset[s] # None =>
    /\ reset[s].base + reset[s].len <= start[s]
    /\ reset[s].facts \subseteq reset[s].tail
    /\ reset[s].pc = "cleared" => reset[s].facts = {}
    /\ Before(reset[s].tail, s, start[s])
Holds(s) ==
    /\ start[s] <= said[s] /\ (C!InGap(s) => C!Length(s) <= 1)
    /\ InStore(marker[s].captured)
    /\ CaptureHolds(s) /\ ResetHolds(s)

(* The first n entries after base were read, or are in the window. *)
Behind(s, base, n, window) ==
    \A k \in 1..n : <<s, base + k>> \in read \cup quiet \cup window

(* Between two resets, the marker stands behind what was read, in front of   *)
(* what was not, and the capture in flight will leave it so.                 *)
LiveCapture(s) == LET c == capture[s] IN
    /\ After(c.window, s, start[s]) /\ Before(c.window, s, start[s] + c.upto)
    /\ marker[s].processed <= c.upto /\ c.upto <= C!Length(s)
    /\ After(c.state[s].captured, s, start[s])
    /\ Behind(s, start[s], c.upto, c.window)
Live(s) ==
    /\ marker[s].processed <= C!Length(s)
    /\ After(marker[s].captured, s, start[s])
    /\ \A e \in read : e[1] = s => e[2] <= start[s] + marker[s].processed
    /\ Behind(s, start[s], marker[s].processed, {})
    /\ capture[s] # None /\ ~capture[s].old => LiveCapture(s)
    /\ capture[s] # None /\ capture[s].old => Before(capture[s].window, s, start[s])

(* In the gap of a reset the marker is still that of the conversation it     *)
(* ends, which is at base; nothing new is read.                              *)
Gap(s) ==
    /\ \A e \in read : e[1] = s => e[2] <= start[s]
    /\ Behind(s, reset[s].base, C!Least(marker[s].processed, reset[s].len), {})
    /\ capture[s] # None => Before(capture[s].window, s, start[s])
    /\ capture[s] # None /\ ~capture[s].old =>
          Behind(s, reset[s].base, C!Least(capture[s].upto, reset[s].len), capture[s].window)

Tracked(s) ==
    s \notin foreign \cup slipped => IF C!InGap(s) THEN Gap(s) ELSE Live(s)

CaptureInv ==
    /\ CaptureTypes /\ \A s \in Chats : Holds(s) /\ Tracked(s)
    /\ missed \subseteq foreign \cup slipped

USE CaptureAssumption

LEMMA InitCapture == C!Init => CaptureInv
  <1> SUFFICES ASSUME C!Init PROVE CaptureInv
    OBVIOUS
  <1>1. /\ said = [s \in Chats |-> 0] /\ start = [s \in Chats |-> 0]
        /\ quiet = {} /\ due = {} /\ read = {} /\ missed = {} /\ foreign = {}
        /\ slipped = {} /\ clears = 0
        /\ marker = [s \in Chats |-> C!NoMarker]
        /\ capture = [s \in Chats |-> None] /\ reset = [s \in Chats |-> None]
        /\ prov = [f \in C!Facts |-> "none"]
    BY DEF C!Init
  <1>2. C!NoMarker \in Mark /\ C!NoMarker.processed = 0 /\ C!NoMarker.captured = {}
    BY DEF C!NoMarker, Mark
  <1>3. CaptureTypes
    BY <1>1, <1>2 DEF CaptureTypes
  <1>4. ASSUME NEW s \in Chats PROVE Holds(s) /\ Tracked(s)
    <2>1. /\ said[s] = 0 /\ start[s] = 0 /\ capture[s] = None /\ reset[s] = None
          /\ marker[s] = C!NoMarker
      BY <1>1
    <2> QED
      BY <1>1, <1>2, <2>1 DEF Holds, CaptureHolds, ResetHolds, C!InGap, C!Length, InStore,
         Tracked, Live, Behind, After
  <1> QED
    BY <1>1, <1>3, <1>4 DEF CaptureInv

(* A chat a step says nothing of stays as it was. *)
Same(s) ==
    /\ said'[s] = said[s] /\ start'[s] = start[s] /\ marker'[s] = marker[s]
    /\ capture'[s] = capture[s] /\ reset'[s] = reset[s]
    /\ \A e \in read' : e[1] = s => e \in read
    /\ \A e \in quiet' : e[1] = s => e \in quiet
Grows ==
    /\ read \subseteq read' /\ quiet \subseteq quiet' /\ foreign \subseteq foreign'
    /\ slipped \subseteq slipped'
    /\ \A f \in C!Facts : prov[f] # "none" => prov'[f] # "none"

LEMMA StoreGrows ==
  ASSUME Grows, NEW facts \in SUBSET C!Facts, InStore(facts)
  PROVE  \A f \in facts : prov'[f] # "none"
  BY DEF Grows, InStore

LEMMA SameChat ==
  ASSUME CaptureTypes, Grows, NEW s \in Chats, Holds(s), Tracked(s), Same(s)
  PROVE  Holds(s)' /\ Tracked(s)'
  <1>1. /\ marker[s] \in Mark /\ capture[s] \in Capturing \cup {None}
    BY DEF CaptureTypes
  <1>2. marker[s].captured \subseteq C!Facts /\ marker[s].processed \in 0..MaxSaid
    BY <1>1 DEF Mark
  <1>3. C!Length(s)' = C!Length(s) /\ C!InGap(s)' = C!InGap(s)
    BY DEF Same, C!Length, C!InGap
  <1>4. InStore(marker[s].captured)'
    BY <1>2, StoreGrows DEF Holds, InStore, Same
  <1>5. ResetHolds(s)'
    BY DEF Holds, ResetHolds, Same, Before
  <1>6. CaptureHolds(s)'
    <2> SUFFICES ASSUME capture[s] # None PROVE CaptureHolds(s)'
      BY DEF CaptureHolds, Same
    <2>1. /\ capture[s].state[s].captured \in SUBSET C!Facts
          /\ capture[s].window \subseteq C!Entries
      BY <1>1 DEF Capturing, Mark
    <2>2. \A f \in capture[s].state[s].captured : prov'[f] # "none"
      BY <2>1, StoreGrows DEF Holds, CaptureHolds
    <2>3. capture[s].window \ quiet' = capture[s].window \ quiet
      BY DEF Holds, CaptureHolds, Before, Same, Grows
    <2> QED
      BY <2>2, <2>3 DEF Holds, CaptureHolds, Before, Same, InStore
  <1>7. Tracked(s)'
    <2> SUFFICES ASSUME s \notin foreign \cup slipped
                 PROVE  IF C!InGap(s) THEN Gap(s)' ELSE Live(s)'
      BY <1>3 DEF Tracked, Grows
    <2>1. CASE C!InGap(s)
      BY <2>1 DEF Tracked, Gap, Same, Grows, Behind, Before
    <2>2. CASE ~C!InGap(s)
      <3>1. capture[s] # None /\ ~capture[s].old => LiveCapture(s)'
        BY <1>3, <2>2 DEF Tracked, Live, LiveCapture, Same, Grows, Behind, Before, After
      <3> QED
        BY <1>3, <2>2, <3>1 DEF Tracked, Live, Same, Grows, Behind, Before, After
    <2> QED
      BY <2>1, <2>2
  <1> QED
    BY <1>3, <1>4, <1>5, <1>6, <1>7 DEF Holds, Same

LEMMA EachChat ==
  ASSUME CaptureInv, NEW s \in Chats, Grows,
         \A t \in Chats \ {s} : Same(t), Holds(s)', Tracked(s)'
  PROVE  \A t \in Chats : Holds(t)' /\ Tracked(t)'
  <1> SUFFICES ASSUME NEW t \in Chats PROVE Holds(t)' /\ Tracked(t)'
    OBVIOUS
  <1>1. CASE t = s
    BY <1>1
  <1>2. CASE t # s
    BY <1>2, SameChat DEF CaptureInv
  <1> QED
    BY <1>1, <1>2

LEMMA OneChat ==
  ASSUME CaptureInv, NEW s \in Chats, CaptureTypes', Grows,
         \A t \in Chats \ {s} : Same(t), Holds(s)', Tracked(s)', missed' = missed
  PROVE  CaptureInv'
  <1>1. \A t \in Chats : Holds(t)' /\ Tracked(t)'
    BY EachChat
  <1> QED
    BY <1>1 DEF CaptureInv, Grows

LEMMA NoChat ==
  ASSUME CaptureInv, CaptureTypes', Grows, \A t \in Chats : Same(t), missed' = missed
  PROVE  CaptureInv'
  <1>1. ASSUME NEW t \in Chats PROVE Holds(t)' /\ Tracked(t)'
    BY SameChat DEF CaptureInv
  <1> QED
    BY <1>1 DEF CaptureInv, Grows

(* What is written is in the stores, with what was there. *)
LEMMA WrittenFacts ==
  ASSUME CaptureTypes, NEW facts, NEW p \in {"observed", "stated"}
  PROVE  /\ C!Written(facts, p) \in [C!Facts -> {"none", "observed", "stated"}]
         /\ \A f \in C!Facts : prov[f] # "none" => C!Written(facts, p)[f] # "none"
         /\ \A f \in C!Facts : f \in facts => C!Written(facts, p)[f] # "none"
  BY DEF CaptureTypes, C!Written

LEMMA ReviewStep ==
  ASSUME CaptureInv, C!SaveBegin \/ C!Discard \/ \E ok \in BOOLEAN : C!SaveEnd(ok)
  PROVE  CaptureInv'
  <1>1. UNCHANGED <<said, start, quiet, due, foreign, slipped, clears, marker, capture, reset,
                    read, missed>>
    BY DEF C!SaveBegin, C!Discard, C!SaveEnd, C!talk
  <1>2. \/ prov' = prov
        \/ \E facts \in {save.facts \ same : same \in SUBSET save.facts}
                         \cup {(save.facts \ same) \cup save.captured :
                               same \in SUBSET save.facts} :
              prov' = C!Written(facts, "stated")
    BY DEF C!SaveBegin, C!Discard, C!SaveEnd
  <1>3. /\ prov' \in [C!Facts -> {"none", "observed", "stated"}]
        /\ \A f \in C!Facts : prov[f] # "none" => prov'[f] # "none"
    BY <1>2, WrittenFacts DEF CaptureInv, CaptureTypes
  <1>4. CaptureTypes'
    BY <1>1, <1>3 DEF CaptureInv, CaptureTypes
  <1>5. Grows /\ \A t \in Chats : Same(t)
    BY <1>1, <1>3 DEF Grows, Same
  <1> QED
    BY <1>1, <1>4, <1>5, NoChat

LEMMA EntriesFinite == IsFiniteSet(C!Entries)
  <1>1. IsFiniteSet(1..MaxSaid)
    BY FS_Interval
  <1> QED
    BY <1>1, FS_Product DEF C!Entries

(* There is room for one more entry in a chat. *)
LEMMA RoomToSay ==
  ASSUME CaptureTypes, NEW s \in Chats, C!Total < MaxSaid
  PROVE  said[s] < MaxSaid
  <1> DEFINE E == {e \in C!Entries : e[2] <= said[e[1]]}
             O == {s} \X (1..MaxSaid)
  <1>1. IsFiniteSet(E) /\ E \subseteq C!Entries
    <2>1. E \in SUBSET C!Entries
      OBVIOUS
    <2> QED
      BY <2>1, EntriesFinite, FS_Subset
  <1>2. Cardinality(E) < MaxSaid
    BY DEF C!Total, C!Cardinality, Cardinality
  <1>3. Cardinality(O) = MaxSaid
    <2>1. IsFiniteSet({s}) /\ Cardinality({s}) = 1
      BY FS_Singleton
    <2>2. IsFiniteSet(1..MaxSaid) /\ Cardinality(1..MaxSaid) = MaxSaid
      BY FS_Interval
    <2>3. Cardinality(O) = Cardinality({s}) * Cardinality(1..MaxSaid)
      BY <2>1, <2>2, FS_Product
    <2> QED
      BY <2>1, <2>2, <2>3
  <1>4. said[s] \in 0..MaxSaid
    BY DEF CaptureTypes
  <1>5. ASSUME said[s] = MaxSaid PROVE FALSE
    <2>1. O \in SUBSET E
      BY <1>5 DEF C!Entries
    <2>2. Cardinality(O) <= Cardinality(E)
      <3> HIDE DEF E, O
      <3> QED
        BY <1>1, <2>1, FS_Subset
    <2>3. Cardinality(E) \in Nat
      <3> HIDE DEF E
      <3> QED
        BY <1>1, FS_CardinalityType
    <2> QED
      BY <1>2, <1>3, <2>2, <2>3
  <1> QED
    BY <1>4, <1>5

(* Something is said. *)
LEMMA AppendStep ==
  ASSUME CaptureInv, NEW s \in Chats, C!Append(s), due' \in SUBSET Chats,
         quiet' \in {quiet, quiet \cup {<<s, said[s] + 1>>}}
  PROVE  CaptureInv'
  <1>1. /\ said' = [said EXCEPT ![s] = @ + 1]
        /\ C!InGap(s) => C!Length(s) = 0
        /\ UNCHANGED <<start, marker, capture, reset, prov, read, missed, foreign, slipped, clears>>
    BY DEF C!Append
  <1>2. CaptureTypes /\ Holds(s) /\ Tracked(s)
    BY DEF CaptureInv
  <1>3. /\ said[s] \in 0..MaxSaid /\ start[s] \in 0..MaxSaid /\ said[s] < MaxSaid
    BY <1>2, RoomToSay DEF CaptureTypes, C!Append
  <1>4. said'[s] = said[s] + 1 /\ \A t \in Chats \ {s} : said'[t] = said[t]
    BY <1>1, <1>2 DEF CaptureTypes
  <1>5. CaptureTypes'
    <2>1. said' \in [Chats -> 0..MaxSaid]
      BY <1>1, <1>2, <1>3 DEF CaptureTypes
    <2>2. quiet' \subseteq C!Entries
      BY <1>2, <1>3 DEF CaptureTypes, C!Entries
    <2> QED
      BY <1>1, <1>2, <2>1, <2>2 DEF CaptureTypes
  <1>6. Grows /\ \A t \in Chats \ {s} : Same(t)
    BY <1>1, <1>4 DEF Grows, Same
  <1>7. C!Length(s)' = C!Length(s) + 1 /\ C!InGap(s)' = C!InGap(s)
    BY <1>1, <1>3, <1>4 DEF C!Length, C!InGap
  <1>8. Holds(s)'
    <2>1. CaptureHolds(s)'
      <3> SUFFICES ASSUME capture[s] # None PROVE CaptureHolds(s)'
        BY <1>1 DEF CaptureHolds
      <3>0. capture[s].window \subseteq C!Entries
        BY <1>2 DEF CaptureTypes, Capturing
      <3>1. \A e \in capture[s].window : e[1] = s /\ e[2] \in Int /\ e[2] <= said[s]
        BY <1>2, <3>0 DEF Holds, CaptureHolds, Before, C!Entries
      <3>2. capture[s].window \ quiet' = capture[s].window \ quiet
        BY <1>3, <3>1
      <3>3. Before(capture[s].window, s, said'[s])
        BY <1>3, <1>4, <3>1 DEF Before
      <3> QED
        BY <1>1, <1>2, <3>2, <3>3 DEF Holds, CaptureHolds, InStore, Before
    <2>2. ResetHolds(s)'
      BY <1>1, <1>2 DEF Holds, ResetHolds, Before
    <2>3. start'[s] <= said'[s] /\ (C!InGap(s)' => C!Length(s)' <= 1)
      BY <1>1, <1>2, <1>3, <1>4, <1>7 DEF Holds
    <2> QED
      BY <1>1, <1>2, <2>1, <2>2, <2>3 DEF Holds, InStore
  <1>9. Tracked(s)'
    <2> SUFFICES ASSUME s \notin foreign \cup slipped
                 PROVE  IF C!InGap(s) THEN Gap(s)' ELSE Live(s)'
      BY <1>1, <1>7 DEF Tracked
    <2>1. CASE C!InGap(s)
      BY <1>1, <1>2, <2>1 DEF Tracked, Gap, Behind, Before
    <2>2. CASE ~C!InGap(s)
      <3>1. Live(s)
        BY <1>2, <2>2 DEF Tracked
      <3>2. marker[s].processed \in Int /\ C!Length(s) \in Int
        BY <1>2, <1>3 DEF CaptureTypes, Mark, C!Length
      <3>3. marker[s].processed <= C!Length(s)'
        BY <1>7, <3>1, <3>2 DEF Live
      <3>4. capture[s] # None /\ ~capture[s].old => LiveCapture(s)'
        <4> SUFFICES ASSUME capture[s] # None, ~capture[s].old PROVE LiveCapture(s)'
          OBVIOUS
        <4>1. LiveCapture(s) /\ capture[s].upto \in Int
          BY <1>2, <3>1 DEF Live, CaptureTypes, Capturing
        <4>2. capture[s].upto <= C!Length(s)'
          BY <1>7, <3>2, <4>1 DEF LiveCapture
        <4> QED
          BY <1>1, <4>1, <4>2 DEF LiveCapture, Behind, Before, After
      <3> QED
        BY <1>1, <2>2, <3>1, <3>3, <3>4 DEF Live, Behind, Before, After
    <2> QED
      BY <2>1, <2>2
  <1> QED
    BY <1>1, <1>5, <1>6, <1>8, <1>9, OneChat

LEMMA TalkStep ==
  ASSUME CaptureInv, NEW s \in Chats, C!Exchange(s) \/ C!Note(s)
  PROVE  CaptureInv'
  <1>1. due \subseteq Chats
    BY DEF CaptureInv, CaptureTypes
  <1> QED
    BY <1>1, AppendStep DEF C!Exchange, C!Note

LEMMA ForeignClearStep ==
  ASSUME CaptureInv, NEW s \in Chats, C!ForeignClear(s)
  PROVE  CaptureInv'
  <1>1. /\ start' = [start EXCEPT ![s] = said[s]] /\ foreign' = foreign \cup {s}
        /\ clears < MaxClears /\ clears' = clears + 1
        /\ UNCHANGED <<said, quiet, due, slipped, marker, capture, reset, prov, read, missed>>
    BY DEF C!ForeignClear
  <1>2. CaptureTypes /\ Holds(s)
    BY DEF CaptureInv
  <1>3. /\ said[s] \in 0..MaxSaid /\ start[s] \in 0..MaxSaid /\ start[s] <= said[s]
        /\ start'[s] = said[s]
    BY <1>1, <1>2 DEF CaptureTypes, Holds
  <1>4. CaptureTypes'
    BY <1>1, <1>2, <1>3 DEF CaptureTypes
  <1>5. Grows /\ \A t \in Chats \ {s} : Same(t)
    BY <1>1, <1>2 DEF Grows, Same, CaptureTypes
  <1>6. ResetHolds(s)'
    <2> SUFFICES ASSUME reset[s] # None PROVE ResetHolds(s)'
      BY <1>1 DEF ResetHolds
    <2>1. /\ reset[s].base \in 0..MaxSaid /\ reset[s].len \in 0..MaxSaid
          /\ reset[s].tail \subseteq C!Entries
      BY <1>2 DEF CaptureTypes, Resetting
    <2>2. \A e \in reset[s].tail : e[2] \in Int
      BY <2>1 DEF C!Entries
    <2> QED
      BY <1>1, <1>2, <1>3, <2>1, <2>2 DEF Holds, ResetHolds, Before
  <1>7. CaptureHolds(s)'
    BY <1>1, <1>2 DEF Holds, CaptureHolds, Before, InStore
  <1>8. C!Length(s)' = 0
    BY <1>1, <1>3 DEF C!Length
  <1>9. Holds(s)' /\ Tracked(s)'
    BY <1>1, <1>2, <1>3, <1>6, <1>7, <1>8 DEF Holds, Tracked, InStore
  <1> QED
    BY <1>1, <1>4, <1>5, <1>9, OneChat

(* A reset that is answered or gives up: its tail is read, or nothing is. *)
LEMMA ResetEndsStep ==
  ASSUME CaptureInv, NEW s \in Chats,
         C!ResetReply(s) \/ \E facts \in SUBSET reset[s].tail : C!ResetExtracted(s, facts)
  PROVE  CaptureInv'
  <1>0. CaptureTypes /\ Holds(s) /\ Tracked(s)
    BY DEF CaptureInv
  <1>1. /\ UNCHANGED <<said, start, quiet, due, foreign, slipped, clears, marker, capture, prov, missed>>
        /\ reset[s] # None /\ ~C!InGap(s)
        /\ read' \in {read, read \cup reset[s].tail}
    BY DEF C!ResetReply, C!ResetExtracted, C!talk, C!InGap
  <1>2. \/ reset' = [reset EXCEPT ![s] = None]
        \/ \E facts \in SUBSET reset[s].tail :
              reset' = [reset EXCEPT ![s].pc = "listing", ![s].facts = facts]
    BY DEF C!ResetReply, C!ResetExtracted
  <1>3. reset[s] \in Resetting
    BY <1>0, <1>1 DEF CaptureTypes
  <1>4. PICK r \in Resetting \cup {None} :
           /\ reset' = [reset EXCEPT ![s] = r]
           /\ r # None => /\ r.pc = "listing" /\ r.base = reset[s].base /\ r.len = reset[s].len
                          /\ r.tail = reset[s].tail /\ r.facts \subseteq r.tail
    <2>1. CASE reset' = [reset EXCEPT ![s] = None]
      BY <2>1
    <2>2. ASSUME NEW facts \in SUBSET reset[s].tail,
                 reset' = [reset EXCEPT ![s].pc = "listing", ![s].facts = facts]
          PROVE  \E r \in Resetting \cup {None} :
                   /\ reset' = [reset EXCEPT ![s] = r]
                   /\ r # None => /\ r.pc = "listing" /\ r.base = reset[s].base
                                  /\ r.len = reset[s].len
                                  /\ r.tail = reset[s].tail /\ r.facts \subseteq r.tail
      <3> DEFINE q == reset[s]
                 y == [q EXCEPT !.pc = "listing"]
                 z == [y EXCEPT !.facts = facts]
      <3>0. facts \subseteq C!Entries
        BY <1>3, <2>2 DEF Resetting
      <3>1. reset' = [reset EXCEPT ![s] = z]
        BY <2>2
      <3>2. q \in Resetting /\ facts \subseteq q.tail
        BY <1>3, <2>2
      <3> HIDE DEF q
      <3>3. /\ y \in Resetting /\ y.pc = "listing" /\ y.base = q.base /\ y.len = q.len
            /\ y.tail = q.tail
        BY <3>2 DEF Resetting
      <3> HIDE DEF y
      <3>4. /\ z \in Resetting /\ z.pc = "listing" /\ z.base = y.base /\ z.len = y.len
            /\ z.tail = y.tail /\ z.facts = facts
        BY <3>0, <3>3 DEF Resetting
      <3> HIDE DEF z
      <3> QED
        BY <3>1, <3>2, <3>3, <3>4 DEF q
    <2> QED
      BY <1>2, <2>1, <2>2
  <1>5. reset'[s] = r /\ \A t \in Chats \ {s} : reset'[t] = reset[t]
    BY <1>0, <1>4 DEF CaptureTypes
  <1>6. reset' \in [Chats -> Resetting \cup {None}]
    BY <1>0, <1>4 DEF CaptureTypes
  <1>7. Before(reset[s].tail, s, start[s]) /\ reset[s].tail \subseteq C!Entries
    BY <1>0, <1>1, <1>3 DEF Holds, ResetHolds, Resetting
  <1>8. CaptureTypes'
    BY <1>0, <1>1, <1>6, <1>7 DEF CaptureTypes
  <1>9. Grows /\ \A t \in Chats \ {s} : Same(t)
    BY <1>1, <1>5, <1>7 DEF Grows, Same, Before
  <1>10. ~C!InGap(s)'
    BY <1>4, <1>5 DEF C!InGap
  <1>11. Holds(s)'
    <2>1. ResetHolds(s)'
      BY <1>0, <1>1, <1>4, <1>5 DEF Holds, ResetHolds, Before
    <2> QED
      BY <1>0, <1>1, <1>10, <2>1 DEF Holds, CaptureHolds, InStore, Before
  <1>12. Tracked(s)'
    <2> SUFFICES ASSUME s \notin foreign \cup slipped PROVE Live(s)'
      BY <1>1, <1>10 DEF Tracked
    <2>1. Live(s)
      BY <1>0, <1>1 DEF Tracked
    <2>2. /\ marker[s].processed \in 0..MaxSaid /\ start[s] \in 0..MaxSaid
          /\ \A e \in C!Entries : e[2] \in Int
      BY <1>0 DEF CaptureTypes, Mark, C!Entries
    <2>3. \A e \in read' : e[1] = s => e[2] <= start[s] + marker[s].processed
      BY <1>1, <1>7, <2>1, <2>2 DEF Live, Before
    <2>4. capture[s] # None /\ ~capture[s].old => LiveCapture(s)'
      BY <1>1, <2>1 DEF Live, LiveCapture, Behind, C!Length, Before, After
    <2> QED
      BY <1>1, <2>1, <2>3, <2>4 DEF Live, Behind, C!Length, Before, After
  <1> QED
    BY <1>1, <1>8, <1>9, <1>11, <1>12, OneChat

(* A capture that goes on as it was, or ends without a word to the marker. *)
LEMMA CaptureKept ==
  ASSUME CaptureInv, NEW s \in Chats, NEW r \in Capturing \cup {None},
         capture' = [capture EXCEPT ![s] = r],
         r # None => /\ capture[s] # None /\ r.window = capture[s].window
                     /\ r.upto = capture[s].upto /\ r.state = capture[s].state
                     /\ r.old = capture[s].old /\ r.found \subseteq r.window,
         prov' \in [C!Facts -> {"none", "observed", "stated"}],
         \A f \in C!Facts : prov[f] # "none" => prov'[f] # "none",
         UNCHANGED <<said, start, quiet, due, foreign, slipped, clears, marker, reset, read, missed>>
  PROVE  CaptureInv'
  <1>1. CaptureTypes /\ Holds(s) /\ Tracked(s)
    BY DEF CaptureInv
  <1>2. capture'[s] = r /\ \A t \in Chats \ {s} : capture'[t] = capture[t]
    BY <1>1 DEF CaptureTypes
  <1>3. CaptureTypes'
    BY <1>1 DEF CaptureTypes
  <1>4. Grows /\ \A t \in Chats \ {s} : Same(t)
    BY <1>2 DEF Grows, Same
  <1>5. C!InGap(s)' = C!InGap(s) /\ C!Length(s)' = C!Length(s)
    BY DEF C!InGap, C!Length
  <1>6. InStore(marker[s].captured)'
    <2>1. marker[s].captured \in SUBSET C!Facts
      BY <1>1 DEF CaptureTypes, Mark
    <2>2. \A f \in marker[s].captured : prov'[f] # "none"
      BY <1>1, <1>4, <2>1, StoreGrows DEF Holds
    <2> QED
      BY <2>2 DEF InStore
  <1>7. CaptureHolds(s)'
    <2> SUFFICES ASSUME r # None PROVE CaptureHolds(s)'
      BY <1>2 DEF CaptureHolds
    <2>0. capture[s] # None /\ capture[s] \in Capturing
      BY <1>1 DEF CaptureTypes
    <2>1. capture[s].state[s].captured \in SUBSET C!Facts
      BY <2>0 DEF Capturing, Mark
    <2>2. \A f \in capture[s].state[s].captured : prov'[f] # "none"
      BY <1>1, <1>4, <2>0, <2>1, StoreGrows DEF Holds, CaptureHolds
    <2> QED
      BY <1>1, <1>2, <2>0, <2>2 DEF Holds, CaptureHolds, InStore, Before
  <1>8. Holds(s)'
    <2>1. ResetHolds(s)'
      BY <1>1 DEF Holds, ResetHolds, Before
    <2> QED
      BY <1>1, <1>5, <1>6, <1>7, <2>1 DEF Holds
  <1>9. Tracked(s)'
    <2> SUFFICES ASSUME s \notin foreign \cup slipped
                 PROVE  IF C!InGap(s) THEN Gap(s)' ELSE Live(s)'
      BY <1>5 DEF Tracked
    <2>1. CASE C!InGap(s)
      BY <1>1, <1>2, <2>1 DEF Tracked, Gap, Behind, Before
    <2>2. CASE ~C!InGap(s)
      <3>1. Live(s)
        BY <1>1, <2>2 DEF Tracked
      <3>2. ASSUME r # None, ~r.old PROVE LiveCapture(s)'
        BY <1>2, <1>5, <3>1, <3>2 DEF Live, LiveCapture, Behind, Before, After
      <3>3. capture'[s] # None /\ ~capture'[s].old => LiveCapture(s)'
        BY <1>2, <3>2
      <3>4. capture'[s] # None /\ capture'[s].old => Before(capture'[s].window, s, start'[s])
        BY <1>2, <3>1 DEF Live, Before
      <3>5. /\ (marker[s].processed <= C!Length(s))' /\ After(marker[s].captured, s, start[s])'
            /\ (\A e \in read : e[1] = s => e[2] <= start[s] + marker[s].processed)'
            /\ Behind(s, start[s], marker[s].processed, {})'
        BY <1>5, <3>1 DEF Live, Behind, After
      <3> QED
        BY <2>2, <3>3, <3>4, <3>5 DEF Live, Before
    <2> QED
      BY <2>1, <2>2
  <1> QED
    BY <1>3, <1>4, <1>8, <1>9, OneChat

LEMMA CaptureFailsStep ==
  ASSUME CaptureInv, NEW s \in Chats, C!CaptureFails(s)
  PROVE  CaptureInv'
  <1>1. /\ capture' = [capture EXCEPT ![s] = None]
        /\ prov' = prov \/ prov' = C!Written(capture[s].found, "observed")
        /\ UNCHANGED <<said, start, quiet, due, foreign, slipped, clears, marker, reset, read, missed>>
    BY DEF C!CaptureFails, C!talk
  <1>2. /\ prov' \in [C!Facts -> {"none", "observed", "stated"}]
        /\ \A f \in C!Facts : prov[f] # "none" => prov'[f] # "none"
    BY <1>1, WrittenFacts DEF CaptureInv, CaptureTypes
  <1> QED
    BY <1>1, <1>2, CaptureKept

LEMMA ExtractedStep ==
  ASSUME CaptureInv, NEW s \in Chats, NEW facts \in SUBSET capture[s].window,
         C!Extracted(s, facts)
  PROVE  CaptureInv'
  <1>1. /\ capture[s] # None
        /\ UNCHANGED <<said, start, quiet, due, foreign, slipped, clears, marker, reset, read,
                       missed, prov>>
        /\ \/ capture' = [capture EXCEPT ![s] = None]
           \/ capture' = [capture EXCEPT ![s].pc = "writing", ![s].found = facts]
    BY DEF C!Extracted, C!talk
  <1>2. capture[s] \in Capturing /\ prov \in [C!Facts -> {"none", "observed", "stated"}]
    BY <1>1 DEF CaptureInv, CaptureTypes
  <1>3. CASE capture' = [capture EXCEPT ![s] = None]
    BY <1>1, <1>2, <1>3, CaptureKept
  <1>4. CASE capture' = [capture EXCEPT ![s].pc = "writing", ![s].found = facts]
    <2> DEFINE q == capture[s]
               y == [q EXCEPT !.pc = "writing"]
               z == [y EXCEPT !.found = facts]
    <2>0. facts \subseteq C!Entries
      BY <1>2 DEF Capturing
    <2>1. capture' = [capture EXCEPT ![s] = z]
      BY <1>4
    <2>2. q \in Capturing /\ facts \subseteq q.window
      BY <1>2
    <2> HIDE DEF q
    <2>3. /\ y \in Capturing /\ y.window = q.window /\ y.upto = q.upto /\ y.state = q.state
          /\ y.old = q.old
      BY <2>2 DEF Capturing
    <2> HIDE DEF y
    <2>4. /\ z \in Capturing /\ z.window = y.window /\ z.upto = y.upto /\ z.state = y.state
          /\ z.old = y.old /\ z.found = facts
      BY <2>0, <2>3 DEF Capturing
    <2> HIDE DEF z
    <2> QED
      BY <1>1, <1>2, <2>1, <2>2, <2>3, <2>4, CaptureKept DEF q
  <1> QED
    BY <1>1, <1>3, <1>4

LEMMA StoredStep ==
  ASSUME CaptureInv, NEW s \in Chats, C!Stored(s)
  PROVE  CaptureInv'
  <1> DEFINE c == capture[s]
             m == [processed |-> c.upto, captured |-> c.state[s].captured \cup c.found]
  <1>1. /\ c # None /\ prov' = C!Written(c.found, "observed")
        /\ marker' = IF c.old THEN marker ELSE [marker EXCEPT ![s] = m]
        /\ capture' = [capture EXCEPT ![s] = None] /\ read' = read \cup c.window
        /\ UNCHANGED <<said, start, quiet, due, foreign, slipped, clears, reset, missed>>
    BY DEF C!Stored, C!Captured, C!talk
  <1>2. CaptureTypes /\ Holds(s) /\ Tracked(s)
    BY DEF CaptureInv
  <1>3. c \in Capturing
    BY <1>1, <1>2 DEF CaptureTypes
  <1>4. /\ c.window \subseteq C!Entries /\ c.found \subseteq c.window /\ c.upto \in 1..MaxSaid
        /\ c.old \in BOOLEAN /\ c.state[s].captured \in SUBSET C!Facts
        /\ Before(c.window, s, said[s]) /\ InStore(c.state[s].captured)
    BY <1>1, <1>2, <1>3 DEF Capturing, Mark, Holds, CaptureHolds
  <1>5. /\ m \in Mark /\ m.processed = c.upto
        /\ m.captured = c.state[s].captured \cup c.found
    BY <1>4 DEF Mark, C!Facts
  <1> HIDE DEF m
  <1>6. /\ prov' \in [C!Facts -> {"none", "observed", "stated"}]
        /\ \A f \in C!Facts : prov[f] # "none" => prov'[f] # "none"
        /\ \A f \in C!Facts : f \in c.found => prov'[f] # "none"
    BY <1>1, <1>2, WrittenFacts
  <1>7. /\ capture'[s] = None /\ marker'[s] = IF c.old THEN marker[s] ELSE m
        /\ \A t \in Chats \ {s} : capture'[t] = capture[t] /\ marker'[t] = marker[t]
    BY <1>1, <1>2 DEF CaptureTypes
  <1>8. CaptureTypes'
    <2>1. marker' \in [Chats -> Mark] /\ capture' \in [Chats -> Capturing \cup {None}]
      BY <1>1, <1>2, <1>5 DEF CaptureTypes
    <2> HIDE DEF c
    <2> QED
      BY <1>1, <1>2, <1>4, <1>6, <2>1 DEF CaptureTypes
  <1>9. Grows /\ \A t \in Chats \ {s} : Same(t)
    BY <1>1, <1>4, <1>6, <1>7 DEF Grows, Same, Before
  <1>10. C!InGap(s)' = C!InGap(s) /\ C!Length(s)' = C!Length(s)
    BY <1>1 DEF C!InGap, C!Length
  <1>11. Holds(s)'
    <2>1. InStore(marker[s].captured)'
      <3>1. \A f \in c.state[s].captured : prov'[f] # "none"
        BY <1>4, <1>9, StoreGrows
      <3>2. \A f \in c.found : prov'[f] # "none"
        BY <1>4, <1>6 DEF C!Facts
      <3>3. marker[s].captured \in SUBSET C!Facts
        BY <1>2 DEF CaptureTypes, Mark
      <3>4. \A f \in marker[s].captured : prov'[f] # "none"
        BY <1>2, <1>9, <3>3, StoreGrows DEF Holds
      <3> QED
        BY <1>5, <1>7, <3>1, <3>2, <3>4 DEF InStore
    <2>2. ResetHolds(s)'
      BY <1>1, <1>2 DEF Holds, ResetHolds, Before
    <2>3. CaptureHolds(s)'
      BY <1>7 DEF CaptureHolds
    <2> QED
      BY <1>1, <1>2, <1>10, <2>1, <2>2, <2>3 DEF Holds
  <1>12. Tracked(s)'
    <2> SUFFICES ASSUME s \notin foreign \cup slipped
                 PROVE  IF C!InGap(s) THEN Gap(s)' ELSE Live(s)'
      BY <1>1, <1>10 DEF Tracked
    <2>0. /\ start[s] \in 0..MaxSaid /\ marker[s].processed \in 0..MaxSaid
          /\ C!Length(s) \in Int /\ said[s] \in 0..MaxSaid
          /\ \A e \in C!Entries : e[2] \in Int
      BY <1>2 DEF CaptureTypes, Mark, C!Length, C!Entries
    <2>1. CASE C!InGap(s)
      <3>1. Gap(s)
        BY <1>2, <2>1 DEF Tracked
      <3>2. \A e \in read' : e[1] = s => e[2] <= start[s]
        BY <1>1, <3>1 DEF Gap, Before
      <3>3. Behind(s, reset[s].base, C!Least(marker[s].processed, reset[s].len), {})'
        <4>1. CASE c.old
          BY <1>1, <1>7, <3>1, <4>1 DEF Gap, Behind, C!Least
        <4>2. CASE ~c.old
          BY <1>1, <1>5, <1>7, <3>1, <4>2 DEF Gap, Behind, C!Least
        <4> QED
          BY <4>1, <4>2
      <3> QED
        BY <1>1, <1>7, <2>1, <3>2, <3>3 DEF Gap
    <2>2. CASE ~C!InGap(s)
      <3>1. Live(s)
        BY <1>2, <2>2 DEF Tracked
      <3>2. CASE c.old
        <4>1. Before(c.window, s, start[s]) /\ marker'[s] = marker[s]
          BY <1>1, <1>7, <3>1, <3>2 DEF Live
        <4>2. \A e \in read' : e[1] = s => e[2] <= start[s] + marker[s].processed
          BY <1>1, <1>4, <2>0, <3>1, <4>1 DEF Live, Before
        <4>3. Behind(s, start[s], marker[s].processed, {})'
          BY <1>1, <3>1, <4>1 DEF Live, Behind
        <4>4. Live(s)'
          BY <1>1, <1>7, <1>10, <3>1, <4>1, <4>2, <4>3 DEF Live, After
        <4> QED
          BY <2>2, <4>4
      <3>3. CASE ~c.old
        <4>1. LiveCapture(s) /\ marker'[s] = m
          BY <1>1, <1>7, <3>1, <3>3 DEF Live
        <4>2. ASSUME NEW e \in read', e[1] = s PROVE e[2] <= start[s] + c.upto
          <5>1. CASE e \in read
            <6>1. e[2] \in Int /\ e[2] <= start[s] + marker[s].processed
              BY <1>2, <2>0, <3>1, <4>2, <5>1 DEF Live, CaptureTypes
            <6>2. marker[s].processed <= c.upto
              BY <4>1 DEF LiveCapture
            <6> QED
              BY <1>4, <2>0, <6>1, <6>2
          <5>2. CASE e \in c.window
            BY <4>1, <5>2 DEF LiveCapture, Before
          <5> QED
            BY <1>1, <4>2, <5>1, <5>2
        <4>3. \A k \in 1..c.upto : <<s, start'[s] + k>> \in read' \cup quiet'
          BY <1>1, <4>1 DEF LiveCapture, Behind
        <4>4. After(m.captured, s, start[s])
          BY <1>4, <1>5, <4>1 DEF LiveCapture, After
        <4>5. c.upto <= C!Length(s)'
          BY <1>10, <4>1 DEF LiveCapture
        <4>6. Behind(s, start[s], marker[s].processed, {})'
          BY <1>5, <4>1, <4>3 DEF Behind
        <4>7. After(marker[s].captured, s, start[s])'
          BY <1>1, <4>1, <4>4 DEF After
        <4>8. /\ (marker[s].processed <= C!Length(s))'
              /\ (\A e \in read : e[1] = s => e[2] <= start[s] + marker[s].processed)'
          BY <1>1, <1>5, <4>1, <4>2, <4>5
        <4>9. Live(s)'
          BY <1>7, <4>6, <4>7, <4>8 DEF Live
        <4> QED
          BY <2>2, <4>9
      <3> QED
        BY <1>4, <3>2, <3>3
    <2> QED
      BY <2>1, <2>2
  <1> QED
    BY <1>1, <1>8, <1>9, <1>11, <1>12, OneChat

(* The entries of a transcript of length n behind base, from the i-th on. *)
LEMMA FromFacts ==
  ASSUME NEW s \in Chats, NEW base \in Nat, NEW i \in Nat, NEW n \in Nat, base + n <= MaxSaid
  PROVE  /\ C!From(s, base, i, n) \subseteq C!Entries
         /\ After(C!From(s, base, i, n), s, base)
         /\ Before(C!From(s, base, i, n), s, base + n)
         /\ \A k \in (i + 1)..n : <<s, base + k>> \in C!From(s, base, i, n)
  <1>1. \A k \in (i + 1)..n : /\ base + k \in 1..MaxSaid /\ base + k > base
                              /\ base + k <= base + n
    OBVIOUS
  <1> QED
    BY <1>1 DEF C!From, C!Entries, After, Before

LEMMA WindowFacts ==
  ASSUME CaptureTypes, NEW s \in Chats, Holds(s)
  PROVE  /\ C!Window(s) \subseteq C!Entries
         /\ After(C!Window(s), s, start[s])
         /\ Before(C!Window(s), s, start[s] + C!Length(s)) /\ Before(C!Window(s), s, said[s])
         /\ \A k \in 1..C!Length(s) :
               k > marker[s].processed => <<s, start[s] + k>> \in C!Window(s)
  <1>1. /\ said[s] \in 0..MaxSaid /\ start[s] \in 0..MaxSaid /\ start[s] <= said[s]
        /\ marker[s].processed \in 0..MaxSaid
    BY DEF CaptureTypes, Mark, Holds
  <1>2. /\ C!Length(s) \in Nat /\ start[s] + C!Length(s) = said[s]
    BY <1>1 DEF C!Length
  <1>3. PICK i \in Nat : i = C!Max0(marker[s].processed - OverlapTurns)
    BY <1>1 DEF C!Max0
  <1>4. i <= marker[s].processed
    BY <1>1, <1>3 DEF C!Max0
  <1>5. C!Window(s) = C!From(s, start[s], i, C!Length(s))
    BY <1>3 DEF C!Window
  <1>6. \A k \in 1..C!Length(s) : k > marker[s].processed => k \in (i + 1)..C!Length(s)
    BY <1>1, <1>2, <1>4
  <1> QED
    BY <1>1, <1>2, <1>5, <1>6, FromFacts

(* The marker of a cleared transcript is wound back. *)
LEMMA RewindStep ==
  ASSUME CaptureInv, NEW s \in Chats, capture[s] = None,
         C!Length(s) < marker[s].processed, due' \in SUBSET Chats,
         marker' = [marker EXCEPT ![s] = [processed |-> C!Length(s), captured |-> {}]],
         UNCHANGED <<said, start, quiet, foreign, slipped, clears, capture, reset, prov, read, missed>>
  PROVE  CaptureInv'
  <1> DEFINE m == [processed |-> C!Length(s), captured |-> {}]
  <1>1. CaptureTypes /\ Holds(s) /\ Tracked(s)
    BY DEF CaptureInv
  <1>2. m \in Mark /\ m.processed = C!Length(s) /\ m.captured = {}
    BY <1>1 DEF CaptureTypes, Holds, C!Length, Mark
  <1>3. marker' = [marker EXCEPT ![s] = m]
    OBVIOUS
  <1> HIDE DEF m
  <1>4. marker'[s] = m /\ \A t \in Chats \ {s} : marker'[t] = marker[t]
    BY <1>1, <1>3 DEF CaptureTypes
  <1>5. CaptureTypes'
    BY <1>1, <1>2, <1>3 DEF CaptureTypes
  <1>6. Grows /\ \A t \in Chats \ {s} : Same(t)
    BY <1>4 DEF Grows, Same
  <1>7. C!InGap(s)' = C!InGap(s) /\ C!Length(s)' = C!Length(s)
    BY DEF C!InGap, C!Length
  <1>8. Holds(s)'
    BY <1>1, <1>2, <1>4, <1>7 DEF Holds, CaptureHolds, ResetHolds, InStore, Before
  <1>9. Tracked(s)'
    <2> SUFFICES ASSUME s \notin foreign \cup slipped
                 PROVE  IF C!InGap(s) THEN Gap(s)' ELSE Live(s)'
      BY <1>7 DEF Tracked
    <2>1. marker[s].processed \in 0..MaxSaid /\ C!Length(s) \in 0..MaxSaid
      BY <1>1, <1>2 DEF CaptureTypes, Mark
    <2>2. C!InGap(s)
      BY <1>1, <2>1 DEF Tracked, Live
    <2>3. reset[s].len \in 0..MaxSaid
      BY <1>1, <2>2 DEF CaptureTypes, Resetting, C!InGap
    <2>4. \A k \in 1..C!Least(C!Length(s), reset[s].len) :
             k \in 1..C!Least(marker[s].processed, reset[s].len)
      BY <2>1, <2>3 DEF C!Least
    <2>5. Gap(s)
      BY <1>1, <2>2 DEF Tracked
    <2>6. Behind(s, reset[s].base, C!Least(marker[s].processed, reset[s].len), {})'
      BY <1>2, <1>4, <2>4, <2>5 DEF Gap, Behind
    <2>7. Gap(s)'
      BY <2>5, <2>6 DEF Gap
    <2> QED
      BY <2>2, <2>7
  <1> QED
    BY <1>5, <1>6, <1>8, <1>9, OneChat

(* A window with little of the user in it is consumed unread. *)
LEMMA ConsumeStep ==
  ASSUME CaptureInv, NEW s \in Chats, capture[s] = None,
         C!Length(s) - marker[s].processed >= EveryTurns, due' \in SUBSET Chats,
         marker' = [marker EXCEPT ![s].processed = C!Length(s)],
         read' = read \cup C!Window(s),
         slipped' = IF C!InGap(s) THEN slipped \cup {s} ELSE slipped,
         UNCHANGED <<said, start, quiet, foreign, clears, capture, reset, prov, missed>>
  PROVE  CaptureInv'
  <1> DEFINE m == [marker[s] EXCEPT !.processed = C!Length(s)]
  <1>1. CaptureTypes /\ Holds(s) /\ Tracked(s)
    BY DEF CaptureInv
  <1>2. C!Length(s) \in 0..MaxSaid /\ marker[s] \in Mark /\ marker[s].processed \in 0..MaxSaid
    BY <1>1 DEF CaptureTypes, Holds, C!Length, Mark
  <1>3. m \in Mark /\ m.processed = C!Length(s) /\ m.captured = marker[s].captured
    BY <1>2 DEF Mark
  <1>4. marker' = [marker EXCEPT ![s] = m]
    OBVIOUS
  <1> HIDE DEF m
  <1>5. marker'[s] = m /\ \A t \in Chats \ {s} : marker'[t] = marker[t]
    BY <1>1, <1>4 DEF CaptureTypes
  <1>6. /\ C!Window(s) \subseteq C!Entries
        /\ Before(C!Window(s), s, start[s] + C!Length(s))
        /\ \A k \in 1..C!Length(s) :
              k > marker[s].processed => <<s, start[s] + k>> \in C!Window(s)
    BY <1>1, WindowFacts
  <1>7. CaptureTypes'
    <2>1. marker' \in [Chats -> Mark] /\ read' \subseteq C!Entries
      <3>1. marker \in [Chats -> Mark] /\ read \subseteq C!Entries
        BY <1>1 DEF CaptureTypes
      <3>2. marker' \in [Chats -> Mark]
        BY <1>3, <1>4, <3>1
      <3>3. read' \subseteq C!Entries
        BY <1>6, <3>1
      <3> QED
        BY <3>2, <3>3
    <2>2. slipped' \subseteq Chats /\ due' \subseteq Chats
      <3>1. slipped \subseteq Chats
        BY <1>1 DEF CaptureTypes
      <3> QED
        BY <3>1
    <2> QED
      BY <1>1, <2>1, <2>2 DEF CaptureTypes
  <1>8. Grows /\ \A t \in Chats \ {s} : Same(t)
    <2>1. read \subseteq read' /\ slipped \subseteq slipped'
      OBVIOUS
    <2>2. Grows
      BY <2>1 DEF Grows
    <2>3. ASSUME NEW t \in Chats \ {s} PROVE Same(t)
      <3>1. \A e : e \in C!Window(s) => e[1] = s
        BY <1>6 DEF Before
      <3> QED
        BY <1>5, <3>1 DEF Same
    <2> QED
      BY <2>2, <2>3
  <1>9. C!InGap(s)' = C!InGap(s) /\ C!Length(s)' = C!Length(s)
    BY DEF C!InGap, C!Length
  <1>10. Holds(s)'
    BY <1>1, <1>3, <1>5, <1>9 DEF Holds, CaptureHolds, ResetHolds, InStore, Before
  <1>11. Tracked(s)'
    <2> SUFFICES ASSUME s \notin foreign \cup slipped, ~C!InGap(s)
                 PROVE  ~C!InGap(s) /\ Live(s)'
      BY <1>9 DEF Tracked
    <2>1. ~C!InGap(s) /\ Live(s)
      BY <1>1 DEF Tracked
    <2>2. ASSUME NEW e \in read', e[1] = s PROVE e[2] <= start[s] + C!Length(s)
      <3>1. CASE e \in read
        <4>1. e[2] \in Int /\ e[2] <= start[s] + marker[s].processed /\ start[s] \in Int
          BY <1>1, <2>1, <2>2, <3>1 DEF Live, CaptureTypes, C!Entries
        <4>2. marker[s].processed <= C!Length(s)
          BY <2>1 DEF Live
        <4> QED
          BY <1>2, <4>1, <4>2
      <3>2. CASE e \in C!Window(s)
        BY <1>6, <3>2 DEF Before
      <3> QED
        BY <2>2, <3>1, <3>2
    <2>3. Behind(s, start[s], marker[s].processed, {})'
      <3>1. ASSUME NEW k \in 1..C!Length(s) PROVE <<s, start[s] + k>> \in read' \cup quiet
        <4>1. CASE k > marker[s].processed
          BY <1>6, <4>1
        <4>2. CASE k <= marker[s].processed
          BY <1>2, <2>1, <4>2 DEF Live, Behind
        <4> QED
          BY <1>2, <4>1, <4>2
      <3> QED
        BY <1>3, <1>5, <3>1 DEF Behind
    <2>4. After(marker[s].captured, s, start[s])'
      BY <1>3, <1>5, <2>1 DEF Live, After
    <2>5. /\ (marker[s].processed <= C!Length(s))'
          /\ (\A e \in read : e[1] = s => e[2] <= start[s] + marker[s].processed)'
      BY <1>2, <1>3, <1>5, <1>9, <2>2
    <2>6. Live(s)'
      BY <2>3, <2>4, <2>5 DEF Live
    <2> QED
      BY <2>1, <2>6
  <1> QED
    BY <1>7, <1>8, <1>10, <1>11, OneChat

LEMMA CaptureBegins ==
  ASSUME CaptureInv, NEW s \in Chats, capture[s] = None, C!WorthReading(C!Window(s)),
         C!Length(s) - marker[s].processed >= EveryTurns, due' \in SUBSET Chats,
         capture' = [capture EXCEPT ![s] =
                       [pc |-> "extracting", window |-> C!Window(s), found |-> {},
                        upto |-> C!Length(s), state |-> marker, old |-> FALSE]],
         slipped' = IF C!InGap(s) THEN slipped \cup {s} ELSE slipped,
         UNCHANGED <<said, start, quiet, foreign, clears, marker, read, reset, prov, missed>>
  PROVE  CaptureInv'
  <1> DEFINE c == [pc |-> "extracting", window |-> C!Window(s), found |-> {},
                   upto |-> C!Length(s), state |-> marker, old |-> FALSE]
  <1>1. CaptureTypes /\ Holds(s) /\ Tracked(s)
    BY DEF CaptureInv
  <1>2. C!Length(s) \in 1..MaxSaid /\ marker[s] \in Mark /\ marker[s].processed \in 0..MaxSaid
    <2>1. /\ said[s] \in 0..MaxSaid /\ start[s] \in 0..MaxSaid
          /\ marker[s] \in Mark /\ marker[s].processed \in 0..MaxSaid
      BY <1>1 DEF CaptureTypes, Mark
    <2>2. C!Length(s) \in Int /\ C!Length(s) <= MaxSaid
      BY <2>1 DEF C!Length
    <2>3. C!Length(s) >= 1
      BY <2>1, <2>2
    <2> QED
      BY <2>1, <2>2, <2>3
  <1>3. /\ C!Window(s) \subseteq C!Entries
        /\ After(C!Window(s), s, start[s])
        /\ Before(C!Window(s), s, start[s] + C!Length(s)) /\ Before(C!Window(s), s, said[s])
        /\ \A k \in 1..C!Length(s) :
              k > marker[s].processed => <<s, start[s] + k>> \in C!Window(s)
    BY <1>1, WindowFacts
  <1>4. /\ c \in Capturing /\ c.window = C!Window(s) /\ c.found = {} /\ c.upto = C!Length(s)
        /\ c.state = marker /\ ~c.old
    BY <1>1, <1>2, <1>3 DEF Capturing, CaptureTypes
  <1>5. capture' = [capture EXCEPT ![s] = c]
    OBVIOUS
  <1> HIDE DEF c
  <1>6. capture'[s] = c /\ \A t \in Chats \ {s} : capture'[t] = capture[t]
    BY <1>1, <1>5 DEF CaptureTypes
  <1>7. CaptureTypes'
    <2>1. \A t \in Chats : capture'[t] \in Capturing \cup {None}
      BY <1>1, <1>4, <1>6 DEF CaptureTypes
    <2>2. capture' \in [Chats -> Capturing \cup {None}]
      BY <1>1, <1>5, <2>1 DEF CaptureTypes
    <2> QED
      BY <1>1, <2>2 DEF CaptureTypes
  <1>8. Grows /\ \A t \in Chats \ {s} : Same(t)
    BY <1>6 DEF Grows, Same
  <1>9. C!InGap(s)' = C!InGap(s) /\ C!Length(s)' = C!Length(s)
    BY DEF C!InGap, C!Length
  <1>10. Cardinality(C!Window(s) \ quiet) > 1
    <2>1. C!Window(s) \ quiet \in SUBSET C!Entries
      BY <1>3
    <2>2. IsFiniteSet(C!Window(s) \ quiet)
      BY <2>1, EntriesFinite, FS_Subset
    <2>3. Cardinality(C!Window(s) \ quiet) \in Nat
      BY <2>2, FS_CardinalityType
    <2>4. Cardinality(C!Window(s) \ quiet) >= 2
      BY DEF C!WorthReading, C!Cardinality, Cardinality
    <2> QED
      BY <2>3, <2>4
  <1>11. CaptureHolds(s)'
    <2>1. c.found \subseteq c.window /\ Before(c.window, s, said[s])
      BY <1>3, <1>4
    <2>2. Cardinality(c.window \ quiet) > 1
      BY <1>4, <1>10
    <2>3. InStore(c.state[s].captured)
      BY <1>1, <1>4 DEF Holds
    <2> QED
      BY <1>6, <2>1, <2>2, <2>3 DEF CaptureHolds, InStore, Before
  <1>12. Holds(s)'
    BY <1>1, <1>9, <1>11 DEF Holds, ResetHolds, InStore, Before
  <1>13. Tracked(s)'
    <2> SUFFICES ASSUME s \notin foreign \cup slipped, ~C!InGap(s)
                 PROVE  ~C!InGap(s) /\ Live(s)'
      BY <1>9 DEF Tracked
    <2>1. ~C!InGap(s) /\ Live(s)
      BY <1>1 DEF Tracked
    <2>2. Behind(s, start[s], C!Length(s), C!Window(s))
      <3>1. ASSUME NEW k \in 1..C!Length(s)
            PROVE  <<s, start[s] + k>> \in read \cup quiet \cup C!Window(s)
        <4>1. CASE k > marker[s].processed
          BY <1>3, <4>1
        <4>2. CASE k <= marker[s].processed
          BY <1>2, <2>1, <4>2 DEF Live, Behind
        <4> QED
          BY <1>2, <4>1, <4>2
      <3> QED
        BY <3>1 DEF Behind
    <2>3. LiveCapture(s)'
      <3>1. /\ After(c.window, s, start'[s]) /\ Before(c.window, s, start'[s] + c.upto)
            /\ marker'[s].processed <= c.upto /\ c.upto <= C!Length(s)'
            /\ After(c.state[s].captured, s, start'[s])
        BY <1>2, <1>3, <1>4, <1>9, <2>1 DEF Live
      <3>2. \A k \in 1..c.upto : <<s, start'[s] + k>> \in read' \cup quiet' \cup c.window
        BY <1>4, <2>2 DEF Behind
      <3> QED
        BY <1>6, <3>1, <3>2 DEF LiveCapture, Behind, After, Before
    <2>4. Live(s)'
      BY <1>4, <1>6, <1>9, <2>1, <2>3 DEF Live, Behind, After
    <2> QED
      BY <2>1, <2>4
  <1> QED
    BY <1>7, <1>8, <1>12, <1>13, OneChat

LEMMA ScheduleStep ==
  ASSUME CaptureInv, NEW s \in Chats, C!Schedule(s)
  PROVE  CaptureInv'
  <1>1. /\ due' \in SUBSET Chats
        /\ UNCHANGED <<said, start, quiet, foreign, clears, reset, prov, missed>>
    BY DEF C!Schedule, CaptureInv, CaptureTypes
  <1>2. CASE UNCHANGED <<marker, capture, read, slipped>>
    <2>1. CaptureTypes'
      BY <1>1, <1>2 DEF CaptureInv, CaptureTypes
    <2>2. Grows /\ \A t \in Chats : Same(t)
      BY <1>1, <1>2 DEF Grows, Same
    <2> QED
      BY <1>1, <2>1, <2>2, NoChat
  <1>3. CASE /\ capture[s] = None /\ C!Length(s) < marker[s].processed
             /\ marker' = [marker EXCEPT ![s] = [processed |-> C!Length(s), captured |-> {}]]
             /\ UNCHANGED <<capture, read, slipped>>
    BY <1>1, <1>3, RewindStep
  <1>4. CASE /\ capture[s] = None /\ C!Length(s) - marker[s].processed >= EveryTurns
             /\ slipped' = IF C!InGap(s) THEN slipped \cup {s} ELSE slipped
             /\ marker' = [marker EXCEPT ![s].processed = C!Length(s)]
             /\ read' = read \cup C!Window(s) /\ UNCHANGED capture
    BY <1>1, <1>4, ConsumeStep
  <1>5. CASE /\ capture[s] = None /\ C!Length(s) - marker[s].processed >= EveryTurns
             /\ slipped' = IF C!InGap(s) THEN slipped \cup {s} ELSE slipped
             /\ C!WorthReading(C!Window(s))
             /\ capture' = [capture EXCEPT ![s] =
                       [pc |-> "extracting", window |-> C!Window(s), found |-> {},
                        upto |-> C!Length(s), state |-> marker, old |-> FALSE]]
             /\ UNCHANGED <<marker, read>>
    BY <1>1, <1>5, CaptureBegins
  <1> QED
    BY <1>2, <1>3, <1>4, <1>5 DEF C!Schedule

LEMMA ResetClearStep ==
  ASSUME CaptureInv, NEW s \in Chats, C!ResetClear(s)
  PROVE  CaptureInv'
  <1> DEFINE r == [pc |-> "cleared", base |-> start[s], len |-> C!Length(s),
                   tail |-> {}, facts |-> {}, captured |-> {}]
  <1>1. /\ reset[s] = None /\ reset' = [reset EXCEPT ![s] = r]
        /\ start' = [start EXCEPT ![s] = said[s]]
        /\ clears < MaxClears /\ clears' = clears + 1
        /\ UNCHANGED <<said, quiet, due, foreign, slipped, marker, capture, prov, read,
                       missed>>
    BY DEF C!ResetClear
  <1>2. CaptureTypes /\ Holds(s) /\ Tracked(s)
    BY DEF CaptureInv
  <1>3. /\ said[s] \in 0..MaxSaid /\ start[s] \in 0..MaxSaid /\ start[s] <= said[s]
        /\ marker[s].processed \in 0..MaxSaid
    BY <1>2 DEF CaptureTypes, Holds, Mark
  <1>4. C!Length(s) \in 0..MaxSaid /\ start[s] + C!Length(s) = said[s]
    BY <1>3 DEF C!Length
  <1>5. /\ r \in Resetting /\ r # None /\ r.pc = "cleared" /\ r.base = start[s]
        /\ r.len = C!Length(s) /\ r.tail = {} /\ r.facts = {}
    <2>1. r \in [pc : {"cleared"}, base : Nat, len : Nat, tail : {{}}, facts : {{}},
                 captured : {{}}]
      BY <1>3, <1>4
    <2>2. r # None
      <3> HIDE DEF r
      <3> QED
        BY <2>1
    <2> QED
      BY <1>3, <1>4, <2>2 DEF Resetting
  <1> HIDE DEF r
  <1>6. /\ reset'[s] = r /\ start'[s] = said[s]
        /\ \A t \in Chats \ {s} : reset'[t] = reset[t] /\ start'[t] = start[t]
    BY <1>1, <1>2 DEF CaptureTypes
  <1>7. CaptureTypes'
    <2>1. start' \in [Chats -> 0..MaxSaid] /\ reset' \in [Chats -> Resetting \cup {None}]
      BY <1>1, <1>2, <1>3, <1>5 DEF CaptureTypes
    <2> QED
      BY <1>1, <1>2, <2>1 DEF CaptureTypes
  <1>8. Grows /\ \A t \in Chats \ {s} : Same(t)
    BY <1>1, <1>6 DEF Grows, Same
  <1>9. C!InGap(s)' /\ C!Length(s)' = 0
    BY <1>1, <1>3, <1>5, <1>6 DEF C!InGap, C!Length
  <1>10. Holds(s)'
    <2>1. ResetHolds(s)'
      BY <1>3, <1>4, <1>5, <1>6 DEF ResetHolds, Before
    <2>2. CaptureHolds(s)'
      BY <1>1, <1>2 DEF Holds, CaptureHolds, Before, InStore
    <2> QED
      BY <1>1, <1>2, <1>3, <1>6, <1>9, <2>1, <2>2 DEF Holds, InStore
  <1>11. Tracked(s)'
    <2> SUFFICES ASSUME s \notin foreign \cup slipped PROVE Gap(s)'
      BY <1>1, <1>9 DEF Tracked
    <2>1. Live(s)
      BY <1>1, <1>2 DEF Tracked, C!InGap
    <2>2. marker[s].processed <= C!Length(s)
      BY <2>1 DEF Live
    <2>3. ASSUME NEW e \in read, e[1] = s PROVE e[2] <= said[s]
      <3>1. e[2] \in Int /\ e[2] <= start[s] + marker[s].processed
        BY <1>2, <2>1, <2>3 DEF Live, CaptureTypes, C!Entries
      <3> QED
        BY <1>3, <1>4, <2>2, <3>1
    <2>4. Behind(s, start[s], marker[s].processed, {})
      BY <2>1 DEF Live
    <2>5. C!Least(marker[s].processed, C!Length(s)) = marker[s].processed
      BY <1>3, <1>4, <2>2 DEF C!Least
    <2>6. Behind(s, reset[s].base, C!Least(marker[s].processed, reset[s].len), {})'
      <3>1. C!Least(marker[s].processed, reset[s].len)' = marker[s].processed
        BY <1>1, <1>5, <1>6, <2>5 DEF C!Least
      <3> QED
        BY <1>1, <1>5, <1>6, <2>4, <3>1 DEF Behind
    <2>7. ASSUME capture[s] # None
          PROVE  /\ Before(capture[s].window, s, said[s])
                 /\ ~capture[s].old => Behind(s, start[s], C!Least(capture[s].upto, C!Length(s)),
                                              capture[s].window)
      <3>1. capture[s] \in Capturing
        BY <1>2, <2>7 DEF CaptureTypes
      <3>2. capture[s].upto \in 1..MaxSaid /\ Before(capture[s].window, s, said[s])
        BY <1>2, <2>7, <3>1 DEF Capturing, Holds, CaptureHolds
      <3>3. ASSUME ~capture[s].old
            PROVE  Behind(s, start[s], C!Least(capture[s].upto, C!Length(s)), capture[s].window)
        <4>1. capture[s].upto <= C!Length(s) /\ Behind(s, start[s], capture[s].upto, capture[s].window)
          BY <2>1, <2>7, <3>3 DEF Live, LiveCapture
        <4>2. C!Least(capture[s].upto, C!Length(s)) = capture[s].upto
          BY <1>4, <3>2, <4>1 DEF C!Least
        <4> QED
          BY <4>1, <4>2
      <3> QED
        BY <3>2, <3>3
    <2>8. ASSUME capture[s] # None
          PROVE  /\ Before(capture[s].window, s, start[s])'
                 /\ ~capture[s].old => Behind(s, reset[s].base, C!Least(capture[s].upto, reset[s].len),
                                              capture[s].window)'
      <3>1. C!Least(capture[s].upto, reset[s].len)' = C!Least(capture[s].upto, C!Length(s))
        BY <1>1, <1>5, <1>6 DEF C!Least
      <3> QED
        BY <1>1, <1>5, <1>6, <2>7, <2>8, <3>1 DEF Behind, Before
    <2>9. (\A e \in read : e[1] = s => e[2] <= start[s])'
      BY <1>1, <1>6, <2>3
    <2> QED
      BY <1>1, <2>6, <2>8, <2>9 DEF Gap
  <1> QED
    BY <1>1, <1>7, <1>8, <1>10, <1>11, OneChat

LEMMA ResetTakeStep ==
  ASSUME CaptureInv, NEW s \in Chats, C!ResetTake(s)
  PROVE  CaptureInv'
  <1> DEFINE q == reset[s]
             tail == C!From(s, q.base, C!TailFrom(s), q.len)
             every == C!From(s, q.base, 0, q.len)
             y == [q EXCEPT !.pc = "extracting"]
             z == [y EXCEPT !.tail = tail]
             r == [z EXCEPT !.captured = marker[s].captured]
             c == IF capture[s] = None THEN None ELSE [capture[s] EXCEPT !.old = TRUE]
  <1>1. /\ C!InGap(s) /\ reset' = [reset EXCEPT ![s] = r]
        /\ missed' = IF every \subseteq tail \cup read \cup quiet
                     THEN missed ELSE missed \cup {s}
        /\ marker' = [marker EXCEPT ![s] = C!NoMarker]
        /\ capture' = [capture EXCEPT ![s] = c]
        /\ UNCHANGED <<said, start, quiet, due, foreign, slipped, clears, prov, read>>
    BY DEF C!ResetTake, C!talk
  <1>2. CaptureTypes /\ Holds(s) /\ Tracked(s)
    BY DEF CaptureInv
  <1>3. q \in Resetting /\ q # None
    BY <1>1, <1>2 DEF C!InGap, CaptureTypes
  <1>4. /\ said[s] \in 0..MaxSaid /\ start[s] \in 0..MaxSaid /\ start[s] <= said[s]
        /\ marker[s] \in Mark /\ marker[s].processed \in 0..MaxSaid
        /\ marker[s].captured \in SUBSET C!Facts
        /\ q.base \in 0..MaxSaid /\ q.len \in 0..MaxSaid /\ q.base + q.len <= start[s]
        /\ q.facts \subseteq q.tail /\ q.facts \subseteq C!Entries
    BY <1>2, <1>3 DEF CaptureTypes, Holds, ResetHolds, Mark, Resetting
  <1>5. /\ C!TailFrom(s) \in Nat
        /\ \A k \in 1..q.len : k > C!TailFrom(s)
                               \/ k \in 1..C!Least(marker[s].processed, q.len)
    BY <1>4 DEF C!TailFrom, C!Max0, C!Least
  <1>6. /\ tail \subseteq C!Entries /\ Before(tail, s, q.base + q.len)
        /\ \A k \in (C!TailFrom(s) + 1)..q.len : <<s, q.base + k>> \in tail
    <2>1. q.base \in Nat /\ q.len \in Nat /\ q.base + q.len <= MaxSaid
      BY <1>4
    <2>2. PICK i \in Nat : i = C!TailFrom(s)
      BY <1>5
    <2> HIDE DEF q
    <2> QED
      BY <2>1, <2>2, FromFacts
  <1>7. \A e \in every : \E k \in 1..q.len : e = <<s, q.base + k>>
    BY DEF C!From
  <1>8. Before(tail, s, start[s])
    <2>1. \A e \in tail : e[1] = s /\ e[2] <= q.base + q.len /\ e[2] \in Int
      BY <1>6 DEF Before, C!Entries
    <2> QED
      BY <1>4, <2>1 DEF Before
  <1> HIDE DEF tail, every
  <1>9. /\ r \in Resetting /\ r.pc = "extracting" /\ r.tail = tail /\ r.base = q.base
        /\ r.len = q.len /\ r.facts = q.facts
    <2> HIDE DEF q
    <2>1. /\ y \in Resetting /\ y.pc = "extracting" /\ y.base = q.base /\ y.len = q.len
          /\ y.facts = q.facts
      BY <1>3 DEF Resetting
    <2> HIDE DEF y
    <2>2. /\ z \in Resetting /\ z.pc = "extracting" /\ z.base = q.base /\ z.len = q.len
          /\ z.facts = q.facts /\ z.tail = tail
      BY <1>6, <2>1 DEF Resetting
    <2> HIDE DEF z
    <2> QED
      BY <1>4, <2>2 DEF Resetting
  <1> HIDE DEF y, z, r
  <1>10. /\ c \in Capturing \cup {None} /\ (c # None => capture[s] # None)
         /\ c # None => /\ c.window = capture[s].window /\ c.found = capture[s].found
                        /\ c.state = capture[s].state /\ c.old
    <2>1. capture[s] \in Capturing \cup {None}
      BY <1>2 DEF CaptureTypes
    <2>2. CASE capture[s] = None
      BY <2>2
    <2>3. CASE capture[s] # None
      <3> DEFINE d == [capture[s] EXCEPT !.old = TRUE]
      <3>1. capture[s] \in Capturing
        BY <2>1, <2>3
      <3>2. /\ d \in Capturing /\ d.window = capture[s].window
            /\ d.found = capture[s].found /\ d.state = capture[s].state /\ d.old
        BY <3>1 DEF Capturing
      <3>3. c = d
        BY <2>3
      <3> HIDE DEF d
      <3> QED
        BY <2>3, <3>2, <3>3
    <2> QED
      BY <2>2, <2>3
  <1> HIDE DEF c
  <1>11. /\ reset'[s] = r /\ capture'[s] = c /\ marker'[s] = C!NoMarker
         /\ \A t \in Chats \ {s} : /\ reset'[t] = reset[t] /\ capture'[t] = capture[t]
                                   /\ marker'[t] = marker[t]
    BY <1>1, <1>2 DEF CaptureTypes
  <1>12. C!NoMarker \in Mark /\ C!NoMarker.processed = 0 /\ C!NoMarker.captured = {}
    BY DEF C!NoMarker, Mark
  <1>13. CaptureTypes'
    <2>1. reset' \in [Chats -> Resetting \cup {None}] /\ marker' \in [Chats -> Mark]
      BY <1>1, <1>2, <1>9, <1>12 DEF CaptureTypes
    <2>2. capture' \in [Chats -> Capturing \cup {None}]
      BY <1>1, <1>2, <1>10 DEF CaptureTypes
    <2>3. missed' \subseteq Chats
      BY <1>1, <1>2 DEF CaptureTypes
    <2> QED
      BY <1>1, <1>2, <2>1, <2>2, <2>3 DEF CaptureTypes
  <1>14. Grows /\ \A t \in Chats \ {s} : Same(t)
    BY <1>1, <1>11 DEF Grows, Same
  <1>15. ~C!InGap(s)'
    BY <1>9, <1>11 DEF C!InGap
  <1>16. Holds(s)'
    <2>1. ResetHolds(s)'
      <3> SUFFICES ASSUME r # None PROVE ResetHolds(s)'
        BY <1>11 DEF ResetHolds
      <3>1. q.facts = {}
        BY <1>1, <1>2, <1>3 DEF Holds, ResetHolds, C!InGap
      <3> QED
        BY <1>1, <1>4, <1>8, <1>9, <1>11, <3>1 DEF ResetHolds, Before
    <2>2. CaptureHolds(s)'
      BY <1>1, <1>2, <1>10, <1>11 DEF Holds, CaptureHolds, Before, InStore
    <2> QED
      BY <1>1, <1>4, <1>11, <1>12, <1>15, <2>1, <2>2 DEF Holds, InStore
  <1>17. Tracked(s)'
    <2> SUFFICES ASSUME s \notin foreign \cup slipped PROVE Live(s)'
      BY <1>1, <1>15 DEF Tracked
    <2>1. Gap(s)
      BY <1>1, <1>2 DEF Tracked
    <2>2. C!Length(s)' \in Nat
      BY <1>1, <1>4 DEF C!Length
    <2>3. (\A e \in read : e[1] = s => e[2] <= start[s] + marker[s].processed)'
      <3>1. \A e \in read : e[1] = s => e[2] <= start[s]
        BY <2>1 DEF Gap
      <3>2. start'[s] + marker'[s].processed = start[s]
        BY <1>1, <1>4, <1>11, <1>12
      <3> QED
        BY <1>1, <3>1, <3>2
    <2>4. Behind(s, start[s], marker[s].processed, {})'
      BY <1>11, <1>12 DEF Behind
    <2>5. (capture[s] # None => capture[s].old /\ Before(capture[s].window, s, start[s]))'
      BY <1>1, <1>10, <1>11, <2>1 DEF Gap, Before
    <2>6. After(marker[s].captured, s, start[s])' /\ (marker[s].processed <= C!Length(s))'
      BY <1>11, <1>12, <2>2 DEF After
    <2> QED
      BY <2>3, <2>4, <2>5, <2>6 DEF Live
  <1>18. missed' \subseteq foreign' \cup slipped'
    <2> SUFFICES ASSUME s \notin foreign \cup slipped
                 PROVE  every \subseteq tail \cup read \cup quiet
      BY <1>1 DEF CaptureInv
    <2>1. Behind(s, q.base, C!Least(marker[s].processed, q.len), {})
      BY <1>1, <1>2 DEF Tracked, Gap
    <2>2. ASSUME NEW k \in 1..q.len PROVE <<s, q.base + k>> \in tail \cup read \cup quiet
      <3>1. CASE k > C!TailFrom(s)
        BY <1>4, <1>5, <1>6, <3>1
      <3>2. CASE k \in 1..C!Least(marker[s].processed, q.len)
        BY <2>1, <3>2 DEF Behind
      <3> QED
        BY <1>5, <3>1, <3>2
    <2> QED
      BY <1>7, <2>2
  <1> QED
    BY <1>13, <1>14, <1>16, <1>17, <1>18, EachChat DEF CaptureInv

LEMMA FindsInWindow ==
  ASSUME NEW window, NEW facts \in C!Finds(window)
  PROVE  facts \in SUBSET window
  BY DEF C!Finds

LEMMA NextCapture == CaptureInv /\ [C!Next]_captureVars => CaptureInv'
  <1> SUFFICES ASSUME CaptureInv, [C!Next]_captureVars PROVE CaptureInv'
    OBVIOUS
  <1>1. CASE UNCHANGED captureVars
    <2>1. CaptureTypes' /\ missed' = missed
      BY <1>1 DEF CaptureInv, CaptureTypes, captureVars
    <2>2. Grows /\ \A t \in Chats : Same(t)
      BY <1>1 DEF Grows, Same, captureVars
    <2> QED
      BY <2>1, <2>2, NoChat
  <1>2. ASSUME NEW s \in Chats,
               NEW facts \in C!Finds(IF capture[s] = None THEN {} ELSE capture[s].window),
               C!Extracted(s, facts)
        PROVE  CaptureInv'
    <2>1. capture[s] # None
      BY <1>2 DEF C!Extracted
    <2>2. facts \in SUBSET capture[s].window
      BY <1>2, <2>1, FindsInWindow
    <2> QED
      BY <1>2, <2>2, ExtractedStep
  <1>3. ASSUME NEW s \in Chats,
               NEW facts \in C!Finds(IF reset[s] = None THEN {} ELSE reset[s].tail),
               C!ResetExtracted(s, facts)
        PROVE  CaptureInv'
    <2>1. reset[s] # None
      BY <1>3 DEF C!ResetExtracted
    <2>2. facts \in SUBSET reset[s].tail
      BY <1>3, <2>1, FindsInWindow
    <2> QED
      BY <1>3, <2>2, ResetEndsStep
  <1> QED
    BY <1>1, <1>2, <1>3, TalkStep, ForeignClearStep, ScheduleStep, CaptureFailsStep, StoredStep,
       ResetClearStep, ResetTakeStep, ResetEndsStep, ReviewStep DEF C!Next

(* With more than one entry between two captures, none falls in a gap. *)
LEMMA NoneInGap ==
  ASSUME CaptureInv, NEW s \in Chats, EveryTurns > 1,
         C!Length(s) - marker[s].processed >= EveryTurns
  PROVE  ~C!InGap(s)
  <1>1. CaptureTypes /\ Holds(s)
    BY DEF CaptureInv
  <1>2. C!Length(s) \in Int /\ marker[s].processed \in Nat
    BY <1>1 DEF CaptureTypes, Mark, C!Length
  <1> QED
    BY <1>1, <1>2 DEF Holds

LEMMA QuietKept ==
  ASSUME CaptureInv, C!GapIsQuiet, [C!Next]_captureVars
  PROVE  C!GapIsQuiet'
  <1> SUFFICES ASSUME EveryTurns > 1 PROVE slipped' = {}
    BY DEF C!GapIsQuiet
  <1>1. slipped = {}
    BY DEF C!GapIsQuiet
  <1>2. ASSUME NEW s \in Chats, C!Schedule(s) PROVE slipped' = slipped
    BY <1>2, NoneInGap DEF C!Schedule
  <1> QED
    BY <1>1, <1>2 DEF C!Next, C!Exchange, C!Note, C!Append, C!ForeignClear, C!Extracted,
       C!CaptureFails, C!Stored, C!ResetClear, C!ResetTake, C!ResetReply, C!ResetExtracted,
       C!SaveBegin, C!Discard, C!SaveEnd, C!talk, C!review, captureVars

(* What is kept says that the notes are current, and the types. *)
LEMMA CaptureMeans ==
  ASSUME CaptureInv
  PROVE  /\ C!TypeOK /\ C!CapturedIsStored
         /\ C!MarkerIsLive /\ C!MarkerCoversRead /\ C!NothingMissed
  <1>1. C!TypeOK
    <2>1. ASSUME NEW s \in Chats
          PROVE  /\ marker[s].processed \in 0..MaxSaid /\ marker[s].captured \subseteq C!Facts
                 /\ capture[s] # None =>
                      /\ capture[s].pc \in {"extracting", "writing"}
                      /\ capture[s].window \subseteq C!Entries
                      /\ capture[s].found \subseteq capture[s].window
                      /\ C!Cardinality(capture[s].window \ quiet) > 1
                      /\ capture[s].upto \in 1..MaxSaid
                 /\ reset[s] # None =>
                      /\ reset[s].pc \in {"cleared", "extracting", "listing"}
                      /\ reset[s].base + reset[s].len <= start[s]
                      /\ reset[s].facts \subseteq reset[s].tail
                      /\ reset[s].tail \subseteq C!Entries
      <3>1. Holds(s) /\ CaptureTypes
        BY DEF CaptureInv
      <3>2. marker[s].processed \in 0..MaxSaid /\ marker[s].captured \subseteq C!Facts
        BY <3>1 DEF CaptureTypes, Mark
      <3>3. capture[s] # None => /\ capture[s].pc \in {"extracting", "writing"}
                                 /\ capture[s].window \subseteq C!Entries
                                 /\ capture[s].upto \in 1..MaxSaid
        BY <3>1 DEF CaptureTypes, Capturing
      <3>4. capture[s] # None => /\ capture[s].found \subseteq capture[s].window
                                 /\ C!Cardinality(capture[s].window \ quiet) > 1
        BY <3>1 DEF Holds, CaptureHolds, C!Cardinality, Cardinality
      <3>5. reset[s] # None => /\ reset[s].pc \in {"cleared", "extracting", "listing"}
                               /\ reset[s].tail \subseteq C!Entries
        BY <3>1 DEF CaptureTypes, Resetting
      <3> QED
        BY <3>1, <3>2, <3>3, <3>4, <3>5 DEF Holds, ResetHolds
    <2> QED
      BY <2>1 DEF CaptureInv, CaptureTypes, C!TypeOK
  <1>2. C!CapturedIsStored
    BY DEF CaptureInv, Holds, InStore, C!CapturedIsStored
  <1>3. C!MarkerIsLive /\ C!MarkerCoversRead /\ C!NothingMissed
    <2>1. \A s \in Chats : C!Settled(s) => Live(s)
      BY DEF CaptureInv, Tracked, C!Settled
    <2> QED
      BY <2>1 DEF CaptureInv, Live, After, C!MarkerIsLive, C!MarkerCoversRead,
         C!NothingMissed
  <1> QED
    BY <1>1, <1>2, <1>3

-----------------------------------------------------------------------------
(* All of it together: a behaviour is one of the parts, and the one it is    *)
(* keeps its invariant, while the memory of the session stays as it was.     *)

MemInv ==
    /\ IInv
    /\ side \in {"session", "capture", "store", "graph"}
    /\ side = "capture" => CaptureInv /\ C!GapIsQuiet
    /\ side = "store" => StoreInv
    /\ side = "graph" => GraphInv

LEMMA InitAll == AllInit => MemInv
  BY InitIInv, InitCapture, InitStore, InitGraph DEF AllInit, MemInv, C!Init, C!GapIsQuiet

(* What a step of all of them is to each. *)
LEMMA AllSteps ==
  ASSUME [AllNext]_all
  PROVE  /\ UNCHANGED side /\ [Next]_vars
         /\ IF side = "capture" THEN [C!Next]_captureVars ELSE UNCHANGED captureVars
         /\ IF side = "store" THEN [F!Next]_storeVars ELSE UNCHANGED storeVars
         /\ IF side = "graph" THEN [G!Next]_graphVars ELSE UNCHANGED graphVars
  BY DEF AllNext, Session, Capture, Store, Graph, all

LEMMA NextAll == MemInv /\ [AllNext]_all => MemInv'
  <1> SUFFICES ASSUME MemInv, [AllNext]_all PROVE MemInv'
    OBVIOUS
  <1>1. UNCHANGED side
    BY AllSteps
  <1>2. IInv'
    BY AllSteps, NextIInv DEF MemInv
  <1>3. side = "capture" => CaptureInv' /\ C!GapIsQuiet'
    BY AllSteps, NextCapture, QuietKept DEF MemInv
  <1>4. side = "store" => StoreInv'
    BY AllSteps, NextStore DEF MemInv, StoreStep
  <1>5. side = "graph" => GraphInv'
    BY AllSteps, NextGraph DEF MemInv
  <1> QED
    BY <1>1, <1>2, <1>3, <1>4, <1>5 DEF MemInv

LEMMA AllHolds == AllSpec => []MemInv
  BY InitAll, NextAll, PTL DEF AllSpec

(* The session, the capture, the store and the graph keep their types.       *)
THEOREM AllTypesKept == AllSpec => []AllTypeOK
  <1>1. MemInv => AllTypeOK
    BY CaptureMeans, StoreMeans DEF MemInv, IInv, GraphInv, GraphTypes, AllTypeOK
  <1> QED
    BY <1>1, AllHolds, PTL

(* For any number of sessions, entries, clears and interleavings of captures,*)
(* resets, reviews and notes: the marker of a session covers what was read   *)
(* and no more, it lists no fact of a conversation that ended and none the   *)
(* stores do not hold, and a session loses no entry unread                   *)
(* (memory-capture.ts).  Of a session that something else than !reset        *)
(* cleared, or whose capture began between the clear of a !reset and its     *)
(* take, only the part about the stores is said; and no capture begins there *)
(* unless one is made for every entry.                                       *)
THEOREM NotesStayCurrent == AllSpec => []NotesAreCurrent
  <1>1. MemInv => NotesAreCurrent
    <2> SUFFICES ASSUME MemInv PROVE NotesAreCurrent
      OBVIOUS
    <2>1. StateFresh
      BY DEF MemInv, IInv, Current, StateOf, StateFresh
    <2>2. side = "capture" => /\ C!MarkerCoversRead /\ C!NothingMissed /\ C!GapIsQuiet
                              /\ C!CapturedIsStored /\ C!MarkerIsLive
      BY CaptureMeans DEF MemInv
    <2> QED
      BY <2>1, <2>2 DEF NotesAreCurrent
  <1> QED
    BY <1>1, AllHolds, PTL

(* For any facts, wordings, writers, merges, removals and adds: the flat     *)
(* store and the graph hold a fact once, but where a write was overtaken or  *)
(* raced, or a check met the node of somebody else; at rest the view is the  *)
(* index; the graph holds nothing that was removed from it, but what a race  *)
(* excuses, and its history can be walked                                    *)
(* (memory/fact-store.ts, memory/consolidation.ts, memory/graph-store.ts).   *)
THEOREM StoresStaySound == AllSpec => []StoresAreSound
  <1>1. MemInv => StoresAreSound
    BY StoreMeans DEF MemInv, GraphInv, StoresAreSound
  <1> QED
    BY <1>1, AllHolds, PTL

(* No step undoes another one: what was forgotten is written again only by a *)
(* call that read the store before, what the owner said leaves it only when  *)
(* it is refused or was read as something else, and a late extraction does   *)
(* not turn the state of a session back.                                     *)
THEOREM NothingComesUndone == AllSpec => NothingIsUndone
  <1>1. MemInv /\ [AllNext]_all => [NoneComesBack]_storeVars /\ [NoneIsDropped]_storeVars
    BY AllSteps, NextStore DEF MemInv, StoreStep
  <1>2. MemInv /\ [AllNext]_all =>
          [extraction # None /\ extraction' = None /\ state # None
              => state'.turns >= state.turns]_vars
    BY AllSteps, NoTurnBack DEF MemInv
  <1>3. AllSpec => /\ [][NoneComesBack]_storeVars /\ [][NoneIsDropped]_storeVars
                   /\ ExtractionKeepsTurns
    BY <1>1, <1>2, AllHolds, PTL DEF AllSpec, ExtractionKeepsTurns
  <1>4. [][NoneComesBack]_storeVars => F!ForgottenStaysGone
    BY PTL DEF NoneComesBack, storeVars, F!ForgottenStaysGone, F!vars
  <1>5. [][NoneIsDropped]_storeVars => F!StatedIsKept
    BY PTL DEF NoneIsDropped, storeVars, F!StatedIsKept, F!vars
  <1> QED
    BY <1>3, <1>4, <1>5, PTL DEF NothingIsUndone
=============================================================================
