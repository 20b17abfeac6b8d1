--------------------------- MODULE BackgroundProofs ---------------------------
(* What goes on behind the conversations is safe, for any bounds.  In order: *)
(* the run journal (a note only about a run that died in its loop, and a     *)
(* boot leaves no journal of a dead run), the deploy of self-modifications   *)
(* (what is merged was judged, can be undone, and is not praised when it     *)
(* was), the scheduler, code sessions, the sandbox, the tokens and the       *)
(* clients of MCP servers, and all of them as MCBackground composes them.    *)
EXTENDS MCBackground, Sequences, FiniteSetTheorems, TLAPS

(* The shape of the state is kept.  (services/run-journal.ts) *)
THEOREM TypeCorrect == Spec => []TypeOK
<1>1. Init => TypeOK
  BY JournalAssumption DEF Init, TypeOK, Phases, Dead
<1>2. TypeOK /\ [Next]_vars => TypeOK'
  <2> SUFFICES ASSUME TypeOK, [Next]_vars PROVE TypeOK'
    OBVIOUS
  <2> USE JournalAssumption DEF TypeOK, Phases, Dead, sweepVars
  <2>1. ASSUME NEW r \in Runs, StartLoop(r) PROVE TypeOK'
    BY <2>1 DEF StartLoop, OpenJournal
  <2>2. ASSUME NEW r \in Runs, Reroute(r) PROVE TypeOK'
    BY <2>2 DEF Reroute, OpenJournal
  <2>3. ASSUME NEW r \in Runs, LoopEnds(r) PROVE TypeOK'
    BY <2>3 DEF LoopEnds
  <2>4. ASSUME NEW r \in Runs, Record(r) PROVE TypeOK'
    BY <2>4 DEF Record
  <2>5. CASE Crash
    <3>1. run' \in [Runs -> Phases]
      BY <2>5 DEF Crash
    <3>2. journal' \in [Runs -> {"none", "torn", "kept"}]
      BY <2>5 DEF Crash
    <3> QED BY <2>5, <3>1, <3>2 DEF Crash
  <2>6. CASE Boot
    BY <2>6 DEF Boot
  <2>7. CASE SweepDone
    BY <2>7 DEF SweepDone
  <2>8. ASSUME NEW r \in Runs, Note(r) PROVE TypeOK'
    BY <2>8 DEF Note
  <2>9. ASSUME NEW r \in Runs, Remove(r) PROVE TypeOK'
    BY <2>9 DEF Remove
  <2>10. CASE UNCHANGED vars
    BY <2>10 DEF vars
  <2> QED
    BY <2>1, <2>2, <2>3, <2>4, <2>5, <2>6, <2>7, <2>8, <2>9, <2>10 DEF Next, Recover
<1> QED BY <1>1, <1>2, PTL DEF Spec
-----------------------------------------------------------------------------
(* A journal belongs to a run that is, or died, in its loop. *)
JournalsOfLoops ==
    \A r \in Runs : journal[r] # "none" => run[r] \in {"looping", "killed_looping"}

(* Nothing runs until the sweep is over. *)
NothingRuns ==
    process # "up" => \A r \in Runs : run[r] \notin {"looping", "looped"}

(* A run that died in its loop has yet to be noted from its journal, or there *)
(* is a note of it or a reason for there being none.                          *)
TheDeadAreAccountedFor == \A r \in Runs : run[r] = "killed_looping" =>
    (journal[r] = "kept" /\ r \notin handled) \/ notes[r] > 0 \/ r \in silent

(* The sweep's list is exactly what is left in the directory. *)
ListIsDirectory ==
    process = "sweeping" => todo = {r \in Runs : journal[r] # "none"}

IInv ==
    /\ TypeOK /\ JournalsOfLoops /\ NothingRuns /\ ListIsDirectory
    /\ TheDeadAreAccountedFor
    /\ NotesAreTrue /\ SweepIsComplete

LEMMA InvInit == Init => IInv
BY JournalAssumption DEF Init, IInv, TypeOK, Phases, Dead, JournalsOfLoops,
   NothingRuns, ListIsDirectory, TheDeadAreAccountedFor, NotesAreTrue, SweepIsComplete

LEMMA InvNext == IInv /\ TypeOK' /\ [Next]_vars => IInv'
<1> SUFFICES ASSUME IInv, TypeOK', [Next]_vars PROVE IInv'
  OBVIOUS
<1> USE DEF IInv, TypeOK, Phases, Dead, sweepVars
<1> DEFINE Parts == JournalsOfLoops /\ NothingRuns /\ ListIsDirectory
                      /\ TheDeadAreAccountedFor /\ NotesAreTrue /\ SweepIsComplete
<1> USE DEF JournalsOfLoops, NothingRuns, ListIsDirectory,
            TheDeadAreAccountedFor, NotesAreTrue, SweepIsComplete
<1>1. ASSUME NEW r \in Runs, StartLoop(r) \/ Reroute(r) PROVE Parts'
  BY <1>1 DEF StartLoop, Reroute, OpenJournal
<1>2. ASSUME NEW r \in Runs, LoopEnds(r) PROVE Parts'
  BY <1>2 DEF LoopEnds
<1>3. ASSUME NEW r \in Runs, Record(r) PROVE Parts'
  BY <1>3 DEF Record
<1>4. CASE Crash
  BY <1>4 DEF Crash
<1>5. CASE Boot
  BY <1>5 DEF Boot
<1>6. CASE SweepDone
  BY <1>6 DEF SweepDone
<1>7. ASSUME NEW r \in Runs, Note(r) PROVE Parts'
  <2>1. journal[r] # "none" /\ run[r] = "killed_looping"
    BY <1>7 DEF Note
  <2> QED BY <1>7, <2>1 DEF Note
<1>8. ASSUME NEW r \in Runs, Remove(r) PROVE Parts'
  BY <1>8 DEF Remove
<1>9. CASE UNCHANGED vars
  BY <1>9 DEF vars
<1> QED
  BY <1>1, <1>2, <1>3, <1>4, <1>5, <1>6, <1>7, <1>8, <1>9 DEF Next, Recover

THEOREM InvHolds == Spec => []IInv
BY InvInit, InvNext, TypeCorrect, PTL DEF Spec

(* No answered, failed or live run is ever announced as interrupted.         *)
(* (sweepInterruptedRuns, and the finally of runToolLoop)                    *)
THEOREM OnlyTheDeadAreNoted == Spec => []NotesAreTrue
<1>1. IInv => NotesAreTrue
  BY DEF IInv
<1> QED BY <1>1, InvHolds, PTL

(* Traffic is accepted only after every journal of a dead run is gone.       *)
(* (sweepInterruptedRuns)                                                    *)
THEOREM DirectoryIsClean == Spec => []SweepIsComplete
<1>1. IInv => SweepIsComplete
  BY DEF IInv
<1> QED BY <1>1, InvHolds, PTL
-----------------------------------------------------------------------------
(* What is merged was judged, and a deploy can be undone: proved for any     *)
(* number of commits, gates and reboots.                                     *)

Entry == [sha : Nat, of : Nat]

(* A history of main: the first commit stays, and later commits have larger  *)
(* numbers, up to the number of commits made.                                *)
HistoryOK(h, n) ==
    /\ h \in Seq(Entry) /\ n \in Nat
    /\ Len(h) >= 1 /\ h[1].sha = 1
    /\ \A i \in 1..Len(h) : h[i].sha <= n
    /\ \A i, j \in 1..Len(h) : i < j => h[i].sha < h[j].sha

(* A merge whose commit is in main has the commit it goes back to in main,   *)
(* in front of it, unless a head was merged twice.                           *)
Undoable(m, h, n, again) ==
    /\ m.prev \in Nat \ {0} /\ m.merge \in Nat /\ m.merge <= n
    /\ ~again => /\ m.prev < m.merge
                 /\ m.merge \in S!Shas(h) => m.prev \in S!Shas(h)

(* What can be confirmed was judged, as that head. *)
GateInv ==
    /\ active \in [base : Nat, head : Nat]
    /\ session \in [at : {"idle", "session", "gate"}, base : Nat, head : Nat]
    /\ judged \subseteq Nat
    /\ \A e \in ledger : e.head \in judged
    /\ S!OnlyJudgedIsMerged

DeployInv ==
    /\ marker \in [prev : Nat, merge : Nat, exp : BOOLEAN, old : BOOLEAN]
    /\ sup \in [at : {"boot", "watch", "deploy", "stopped"}, to : Nat]
    /\ \A m \in merging : Undoable(m, main, made, twice)
    /\ marker # S!NoMarker => Undoable(marker, main, made, twice)
    /\ sup.to # 0 => (~twice => sup.to \in S!Shas(main) /\ sup.to < S!HEAD)

SafeInv == HistoryOK(main, made) /\ GateInv /\ DeployInv

(* The head of a history is its largest commit. *)
LEMMA HeadFacts ==
  ASSUME NEW h, NEW n, HistoryOK(h, n)
  PROVE  /\ h[Len(h)].sha \in Nat \ {0} /\ h[Len(h)].sha <= n
         /\ h[Len(h)].sha \in S!Shas(h) /\ S!Shas(h) \subseteq Nat
         /\ \A c \in S!Shas(h) : c <= h[Len(h)].sha
  <1>1. /\ Len(h) \in Nat \ {0}
        /\ \A i \in 1..Len(h) : h[i] \in Entry
    BY DEF HistoryOK
  <1>2. \A i \in 1..Len(h) : h[i].sha \in Nat /\ h[i].sha <= h[Len(h)].sha
    BY <1>1, SMTT(60) DEF HistoryOK, Entry
  <1>3. h[1].sha = 1 /\ 1 \in 1..Len(h) /\ Len(h) \in 1..Len(h)
    BY <1>1 DEF HistoryOK
  <1> QED
    BY <1>1, <1>2, <1>3 DEF HistoryOK, S!Shas

(* A commit is put at the end. *)
LEMMA Grown ==
  ASSUME NEW h, NEW n, HistoryOK(h, n), NEW of \in Nat
  PROVE  LET g == Append(h, [sha |-> n + 1, of |-> of])
         IN  /\ HistoryOK(g, n + 1)
             /\ S!Shas(g) = S!Shas(h) \cup {n + 1}
             /\ g[Len(g)].sha = n + 1
             /\ \A i \in 1..Len(g) :
                   g[i].of = of \/ \E j \in 1..Len(h) : g[i].of = h[j].of
  <1> DEFINE e == [sha |-> n + 1, of |-> of]
             g == Append(h, e)
  <1>1. h \in Seq(Entry) /\ n \in Nat /\ e \in Entry /\ Len(h) \in Nat
    BY DEF HistoryOK, Entry
  <1>2. /\ g \in Seq(Entry) /\ Len(g) = Len(h) + 1 /\ g[Len(g)] = e
        /\ \A i \in 1..Len(h) : g[i] = h[i]
    BY <1>1
  <1> HIDE DEF g
  <1>3. \A i \in 1..Len(g) : i \in 1..Len(h) \/ i = Len(g)
    BY <1>1, <1>2
  <1>4. \A i \in 1..Len(h) : h[i].sha \in Nat /\ h[i].sha <= n
    <2>1. \A i \in 1..Len(h) : h[i] \in Entry
      BY <1>1
    <2> QED
      BY <2>1 DEF HistoryOK, Entry
  <1>5. \A i, j \in 1..Len(g) : i < j => g[i].sha < g[j].sha
    <2> SUFFICES ASSUME NEW i \in 1..Len(g), NEW j \in 1..Len(g), i < j
                 PROVE  g[i].sha < g[j].sha
      OBVIOUS
    <2>1. i \in 1..Len(h) /\ g[i] = h[i]
      BY <1>1, <1>2
    <2>2. CASE j \in 1..Len(h)
      BY <1>2, <2>1, <2>2 DEF HistoryOK
    <2>3. CASE j = Len(g)
      BY <1>1, <1>2, <1>4, <2>1, <2>3
    <2> QED
      BY <1>3, <2>2, <2>3
  <1>6. HistoryOK(g, n + 1)
    <2>1. \A i \in 1..Len(g) : g[i].sha <= n + 1
      BY <1>1, <1>2, <1>3, <1>4
    <2>2. Len(g) >= 1 /\ g[1].sha = 1
      BY <1>1, <1>2 DEF HistoryOK
    <2> QED
      BY <1>1, <1>2, <1>5, <2>1, <2>2 DEF HistoryOK
  <1>7. S!Shas(g) = S!Shas(h) \cup {n + 1}
    BY <1>1, <1>2, <1>3 DEF S!Shas
  <1>8. \A i \in 1..Len(g) :
          g[i].of = of \/ \E j \in 1..Len(h) : g[i].of = h[j].of
    BY <1>2, <1>3
  <1> QED
    BY <1>2, <1>6, <1>7, <1>8 DEF g

(* A reset keeps a beginning: the commits up to a number. *)
CutAt(h, to, k) == \A i \in 1..Len(h) : h[i].sha <= to <=> i <= k

LEMMA Cut ==
  ASSUME NEW h, NEW n, HistoryOK(h, n), NEW to \in Nat \ {0},
         NEW k \in 0..Len(h), CutAt(h, to, k)
  PROVE  /\ HistoryOK(SubSeq(h, 1, k), n)
         /\ S!Shas(SubSeq(h, 1, k)) = {c \in S!Shas(h) : c <= to}
         /\ \A i \in 1..Len(SubSeq(h, 1, k)) :
               \E j \in 1..Len(h) : SubSeq(h, 1, k)[i].of = h[j].of
  <1> DEFINE g == SubSeq(h, 1, k)
  <1>1. h \in Seq(Entry) /\ Len(h) \in Nat \ {0} /\ h[1].sha = 1
    BY DEF HistoryOK
  <1>2. k \in Nat /\ k <= Len(h) /\ 1 <= k
    BY <1>1 DEF CutAt
  <1>3. g \in Seq(Entry) /\ Len(g) = k /\ \A i \in 1..k : g[i] = h[i]
    BY <1>1, <1>2
  <1> HIDE DEF g
  <1>4. HistoryOK(g, n)
    BY <1>2, <1>3 DEF HistoryOK
  <1>5. S!Shas(g) = {c \in S!Shas(h) : c <= to}
    <2>1. ASSUME NEW c \in S!Shas(g) PROVE c \in S!Shas(h) /\ c <= to
      BY <1>1, <1>2, <1>3, <2>1 DEF S!Shas, CutAt
    <2>2. ASSUME NEW c \in S!Shas(h), c <= to PROVE c \in S!Shas(g)
      <3>1. PICK i \in 1..Len(h) : c = h[i].sha
        BY DEF S!Shas
      <3>2. i <= k
        BY <2>2, <3>1 DEF CutAt
      <3> QED
        BY <1>2, <1>3, <3>1, <3>2 DEF S!Shas
    <2> QED
      BY <2>1, <2>2
  <1>6. \A i \in 1..Len(g) : \E j \in 1..Len(h) : g[i].of = h[j].of
    BY <1>2, <1>3
  <1> QED
    BY <1>4, <1>5, <1>6 DEF g

(* Steps that commit at most once keep every merge that can be undone so.    *)
Grows == \/ main' = main /\ made' \in {made, made + 1}
         \/ /\ made' = made + 1
            /\ \E of \in Nat : main' = Append(main, [sha |-> made + 1, of |-> of])

Keeps == /\ HistoryOK(main', made')
         /\ \A m : Undoable(m, main, made, twice)
                    => Undoable(m, main', made', twice')

LEMMA GrowsKeeps ==
  ASSUME HistoryOK(main, made), Grows, twice => twice'
  PROVE  /\ Keeps
         /\ \A c \in S!Shas(main) : c < S!HEAD => c \in S!Shas(main') /\ c < S!HEAD'
         /\ S!HEAD' \in Nat
  <1>1. /\ made \in Nat /\ S!HEAD \in Nat \ {0} /\ S!HEAD <= made
        /\ S!Shas(main) \subseteq Nat
    BY HeadFacts DEF HistoryOK, S!HEAD
  <1>2. CASE main' = main /\ made' \in {made, made + 1}
    <2>1. HistoryOK(main', made')
      <3>1. \A i \in 1..Len(main) : main[i].sha \in Nat
        <4>1. \A i \in 1..Len(main) : main[i] \in Entry
          BY DEF HistoryOK
        <4> QED
          BY <4>1 DEF Entry
      <3>2. \A i \in 1..Len(main) : main[i].sha <= made'
        BY <1>1, <1>2, <3>1 DEF HistoryOK
      <3> QED
        BY <1>1, <1>2, <3>2 DEF HistoryOK
    <2>2. \A m : Undoable(m, main, made, twice)
                 => Undoable(m, main', made', twice')
      BY <1>1, <1>2 DEF Undoable
    <2>3. S!HEAD' = S!HEAD
      BY <1>2 DEF S!HEAD
    <2> QED
      BY <1>1, <1>2, <2>1, <2>2, <2>3 DEF Keeps
  <1>3. ASSUME NEW of \in Nat, made' = made + 1,
               main' = Append(main, [sha |-> made + 1, of |-> of])
        PROVE  /\ Keeps
               /\ \A c \in S!Shas(main) : c < S!HEAD => c \in S!Shas(main') /\ c < S!HEAD'
               /\ S!HEAD' \in Nat
    <2>1. /\ HistoryOK(main', made')
          /\ S!Shas(main') = S!Shas(main) \cup {made + 1}
          /\ S!HEAD' = made + 1
      BY <1>3, Grown DEF S!HEAD
    <2>2. ASSUME NEW m, Undoable(m, main, made, twice)
          PROVE  Undoable(m, main', made', twice')
      <3>1. m.merge \in Nat /\ m.merge <= made /\ m.merge # made + 1
        BY <1>1, <2>2 DEF Undoable
      <3> QED
        BY <1>1, <1>3, <2>1, <2>2, <3>1 DEF Undoable
    <2> QED
      BY <1>1, <2>1, <2>2 DEF Keeps
  <1> QED
    BY <1>2, <1>3 DEF Grows

LEMMA CutKeeps ==
  ASSUME HistoryOK(main, made), NEW to \in Nat \ {0}, S!Rollback(to),
         UNCHANGED <<made, twice>>
  PROVE  Keeps /\ (S!OnlyJudgedIsMerged /\ judged' = judged => S!OnlyJudgedIsMerged')
  <1>1. PICK k \in 0..Len(main) : CutAt(main, to, k) /\ main' = SubSeq(main, 1, k)
    BY DEF S!Rollback, CutAt
  <1> DEFINE g == SubSeq(main, 1, k)
  <1>a. /\ HistoryOK(g, made)
        /\ S!Shas(g) = {c \in S!Shas(main) : c <= to}
        /\ \A i \in 1..Len(g) : \E j \in 1..Len(main) : g[i].of = main[j].of
    BY <1>1, Cut
  <1> HIDE DEF g
  <1>b. main' = g /\ made' = made
    BY <1>1 DEF g
  <1>2. /\ HistoryOK(main', made')
        /\ S!Shas(main') = {c \in S!Shas(main) : c <= to}
        /\ \A i \in 1..Len(main') : \E j \in 1..Len(main) : main'[i].of = main[j].of
    BY <1>a, <1>b
  <1>3. S!Shas(main) \subseteq Nat
    BY HeadFacts
  <1>4. ASSUME NEW m, Undoable(m, main, made, twice)
        PROVE  Undoable(m, main', made', twice')
    BY <1>2, <1>3, <1>4 DEF Undoable
  <1>5. S!OnlyJudgedIsMerged /\ judged' = judged => S!OnlyJudgedIsMerged'
    BY <1>2 DEF S!OnlyJudgedIsMerged
  <1> QED
    BY <1>2, <1>4, <1>5 DEF Keeps

(* Committing, gating and dropping, while the deploy stays as it is.         *)
LEMMA WorkSafe ==
  ASSUME SafeInv,
         \/ S!OwnerCommits \/ S!ArenaCommit \/ S!Propose \/ S!SessionEnds
         \/ S!Retry \/ S!Abandon \/ (\E pass \in BOOLEAN : S!GateEnds(pass))
         \/ \E e \in ledger : S!Drop(e)
  PROVE  SafeInv'
  <1>1. /\ main \in Seq(Entry) /\ made \in Nat /\ HistoryOK(main, made)
        /\ S!HEAD \in Nat
    BY HeadFacts DEF SafeInv, HistoryOK, S!HEAD
  <1>2. Grows /\ UNCHANGED <<twice, merging, marker, sup>>
    BY <1>1 DEF S!OwnerCommits, S!ArenaCommit, S!Propose, S!SessionEnds, S!Retry, S!Abandon,
           S!GateEnds, S!Drop, S!NewMain, Grows, S!deploy, S!history
  <1>3. /\ Keeps /\ S!HEAD' \in Nat
        /\ \A c \in S!Shas(main) : c < S!HEAD => c \in S!Shas(main') /\ c < S!HEAD'
    BY <1>1, <1>2, GrowsKeeps
  <1>4. DeployInv'
    BY <1>2, <1>3 DEF SafeInv, DeployInv, Keeps
  <1>5. S!OnlyJudgedIsMerged'
    <2>1. \/ main' = main
          \/ main' = Append(main, [sha |-> made + 1, of |-> 0])
      BY DEF S!OwnerCommits, S!ArenaCommit, S!Propose, S!SessionEnds, S!Retry, S!Abandon,
             S!GateEnds, S!Drop, S!NewMain
    <2>2. judged \subseteq judged'
      BY DEF S!OwnerCommits, S!ArenaCommit, S!Propose, S!SessionEnds, S!Retry, S!Abandon,
             S!GateEnds, S!Drop, S!history
    <2>3. \A i \in 1..Len(main') :
            main'[i].of = 0 \/ \E j \in 1..Len(main) : main'[i].of = main[j].of
      BY <1>1, <2>1, Grown
    <2> QED
      BY <2>2, <2>3 DEF SafeInv, GateInv, S!OnlyJudgedIsMerged
  <1>6. /\ active' \in [base : Nat, head : Nat]
        /\ session' \in [at : {"idle", "session", "gate"}, base : Nat, head : Nat]
    <2> USE DEF S!Idle, S!NoTree, S!Judged
    <2>1. /\ active \in [base : Nat, head : Nat]
          /\ session \in [at : {"idle", "session", "gate"},
                          base : Nat, head : Nat]
      BY DEF SafeInv, GateInv
    <2>2. made' \in Nat /\ S!HEAD' \in Nat
      BY <1>1, <1>2, <1>3 DEF Grows
    <2>3. CASE UNCHANGED <<active, session>>
      BY <2>1, <2>3
    <2>4. CASE S!ArenaCommit
      BY <2>1, <2>2, <2>4 DEF S!ArenaCommit, S!work
    <2>5. CASE S!Propose
      <3>1. S!HEAD' = main'[Len(main')].sha
        BY DEF S!HEAD
      <3> QED
        BY <2>1, <2>2, <2>5, <3>1 DEF S!Propose
    <2>6. CASE S!SessionEnds
      BY <2>1, <2>2, <2>6 DEF S!SessionEnds
    <2>7. CASE S!Retry
      BY <1>1, <2>1, <2>2, <2>7 DEF S!Retry
    <2>8. CASE S!Abandon
      BY <2>1, <2>8 DEF S!Abandon, S!Remove
    <2>9. ASSUME NEW pass \in BOOLEAN, S!GateEnds(pass)
          PROVE  /\ active' \in [base : Nat, head : Nat]
                 /\ session' \in [at : {"idle", "session", "gate"},
                                  base : Nat, head : Nat]
      BY <2>1, <2>9 DEF S!GateEnds, S!Remove
    <2> QED
      BY <2>3, <2>4, <2>5, <2>6, <2>7, <2>8, <2>9 DEF S!OwnerCommits, S!Drop, S!work
  <1>7. judged' \subseteq Nat /\ \A e \in ledger' : e.head \in judged'
    <2>1. CASE UNCHANGED judged /\ ledger' \subseteq ledger
      BY <2>1 DEF SafeInv, GateInv
    <2>2. ASSUME NEW pass \in BOOLEAN, S!GateEnds(pass)
          PROVE  judged' \subseteq Nat /\ \A e \in ledger' : e.head \in judged'
      <3>1. CASE pass
        <4>1. /\ judged' = judged \cup {session.head}
              /\ ledger' \subseteq ledger \cup {[n |-> gates, head |-> session.head]}
          BY <2>2, <3>1 DEF S!GateEnds
        <4>2. /\ session.head \in Nat /\ judged \subseteq Nat
              /\ \A e \in ledger : e.head \in judged
          BY DEF SafeInv, GateInv
        <4>3. ASSUME NEW e \in ledger' PROVE e.head \in judged'
          <5>1. CASE e \in ledger
            BY <4>1, <4>2, <5>1
          <5>2. CASE e = [n |-> gates, head |-> session.head]
            BY <4>1, <5>2
          <5> QED
            BY <4>1, <5>1, <5>2
        <4>4. judged' \subseteq Nat
          BY <4>1, <4>2
        <4> QED
          BY <4>3, <4>4
      <3>2. CASE ~pass
        BY <2>1, <2>2, <3>2 DEF S!GateEnds
      <3> QED
        BY <3>1, <3>2
    <2> QED
      BY <2>1, <2>2 DEF S!OwnerCommits, S!ArenaCommit, S!Propose, S!SessionEnds, S!Retry,
         S!Abandon, S!Drop, S!history
  <1> QED
    BY <1>3, <1>4, <1>5, <1>6, <1>7 DEF SafeInv, GateInv, Keeps

(* The owner confirms: what is merged is the judged head. *)
LEMMA ConfirmSafe ==
  ASSUME SafeInv, NEW e \in ledger, S!Confirm(e)
  PROVE  SafeInv'
  <1> USE DEF S!MayMerge
  <1>1. /\ main \in Seq(Entry) /\ made \in Nat /\ HistoryOK(main, made)
        /\ S!HEAD \in Nat \ {0} /\ S!HEAD <= made /\ S!HEAD \in S!Shas(main)
    BY HeadFacts DEF SafeInv, HistoryOK, S!HEAD
  <1>2. e.head \in judged /\ judged \subseteq Nat
    BY DEF SafeInv, GateInv
  <1>3. /\ UNCHANGED <<active, session, judged, marker, sup>>
        /\ ledger' \subseteq ledger
    BY DEF S!Confirm, S!work
  <1>4. Grows /\ (twice => twice')
    <2>1. Grows
      BY <1>2 DEF S!Confirm, S!NewMain, Grows
    <2>2. UNCHANGED twice \/ twice' = TRUE
      BY DEF S!Confirm
    <2>3. twice => twice'
      BY <2>2, Zenon
    <2> QED
      BY <2>1, <2>3
  <1>5. /\ Keeps /\ S!HEAD' \in Nat
        /\ \A c \in S!Shas(main) : c < S!HEAD => c \in S!Shas(main') /\ c < S!HEAD'
    BY <1>1, <1>4, GrowsKeeps
  <1>6. S!OnlyJudgedIsMerged'
    <2>1. \/ main' = main
          \/ main' = Append(main, [sha |-> made + 1, of |-> e.head])
      BY DEF S!Confirm, S!NewMain
    <2>2. \A i \in 1..Len(main') :
            \/ main'[i].of = e.head
            \/ \E j \in 1..Len(main) : main'[i].of = main[j].of
      BY <1>1, <1>2, <2>1, Grown, SMTT(60)
    <2> QED
      BY <1>2, <1>3, <2>2 DEF SafeInv, GateInv, S!OnlyJudgedIsMerged
  <1>7. \A m \in merging' : Undoable(m, main', made', twice')
    <2>1. \A m \in merging : Undoable(m, main', made', twice')
      BY <1>5 DEF SafeInv, DeployInv, Keeps
    <2>2. CASE UNCHANGED merging
      BY <2>1, <2>2
    <2>3. CASE /\ made' = made + 1
               /\ S!NewMain(active.head) /\ active.head = e.head
               /\ merging' = merging \cup {[prev |-> S!HEAD, merge |-> made']}
      <3>1. S!Shas(main') = S!Shas(main) \cup {made + 1}
        BY <1>1, <1>2, <2>3, Grown DEF S!NewMain
      <3>2. Undoable([prev |-> S!HEAD, merge |-> made'], main', made', twice')
        BY <1>1, <2>3, <3>1 DEF Undoable
      <3> QED
        BY <2>1, <2>3, <3>2
    <2>4. CASE /\ twice' = TRUE /\ UNCHANGED <<main, made>>
               /\ merging' = merging \cup {[prev |-> S!HEAD, merge |-> S!HEAD]}
      <3>1. Undoable([prev |-> S!HEAD, merge |-> S!HEAD], main', made', twice')
        BY <1>1, <2>4 DEF Undoable
      <3> QED
        BY <2>1, <2>4, <3>1
    <2> QED
      BY <2>2, <2>3, <2>4 DEF S!Confirm
  <1>8. DeployInv'
    BY <1>3, <1>4, <1>5, <1>7 DEF SafeInv, DeployInv, Keeps
  <1>9. GateInv'
    BY <1>2, <1>3, <1>6 DEF SafeInv, GateInv
  <1> QED
    BY <1>5, <1>8, <1>9 DEF SafeInv, Keeps

(* The deploy, while main stays as it is. *)
LEMMA DeploySafe ==
  ASSUME SafeInv, UNCHANGED <<main, made, twice, ledger, judged>>,
         active' \in {active, S!NoTree}, session' \in {session, S!Idle},
         merging' \subseteq merging,
         marker' \in [prev : Nat, merge : Nat, exp : BOOLEAN, old : BOOLEAN],
         marker' # S!NoMarker => Undoable(marker', main, made, twice),
         sup' \in [at : {"boot", "watch", "deploy", "stopped"}, to : Nat],
         \/ sup'.to \in {0, sup.to}
         \/ ~twice => sup'.to \in S!Shas(main) /\ sup'.to < S!HEAD
  PROVE  SafeInv'
  <1>1. HistoryOK(main', made')
    BY DEF SafeInv
  <1>2. GateInv'
    BY DEF SafeInv, GateInv, S!OnlyJudgedIsMerged, S!NoTree, S!Idle
  <1>3. S!HEAD' = S!HEAD /\ S!Shas(main') = S!Shas(main)
    BY DEF S!HEAD
  <1>4. DeployInv'
    BY <1>3 DEF SafeInv, DeployInv
  <1> QED
    BY <1>1, <1>2, <1>4 DEF SafeInv

(* A roll back keeps the beginning of main, and nothing is armed any more.   *)
LEMMA RollbackSafe ==
  ASSUME SafeInv, NEW to \in Nat \ {0}, S!Rollback(to),
         UNCHANGED <<made, twice, ledger, judged, active>>,
         session' \in {session, S!Idle}, merging' \subseteq merging,
         sup' \in [at : {"boot", "stopped"}, to : {0}]
  PROVE  SafeInv'
  <1>1. Keeps /\ S!OnlyJudgedIsMerged'
    BY CutKeeps DEF SafeInv, GateInv
  <1>2. marker' = S!NoMarker
    BY DEF S!Rollback, S!KeepMarker
  <1>3. DeployInv'
    BY <1>1, <1>2 DEF SafeInv, DeployInv, Keeps, S!NoMarker
  <1>4. GateInv'
    BY <1>1 DEF SafeInv, GateInv, S!Idle
  <1> QED
    BY <1>1, <1>3, <1>4 DEF SafeInv, Keeps

LEMMA InitSafe == S!Init => SafeInv
  <1> SUFFICES ASSUME S!Init PROVE SafeInv
    OBVIOUS
  <1>1. /\ main \in Seq(Entry) /\ Len(main) = 1
        /\ main[1].sha = 1 /\ main[1].of = 0 /\ made = 1
    BY DEF S!Init, Entry
  <1>2. HistoryOK(main, made)
    BY <1>1 DEF HistoryOK
  <1>3. GateInv
    BY <1>1 DEF S!Init, GateInv, S!OnlyJudgedIsMerged, S!NoTree, S!Idle
  <1>4. DeployInv
    BY DEF S!Init, DeployInv, S!NoMarker
  <1> QED
    BY <1>2, <1>3, <1>4 DEF SafeInv

LEMMA NextSafe == SafeInv /\ [S!Next]_modVars => SafeInv'
  <1> SUFFICES ASSUME SafeInv, [S!Next]_modVars PROVE SafeInv'
    OBVIOUS
  <1> DEFINE Marks == [prev : Nat, merge : Nat, exp : BOOLEAN, old : BOOLEAN]
             Sups == [at : {"boot", "watch", "deploy", "stopped"}, to : Nat]
  <1>1. /\ marker \in Marks /\ sup \in Sups
        /\ marker # S!NoMarker => Undoable(marker, main, made, twice)
    BY DEF SafeInv, DeployInv
  <1>2. S!NoMarker \in Marks
    BY DEF S!NoMarker
  <1>3. S!HEAD \in Nat \ {0} /\ S!HEAD \in S!Shas(main)
    BY HeadFacts DEF SafeInv, S!HEAD
  <1>4. ASSUME NEW m \in merging, S!MergeRecorded(m) PROVE SafeInv'
    <2>1. Undoable(m, main, made, twice)
      BY DEF SafeInv, DeployInv
    <2>2. marker' \in Marks /\ Undoable(marker', main, made, twice)
      BY <1>4, <2>1 DEF S!MergeRecorded, S!NewMarker, Undoable
    <2> QED
      BY <1>1, <1>4, <2>2, DeploySafe DEF S!MergeRecorded, S!Remove, S!history
  <1>5. ASSUME NEW code, S!Exit(code) PROVE SafeInv'
    BY <1>1, <1>5, DeploySafe DEF S!Exit, S!Down, S!history
  <1>6. CASE S!Reboot
    BY <1>1, <1>6, DeploySafe DEF S!Reboot, S!Down, S!history
  <1>7. CASE S!Boot
    BY <1>1, <1>7, DeploySafe DEF S!Boot, S!work, S!history
  <1>8. CASE S!Sweep
    BY <1>1, <1>2, <1>8, DeploySafe DEF S!Sweep, S!history
  <1>9. CASE S!Learn
    BY <1>1, <1>9, DeploySafe DEF S!Learn, S!work
  <1>10. CASE S!Healthy
    BY <1>1, <1>10, DeploySafe DEF S!Healthy, S!work, S!history
  <1>11. CASE S!MarkerAges
    <2>1. marker' \in Marks /\ Undoable(marker', main, made, twice)
      BY <1>1, <1>11 DEF S!MarkerAges, Undoable
    <2> QED
      BY <1>1, <1>11, <2>1, DeploySafe DEF S!MarkerAges, S!work, S!history
  <1>12. CASE S!Deploy
    <2>1. UNCHANGED <<made, twice, ledger, judged, active, session, merging>>
      BY <1>12 DEF S!Deploy, S!work
    <2>2. CASE S!Discard /\ UNCHANGED main
      BY <1>1, <1>2, <2>1, <2>2, DeploySafe DEF S!Discard, S!KeepMarker
    <2>3. marker.merge = S!HEAD => marker # S!NoMarker
      BY <1>3 DEF S!NoMarker
    <2>4. CASE /\ marker.merge = S!HEAD /\ UNCHANGED <<main, marker>>
               /\ sup' = [at |-> "boot", to |-> marker.prev]
      <3>1. Undoable(marker, main, made, twice)
        BY <1>1, <2>3, <2>4
      <3>2. ~twice => marker.prev \in S!Shas(main) /\ marker.prev < S!HEAD
        BY <1>3, <2>4, <3>1 DEF Undoable
      <3>3. sup' \in Sups /\ sup'.to = marker.prev
        BY <1>1, <2>4
      <3> QED
        BY <1>1, <2>1, <2>4, <3>2, <3>3, DeploySafe
    <2>5. CASE /\ marker.merge = S!HEAD /\ S!Rollback(marker.prev)
               /\ sup' \in [at : {"boot", "stopped"}, to : {0}]
      <3>1. marker.prev \in Nat \ {0}
        BY <1>1, <2>3, <2>5 DEF Undoable
      <3> QED
        BY <2>1, <2>5, <3>1, RollbackSafe
    <2> QED
      BY <1>12, <2>2, <2>4, <2>5 DEF S!Deploy
  <1>13. CASE S!Unhealthy
    <2>1. /\ UNCHANGED <<made, twice, ledger, judged, active>>
          /\ session' = S!Idle /\ merging' = {}
      BY <1>13 DEF S!Unhealthy, S!Down
    <2>2. CASE sup.to # 0
      BY <1>1, <1>13, <2>1, <2>2, RollbackSafe DEF S!Unhealthy
    <2>3. CASE sup.to = 0
      BY <1>1, <1>13, <2>1, <2>3, DeploySafe DEF S!Unhealthy
    <2> QED
      BY <2>2, <2>3
  <1>14. CASE UNCHANGED modVars
    BY <1>1, <1>14, DeploySafe DEF modVars
  <1> QED
    BY <1>4, <1>5, <1>6, <1>7, <1>8, <1>9, <1>10, <1>11, <1>12, <1>13, <1>14,
       WorkSafe, ConfirmSafe DEF S!Next

LEMMA SafeMeans == SafeInv => S!OnlyJudgedIsMerged /\ S!DeployIsReversible
  <1> SUFFICES ASSUME SafeInv PROVE S!DeployIsReversible
    BY DEF SafeInv, GateInv
  <1>1. ASSUME sup.to # 0, ~twice
        PROVE  sup.to \in S!Shas(main) /\ sup.to # S!HEAD
    BY <1>1, HeadFacts DEF SafeInv, DeployInv, S!HEAD
  <1> QED
    BY <1>1 DEF S!DeployIsReversible
-----------------------------------------------------------------------------
(* What was rolled back is learned, or its evidence is there, or was seen to *)
(* go: proved for any bounds.  No rolled back commit comes back, nothing     *)
(* lies between a merge and the commit it goes back to, so a rollback undoes *)
(* one merge of which the marker tells, and the marker is kept.              *)

Bounded ==
    /\ made \in S!Commit /\ learned \in [S!Commit -> {"none", "worked", "failed"}]
    /\ undone \subseteq 1..made /\ undone \cap S!Shas(main) = {}
    /\ \A c \in S!Commit : learned[c] = "worked" => c <= made

(* Merges are under way while the program is up, and a rollback is armed     *)
(* while it is not.                                                          *)
UpOrDown ==
    /\ proc # "up" => merging = {}
    /\ proc = "down" => detecting.of = S!NoMarker
    /\ sup.to # 0 => proc # "up"
    /\ sup.at # "watch" => proc = "down"

Adjacent(m, h) ==
    /\ m.merge \in S!Shas(h)
    /\ \A c \in S!Shas(h) : ~(m.prev < c /\ c < m.merge)

Deployed == /\ \A m \in merging : Adjacent(m, main)
            /\ marker # S!NoMarker => Adjacent(marker, main)

(* What the armed rollback would undo of what memory praises is the merge    *)
(* of the marker.                                                            *)
Armed ==
    ~twice /\ sup.to # 0 /\ marker # S!NoMarker =>
        \A c \in S!Shas(main) :
            c > sup.to /\ learned[c] = "worked" => c = marker.merge

Evidence ==
    /\ detecting.of # S!NoMarker => detecting = [of |-> failed, kept |-> TRUE]
    /\ \A m \in undone :
          learned[m] = "worked" => m \in unseen \/ twice \/ failed.merge = m

MemoryInv == Bounded /\ UpOrDown /\ Deployed /\ Armed /\ Evidence

(* What main holds and what can be undone is among the commits made.         *)
LEMMA Numbered ==
  ASSUME SafeInv
  PROVE  /\ main \in Seq(Entry) /\ made \in Nat /\ HistoryOK(main, made)
         /\ S!HEAD \in S!Shas(main) /\ \A c \in S!Shas(main) : c <= S!HEAD
         /\ S!Shas(main) \subseteq 1..made
  <1>1. main \in Seq(Entry) /\ made \in Nat /\ HistoryOK(main, made)
    BY DEF SafeInv, HistoryOK
  <1>2. S!HEAD \in S!Shas(main) /\ \A c \in S!Shas(main) : c <= S!HEAD
    BY <1>1, HeadFacts DEF S!HEAD
  <1>3. ASSUME NEW i \in 1..Len(main) PROVE main[i].sha \in 1..made
    <2>1. main[i] \in Entry /\ main[i].sha <= made /\ Len(main) \in Nat
      BY <1>1 DEF HistoryOK
    <2>2. main[i].sha >= 1
      <3>1. CASE i = 1
        BY <1>1, <3>1 DEF HistoryOK
      <3>2. CASE 1 < i
        <4>1. main[1].sha = 1 /\ main[1].sha < main[i].sha
          BY <1>1, <2>1, <3>2 DEF HistoryOK
        <4> QED
          BY <2>1, <4>1 DEF Entry
      <3> QED
        BY <2>1, <3>1, <3>2
    <2> QED
      BY <1>1, <2>1, <2>2 DEF Entry
  <1> QED
    BY <1>1, <1>2, <1>3 DEF S!Shas

(* Steps that commit, and what they merge.                                   *)
LEMMA GrowingLearns ==
  ASSUME MaxCommits \in Nat, SafeInv, MemoryInv, made' \in S!Commit,
         \/ made' \in {made, made + 1} /\ S!Shas(main') = S!Shas(main)
         \/ made' = made + 1 /\ S!Shas(main') = S!Shas(main) \cup {made + 1},
         UNCHANGED <<learned, marker, failed, detecting, proc, sup, undone, unseen>>,
         twice => twice',
         \A m \in merging' : m \in merging \/ (proc = "up" /\ Adjacent(m, main'))
  PROVE  MemoryInv'
  <1>1. made \in Nat /\ S!Shas(main) \subseteq 1..made
    BY Numbered
  <1>2. Bounded'
    BY <1>1 DEF MemoryInv, Bounded, S!Commit
  <1>3. UpOrDown'
    BY DEF MemoryInv, UpOrDown
  <1>4. ASSUME NEW m, Adjacent(m, main), m.merge \in Nat, m.merge <= made
        PROVE  Adjacent(m, main')
    BY <1>1, <1>4 DEF Adjacent
  <1>5. Deployed'
    BY <1>4 DEF MemoryInv, Deployed, SafeInv, DeployInv, Undoable
  <1>6. Armed'
    <2>1. \A c \in S!Shas(main') : learned[c] = "worked" => c \in S!Shas(main)
      BY <1>1 DEF MemoryInv, Bounded, S!Commit
    <2> QED
      BY <2>1 DEF MemoryInv, Armed
  <1>7. Evidence'
    BY DEF MemoryInv, Evidence
  <1> QED
    BY <1>2, <1>3, <1>5, <1>6, <1>7 DEF MemoryInv

LEMMA WorkLearns ==
  ASSUME MaxCommits \in Nat, SafeInv, MemoryInv,
         \/ S!OwnerCommits \/ S!ArenaCommit \/ S!Propose \/ S!SessionEnds
         \/ S!Retry \/ S!Abandon \/ (\E pass \in BOOLEAN : S!GateEnds(pass))
         \/ \E e \in ledger : S!Drop(e)
  PROVE  MemoryInv'
  <1>1. main \in Seq(Entry) /\ made \in Nat /\ HistoryOK(main, made)
    BY Numbered
  <1>2. UNCHANGED <<twice, S!deploy, undone, unseen>>
    BY DEF S!OwnerCommits, S!ArenaCommit, S!Propose, S!SessionEnds, S!Retry, S!Abandon,
           S!GateEnds, S!Drop, S!history
  <1>3. \/ main' = main /\ made' = made
        \/ S!CanCommit(1) /\ made' = made + 1
           /\ (main' = main \/ main' = Append(main, [sha |-> made + 1, of |-> 0]))
    BY DEF S!OwnerCommits, S!ArenaCommit, S!Propose, S!SessionEnds, S!Retry, S!Abandon,
           S!GateEnds, S!Drop, S!NewMain
  <1>4. \/ made' \in {made, made + 1} /\ S!Shas(main') = S!Shas(main)
        \/ made' = made + 1 /\ S!Shas(main') = S!Shas(main) \cup {made + 1}
    <2>1. CASE main' = main
      BY <1>3, <2>1
    <2>2. CASE main' = Append(main, [sha |-> made + 1, of |-> 0]) /\ made' = made + 1
      <3>1. S!Shas(Append(main, [sha |-> made + 1, of |-> 0]))
               = S!Shas(main) \cup {made + 1}
        BY <1>1, Grown
      <3> QED
        BY <2>2, <3>1
    <2> QED
      BY <1>3, <2>1, <2>2
  <1>5. made' \in S!Commit
    BY <1>1, <1>3 DEF MemoryInv, Bounded, S!CanCommit, S!Commit
  <1> QED
    BY <1>2, <1>4, <1>5, GrowingLearns DEF S!deploy

LEMMA ConfirmLearns ==
  ASSUME MaxCommits \in Nat, SafeInv, MemoryInv, NEW e \in ledger, S!Confirm(e)
  PROVE  MemoryInv'
  <1> USE DEF S!MayMerge
  <1>1. /\ main \in Seq(Entry) /\ made \in Nat /\ HistoryOK(main, made)
        /\ S!HEAD \in S!Shas(main) /\ \A c \in S!Shas(main) : c <= S!HEAD
        /\ S!Shas(main) \subseteq 1..made
    BY Numbered
  <1>2. active.head \in Nat
    BY DEF SafeInv, GateInv
  <1>3. /\ UNCHANGED <<learned, marker, failed, detecting, proc, sup, undone,
                      unseen>>
        /\ proc = "up"
    BY DEF S!Confirm
  <1>4. CASE UNCHANGED <<main, made, merging, twice>>
    BY <1>1, <1>3, <1>4, GrowingLearns DEF MemoryInv, Bounded
  <1>5. CASE /\ S!CanCommit(1) /\ made' = made + 1 /\ S!NewMain(active.head)
             /\ merging' = merging \cup {[prev |-> S!HEAD, merge |-> made']}
             /\ UNCHANGED twice
    <2>1. S!Shas(main') = S!Shas(main) \cup {made + 1}
      BY <1>1, <1>2, <1>5, Grown DEF S!NewMain
    <2>2. made' \in S!Commit
      BY <1>1, <1>5 DEF MemoryInv, Bounded, S!CanCommit, S!Commit
    <2> DEFINE m == [prev |-> S!HEAD, merge |-> made + 1]
    <2>3. Adjacent(m, main')
      BY <1>1, <2>1 DEF Adjacent
    <2>4. merging' = merging \cup {m}
      BY <1>5
    <2> HIDE DEF m
    <2> QED
      BY <1>1, <1>3, <1>5, <2>1, <2>2, <2>3, <2>4, GrowingLearns
  <1>6. CASE /\ twice' = TRUE /\ UNCHANGED <<main, made>>
             /\ merging' = merging \cup {[prev |-> S!HEAD, merge |-> S!HEAD]}
    <2> DEFINE m == [prev |-> S!HEAD, merge |-> S!HEAD]
    <2>1. Adjacent(m, main) /\ S!Shas(main) \subseteq Nat
      BY <1>1 DEF Adjacent
    <2>2. merging' = merging \cup {m}
      BY <1>6
    <2>3. made' \in S!Commit
      BY <1>6 DEF MemoryInv, Bounded
    <2>4. twice => twice'
      BY <1>6, Zenon
    <2> HIDE DEF m
    <2> QED
      BY <1>1, <1>3, <1>6, <2>1, <2>2, <2>3, <2>4, GrowingLearns
  <1> QED
    BY <1>4, <1>5, <1>6 DEF S!Confirm

(* The merge is recorded: the marker now tells of it.                        *)
LEMMA RecordLearns ==
  ASSUME MaxCommits \in Nat, SafeInv, MemoryInv, NEW m \in merging,
         S!MergeRecorded(m)
  PROVE  MemoryInv'
  <1>1. /\ S!Shas(main) \subseteq 1..made /\ made \in S!Commit
        /\ m.merge \in S!Shas(main) /\ m.merge \notin undone
        /\ proc = "up" /\ sup.to = 0
    BY Numbered DEF MemoryInv, Bounded, Deployed, Adjacent, UpOrDown
  <1>2. PICK ok \in BOOLEAN :
           /\ learned' = [learned EXCEPT ![m.merge] =
                             IF ok /\ @ = "none" THEN "worked" ELSE @]
           /\ marker' = S!NewMarker(m, ok)
    BY DEF S!MergeRecorded
  <1>3. /\ UNCHANGED <<main, made, failed, detecting, proc, sup, undone, twice,
                      unseen>>
        /\ merging' \subseteq merging
    BY DEF S!MergeRecorded, S!history
  <1>4. /\ learned' \in [S!Commit -> {"none", "worked", "failed"}]
        /\ \A c \in S!Commit : c # m.merge => learned'[c] = learned[c]
    BY <1>2 DEF MemoryInv, Bounded
  <1>5. Bounded'
    BY <1>1, <1>3, <1>4 DEF MemoryInv, Bounded, S!Commit
  <1>6. UpOrDown'
    BY <1>1, <1>3 DEF MemoryInv, UpOrDown
  <1>7. marker'.prev = m.prev /\ marker'.merge = m.merge
    BY <1>2 DEF S!NewMarker
  <1>8. Deployed'
    BY <1>3, <1>7 DEF MemoryInv, Deployed, Adjacent
  <1>9. Armed'
    BY <1>1, <1>3 DEF Armed
  <1>10. Evidence'
    <2>1. \A c \in undone : learned'[c] = learned[c]
      BY <1>1, <1>4 DEF MemoryInv, Bounded, S!Commit
    <2> QED
      BY <1>3, <2>1 DEF MemoryInv, Evidence
  <1> QED
    BY <1>5, <1>6, <1>8, <1>9, <1>10 DEF MemoryInv

(* The deploy, while main and what is kept of a failed one stay.             *)
LEMMA DeployLearns ==
  ASSUME MemoryInv,
         UNCHANGED <<main, made, learned, failed, undone, twice, unseen>>,
         merging' \subseteq merging, UpOrDown',
         marker' \in {marker, S!NoMarker} \/ marker' = [marker EXCEPT !.old = TRUE],
         marker \in [prev : Nat, merge : Nat, exp : BOOLEAN, old : BOOLEAN],
         marker = S!NoMarker => marker' = S!NoMarker,
         Armed',
         \/ detecting' = detecting \/ detecting'.of = S!NoMarker
         \/ detecting' = [of |-> failed, kept |-> TRUE]
  PROVE  MemoryInv'
  <1>1. Bounded'
    BY DEF MemoryInv, Bounded
  <1>2. Deployed'
    <2>1. marker' # S!NoMarker => /\ marker # S!NoMarker
                               /\ marker'.prev = marker.prev
                               /\ marker'.merge = marker.merge
      OBVIOUS
    <2> QED
      BY <2>1 DEF MemoryInv, Deployed, Adjacent
  <1>3. Evidence'
    BY DEF MemoryInv, Evidence
  <1> QED
    BY <1>1, <1>2, <1>3 DEF MemoryInv

(* Disarmed, or as it was.                                                   *)
LEMMA StaysArmed ==
  ASSUME MemoryInv, UNCHANGED <<main, learned, twice>>,
         marker \in [prev : Nat, merge : Nat, exp : BOOLEAN, old : BOOLEAN],
         marker' \in {marker, S!NoMarker} \/ marker' = [marker EXCEPT !.old = TRUE],
         marker = S!NoMarker => marker' = S!NoMarker,
         sup'.to \in {0, sup.to}
  PROVE  Armed'
  BY DEF MemoryInv, Armed

(* detectRollback: what it writes about is what is kept.                     *)
LEMMA LearnLearns ==
  ASSUME MaxCommits \in Nat, SafeInv, MemoryInv, S!Learn
  PROVE  MemoryInv'
  <1>1. /\ detecting = [of |-> failed, kept |-> TRUE]
        /\ detecting.of # S!NoMarker /\ detecting.kept /\ proc # "down"
    BY DEF S!Learn, MemoryInv, Evidence
  <1>2. /\ UNCHANGED <<main, made, merging, marker, proc, sup, undone, twice>>
        /\ detecting' = [of |-> S!NoMarker, kept |-> FALSE]
    BY DEF S!Learn, S!work
  <1> DEFINE m == failed.merge
  <1>3. /\ learned' = learned \/ learned' = [learned EXCEPT ![m] = "failed"]
        /\ unseen \subseteq unseen'
        /\ \/ learned' = [learned EXCEPT ![m] = "failed"]
           \/ m \in unseen' /\ UNCHANGED learned
           \/ UNCHANGED <<learned, failed>>
    BY <1>1 DEF S!Learn
  <1>4. /\ learned' \in [S!Commit -> {"none", "worked", "failed"}]
        /\ \A c \in S!Commit : learned'[c] = "worked" => learned[c] = "worked"
        /\ learned' = [learned EXCEPT ![m] = "failed"]
              => \A c \in S!Commit : learned'[c] = "worked" => c # m
    BY <1>3 DEF MemoryInv, Bounded
  <1>5. Bounded'
    BY <1>2, <1>4 DEF MemoryInv, Bounded
  <1>6. UpOrDown' /\ Deployed'
    BY <1>1, <1>2 DEF MemoryInv, UpOrDown, Deployed
  <1>7. S!Shas(main) \subseteq S!Commit /\ undone \subseteq S!Commit
    BY Numbered DEF MemoryInv, Bounded, S!Commit
  <1>8. Armed'
    BY <1>2, <1>4, <1>7 DEF MemoryInv, Armed
  <1>9. Evidence'
    <2>1. \A c \in undone : learned'[c] = "worked" =>
             c \in unseen' \/ twice \/ (failed.merge = c /\ UNCHANGED failed)
      BY <1>3, <1>4, <1>7 DEF MemoryInv, Evidence
    <2> QED
      BY <1>2, <2>1 DEF Evidence
  <1> QED
    BY <1>5, <1>6, <1>8, <1>9 DEF MemoryInv

(* The evidence takes the place of an earlier one, which is seen to go.      *)
LEMMA KeepsEvidence ==
  ASSUME MaxCommits \in Nat, SafeInv, MemoryInv,
         UNCHANGED <<made, learned, twice>>, S!KeepMarker,
         unseen \cup (IF marker = S!NoMarker THEN {} ELSE {failed.merge})
             \subseteq unseen',
         S!Shas(main') \subseteq S!Shas(main), merging' = {},
         undone' = undone \cup (S!Shas(main) \ S!Shas(main')),
         \A c \in S!Shas(main) \ S!Shas(main') : learned[c] = "worked" =>
             c \in unseen' \/ twice \/ (marker # S!NoMarker /\ c = marker.merge),
         detecting'.of = S!NoMarker, UpOrDown', Armed'
  PROVE  MemoryInv'
  <1>1. /\ S!Shas(main) \subseteq 1..made /\ undone \subseteq 1..made
        /\ made \in S!Commit
    BY Numbered DEF MemoryInv, Bounded
  <1>2. Bounded'
    BY <1>1 DEF MemoryInv, Bounded
  <1>3. Deployed'
    BY DEF S!KeepMarker, Deployed
  <1>4. Evidence'
    <2>1. ASSUME NEW c \in undone, learned[c] = "worked"
          PROVE  c \in unseen' \/ twice \/ failed'.merge = c
      <3>1. c \in unseen \/ twice \/ failed.merge = c
        BY <2>1 DEF MemoryInv, Evidence
      <3> QED
        BY <3>1 DEF S!KeepMarker
    <2>2. ASSUME NEW c \in S!Shas(main) \ S!Shas(main'), learned[c] = "worked"
          PROVE  c \in unseen' \/ twice \/ failed'.merge = c
      BY <2>2 DEF S!KeepMarker
    <2>3. \A c \in undone' : learned'[c] = "worked" =>
             c \in unseen' \/ twice' \/ failed'.merge = c
      BY <2>1, <2>2
    <2> QED
      BY <2>3 DEF Evidence
  <1> QED
    BY <1>2, <1>3, <1>4 DEF MemoryInv

LEMMA RollbackLearns ==
  ASSUME MaxCommits \in Nat, SafeInv, MemoryInv,
         NEW to \in Nat \ {0}, S!Rollback(to),
         UNCHANGED <<made, learned, twice>>, merging' = {},
         detecting'.of = S!NoMarker, proc' = "down", sup'.to = 0,
         ~twice /\ marker # S!NoMarker =>
             \A c \in S!Shas(main) :
                 c > to /\ learned[c] = "worked" => c = marker.merge
  PROVE  MemoryInv'
  <1>1. S!Shas(main) \subseteq 1..made /\ made \in Nat /\ HistoryOK(main, made)
    BY Numbered
  <1>2. PICK k \in 0..Len(main) : CutAt(main, to, k) /\ main' = SubSeq(main, 1, k)
    BY DEF S!Rollback, CutAt
  <1>3. S!Shas(SubSeq(main, 1, k)) = {c \in S!Shas(main) : c <= to}
    BY <1>1, <1>2, Cut
  <1>4. S!Shas(main') = {c \in S!Shas(main) : c <= to}
    BY <1>2, <1>3
  <1>5. \A c \in S!Shas(main) \ S!Shas(main') : c > to
    BY <1>1, <1>4
  <1>6. /\ S!KeepMarker /\ undone' = undone \cup (S!Shas(main) \ S!Shas(main'))
        /\ unseen' = unseen \cup (IF marker = S!NoMarker THEN S!Shas(main) \ S!Shas(main')
                                                     ELSE {failed.merge})
    BY DEF S!Rollback
  <1>7. \A c \in S!Shas(main) \ S!Shas(main') : learned[c] = "worked" =>
             c \in unseen' \/ twice \/ (marker # S!NoMarker /\ c = marker.merge)
    BY <1>5, <1>6
  <1>8. UpOrDown' /\ Armed'
    BY DEF UpOrDown, Armed
  <1> QED
    BY <1>4, <1>6, <1>7, <1>8, KeepsEvidence

LEMMA NextLearns ==
  ASSUME MaxCommits \in Nat, SafeInv, MemoryInv, [S!Next]_modVars
  PROVE  MemoryInv'
  <1> DEFINE Marks == [prev : Nat, merge : Nat, exp : BOOLEAN, old : BOOLEAN]
  <1>1. /\ marker \in Marks /\ UpOrDown /\ Armed
        /\ sup \in [at : {"boot", "watch", "deploy", "stopped"}, to : Nat]
        /\ marker # S!NoMarker => Undoable(marker, main, made, twice)
    BY DEF SafeInv, DeployInv, MemoryInv
  <1>2. ASSUME NEW code, S!Exit(code) PROVE MemoryInv'
    <2>1. /\ UpOrDown' /\ sup'.to = 0 /\ merging' = {} /\ detecting'.of = S!NoMarker
      BY <1>2 DEF S!Exit, S!Down, UpOrDown
    <2> QED
      BY <1>1, <1>2, <2>1, StaysArmed, DeployLearns DEF S!Exit, S!history
  <1>3. CASE S!Reboot
    <2>1. /\ UpOrDown' /\ sup'.to = 0 /\ merging' = {} /\ detecting'.of = S!NoMarker
      BY <1>3 DEF S!Reboot, S!Down, UpOrDown
    <2> QED
      BY <1>1, <1>3, <2>1, StaysArmed, DeployLearns DEF S!Reboot, S!history
  <1>4. CASE S!Boot
    <2>1. UpOrDown' /\ sup'.to = sup.to
      BY <1>1, <1>4 DEF S!Boot, UpOrDown
    <2> QED
      BY <1>1, <1>4, <2>1, StaysArmed, DeployLearns DEF S!Boot, S!history
  <1>5. CASE S!Sweep
    <2>1. UpOrDown' /\ UNCHANGED sup
      BY <1>1, <1>5 DEF S!Sweep, UpOrDown
    <2>2. marker # S!NoMarker => marker.merge \in S!Shas(main)
      BY DEF MemoryInv, Deployed, Adjacent
    <2> QED
      BY <1>1, <1>5, <2>1, <2>2, StaysArmed, DeployLearns DEF S!Sweep, S!history
  <1>6. CASE S!Healthy
    <2>1. UpOrDown' /\ sup'.to = 0
      BY <1>1, <1>6 DEF S!Healthy, UpOrDown
    <2> QED
      BY <1>1, <1>6, <2>1, StaysArmed, DeployLearns DEF S!Healthy, S!history
  <1>7. CASE S!MarkerAges
    <2>1. UpOrDown' /\ UNCHANGED sup
      BY <1>1, <1>7 DEF S!MarkerAges, UpOrDown
    <2> QED
      BY <1>1, <1>7, <2>1, StaysArmed, DeployLearns DEF S!MarkerAges, S!history
  <1>8. CASE UNCHANGED modVars
    <2>1. UpOrDown' /\ UNCHANGED sup
      BY <1>1, <1>8 DEF modVars, UpOrDown
    <2> QED
      BY <1>1, <1>8, <2>1, StaysArmed, DeployLearns DEF modVars
  <1>9. CASE S!Deploy
    <2>1. /\ sup.at = "deploy" /\ proc = "down" /\ proc' = "down"
          /\ merging = {} /\ merging' = {} /\ sup.to \in Nat
          /\ detecting' = detecting /\ detecting.of = S!NoMarker
          /\ UNCHANGED <<made, learned, twice>>
      BY <1>1, <1>9 DEF S!Deploy, UpOrDown
    <2>2. S!HEAD \in S!Shas(main) /\ \A c \in S!Shas(main) : c <= S!HEAD
      BY Numbered
    <2>3. CASE S!Discard /\ UNCHANGED <<main, undone>>
      <3>1. marker' = S!NoMarker
        BY <2>3 DEF S!Discard, S!KeepMarker
      <3>2. UpOrDown' /\ Armed'
        BY <1>1, <2>1, <2>3, <3>1 DEF S!Discard, UpOrDown, Armed
      <3> QED
        BY <2>1, <2>3, <3>2, KeepsEvidence DEF S!Discard
    <2>4. marker.merge = S!HEAD =>
            /\ marker # S!NoMarker /\ marker.prev \in Nat \ {0}
            /\ \A c \in S!Shas(main) : c > marker.prev => c = marker.merge
      <3>1. marker.merge = S!HEAD => marker # S!NoMarker
        BY <2>2, Numbered DEF S!NoMarker
      <3>2. marker # S!NoMarker => /\ Adjacent(marker, main)
                                /\ marker.prev \in Nat \ {0}
        BY <1>1 DEF MemoryInv, Deployed, Undoable
      <3> QED
        BY <2>2, <3>1, <3>2, Numbered DEF Adjacent
    <2>5. CASE /\ marker.merge = S!HEAD
               /\ sup' = [at |-> "boot", to |-> marker.prev]
               /\ UNCHANGED <<main, marker, failed, undone, unseen>>
      <3>1. UpOrDown' /\ Armed'
        BY <2>1, <2>4, <2>5 DEF UpOrDown, Armed
      <3> QED
        BY <1>1, <2>1, <2>5, <3>1, DeployLearns
    <2>6. CASE /\ marker.merge = S!HEAD /\ S!Rollback(marker.prev)
               /\ sup' \in [at : {"boot", "stopped"}, to : {0}]
      BY <2>1, <2>4, <2>6, RollbackLearns
    <2> QED
      BY <1>9, <2>3, <2>5, <2>6 DEF S!Deploy
  <1>10. CASE S!Unhealthy
    <2>1. /\ proc' = "down" /\ merging' = {} /\ detecting'.of = S!NoMarker
          /\ UNCHANGED <<made, learned, twice>>
      BY <1>10 DEF S!Unhealthy, S!Down
    <2>2. CASE sup.to # 0
      <3>1. S!Rollback(sup.to) /\ sup'.to = 0 /\ sup.to \in Nat \ {0}
        BY <1>1, <1>10, <2>2 DEF S!Unhealthy
      <3> QED
        BY <1>1, <2>1, <2>2, <3>1, RollbackLearns DEF Armed
    <2>3. CASE sup.to = 0
      <3>1. sup'.to = 0 /\ UNCHANGED <<main, marker, failed, undone, unseen>>
        BY <1>1, <1>10, <2>3 DEF S!Unhealthy
      <3>2. UpOrDown'
        BY <2>1, <3>1 DEF UpOrDown
      <3> QED
        BY <1>1, <2>1, <3>1, <3>2, StaysArmed, DeployLearns
    <2> QED
      BY <2>2, <2>3
  <1> QED
    BY <1>2, <1>3, <1>4, <1>5, <1>6, <1>7, <1>8, <1>9, <1>10, WorkLearns,
       ConfirmLearns, RecordLearns, LearnLearns DEF S!Next

LEMMA InitLearns ==
  ASSUME MaxCommits \in Nat \ {0}, S!Init
  PROVE  MemoryInv
  <1>1. Bounded
    BY DEF S!Init, Bounded, S!Commit
  <1> QED
    BY <1>1 DEF S!Init, MemoryInv, UpOrDown, Deployed, Armed, Evidence, S!NoMarker

LEMMA Learnt ==
  ASSUME SafeInv, MemoryInv
  PROVE  S!RollbackIsLearned
  <1>1. \A m \in undone : learned[m] = "worked" =>
           m \in unseen \/ twice \/ failed.merge = m
    BY DEF MemoryInv, Evidence
  <1> QED
    BY <1>1 DEF S!RollbackIsLearned

-----------------------------------------------------------------------------
(* The scheduler: one run of a job at a time, timers that match the jobs but *)
(* where a save failed, and one delivery of a one-shot job: once delivered   *)
(* it is disabled in memory and in the file, has no timer and no run.        *)

(* Who waits for a retry has one left. *)
RetryIsLeft == \A s \in DOMAIN exec :
    exec[s].at = "waiting" => exec[s].attempt < MaxRetries

(* The runs under way, which the timers and the users start.                 *)
RunsOK == /\ C!Running \subseteq Slots /\ exec \in [C!Running -> C!Execution]
          /\ activeJobs \in SUBSET Jobs /\ C!NoStackedRuns
          /\ RetryIsLeft

(* The jobs in memory and in the file.                                       *)
FileOK == /\ used \in SUBSET Jobs /\ DOMAIN jobs \subseteq used
          /\ DOMAIN file \subseteq used
          /\ jobs \in [DOMAIN jobs -> C!Job] /\ file \in [DOMAIN file -> C!Job]

TimersOK == /\ scheduled \in SUBSET Jobs /\ late \in SUBSET Jobs
            /\ loose \in SUBSET Jobs
            /\ orphans \in [Jobs -> 0..MaxOrphans]
            /\ C!TimersMatchJobs

CountsOK == /\ phase \in {"down", "up", "stopping"}
            /\ ops \in 0..MaxOps /\ ends \in 0..MaxEnds /\ faults \in 0..MaxFaults

Off(f, j) == j \in DOMAIN f => ~f[j].enabled
Spent(j) == /\ j \in used /\ Off(jobs, j) /\ Off(file, j)
            /\ j \notin scheduled /\ j \notin activeJobs
Tellings == {"no", "yes", "twice", "excused"}

OnceOK == /\ told \in [Jobs -> Tellings] /\ C!OneShotOnce
          /\ \A j \in Jobs : told[j] = "yes" => Spent(j)

CronOK == RunsOK /\ FileOK /\ TimersOK /\ CountsOK /\ OnceOK

CronInv == CronOK /\ C!TypeOK

LEMMA CronTyped == CronOK => CronInv
  BY DEF CronInv, CronOK, RunsOK, FileOK, TimersOK, CountsOK, OnceOK, Tellings,
         C!TypeOK

LEMMA Executes ==
  ASSUME RunsOK, NEW j \in Jobs, C!ExecuteJob(j)
  PROVE  RunsOK' /\ activeJobs' \in {activeJobs, activeJobs \cup {j}}
  <1>1. CASE UNCHANGED <<exec, activeJobs>>
    BY <1>1 DEF RunsOK, RetryIsLeft, C!Running, C!NoStackedRuns
  <1>2. CASE j \notin activeJobs
    <2> DEFINE s == CHOOSE t \in Slots \ C!Running : TRUE
               new == [job |-> j, attempt |-> 0, at |-> "triggered"]
    <2>1. /\ Slots # C!Running /\ activeJobs' = activeJobs \cup {j}
          /\ exec' = [t \in C!Running \cup {s} |-> IF t = s THEN new ELSE exec[t]]
      BY <1>2 DEF C!ExecuteJob
    <2>2. s \in Slots \ C!Running
      BY <2>1 DEF RunsOK
    <2>3. new \in C!Execution
      BY CronAssumption DEF C!Execution
    <2> HIDE DEF s, new
    <2>4. /\ C!Running' = C!Running \cup {s} /\ exec'[s] = new
          /\ \A t \in C!Running : exec'[t] = exec[t]
      BY <2>1, <2>2 DEF C!Running
    <2>5. exec' \in [C!Running' -> C!Execution]
      BY <2>1, <2>2, <2>3, <2>4 DEF RunsOK, C!Running
    <2>6. new.job = j
      BY DEF new
    <2>7. C!NoStackedRuns'
      <3>1. \A t \in C!Running : exec[t].job # j
        BY <1>2 DEF RunsOK, C!NoStackedRuns
      <3>2. \A t, u \in C!Running' : exec'[t].job = exec'[u].job => t = u
        BY <2>4, <2>6, <3>1 DEF RunsOK, C!NoStackedRuns
      <3>3. activeJobs' = {exec'[t].job : t \in C!Running'}
        BY <2>1, <2>4, <2>6 DEF RunsOK, C!NoStackedRuns
      <3> QED
        BY <3>2, <3>3 DEF C!NoStackedRuns
    <2>8. RetryIsLeft'
      BY <2>4, C!Running' = DOMAIN exec' DEF RunsOK, RetryIsLeft, C!Running, new
    <2> QED
      BY <2>1, <2>2, <2>4, <2>5, <2>7, <2>8 DEF RunsOK
  <1> QED
    BY <1>1, <1>2 DEF C!ExecuteJob

LEMMA Releases ==
  ASSUME RunsOK, NEW s \in C!Running, C!Release(s)
  PROVE  RunsOK'
  <1>1. /\ C!Running' = C!Running \ {s}
        /\ \A t \in C!Running' : exec'[t] = exec[t]
        /\ exec' = [t \in C!Running' |-> exec[t]]
        /\ activeJobs' = activeJobs \ {exec[s].job}
    BY DEF C!Release, C!Restrict, C!Running
  <1>2. C!NoStackedRuns'
    BY <1>1 DEF RunsOK, C!NoStackedRuns
  <1>3. RetryIsLeft'
    BY <1>1 DEF RunsOK, RetryIsLeft, C!Running
  <1> QED
    BY <1>1, <1>2, <1>3 DEF RunsOK

(* Only what is run again after it was delivered is excused. *)
LEMMA Reruns ==
  ASSUME OnceOK, NEW j \in Jobs, told' = C!Rerun(j),
         activeJobs' \in {activeJobs, activeJobs \cup {j}},
         UNCHANGED <<used, jobs, file, scheduled>>
  PROVE  OnceOK'
  <1>1. /\ told' \in [Jobs -> Tellings] /\ told'[j] # "yes"
        /\ \A i \in Jobs : told'[i] \in {told[i], "excused"}
    BY DEF OnceOK, C!Rerun, Tellings
  <1> QED
    BY <1>1 DEF OnceOK, Spent, Off, C!OneShotOnce

LEMMA SameFile == FileOK /\ UNCHANGED <<used, jobs, file>> => FileOK'
  BY DEF FileOK

LEMMA SameTimers ==
  TimersOK /\ UNCHANGED <<phase, jobs, scheduled, late, orphans, loose, faults>>
  => TimersOK'
  BY DEF TimersOK, C!TimersMatchJobs, C!Enabled, C!InStore, C!Good, C!Timed

LEMMA SameRuns == RunsOK /\ UNCHANGED <<exec, activeJobs>> => RunsOK'
  BY DEF RunsOK, RetryIsLeft, C!Running, C!NoStackedRuns

LEMMA SameOnce ==
  OnceOK /\ UNCHANGED <<told, used, jobs, file, scheduled, activeJobs>> => OnceOK'
  BY DEF OnceOK, Spent, Off, C!OneShotOnce

(* g is f, but that the entry of j is new. *)
Alters(f, g, j, e) ==
    /\ DOMAIN g = DOMAIN f /\ g \in [DOMAIN g -> C!Job] /\ g[j] = e
    /\ \A i \in DOMAIN f : i # j => g[i] = f[i]

(* The entry that is new tells no other enabled and no other valid. *)
Like(e, old) == /\ e \in C!Job /\ e.enabled = old.enabled
                /\ (e.due = C!Never) = (old.due = C!Never)

LEMMA Ages ==
  ASSUME NEW f, f \in [DOMAIN f -> C!Job], NEW j
  PROVE  \/ C!Aged(f, j) = f
         \/ /\ j \in DOMAIN f
            /\ \E e : Alters(f, C!Aged(f, j), j, e) /\ Like(e, f[j])
  <1>1. CASE j \in DOMAIN f /\ f[j].due < 2
    <2> DEFINE d == f[j].due + 1
               e == [f[j] EXCEPT !.due = d]
    <2>1. f[j] \in C!Job
      BY <1>1
    <2>2. d \in 0..3 /\ d # 3 /\ f[j].due # 3
      BY <1>1, <2>1 DEF C!Job, C!Never
    <2> HIDE DEF d
    <2>3. Like(e, f[j])
      BY <2>1, <2>2 DEF Like, C!Job, C!Never
    <2>4. C!Aged(f, j) = [f EXCEPT ![j] = e]
      BY <1>1 DEF C!Aged, d
    <2> HIDE DEF e
    <2>5. e \in C!Job
      BY <2>3 DEF Like
    <2>6. Alters(f, C!Aged(f, j), j, e)
      BY <1>1, <2>4, <2>5 DEF Alters
    <2> QED
      BY <1>1, <2>3, <2>6
  <1> QED
    BY <1>1 DEF C!Aged

LEMMA Records ==
  ASSUME FileOK, NEW j \in DOMAIN jobs
  PROVE  /\ \E e : Alters(jobs, C!Ran(j), j, e) /\ Like(e, jobs[j])
         /\ \E e : /\ Alters(jobs, C!Retired(j), j, e) /\ e \in C!Job /\ ~e.enabled
  <1> DEFINE d == C!Reset(jobs[j].due)
             ran == [jobs[j] EXCEPT !.due = d]
             retired == [jobs[j] EXCEPT !.due = d, !.enabled = FALSE]
  <1>1. jobs[j] \in C!Job
    BY DEF FileOK
  <1>2. d \in 0..3 /\ (d = 3) = (jobs[j].due = 3)
    BY <1>1 DEF C!Reset, C!Job, C!Never
  <1>3. C!Ran(j) = [jobs EXCEPT ![j] = ran]
    BY DEF C!Ran
  <1>4. C!Retired(j) = [jobs EXCEPT ![j] = retired]
    BY DEF C!Retired
  <1> HIDE DEF d
  <1>5. Like(ran, jobs[j])
    BY <1>1, <1>2 DEF Like, C!Job, C!Never
  <1>6. retired \in C!Job /\ ~retired.enabled
    BY <1>1, <1>2 DEF C!Job, C!Never
  <1>7. jobs \in [DOMAIN jobs -> C!Job]
    BY DEF FileOK
  <1> HIDE DEF ran, retired
  <1>8. ran \in C!Job
    BY <1>5 DEF Like
  <1>9. Alters(jobs, C!Ran(j), j, ran)
    BY <1>3, <1>7, <1>8 DEF Alters
  <1>10. retired \in C!Job
    BY <1>6
  <1>11. Alters(jobs, C!Retired(j), j, retired)
    BY <1>4, <1>7, <1>10 DEF Alters
  <1>12. \E e : Alters(jobs, C!Ran(j), j, e) /\ Like(e, jobs[j])
    BY <1>5, <1>9
  <1>13. \E e : /\ Alters(jobs, C!Retired(j), j, e) /\ e \in C!Job /\ ~e.enabled
    BY <1>6, <1>11
  <1> QED
    BY <1>12, <1>13

LEMMA NextCron == CronInv /\ [C!Next]_cronVars => CronInv'
  <1> SUFFICES ASSUME CronInv, [C!Next]_cronVars PROVE CronOK'
    BY CronTyped, PTL
  <1>1. RunsOK /\ FileOK /\ TimersOK /\ CountsOK /\ OnceOK
    BY DEF CronInv, CronOK
  <1> USE <1>1
  <1> USE DEF CronOK
  <1>2. ASSUME NEW j \in Jobs, C!Tick(j) PROVE CronOK'
    <2>1. /\ j \in DOMAIN jobs /\ jobs[j].due # C!Never
          /\ jobs' = C!Aged(jobs, j) /\ file' \in {file, C!Aged(file, j)}
          /\ UNCHANGED <<used, phase, scheduled, orphans, late, ops, ends, faults,
                         loose, told>>
      BY <1>2 DEF C!Tick, C!InStore, C!Good
    <2>2. jobs \in [DOMAIN jobs -> C!Job] /\ file \in [DOMAIN file -> C!Job]
      BY DEF FileOK
    <2>3. /\ DOMAIN jobs' = DOMAIN jobs /\ jobs' \in [DOMAIN jobs' -> C!Job]
          /\ \A i \in DOMAIN jobs : Like(jobs'[i], jobs[i])
      BY <2>1, <2>2, Ages DEF Alters, Like
    <2>4. /\ DOMAIN file' = DOMAIN file /\ file' \in [DOMAIN file' -> C!Job]
          /\ \A i \in DOMAIN file : file'[i].enabled = file[i].enabled
      BY <2>1, <2>2, Ages DEF Alters, Like
    <2>5. FileOK'
      BY <2>1, <2>3, <2>4 DEF FileOK
    <2>6. TimersOK'
      BY <2>1, <2>3 DEF TimersOK, C!TimersMatchJobs, C!Enabled, C!InStore,
                        C!Good, C!Timed, Like
    <2>7. RunsOK' /\ activeJobs' \in {activeJobs, activeJobs \cup {j}}
      BY <1>2, Executes, SameRuns DEF C!Tick
    <2>8. j \in scheduled \/ activeJobs' = activeJobs
      BY <1>2 DEF C!Tick
    <2>9. OnceOK'
      BY <2>1, <2>3, <2>4, <2>7, <2>8 DEF OnceOK, Spent, Off, C!OneShotOnce, Like
    <2> QED
      BY <2>1, <2>5, <2>6, <2>7, <2>9 DEF CountsOK
  <1>3. ASSUME NEW j \in Jobs, C!FileTick(j) PROVE CronOK'
    <2>1. /\ file' = C!Aged(file, j) /\ file \in [DOMAIN file -> C!Job]
          /\ UNCHANGED <<used, phase, jobs, scheduled, orphans, late, activeJobs,
                         exec, ops, ends, faults, loose, told>>
      BY <1>3 DEF C!FileTick, FileOK
    <2>2. /\ DOMAIN file' = DOMAIN file /\ file' \in [DOMAIN file' -> C!Job]
          /\ \A i \in DOMAIN file : file'[i].enabled = file[i].enabled
      BY <2>1, Ages DEF Alters, Like
    <2>3. FileOK' /\ OnceOK'
      BY <2>1, <2>2 DEF FileOK, OnceOK, Spent, Off, C!OneShotOnce
    <2> QED
      BY <2>1, <2>3, SameRuns, SameTimers DEF CountsOK
  <1>4. ASSUME NEW j \in Jobs, C!OrphanFires(j) PROVE CronOK'
    <2>1. RunsOK' /\ OnceOK'
      BY <1>4, Executes, Reruns DEF C!OrphanFires
    <2> QED
      BY <1>4, <2>1, SameTimers, SameFile DEF C!OrphanFires, CountsOK
  <1>5. ASSUME NEW j \in Jobs, C!LateFires(j) PROVE CronOK'
    <2>1. RunsOK' /\ OnceOK'
      BY <1>5, Executes, Reruns DEF C!LateFires
    <2> QED
      BY <1>5, <2>1, SameFile DEF C!LateFires, CountsOK, TimersOK,
         C!TimersMatchJobs, C!Enabled, C!InStore, C!Good, C!Timed
  <1>6. ASSUME NEW s \in Slots, C!Succeed(s) PROVE CronOK'
    <2>0. PICK j : j = exec[s].job
      OBVIOUS
    <2>1. /\ s \in C!Running /\ C!Release(s) /\ told' = C!Deliver(j)
          /\ UNCHANGED <<used, phase, orphans, late, ops, ends>>
          /\ IF C!InStore(j)
             THEN /\ jobs' = IF C!OneShot(j) THEN C!Retired(j) ELSE C!Ran(j)
                  /\ file' = jobs' /\ UNCHANGED faults
             ELSE UNCHANGED <<jobs, file, faults>>
          /\ IF C!OneShot(j)
             THEN scheduled' = scheduled \ {j} /\ loose' = loose \ {j}
             ELSE UNCHANGED <<scheduled, loose>>
      BY <1>6, <2>0 DEF C!Succeed, C!Saved
    <2>2. RunsOK' /\ activeJobs' = activeJobs \ {j}
      BY <2>0, <2>1, Releases DEF C!Release
    <2>3. j \in Jobs /\ j \in activeJobs
      BY <2>0, <2>1 DEF RunsOK, C!NoStackedRuns, C!Execution
    <2>4. /\ told' \in [Jobs -> Tellings]
          /\ \A i \in Jobs \ {j} : told'[i] = told[i]
          /\ told'[j] = told[j] \/ (told'[j] = "yes" /\ C!OneShot(j))
      BY <2>1, <2>3 DEF C!Deliver, OnceOK, Tellings, Spent, C!OneShotOnce
    <2>5. told[j] # "yes"
      BY <2>3 DEF OnceOK, Spent
    <2>6. CASE ~C!InStore(j)
      <3>1. ~C!OneShot(j)
        BY <2>6 DEF C!OneShot
      <3> QED
        BY <2>1, <2>2, <2>4, <2>5, <2>6, <3>1, SameFile, SameTimers
           DEF CountsOK, OnceOK, Spent, Off, C!OneShotOnce
    <2>7. CASE C!InStore(j)
      <3>1. j \in DOMAIN jobs /\ file' = jobs' /\ faults' = faults
        BY <2>1, <2>7 DEF C!InStore
      <3>2. PICK e : /\ Alters(jobs, jobs', j, e) /\ e \in C!Job
                     /\ IF C!OneShot(j) THEN ~e.enabled ELSE Like(e, jobs[j])
        BY <2>1, <2>7, <3>1, Records DEF Like
      <3>3. FileOK'
        BY <2>1, <3>1, <3>2 DEF FileOK, Alters
      <3>4. TimersOK'
        BY <2>1, <3>1, <3>2 DEF TimersOK, C!TimersMatchJobs, C!Enabled,
           C!InStore, C!Good, C!Timed, Alters, Like
      <3>5. \A i \in Jobs : told'[i] = "yes" => Spent(i)'
        <4>1. ASSUME NEW i \in Jobs, told'[i] = "yes", i # j PROVE Spent(i)'
          BY <2>1, <2>2, <2>4, <3>1, <3>2, <4>1 DEF OnceOK, Spent, Off, Alters
        <4>2. ASSUME told'[j] = "yes" PROVE Spent(j)'
          <5>1. C!OneShot(j)
            BY <2>4, <2>5, <4>2
          <5>2. ~jobs'[j].enabled
            BY <3>2, <5>1 DEF Alters
          <5>3. j \notin scheduled' /\ j \notin activeJobs'
            BY <2>1, <2>2, <5>1
          <5>4. j \in used'
            BY <2>1, <3>1 DEF FileOK
          <5> QED
            BY <3>1, <5>2, <5>3, <5>4 DEF Spent, Off
        <4> QED
          BY <4>1, <4>2
      <3>6. OnceOK'
        BY <2>4, <3>5 DEF OnceOK, C!OneShotOnce
      <3> QED
        BY <2>1, <2>2, <3>1, <3>3, <3>4, <3>6 DEF CountsOK
    <2> QED
      BY <2>6, <2>7
  <1>7. ASSUME NEW s \in Slots, C!AfterFailure(s), s \in C!Running,
               exec[s].at = "triggered"
        PROVE  RunsOK' /\ UNCHANGED activeJobs
    <2> DEFINE new == [exec[s] EXCEPT !.at =
                   IF exec[s].attempt < MaxRetries THEN "waiting" ELSE "telling"]
    <2>1. exec[s] \in C!Execution
      BY <1>7 DEF RunsOK
    <2>2. /\ new \in C!Execution /\ new.job = exec[s].job
          /\ new.at = "waiting" => new.attempt < MaxRetries
      BY <2>1 DEF C!Execution
    <2>3. exec' = [exec EXCEPT ![s] = new] /\ UNCHANGED activeJobs
      BY <1>7 DEF C!AfterFailure, RunsOK
    <2> HIDE DEF new
    <2> QED
      BY <1>7, <2>2, <2>3 DEF RunsOK, RetryIsLeft, C!Running, C!NoStackedRuns
  <1>8. ASSUME NEW s \in Slots, C!SucceedUnsaved(s) PROVE CronOK'
    <2> DEFINE j == exec[s].job
    <2>1. /\ s \in C!Running /\ told' = [told EXCEPT ![j] = "excused"]
          /\ UNCHANGED <<used, phase, scheduled, orphans, late, ops, ends>>
          /\ faults' = faults + 1 /\ faults < MaxFaults /\ j \in DOMAIN jobs
          /\ \/ jobs' = C!Ran(j) /\ UNCHANGED <<file, loose>>
             \/ /\ jobs' = C!Retired(j) /\ file' = C!Ran(j)
                /\ loose' = loose \cup {j}
      BY <1>8 DEF C!SucceedUnsaved, C!InStore
    <2>2. RunsOK' /\ UNCHANGED activeJobs
      BY <1>7, <1>8 DEF C!SucceedUnsaved
    <2>3. j \in Jobs
      BY <2>1 DEF RunsOK, C!Execution
    <2> HIDE DEF j
    <2>4. PICK e : Alters(jobs, C!Ran(j), j, e) /\ Like(e, jobs[j])
      BY <2>1, Records
    <2>5. PICK r : Alters(jobs, C!Retired(j), j, r) /\ ~r.enabled
      BY <2>1, Records
    <2>6. /\ told' \in [Jobs -> Tellings] /\ told'[j] = "excused"
          /\ \A i \in Jobs \ {j} : told'[i] = told[i]
      BY <2>1, <2>3 DEF OnceOK, Tellings
    <2>7. /\ faults' \in 0..MaxFaults /\ faults' # 0
      BY <2>1, CronAssumption DEF CountsOK
    <2>8. CASE jobs' = C!Ran(j) /\ UNCHANGED <<file, loose>>
      <3>1. FileOK'
        BY <2>1, <2>4, <2>8 DEF FileOK, Alters
      <3>2. TimersOK'
        BY <2>1, <2>4, <2>7, <2>8 DEF TimersOK, C!TimersMatchJobs, C!Enabled,
           C!InStore, C!Good, C!Timed, Alters, Like
      <3>3. OnceOK'
        BY <2>1, <2>2, <2>4, <2>6, <2>8
           DEF OnceOK, C!OneShotOnce, Spent, Off, Alters
      <3> QED
        BY <2>1, <2>2, <2>7, <3>1, <3>2, <3>3 DEF CountsOK
    <2>9. CASE /\ jobs' = C!Retired(j) /\ file' = C!Ran(j)
               /\ loose' = loose \cup {j}
      <3>1. FileOK'
        BY <2>1, <2>4, <2>5, <2>9 DEF FileOK, Alters
      <3>2. TimersOK'
        BY <2>1, <2>3, <2>5, <2>7, <2>9 DEF TimersOK, C!TimersMatchJobs,
           C!Enabled, C!InStore, C!Good, C!Timed, Alters
      <3>3. OnceOK'
        BY <2>1, <2>2, <2>4, <2>5, <2>6, <2>9
           DEF OnceOK, C!OneShotOnce, Spent, Off, Alters
      <3> QED
        BY <2>1, <2>2, <2>7, <3>1, <3>2, <3>3 DEF CountsOK
    <2> QED
      BY <2>1, <2>8, <2>9
  <1>9. ASSUME NEW s \in Slots, C!Fail(s) PROVE CronOK'
    <2>1. RunsOK' /\ UNCHANGED activeJobs
      BY <1>7, <1>9 DEF C!Fail
    <2> QED
      BY <1>9, <2>1, SameFile, SameTimers, SameOnce DEF C!Fail, CountsOK
  <1>10. ASSUME NEW s \in Slots, C!Retry(s) PROVE CronOK'
    <2>1. /\ s \in C!Running /\ exec[s] \in C!Execution
          /\ UNCHANGED <<used, phase, jobs, file, scheduled, orphans, late,
                         activeJobs, ops, ends, faults, loose, told>>
      BY <1>10 DEF C!Retry, RunsOK
    <2> DEFINE n == exec[s].attempt + 1
               new == [exec[s] EXCEPT !.at = "triggered", !.attempt = n]
    <2>2. exec[s].attempt \in 0..MaxRetries /\ exec[s].attempt < MaxRetries
      BY <1>10, <2>1 DEF C!Execution, C!Retry, RunsOK, RetryIsLeft, C!Running
    <2>3. n \in 0..MaxRetries
      BY <2>2, CronAssumption
    <2>4. exec' = [exec EXCEPT ![s] = new]
      BY <1>10, <2>1 DEF C!Retry, RunsOK
    <2> HIDE DEF n
    <2>5. new \in C!Execution /\ new.job = exec[s].job /\ new.at # "waiting"
      BY <2>1, <2>3 DEF C!Execution
    <2> HIDE DEF new
    <2>6. RunsOK'
      BY <2>1, <2>4, <2>5 DEF RunsOK, RetryIsLeft, C!Running, C!NoStackedRuns
    <2> QED
      BY <2>1, <2>6, SameFile, SameTimers, SameOnce DEF CountsOK
  <1>11. ASSUME NEW s \in Slots, C!Told(s) PROVE CronOK'
    <2>1. RunsOK' /\ activeJobs' \subseteq activeJobs
      BY <1>11, Releases DEF C!Told, C!Release
    <2>2. OnceOK'
      BY <1>11, <2>1 DEF C!Told, OnceOK, Spent, Off, C!OneShotOnce
    <2> QED
      BY <1>11, <2>1, <2>2, SameFile, SameTimers DEF C!Told, CountsOK
  <1>12. ASSUME NEW j \in Jobs, NEW once \in BOOLEAN, NEW good \in BOOLEAN,
                C!Add(j, once, good)
         PROVE  CronOK'
    <2> DEFINE new == [once |-> once, enabled |-> TRUE,
                       due |-> IF good THEN 0 ELSE C!Never]
    <2>1. /\ j \notin used /\ used' = used \cup {j}
          /\ UNCHANGED <<phase, orphans, late, activeJobs, exec, ends, told>>
          /\ ops < MaxOps /\ ops' = ops + 1 /\ phase # "down"
          /\ \/ /\ file' = jobs' /\ UNCHANGED <<faults, loose>>
                /\ scheduled' = scheduled \cup C!Arm(j)
             \/ /\ faults < MaxFaults /\ faults' = faults + 1
                /\ loose' = loose \cup {j} /\ UNCHANGED <<file, scheduled>>
      BY <1>12 DEF C!Add, C!Operate, C!Saved, C!Unsaved
    <2>2. jobs' = [i \in DOMAIN jobs \cup {j} |-> IF i = j THEN new ELSE jobs[i]]
      BY <1>12 DEF C!Add
    <2>3. new \in C!Job /\ new.enabled
      BY DEF C!Job, C!Never
    <2> HIDE DEF new
    <2>4. /\ DOMAIN jobs' = DOMAIN jobs \cup {j} /\ jobs'[j] = new
          /\ j \notin DOMAIN jobs
          /\ \A i \in DOMAIN jobs : jobs'[i] = jobs[i]
      BY <2>1, <2>2 DEF FileOK
    <2>5. jobs' \in [DOMAIN jobs' -> C!Job]
      BY <2>2, <2>3, <2>4 DEF FileOK
    <2>6. FileOK'
      BY <2>1, <2>4, <2>5 DEF FileOK
    <2>7. faults' \in 0..MaxFaults /\ (faults' = 0 => loose' = loose /\ faults = 0)
      BY <2>1, CronAssumption DEF CountsOK
    <2>8. TimersOK'
      BY <2>1, <2>3, <2>4, <2>7 DEF TimersOK, C!TimersMatchJobs, C!Arm,
         C!Enabled, C!InStore, C!Good, C!Timed
    <2>9. C!Arm(j) \subseteq {j}
      BY DEF C!Arm
    <2>10. OnceOK'
      BY <2>1, <2>4, <2>9 DEF OnceOK, Spent, Off, C!OneShotOnce
    <2> QED
      BY <2>1, <2>6, <2>7, <2>8, <2>10, SameRuns, CronAssumption DEF CountsOK
  <1>13. ASSUME NEW j \in Jobs, C!AddAgain(j) PROVE CronOK'
    <2>1. /\ UNCHANGED <<jobs, file, used, phase, late, activeJobs, exec, ends,
                         faults, told>>
          /\ ops < MaxOps /\ ops' = ops + 1 /\ C!Enabled(j)
          /\ scheduled' = scheduled \cup C!Arm(j) /\ loose' = loose \ C!Arm(j)
          /\ orphans' \in [Jobs -> 0..MaxOrphans]
      BY <1>13, CronAssumption DEF C!AddAgain, C!Operate, TimersOK
    <2>2. TimersOK'
      BY <2>1 DEF TimersOK, C!TimersMatchJobs, C!Arm, C!Enabled, C!InStore,
         C!Good, C!Timed
    <2>3. C!Arm(j) \subseteq {j}
      BY DEF C!Arm
    <2>4. OnceOK'
      BY <2>1, <2>3 DEF OnceOK, Spent, Off, C!OneShotOnce, C!Enabled, C!InStore
    <2> QED
      BY <2>1, <2>2, <2>4, SameRuns, SameFile, CronAssumption DEF CountsOK
  <1>14. ASSUME NEW j \in Jobs, C!Remove(j) PROVE CronOK'
    <2>1. /\ UNCHANGED <<used, phase, orphans, late, activeJobs, exec, ends>>
          /\ ops < MaxOps /\ ops' = ops + 1
          /\ scheduled' = scheduled \ {j} /\ loose' = loose \ {j}
          /\ \/ file' = jobs' /\ UNCHANGED <<faults, told>>
             \/ /\ faults < MaxFaults /\ faults' = faults + 1 /\ UNCHANGED file
                /\ told' = [told EXCEPT ![j] = "excused"]
      BY <1>14 DEF C!Remove, C!Operate, C!Saved, C!Unsaved
    <2>2. /\ DOMAIN jobs' = DOMAIN jobs \ {j}
          /\ \A i \in DOMAIN jobs' : jobs'[i] = jobs[i]
          /\ jobs' = [i \in DOMAIN jobs' |-> jobs[i]]
      BY <1>14 DEF C!Remove, C!Restrict
    <2>3. FileOK'
      BY <2>1, <2>2 DEF FileOK
    <2>4. faults' \in 0..MaxFaults /\ (faults' = 0 => faults = 0)
      BY <2>1, CronAssumption DEF CountsOK
    <2>5. TimersOK'
      BY <2>1, <2>2, <2>4 DEF TimersOK, C!TimersMatchJobs, C!Enabled, C!InStore,
         C!Good, C!Timed
    <2>6. /\ told' \in [Jobs -> Tellings]
          /\ \A i \in Jobs : told'[i] \in {told[i], "excused"}
      BY <2>1 DEF OnceOK, Tellings
    <2>7. OnceOK'
      BY <2>1, <2>2, <2>6 DEF OnceOK, Spent, Off, C!OneShotOnce
    <2> QED
      BY <2>1, <2>3, <2>4, <2>5, <2>7, SameRuns, CronAssumption DEF CountsOK
  <1>15. ASSUME NEW j \in Jobs, C!RunNow(j) PROVE CronOK'
    <2>1. RunsOK' /\ OnceOK'
      BY <1>15, Executes, Reruns DEF C!RunNow
    <2> QED
      BY <1>15, <2>1, SameFile, SameTimers, CronAssumption
         DEF C!RunNow, C!Operate, CountsOK
  <1>16. ASSUME NEW j \in Jobs, NEW enabled \in BOOLEAN, NEW once \in BOOLEAN,
                NEW due \in 0..C!Never, C!Edit(j, enabled, once, due)
         PROVE  CronOK'
    <2> DEFINE new == [once |-> once, enabled |-> enabled, due |-> due]
    <2>1. /\ UNCHANGED <<used, phase, orphans, late, activeJobs, exec, ends>>
          /\ ops < MaxOps /\ ops' = ops + 1 /\ j \in DOMAIN jobs
          /\ jobs' = [jobs EXCEPT ![j] = new]
          /\ \/ /\ file' = jobs' /\ UNCHANGED faults /\ loose' = loose \ {j}
                /\ scheduled' = IF new.enabled /\ phase = "up" /\ new.due # C!Never
                                THEN scheduled \cup {j} ELSE scheduled \ {j}
             \/ /\ faults < MaxFaults /\ faults' = faults + 1
                /\ loose' = loose \cup {j} /\ UNCHANGED <<file, scheduled>>
          /\ told' = IF new.enabled THEN [told EXCEPT ![j] = "no"] ELSE told
      BY <1>16 DEF C!Edit, C!Operate, C!InStore, C!Saved, C!Unsaved
    <2>2. new \in C!Job
      BY DEF C!Job, C!Never
    <2> HIDE DEF new
    <2>3. Alters(jobs, jobs', j, new)
      BY <2>1, <2>2 DEF Alters, FileOK
    <2>4. FileOK'
      BY <2>1, <2>3 DEF FileOK, Alters
    <2>5. faults' \in 0..MaxFaults /\ (faults' = 0 => loose' = loose \ {j} /\ faults = 0)
      BY <2>1, CronAssumption DEF CountsOK
    <2>6. TimersOK'
      BY <2>1, <2>3, <2>5 DEF TimersOK, C!TimersMatchJobs, C!Enabled, C!InStore,
         C!Good, C!Timed, FileOK, Alters
    <2>7. /\ told' \in [Jobs -> Tellings]
          /\ \A i \in Jobs : /\ told'[i] \in {told[i], "no"}
                             /\ i = j /\ new.enabled => told'[i] = "no"
      BY <2>1 DEF OnceOK, Tellings
    <2>8. OnceOK'
      <3>1. ASSUME NEW i \in Jobs, told'[i] = "yes" PROVE Spent(i)'
        <4>1. Spent(i) /\ ~(i = j /\ new.enabled)
          BY <2>7, <3>1 DEF OnceOK
        <4> QED
          BY <2>1, <2>3, <4>1 DEF Spent, Off, Alters
      <3> QED
        BY <2>7, <3>1 DEF OnceOK, C!OneShotOnce
    <2> QED
      BY <2>1, <2>4, <2>5, <2>6, <2>8, SameRuns, CronAssumption DEF CountsOK
  <1>17. CASE C!Boot
    <2>1. /\ phase = "down" /\ phase' = "up"
          /\ scheduled' = {j \in Jobs : C!Enabled(j) /\ C!Timed(j) /\ C!Good(j)}
          /\ UNCHANGED <<jobs, file, used, orphans, ops, ends, faults, loose, told>>
          /\ \/ UNCHANGED <<exec, activeJobs, late>>
             \/ \E j \in Jobs : /\ C!ExecuteJob(j) /\ late' \in SUBSET Jobs
                                /\ C!Enabled(j)
      BY <1>17 DEF C!Boot, C!Missed
    <2>2. TimersOK'
      BY <2>1 DEF TimersOK, C!TimersMatchJobs, C!Enabled, C!InStore, C!Good, C!Timed
    <2>3. /\ RunsOK'
          /\ \A i \in Jobs : i \in activeJobs' => i \in activeJobs \/ C!Enabled(i)
      BY <2>1, Executes, SameRuns
    <2>4. OnceOK'
      BY <2>1, <2>3 DEF OnceOK, Spent, Off, C!OneShotOnce, C!Enabled, C!InStore
    <2> QED
      BY <2>1, <2>2, <2>3, <2>4, SameFile DEF CountsOK
  <1>18. CASE C!Stop
    <2>1. OnceOK'
      BY <1>18 DEF C!Stop, OnceOK, Spent, Off, C!OneShotOnce
    <2> QED
      BY <1>18, <2>1, SameRuns, SameFile DEF C!Stop, CountsOK, TimersOK,
         C!TimersMatchJobs
  <1>19. CASE C!Exit
    <2>1. /\ phase' = "down" /\ ends < MaxEnds /\ ends' = ends + 1
          /\ exec' = <<>> /\ scheduled' = {} /\ late' = {} /\ activeJobs' = {}
          /\ loose' = {} /\ orphans' = [j \in Jobs |-> 0] /\ jobs' = file
          /\ UNCHANGED <<file, used, ops, faults>>
          /\ \E js : told' = [j \in Jobs |-> IF j \in js THEN "excused" ELSE told[j]]
      BY <1>19 DEF C!Exit
    <2>2. FileOK'
      BY <2>1 DEF FileOK
    <2>3. RunsOK'
      BY <2>1 DEF RunsOK, RetryIsLeft, C!Running, C!NoStackedRuns
    <2>4. TimersOK'
      BY <2>1, CronAssumption DEF TimersOK, C!TimersMatchJobs
    <2>5. /\ told' \in [Jobs -> Tellings]
          /\ \A i \in Jobs : told'[i] \in {told[i], "excused"}
      BY <2>1 DEF OnceOK, Tellings
    <2>6. OnceOK'
      BY <2>1, <2>5 DEF OnceOK, Spent, Off, C!OneShotOnce
    <2> QED
      BY <2>1, <2>2, <2>3, <2>4, <2>6, CronAssumption DEF CountsOK
  <1>20. CASE UNCHANGED cronVars
    BY <1>20, SameRuns, SameFile, SameTimers, SameOnce DEF cronVars, CountsOK
  <1> QED
    BY <1>2, <1>3, <1>4, <1>5, <1>6, <1>8, <1>9, <1>10, <1>11, <1>12, <1>13,
       <1>14, <1>15, <1>16, <1>17, <1>18, <1>19, <1>20
       DEF C!Next, C!Progress, cronVars

LEMMA InitCron == C!Init => CronInv
  <1> SUFFICES ASSUME C!Init PROVE CronOK
    BY CronTyped
  <1>1. PICK once \in BOOLEAN :
           jobs = [j \in FileJobs |-> [once |-> once, enabled |-> TRUE, due |-> 0]]
    BY DEF C!Init
  <1>2. FileOK
    BY <1>1, CronAssumption DEF C!Init, FileOK, C!Job, C!Never
  <1>3. RunsOK
    BY DEF C!Init, RunsOK, RetryIsLeft, C!Running, C!NoStackedRuns
  <1>4. OnceOK
    BY DEF C!Init, OnceOK, Tellings, C!OneShotOnce
  <1> QED
    BY <1>2, <1>3, <1>4, CronAssumption
       DEF CronOK, C!Init, TimersOK, CountsOK, C!TimersMatchJobs

-----------------------------------------------------------------------------
(* The interpreters: one that lives is reachable, and what a run that had    *)
(* its interpreter to itself is answered is what its code printed.  What is  *)
(* left of its output is known at every moment: so much was written since    *)
(* its cursor, the rest is still to be read, and the buffer is the tail.     *)

Whole(r) == Append(E!Code(r), E!Sentinel(r))

Process == [id : Ids, state : {"live", "killed", "exited"},
            input : Seq(E!Item), buffer : Seq(E!Item), discarded : Nat]
Answers == Seq(E!Item) \cup {E!UpToSentinel(out) : out \in Seq(E!Item)}
Answer == [at : {"idle", "waiting", "done", "timed out"}, proc : Nat,
           from : Nat, output : Answers]

(* Something was discarded only when the buffer was full. *)
Trimmed(b, d) == Len(b) <= MaxBuffer /\ (d > 0 => Len(b) = MaxBuffer)

(* The interpreter with the input in, the buffer b and d items discarded     *)
(* was given w when it had written from items: it has written the first of w *)
(* and, if it lives, will write the others.                                  *)
Follows(w, from, in, b, d) ==
    /\ d + Len(b) - from \in 0..Len(w)
    /\ in # <<>> =>
          /\ Len(in) = Len(w) - (d + Len(b) - from)
          /\ \A i \in 1..Len(in) : in[i] = w[d + Len(b) - from + i]
    /\ \A i \in 1..Len(b) : d + i > from => b[i] = w[d + i - from]

ProcsOK == /\ procs \in Seq(Process)
           /\ \A p \in 1..Len(procs) : Trimmed(procs[p].buffer, procs[p].discarded)
           /\ DOMAIN sessions \subseteq Ids
           /\ \A id \in DOMAIN sessions : sessions[id] \in 1..Len(procs)
           /\ E!LiveIsReachable

CallsOK == /\ execs \in [Execs -> Answer] /\ alone \subseteq Execs
           /\ \A r \in Execs : execs[r].at # "idle" =>
                                  execs[r].proc \in 1..Len(procs)
           /\ \A r \in alone :
                 /\ execs[r].at # "idle"
                 /\ execs[r].at = "waiting" =>
                       LET x == procs[execs[r].proc]
                       IN Follows(Whole(r), execs[r].from, x.input, x.buffer,
                                  x.discarded)
           /\ E!AloneIsExact

ExecInv == ProcsOK /\ CallsOK

LEMMA WholeFacts ==
  ASSUME NEW r \in Execs
  PROVE  /\ Whole(r) \in Seq(E!Item) /\ Len(Whole(r)) \in {2, 3}
         /\ E!Code(r) \in Seq(E!Item) /\ Len(Whole(r)) = Len(E!Code(r)) + 1
         /\ \A i \in 1..Len(Whole(r)) :
               Whole(r)[i].sentinel <=> i = Len(Whole(r))
         /\ \A i \in 1..Len(E!Code(r)) : Whole(r)[i] = E!Code(r)[i]
  <1>1. /\ E!Printed(r) \in E!Item /\ E!Sentinel(r) \in E!Item
        /\ ~E!Printed(r).sentinel /\ E!Sentinel(r).sentinel
    BY DEF E!Printed, E!Sentinel, E!Item
  <1>2. CASE r \in LongRuns
    <2>1. E!Code(r) = <<E!Printed(r), E!Printed(r)>>
      BY <1>2 DEF E!Code
    <2> QED
      BY <1>1, <2>1 DEF Whole
  <1>3. CASE r \notin LongRuns
    <2>1. E!Code(r) = <<E!Printed(r)>>
      BY <1>3 DEF E!Code
    <2> QED
      BY <1>1, <2>1 DEF Whole
  <1> QED
    BY <1>2, <1>3

(* A suffix and a prefix of a sequence. *)
LEMMA Suffix ==
  ASSUME NEW U, NEW b \in Seq(U), NEW s \in 0..Len(b)
  PROVE  /\ SubSeq(b, s + 1, Len(b)) \in Seq(U)
         /\ Len(SubSeq(b, s + 1, Len(b))) = Len(b) - s
         /\ \A i \in 1..Len(b) - s : SubSeq(b, s + 1, Len(b))[i] = b[i + s]
  OBVIOUS

LEMMA Prefix ==
  ASSUME NEW U, NEW b \in Seq(U), NEW m \in 0..Len(b)
  PROVE  /\ SubSeq(b, 1, m) \in Seq(U) /\ Len(SubSeq(b, 1, m)) = m
         /\ \A i \in 1..m : SubSeq(b, 1, m)[i] = b[i]
  OBVIOUS

(* One item is printed, and the buffer trimmed. *)
LEMMA Shifted ==
  ASSUME NEW U, NEW w \in Seq(U), NEW from \in Nat, NEW d \in Nat,
         NEW in \in Seq(U), in # <<>>, NEW b \in Seq(U), NEW drop \in 0..1,
         NEW c \in Seq(U), Len(c) = Len(b) + 1 - drop,
         \A i \in 1..Len(c) : c[i] = Append(b, Head(in))[i + drop],
         Follows(w, from, in, b, d)
  PROVE  Follows(w, from, Tail(in), c, d + drop)
  <1>1. /\ Len(w) \in Nat /\ Len(in) \in Nat \ {0} /\ Len(b) \in Nat /\ Len(c) \in Nat
        /\ Tail(in) \in Seq(U) /\ Len(Tail(in)) = Len(in) - 1
        /\ Head(in) = in[1]
    OBVIOUS
  <1>1a. \A i \in 1..Len(Tail(in)) : Tail(in)[i] = in[i + 1]
    OBVIOUS
  <1>2. PICK n \in 0..Len(w) : n = d + Len(b) - from
    BY DEF Follows
  <1>2a. Len(in) = Len(w) - n
    BY <1>2 DEF Follows
  <1>3. /\ Len(in) = Len(w) - n
        /\ \A i \in 1..Len(in) : in[i] = w[n + i]
        /\ \A i \in 1..Len(b) : d + i > from => b[i] = w[d + i - from]
    BY <1>2 DEF Follows
  <1>4. d + drop + Len(c) - from = n + 1 /\ n + 1 \in 0..Len(w)
    <2>1. /\ Len(c) \in Int /\ Len(b) \in Int /\ n \in Int /\ drop \in Int
          /\ Len(w) \in Int
      BY <1>1
    <2>2. d + drop + Len(c) - from = n + 1
      BY <2>1, <1>2
    <2>3. n + 1 \in 0..Len(w)
      BY <1>1, <1>2a
    <2> QED
      BY <2>2, <2>3
  <1>5. /\ Len(Tail(in)) = Len(w) - (n + 1)
        /\ \A i \in 1..Len(Tail(in)) : Tail(in)[i] = w[n + 1 + i]
    <2>1. Len(Tail(in)) = Len(w) - (n + 1)
      BY <1>1, <1>3
    <2>2. ASSUME NEW i \in 1..Len(Tail(in)) PROVE Tail(in)[i] = w[n + 1 + i]
      <3>1. i + 1 \in 1..Len(in) /\ n + (i + 1) = n + 1 + i
        BY <1>1
      <3> QED
        BY <1>1a, <1>3, <3>1
    <2> QED
      BY <2>1, <2>2
  <1>6. ASSUME NEW i \in 1..Len(c), d + drop + i > from
        PROVE  c[i] = w[d + drop + i - from]
    <2>0. i + drop \in 1..Len(b) + 1 /\ d + (i + drop) = d + drop + i
      BY <1>1
    <2>0a. d + (i + drop) - from = d + drop + i - from
      BY <1>1
    <2>1. CASE i + drop \in 1..Len(b)
      <3>1. c[i] = b[i + drop]
        BY <2>1
      <3>2. b[i + drop] = w[d + (i + drop) - from]
        BY <1>3, <1>6, <2>0, <2>1
      <3> QED
        BY <3>1, <3>2, <2>0a
    <2>2. CASE i + drop = Len(b) + 1
      <3>1. c[i] = in[1]
        BY <1>1, <2>2
      <3>2. in[1] = w[n + 1]
        BY <1>1, <1>3
      <3>3. d + drop + i - from = n + 1
        <4>1. /\ i \in Int /\ Len(b) \in Int /\ n \in Int /\ drop \in Int
              /\ d \in Int /\ from \in Int
          BY <1>1
        <4>2. i + drop - Len(b) = 1 /\ n = d + Len(b) - from
          BY <4>1, <1>2, <2>2
        <4>3. d + drop + i - from = d + (i + drop) - from
          BY <4>1
        <4>4. i + drop = Len(b) + 1
          BY <2>2
        <4>5. d + (Len(b) + 1) - from = n + 1
          BY <4>1, <4>2
        <4> QED
          BY <4>3, <4>4, <4>5
      <3> QED
        BY <3>1, <3>2, <3>3
    <2> QED
      BY <1>1, <2>0, <2>1, <2>2
  <1> QED
    BY <1>4, <1>5, <1>6 DEF Follows

LEMMA Answering ==
  ASSUME NEW r \in Execs, NEW in, NEW b \in Seq(E!Item), NEW d \in Nat,
         NEW from \in Nat, Trimmed(b, d), Follows(Whole(r), from, in, b, d),
         NEW skip \in Nat, skip = from - d \/ (skip = 0 /\ d >= from),
         NEW out \in Seq(E!Item), Len(out) = Len(b) - skip, skip <= Len(b),
         \A i \in 1..Len(b) - skip : out[i] = b[i + skip], E!HasSentinel(out)
  PROVE  E!UpToSentinel(out) = E!Kept(E!Code(r))
  <1> DEFINE w == Whole(r)
             code == E!Code(r)
  <1>1. /\ MaxBuffer \in Nat /\ Len(b) \in Nat /\ Len(code) \in Nat
        /\ Len(w) \in Nat /\ Len(w) = Len(code) + 1
        /\ \A i \in 1..Len(w) : w[i].sentinel <=> i = Len(w)
        /\ \A i \in 1..Len(code) : w[i] = code[i]
        /\ code \in Seq(E!Item)
    BY BufferAssumption, WholeFacts
  <1>2. PICK n \in 0..Len(w) : n = d + Len(b) - from
    BY DEF Follows
  <1>3. \A i \in 1..Len(b) : d + i > from => b[i] = w[d + i - from]
    BY DEF Follows
  <1> HIDE DEF w, code
  <1>4. skip \in 0..Len(b) /\ d + skip >= from
    BY <1>1, <1>2
  <1>5. PICK k \in Nat : k = d + skip - from
    BY <1>4
  <1>6a. /\ Len(out) = Len(b) - skip /\ Len(out) \in Nat
         /\ DOMAIN out = 1..Len(out)
    OBVIOUS
  <1>6. \A i \in 1..Len(out) : out[i] = b[i + skip]
    BY <1>6a
  <1>7. Len(out) + k = n /\ Len(out) \in Nat
    BY <1>2, <1>4, <1>5, <1>6a
  <1>8. ASSUME NEW i \in 1..Len(out)
        PROVE  out[i] = w[k + i] /\ k + i \in 1..Len(w)
    <2>1. i + skip \in 1..Len(b) /\ d + (i + skip) > from
      BY <1>1, <1>4, <1>6
    <2>2. d + (i + skip) - from = k + i
      BY <1>4, <1>5
    <2>3. out[i] = w[k + i]
      BY <1>3, <1>6, <2>1, <2>2
    <2>4. k + i \in 1..Len(w)
      <3>1. Len(w) \in Nat /\ i \in 1..Len(out) /\ n <= Len(w)
        BY <1>1
      <3> QED
        BY <3>1, <1>7
    <2> QED
      BY <2>3, <2>4
  <1>9. PICK m \in 1..Len(out) : out[m].sentinel
    BY <1>6a DEF E!HasSentinel
  <1>10. k + m = Len(w)
    BY <1>1, <1>8, <1>9
  <1>11. m = Len(out) /\ n = Len(w)
    BY <1>1, <1>7, <1>10
  <1>12. ASSUME NEW i \in 1..Len(out), out[i].sentinel PROVE i = m
    <2>1. k + i = Len(w)
      BY <1>1, <1>8, <1>12
    <2> QED
      BY <1>10, <2>1
  <1>13. E!UpToSentinel(out) = SubSeq(out, 1, m - 1)
    <2> DEFINE first == CHOOSE i \in DOMAIN out :
                           out[i].sentinel /\ \A j \in 1..i - 1 : ~out[j].sentinel
    <2>1. DOMAIN out = 1..Len(out)
      BY <1>6a
    <2>2. \A j \in 1..m - 1 : ~out[j].sentinel
      <3> SUFFICES ASSUME NEW j \in 1..m - 1, out[j].sentinel PROVE FALSE
        OBVIOUS
      <3>1. j \in 1..Len(out) /\ j # m
        BY <1>7
      <3> QED
        BY <3>1, <1>12
    <2>3. first \in DOMAIN out /\ out[first].sentinel
      BY <1>9, <2>1, <2>2
    <2>4. first = m
      BY <1>12, <2>1, <2>3
    <2> QED
      BY <2>4 DEF E!UpToSentinel
  <1>14. (IF Len(code) + 1 - MaxBuffer > 0 THEN Len(code) + 1 - MaxBuffer ELSE 0) = k
    <2>1. /\ MaxBuffer \in Nat /\ Len(b) \in Nat /\ Len(code) \in Nat
          /\ Len(w) = Len(code) + 1 /\ Len(out) \in Nat /\ m \in Nat /\ m > 0
      BY <1>1, <1>7
    <2>2. Len(w) = d + Len(b) - from /\ m = Len(b) - skip /\ k + m = Len(w)
      BY <1>2, <1>6a, <1>10, <1>11
    <2>3. Len(b) <= MaxBuffer /\ (d > 0 => Len(b) = MaxBuffer)
      BY DEF Trimmed
    <2>4. CASE from - d > 0
      BY <2>1, <2>2, <2>3, <2>4
    <2>5. CASE ~(from - d > 0)
      <3>1. skip = 0 /\ d >= from /\ k = d - from
        BY <1>5, <2>5
      <3>2. CASE d > from
        <4>1. d > 0 /\ Len(b) = MaxBuffer
          BY <2>3, <3>2
        <4>2. Len(code) + 1 - MaxBuffer = d - from
          <5>1. Len(w) \in Nat /\ Len(b) \in Nat
            BY <1>1
          <5>2. Len(w) = d + Len(b) - from
            BY <2>2
          <5>3. Len(w) - Len(b) = d - from
            BY <5>1, <5>2
          <5> QED
            BY <2>1, <4>1, <5>3
        <4> QED
          BY <3>1, <3>2, <4>2
      <3>3. CASE d = from
        BY <2>1, <2>2, <2>3, <3>1, <3>3
      <3> QED
        BY <3>1, <3>2, <3>3
    <2> QED
      BY <2>4, <2>5
  <1>15. E!Kept(code) = SubSeq(code, k + 1, Len(code))
    BY <1>14 DEF E!Kept
  <1>16. SubSeq(out, 1, m - 1) = SubSeq(code, k + 1, Len(code))
    <2> DEFINE a == SubSeq(out, 1, m - 1)
               c == SubSeq(code, k + 1, Len(code))
    <2>1. /\ a \in Seq(E!Item) /\ Len(a) = m - 1
          /\ \A i \in 1..Len(a) : a[i] = out[i]
      <3>1. m - 1 \in 0..Len(out)
        BY <1>6a
      <3> QED
        BY <3>1, Prefix
    <2>2. k <= Len(code)
      BY <1>1, <1>10, <1>7
    <2>3. /\ c \in Seq(E!Item) /\ Len(c) = Len(code) - k
          /\ \A i \in 1..Len(c) : c[i] = code[k + i]
      <3>1. code \in Seq(E!Item) /\ Len(code) \in Nat
        BY <1>1
      <3> QED
        BY <2>2, <3>1
    <2> HIDE DEF a, c
    <2>4. Len(a) = Len(c) /\ Len(c) \in Nat
      BY <1>1, <1>10, <1>7, <2>1, <2>2, <2>3
    <2>5. ASSUME NEW i \in 1..Len(a) PROVE a[i] = c[i]
      <3>1. i \in 1..Len(out) /\ k + i \in 1..Len(code) /\ i \in 1..Len(c)
        <4>1. /\ Len(code) \in Nat /\ Len(w) = Len(code) + 1 /\ m \in Nat
              /\ Len(a) = m - 1 /\ Len(out) \in Nat /\ m <= Len(out)
          BY <1>1, <1>7, <2>1
        <4>2. k + m = Len(w) /\ i \in Int /\ 1 <= i /\ i <= m - 1
          BY <1>10, <2>1, <4>1
        <4>3. i \in 1..Len(out) /\ k + i \in 1..Len(code)
          BY <4>1, <4>2
        <4>4. i \in 1..Len(c)
          BY <2>4
        <4> QED
          BY <4>3, <4>4
      <3>2. a[i] = w[k + i] /\ w[k + i] = code[k + i] /\ c[i] = code[k + i]
        BY <1>1, <1>8, <2>1, <2>3, <3>1
      <3> QED
        BY <3>2
    <2>6. a = c
      <3>1. a = [i \in 1..Len(a) |-> a[i]]
        BY <2>1
      <3>2. c = [i \in 1..Len(c) |-> c[i]]
        BY <2>3
      <3> QED
        BY <2>4, <2>5, <3>1, <3>2
    <2> QED
      BY <2>6 DEF a, c
  <1> QED
    BY <1>13, <1>15, <1>16 DEF code

(* One item is printed, and the buffer trimmed: nothing else is lost. *)
Stream(in, b) == Append(b, Head(in))
Drop(b) == IF Len(b) + 1 > MaxBuffer THEN Len(b) + 1 - MaxBuffer ELSE 0
Kept(in, b) == SubSeq(Stream(in, b), Drop(b) + 1, Len(Stream(in, b)))

LEMMA Printing ==
  ASSUME NEW in \in Seq(E!Item), in # <<>>, NEW b \in Seq(E!Item), NEW d \in Nat,
         Trimmed(b, d)
  PROVE  /\ Kept(in, b) \in Seq(E!Item) /\ d + Drop(b) \in Nat
         /\ Trimmed(Kept(in, b), d + Drop(b))
         /\ \A r \in Execs, from \in Nat :
               Follows(Whole(r), from, in, b, d) =>
               Follows(Whole(r), from, Tail(in), Kept(in, b), d + Drop(b))
  <1> DEFINE c == Kept(in, b)
             stream == Stream(in, b)
             drop == Drop(b)
  <1>1. MaxBuffer \in Nat /\ Len(b) \in Nat
    BY BufferAssumption
  <1>2. stream \in Seq(E!Item) /\ Len(stream) = Len(b) + 1
    BY DEF Stream
  <1>3. /\ drop \in 0..1 /\ (drop = 1) = (Len(b) = MaxBuffer)
    BY <1>1 DEF Trimmed, Drop
  <1>4. /\ c \in Seq(E!Item) /\ Len(c) = Len(b) + 1 - drop
        /\ \A i \in 1..Len(c) : c[i] = Append(b, Head(in))[i + drop]
    <2>0. c = SubSeq(stream, drop + 1, Len(stream))
      BY DEF Kept
    <2> HIDE DEF stream, drop, c
    <2>1. drop \in 0..Len(stream)
      BY <1>1, <1>2, <1>3
    <2>2. /\ c \in Seq(E!Item) /\ Len(c) = Len(stream) - drop
          /\ \A i \in 1..Len(stream) - drop : c[i] = stream[i + drop]
      BY <1>2, <2>0, <2>1, Suffix
    <2>3. Len(c) = Len(b) + 1 - drop
      <3>1. Len(c) = Len(stream) - drop
        BY <2>2
      <3>2. Len(stream) = Len(b) + 1
        BY <1>2
      <3>3. drop \in Int /\ Len(stream) \in Int /\ Len(b) \in Int
        BY <1>1, <1>2, <1>3
      <3> QED
        BY <3>1, <3>2, <3>3
    <2>4. ASSUME NEW i \in 1..Len(c) PROVE c[i] = Append(b, Head(in))[i + drop]
      BY <2>2 DEF stream, Stream
    <2> QED
      BY <2>2, <2>3, <2>4
  <1>5. d + drop \in Nat
    BY <1>1, <1>3
  <1>8. Trimmed(c, d + drop)
    <2>1. Len(b) <= MaxBuffer /\ (d > 0 => Len(b) = MaxBuffer)
      BY DEF Trimmed
    <2> HIDE DEF drop, c
    <2>2. CASE drop = 0
      <3>1. Len(c) = Len(b) + 1 /\ Len(b) # MaxBuffer
        BY <1>1, <1>3, <1>4, <2>2
      <3> QED
        BY <1>1, <2>1, <2>2, <3>1 DEF Trimmed
    <2>3. CASE drop = 1
      <3>1. Len(c) = MaxBuffer
        BY <1>1, <1>3, <1>4, <2>3
      <3> QED
        BY <1>1, <3>1 DEF Trimmed
    <2> QED
      BY <1>3, <2>2, <2>3
  <1>9. ASSUME NEW r \in Execs, NEW from \in Nat, Follows(Whole(r), from, in, b, d)
        PROVE  Follows(Whole(r), from, Tail(in), c, d + drop)
    <2>1. Whole(r) \in Seq(E!Item)
      BY WholeFacts
    <2> HIDE DEF drop, c
    <2> QED
      BY <1>1, <1>3, <1>4, <1>9, <2>1, Shifted
  <1> QED
    BY <1>4, <1>5, <1>8, <1>9

LEMMA Replaced ==
  ASSUME NEW U, NEW s \in Seq(U), NEW p \in 1..Len(s), NEW x \in U
  PROVE  /\ [s EXCEPT ![p] = x] \in Seq(U)
         /\ Len([s EXCEPT ![p] = x]) = Len(s)
         /\ [s EXCEPT ![p] = x][p] = x
         /\ \A q \in 1..Len(s) : q # p => [s EXCEPT ![p] = x][q] = s[q]
  OBVIOUS

(* A step that leaves the calls alone, and every interpreter but one as it   *)
(* is: what that one has is trimmed and follows what was followed.           *)
LEMMA CallsStay ==
  ASSUME ExecInv, UNCHANGED <<execs, alone>>, Len(procs) <= Len(procs)',
         \A p \in 1..Len(procs) :
            \/ procs'[p] = procs[p]
            \/ \A r \in Execs, from \in Nat :
                  Follows(Whole(r), from, procs[p].input, procs[p].buffer,
                          procs[p].discarded) =>
                  Follows(Whole(r), from, procs'[p].input, procs'[p].buffer,
                          procs'[p].discarded),
         Len(procs)' \in Nat
  PROVE  CallsOK'
  <1>1. /\ execs \in [Execs -> Answer] /\ alone \subseteq Execs /\ E!AloneIsExact
        /\ Len(procs) \in Nat
    BY DEF ExecInv, CallsOK, ProcsOK
  <1>2. ASSUME NEW r \in Execs, execs[r].at # "idle" PROVE execs[r].proc \in 1..Len(procs)'
    <2>1. execs[r].proc \in 1..Len(procs)
      BY <1>2 DEF ExecInv, CallsOK
    <2> QED
      BY <1>1, <2>1
  <1>3. ASSUME NEW r \in alone, execs[r].at = "waiting"
        PROVE  LET x == procs'[execs[r].proc]
               IN Follows(Whole(r), execs[r].from, x.input, x.buffer, x.discarded)
    <2>1. /\ execs[r].proc \in 1..Len(procs) /\ execs[r].from \in Nat /\ r \in Execs
      BY <1>1, <1>3 DEF ExecInv, CallsOK, Answer
    <2>2. LET x == procs[execs[r].proc]
          IN Follows(Whole(r), execs[r].from, x.input, x.buffer, x.discarded)
      BY <1>3 DEF ExecInv, CallsOK
    <2> QED
      BY <2>1, <2>2
  <1>4. \A r \in alone : execs[r].at # "idle"
    BY DEF ExecInv, CallsOK
  <1>5. E!AloneIsExact'
    BY <1>1 DEF E!AloneIsExact
  <1> QED
    BY <1>1, <1>2, <1>3, <1>4, <1>5 DEF CallsOK

LEMMA StartStep ==
  ASSUME ExecInv, NEW id \in Ids, E!Start(id)
  PROVE  ExecInv'
  <1> DEFINE x == [id |-> id, state |-> "live", input |-> <<>>,
                   buffer |-> <<>>, discarded |-> 0]
  <1>1. /\ procs \in Seq(Process) /\ Len(procs) \in Nat
        /\ \A i \in DOMAIN sessions : sessions[i] \in 1..Len(procs)
        /\ \A p \in 1..Len(procs) : Trimmed(procs[p].buffer, procs[p].discarded)
        /\ DOMAIN sessions \subseteq Ids /\ E!LiveIsReachable /\ MaxBuffer \in Nat
    BY BufferAssumption DEF ExecInv, ProcsOK
  <1>2. x \in Process /\ Trimmed(x.buffer, x.discarded)
    BY <1>1 DEF Process, Trimmed
  <1>3. /\ procs' = Append(procs, x) /\ UNCHANGED <<execs, alone, forgotten>>
        /\ sessions' = [i \in DOMAIN sessions \cup {id} |->
                           IF i = id THEN Len(procs)' ELSE sessions[i]]
        /\ id \notin DOMAIN sessions
    BY DEF E!Start
  <1> HIDE DEF x
  <1>4. /\ procs' \in Seq(Process) /\ Len(procs)' = Len(procs) + 1
        /\ \A p \in 1..Len(procs) : procs'[p] = procs[p]
        /\ procs'[Len(procs) + 1] = x
    BY <1>1, <1>2, <1>3
  <1>5. \A p \in 1..Len(procs)' : Trimmed(procs'[p].buffer, procs'[p].discarded)
    <2> SUFFICES ASSUME NEW p \in 1..Len(procs)'
                 PROVE  Trimmed(procs'[p].buffer, procs'[p].discarded)
      OBVIOUS
    <2>1. p \in 1..Len(procs) \/ p = Len(procs) + 1
      BY <1>1, <1>4
    <2> QED
      BY <1>1, <1>2, <1>4, <2>1
  <1>6. DOMAIN sessions' \subseteq Ids /\ \A i \in DOMAIN sessions' : sessions'[i] \in 1..Len(procs)'
    BY <1>1, <1>3, <1>4
  <1>7. E!LiveIsReachable'
    <2> SUFFICES ASSUME NEW p \in 1..Len(procs)', procs'[p].state = "live", p \notin forgotten'
                 PROVE procs'[p].id \in DOMAIN sessions' /\ sessions'[procs'[p].id] = p
      BY DEF E!LiveIsReachable
    <2>1. CASE p \in 1..Len(procs)
      <3>1. procs[p].id \in DOMAIN sessions /\ sessions[procs[p].id] = p
        BY <1>1, <1>3, <1>4, <2>1 DEF E!LiveIsReachable
      <3> QED
        BY <1>3, <1>4, <2>1, <3>1
    <2>2. CASE p = Len(procs) + 1
      <3>1. procs'[p].id = id
        BY <1>4, <2>2 DEF x
      <3> QED
        BY <1>3, <1>4, <2>2, <3>1
    <2> QED
      BY <1>1, <1>4, <2>1, <2>2
  <1>8. ProcsOK'
    BY <1>4, <1>5, <1>6, <1>7 DEF ProcsOK
  <1>9. CallsOK'
    BY <1>1, <1>3, <1>4, CallsStay
  <1> QED
    BY <1>8, <1>9 DEF ExecInv

(* The entry of id goes, and so does the life of the interpreter it led to. *)
LEMMA CloseStep ==
  ASSUME ExecInv, NEW id \in Ids, E!Close(id)
  PROVE  ExecInv'
  <1> DEFINE p == sessions[id]
             st == IF procs[p].state = "live" THEN "killed" ELSE procs[p].state
             x == [procs[p] EXCEPT !.state = st]
  <1>1. /\ procs \in Seq(Process) /\ Len(procs) \in Nat
        /\ \A i \in DOMAIN sessions : sessions[i] \in 1..Len(procs)
        /\ \A q \in 1..Len(procs) : Trimmed(procs[q].buffer, procs[q].discarded)
        /\ DOMAIN sessions \subseteq Ids /\ E!LiveIsReachable
    BY DEF ExecInv, ProcsOK
  <1>2. /\ id \in DOMAIN sessions /\ p \in 1..Len(procs)
        /\ procs' = [procs EXCEPT ![p] = x] /\ UNCHANGED <<execs, alone, forgotten>>
        /\ sessions' = [i \in DOMAIN sessions \ {id} |-> sessions[i]]
    BY <1>1 DEF E!Close, E!Restrict
  <1>3. /\ procs[p] \in Process /\ x \in Process /\ x.state # "live"
        /\ x.id = procs[p].id /\ x.input = procs[p].input
        /\ x.buffer = procs[p].buffer /\ x.discarded = procs[p].discarded
    <2> DEFINE z == procs[p]
    <2>1. z \in Process
      BY <1>1, <1>2
    <2>2. st \in {"killed", "exited"}
      BY <2>1 DEF Process
    <2> HIDE DEF z, st
    <2>3. LET y == [z EXCEPT !.state = st]
          IN /\ y \in Process /\ y.state = st /\ y.id = z.id /\ y.input = z.input
             /\ y.buffer = z.buffer /\ y.discarded = z.discarded
      BY <2>1, <2>2 DEF Process
    <2> QED
      BY <2>1, <2>2, <2>3 DEF z
  <1> HIDE DEF p, x
  <1>4. /\ procs' \in Seq(Process) /\ Len(procs)' = Len(procs) /\ procs'[p] = x
        /\ \A q \in 1..Len(procs) : q # p => procs'[q] = procs[q]
    BY <1>1, <1>2, <1>3, Replaced
  <1>5. \A q \in 1..Len(procs)' : Trimmed(procs'[q].buffer, procs'[q].discarded)
    BY <1>1, <1>2, <1>3, <1>4
  <1>6. DOMAIN sessions' \subseteq Ids /\ \A i \in DOMAIN sessions' : sessions'[i] \in 1..Len(procs)'
    BY <1>1, <1>2, <1>4
  <1>7. E!LiveIsReachable'
    <2> SUFFICES ASSUME NEW q \in 1..Len(procs)', procs'[q].state = "live", q \notin forgotten'
                 PROVE procs'[q].id \in DOMAIN sessions' /\ sessions'[procs'[q].id] = q
      BY DEF E!LiveIsReachable
    <2>1. q # p /\ procs'[q] = procs[q] /\ q \in 1..Len(procs)
      BY <1>3, <1>4
    <2>2. procs[q].id \in DOMAIN sessions /\ sessions[procs[q].id] = q
      BY <1>1, <1>2, <2>1 DEF E!LiveIsReachable
    <2>3. procs[q].id # id
      BY <2>1, <2>2 DEF p
    <2> QED
      BY <1>2, <2>1, <2>2, <2>3
  <1>8. ProcsOK'
    BY <1>4, <1>5, <1>6, <1>7 DEF ProcsOK
  <1>9. CallsOK'
    <2>1. \A q \in 1..Len(procs) :
            \/ procs'[q] = procs[q]
            \/ /\ procs'[q].input = procs[q].input
               /\ procs'[q].buffer = procs[q].buffer
               /\ procs'[q].discarded = procs[q].discarded
      BY <1>2, <1>3, <1>4
    <2> QED
      BY <1>1, <1>2, <1>4, <2>1, CallsStay
  <1> QED
    BY <1>8, <1>9 DEF ExecInv

(* The exit takes the input with it, and the entry whoever it leads to now. *)
LEMMA ExitedStep ==
  ASSUME ExecInv, NEW p \in 1..Len(procs), E!Exited(p)
  PROVE  ExecInv'
  <1> DEFINE x == [procs[p] EXCEPT !.state = "exited", !.input = <<>>]
             id == procs[p].id
  <1>1. /\ procs \in Seq(Process) /\ Len(procs) \in Nat
        /\ \A i \in DOMAIN sessions : sessions[i] \in 1..Len(procs)
        /\ \A q \in 1..Len(procs) : Trimmed(procs[q].buffer, procs[q].discarded)
        /\ DOMAIN sessions \subseteq Ids /\ E!LiveIsReachable
    BY DEF ExecInv, ProcsOK
  <1>2. /\ procs[p] \in Process /\ x \in Process /\ x.state # "live"
        /\ x.id = id /\ x.input = <<>>
        /\ x.buffer = procs[p].buffer /\ x.discarded = procs[p].discarded
    <2> DEFINE z == procs[p]
    <2>1. z \in Process /\ <<>> \in Seq(E!Item)
      BY <1>1
    <2> HIDE DEF z
    <2>2. LET y == [z EXCEPT !.state = "exited", !.input = <<>>]
          IN /\ y \in Process /\ y.state = "exited" /\ y.id = z.id
             /\ y.input = <<>>
             /\ y.buffer = z.buffer /\ y.discarded = z.discarded
      BY <2>1 DEF Process
    <2> QED
      BY <2>1, <2>2 DEF z
  <1>3. /\ procs' = [procs EXCEPT ![p] = x] /\ UNCHANGED <<execs, alone>>
    BY DEF E!Exited
  <1>3a. \/ /\ id \in DOMAIN sessions
            /\ sessions' = [i \in DOMAIN sessions \ {id} |-> sessions[i]]
            /\ forgotten' = forgotten \cup ({sessions[id]} \ {p})
         \/ id \notin DOMAIN sessions /\ UNCHANGED <<sessions, forgotten>>
    BY DEF E!Exited, E!Restrict
  <1> HIDE DEF x, id
  <1>4. /\ procs' \in Seq(Process) /\ Len(procs)' = Len(procs) /\ procs'[p] = x
        /\ \A q \in 1..Len(procs) : q # p => procs'[q] = procs[q]
    BY <1>1, <1>2, <1>3, Replaced
  <1>5. \A q \in 1..Len(procs)' : Trimmed(procs'[q].buffer, procs'[q].discarded)
    BY <1>1, <1>2, <1>3, <1>4
  <1>6. DOMAIN sessions' \subseteq Ids /\ \A i \in DOMAIN sessions' : sessions'[i] \in 1..Len(procs)'
    BY <1>1, <1>3a, <1>4
  <1>7. E!LiveIsReachable'
    <2> SUFFICES ASSUME NEW q \in 1..Len(procs)', procs'[q].state = "live", q \notin forgotten'
                 PROVE procs'[q].id \in DOMAIN sessions' /\ sessions'[procs'[q].id] = q
      BY DEF E!LiveIsReachable
    <2>1. q # p /\ procs'[q] = procs[q] /\ q \in 1..Len(procs)
      BY <1>2, <1>4
    <2>2. q \notin forgotten
      BY <1>3a
    <2>3. procs[q].id \in DOMAIN sessions /\ sessions[procs[q].id] = q
      BY <1>1, <2>1, <2>2 DEF E!LiveIsReachable
    <2>4. id \in DOMAIN sessions => procs[q].id # id
      BY <1>3a, <2>1, <2>3
    <2> QED
      BY <1>3a, <2>1, <2>3, <2>4
  <1>8. ProcsOK'
    BY <1>4, <1>5, <1>6, <1>7 DEF ProcsOK
  <1>9. CallsOK'
    <2>1. ASSUME NEW r \in Execs, NEW from \in Nat,
                 Follows(Whole(r), from, procs[p].input, procs[p].buffer, procs[p].discarded)
          PROVE  Follows(Whole(r), from, procs'[p].input, procs'[p].buffer, procs'[p].discarded)
      BY <1>2, <1>4, <2>1 DEF Follows
    <2> QED
      BY <1>1, <1>3, <1>4, <2>1, CallsStay
  <1> QED
    BY <1>8, <1>9 DEF ExecInv

LEMMA PrintsStep ==
  ASSUME ExecInv, NEW p \in 1..Len(procs), E!Prints(p)
  PROVE  ExecInv'
  <1>1. /\ procs \in Seq(Process) /\ Len(procs) \in Nat
        /\ \A i \in DOMAIN sessions : sessions[i] \in 1..Len(procs)
        /\ \A q \in 1..Len(procs) : Trimmed(procs[q].buffer, procs[q].discarded)
        /\ DOMAIN sessions \subseteq Ids /\ E!LiveIsReachable
    BY DEF ExecInv, ProcsOK
  <1> DEFINE y == [E!Trim(p, Append(procs[p].buffer, Head(procs[p].input)))
                     EXCEPT !.input = Tail(@)]
  <1>2. /\ procs' = [procs EXCEPT ![p] = y] /\ UNCHANGED <<sessions, execs, alone, forgotten>>
        /\ procs[p].input # <<>>
    BY DEF E!Prints
  <1>3. /\ y \in Process /\ y.id = procs[p].id /\ y.state = procs[p].state
        /\ Trimmed(y.buffer, y.discarded)
        /\ \A r \in Execs, from \in Nat :
              Follows(Whole(r), from, procs[p].input, procs[p].buffer, procs[p].discarded) =>
              Follows(Whole(r), from, y.input, y.buffer, y.discarded)
    <2> DEFINE z == procs[p]
    <2>0. z \in Process /\ Trimmed(z.buffer, z.discarded) /\ z.input # <<>>
      BY <1>1, <1>2
    <2>1. /\ z \in Process /\ Trimmed(z.buffer, z.discarded) /\ z.input # <<>>
          /\ z.input \in Seq(E!Item) /\ z.buffer \in Seq(E!Item) /\ z.discarded \in Nat
          /\ Tail(z.input) \in Seq(E!Item)
      <3> HIDE DEF z
      <3>1. z.input \in Seq(E!Item) /\ z.buffer \in Seq(E!Item) /\ z.discarded \in Nat
        BY <2>0 DEF Process
      <3>2. Tail(z.input) \in Seq(E!Item)
        BY <2>0, <3>1
      <3> QED
        BY <2>0, <3>1, <3>2
    <2> DEFINE st == Append(z.buffer, Head(z.input))
               drop == IF Len(st) > MaxBuffer THEN Len(st) - MaxBuffer ELSE 0
    <2>1a. Len(st) = Len(z.buffer) + 1
      <3> HIDE DEF z
      <3> QED
        BY <2>1
    <2>1b. y = [[z EXCEPT !.buffer = SubSeq(st, drop + 1, Len(st)),
                          !.discarded = z.discarded + drop] EXCEPT !.input = Tail(@)]
      BY DEF E!Trim
    <2>1c. drop = Drop(z.buffer) /\ SubSeq(st, drop + 1, Len(st)) = Kept(z.input, z.buffer)
      <3> HIDE DEF z
      <3>1. drop = Drop(z.buffer)
        <4>1. Len(z.buffer) \in Nat /\ MaxBuffer \in Nat
          BY <2>1, BufferAssumption
        <4> HIDE DEF st
        <4> QED
          BY <2>1a, <4>1 DEF Drop
      <3>2. Stream(z.input, z.buffer) = st
        BY DEF Stream
      <3> HIDE DEF st, drop
      <3> QED
        BY <3>1, <3>2 DEF Kept
    <2>2. y = [z EXCEPT !.buffer = Kept(z.input, z.buffer),
                        !.discarded = z.discarded + Drop(z.buffer),
                        !.input = Tail(z.input)]
      <3> HIDE DEF y, z, st, drop
      <3> QED
        BY <2>1b, <2>1c
    <2> HIDE DEF y, z
    <2>3. /\ Kept(z.input, z.buffer) \in Seq(E!Item)
          /\ z.discarded + Drop(z.buffer) \in Nat
          /\ Trimmed(Kept(z.input, z.buffer), z.discarded + Drop(z.buffer))
          /\ \A r \in Execs, from \in Nat :
                Follows(Whole(r), from, z.input, z.buffer, z.discarded) =>
                Follows(Whole(r), from, Tail(z.input), Kept(z.input, z.buffer),
                        z.discarded + Drop(z.buffer))
      BY <2>1, Printing
    <2>4. /\ y \in Process /\ y.id = z.id /\ y.state = z.state
          /\ y.buffer = Kept(z.input, z.buffer) /\ y.input = Tail(z.input)
          /\ y.discarded = z.discarded + Drop(z.buffer)
      BY <2>1, <2>2, <2>3 DEF Process
    <2> QED
      BY <2>3, <2>4 DEF z
  <1> HIDE DEF y
  <1>4. /\ procs' \in Seq(Process) /\ Len(procs)' = Len(procs) /\ procs'[p] = y
        /\ \A q \in 1..Len(procs) : q # p => procs'[q] = procs[q]
    BY <1>1, <1>2, <1>3, Replaced
  <1>5. \A q \in 1..Len(procs)' : Trimmed(procs'[q].buffer, procs'[q].discarded)
    BY <1>1, <1>2, <1>3, <1>4
  <1>6. E!LiveIsReachable'
    <2>1. \A q \in 1..Len(procs) : procs'[q].id = procs[q].id /\ procs'[q].state = procs[q].state
      BY <1>3, <1>4
    <2> QED
      BY <1>1, <1>2, <1>4, <2>1 DEF E!LiveIsReachable
  <1>7. ProcsOK'
    BY <1>1, <1>2, <1>4, <1>5, <1>6 DEF ProcsOK
  <1>8. CallsOK'
    BY <1>1, <1>2, <1>3, <1>4, CallsStay
  <1> QED
    BY <1>7, <1>8 DEF ExecInv

LEMMA RunStep ==
  ASSUME ExecInv, NEW r \in Execs, NEW id \in Ids, E!Run(r, id)
  PROVE  ExecInv'
  <1> DEFINE p == sessions[id]
             x == [procs[p] EXCEPT !.input = procs[p].input \o Whole(r)]
             now == procs[p].discarded + Len(procs[p].buffer)
             call == [at |-> "waiting", proc |-> p, from |-> now, output |-> <<>>]
  <1>1. /\ procs \in Seq(Process) /\ Len(procs) \in Nat
        /\ \A i \in DOMAIN sessions : sessions[i] \in 1..Len(procs)
        /\ \A q \in 1..Len(procs) : Trimmed(procs[q].buffer, procs[q].discarded)
        /\ DOMAIN sessions \subseteq Ids /\ E!LiveIsReachable
        /\ execs \in [Execs -> Answer] /\ alone \subseteq Execs /\ E!AloneIsExact
        /\ \A q \in Execs : execs[q].at # "idle" => execs[q].proc \in 1..Len(procs)
        /\ \A q \in alone : execs[q].at # "idle"
    BY DEF ExecInv, ProcsOK, CallsOK
  <1>2. /\ id \in DOMAIN sessions /\ p \in 1..Len(procs) /\ execs[r].at = "idle"
        /\ procs' = [procs EXCEPT ![p] = x] /\ UNCHANGED <<sessions, forgotten>>
        /\ execs' = [execs EXCEPT ![r] = call]
        /\ alone' = {q \in alone : execs[q].at # "waiting" \/ execs[q].proc # p}
                       \cup (IF E!Quiet(p) THEN {r} ELSE {})
    BY <1>1 DEF E!Run, Whole, E!Written
  <1>3. /\ procs[p] \in Process /\ x \in Process /\ x.id = procs[p].id
        /\ x.state = procs[p].state /\ x.input = procs[p].input \o Whole(r)
        /\ x.buffer = procs[p].buffer /\ x.discarded = procs[p].discarded
        /\ now \in Nat /\ procs[p].input \in Seq(E!Item)
    <2> DEFINE z == procs[p]
    <2>1. z \in Process
      BY <1>1, <1>2
    <2> HIDE DEF z
    <2>2. z.input \in Seq(E!Item) /\ z.buffer \in Seq(E!Item) /\ z.discarded \in Nat
      BY <2>1 DEF Process
    <2>3. z.input \o Whole(r) \in Seq(E!Item) /\ z.discarded + Len(z.buffer) \in Nat
      BY <2>2, WholeFacts
    <2>4. LET y == [z EXCEPT !.input = z.input \o Whole(r)]
          IN /\ y \in Process /\ y.id = z.id /\ y.state = z.state
             /\ y.input = z.input \o Whole(r)
             /\ y.buffer = z.buffer /\ y.discarded = z.discarded
      BY <2>1, <2>3 DEF Process
    <2> QED
      BY <2>1, <2>2, <2>3, <2>4 DEF z
  <1>4. call \in Answer
    BY <1>2, <1>3 DEF Answer, Answers
  <1>5. /\ execs' \in [Execs -> Answer] /\ execs'[r] = call
        /\ \A q \in Execs : q # r => execs'[q] = execs[q]
    <2> HIDE DEF call
    <2> QED
      BY <1>1, <1>2, <1>4
  <1>6. E!Quiet(p) => procs[p].input = <<>>
    BY DEF E!Quiet
  <1>7. /\ call.at = "waiting" /\ call.proc = p
        /\ call.from = procs[p].discarded + Len(procs[p].buffer)
    OBVIOUS
  <1> HIDE DEF x, p, now, call
  <1>8. /\ procs' \in Seq(Process) /\ Len(procs)' = Len(procs) /\ procs'[p] = x
        /\ \A q \in 1..Len(procs) : q # p => procs'[q] = procs[q]
    BY <1>1, <1>2, <1>3, Replaced
  <1>9. \A q \in 1..Len(procs)' : Trimmed(procs'[q].buffer, procs'[q].discarded)
    BY <1>1, <1>2, <1>3, <1>8
  <1>10. E!LiveIsReachable'
    <2>1. \A q \in 1..Len(procs) : procs'[q].id = procs[q].id /\ procs'[q].state = procs[q].state
      BY <1>3, <1>8
    <2> QED
      BY <1>1, <1>2, <1>8, <2>1 DEF E!LiveIsReachable
  <1>11. ProcsOK'
    BY <1>1, <1>2, <1>8, <1>9, <1>10 DEF ProcsOK
  <1>12. \A q \in Execs : execs'[q].at # "idle" => execs'[q].proc \in 1..Len(procs)'
    BY <1>1, <1>2, <1>5, <1>7, <1>8
  <1>13. alone' \subseteq Execs /\ \A q \in alone' : q = r \/ (q \in alone /\ q # r)
    BY <1>1, <1>2
  <1>14. ASSUME NEW q \in alone', execs'[q].at = "waiting"
         PROVE  LET y == procs'[execs'[q].proc]
                IN Follows(Whole(q), execs'[q].from, y.input, y.buffer, y.discarded)
    <2>1. CASE q = r
      <3>1. E!Quiet(p)
        BY <1>1, <1>2, <2>1
      <3>2. /\ execs'[q].proc = p /\ procs'[p].input = <<>> \o Whole(r)
            /\ procs'[p].buffer = procs[p].buffer
            /\ procs'[p].discarded = procs[p].discarded
            /\ execs'[q].from = procs[p].discarded + Len(procs[p].buffer)
        BY <1>3, <1>5, <1>6, <1>7, <1>8, <2>1, <3>1
      <3>3. <<>> \o Whole(r) = Whole(r)
        BY WholeFacts
      <3>4. procs[p].buffer \in Seq(E!Item) /\ procs[p].discarded \in Nat
        BY <1>3 DEF Process
      <3>5. ASSUME NEW b \in Seq(E!Item), NEW d \in Nat
            PROVE  Follows(Whole(r), d + Len(b), Whole(r), b, d)
        <4>1. Len(Whole(r)) \in Nat /\ Len(b) \in Nat /\ d + Len(b) - (d + Len(b)) = 0
          BY WholeFacts
        <4>2. \A i \in 1..Len(b) : ~(d + i > d + Len(b))
          BY <4>1
        <4>3. Len(Whole(r)) = Len(Whole(r)) - 0 /\ \A i \in 1..Len(Whole(r)) : 0 + i = i
          BY <4>1
        <4>4. 0 \in 0..Len(Whole(r))
          BY <4>1
        <4> QED
          BY <4>1, <4>2, <4>3, <4>4 DEF Follows
      <3>6. Follows(Whole(r), procs[p].discarded + Len(procs[p].buffer), Whole(r),
                    procs[p].buffer, procs[p].discarded)
        BY <3>4, <3>5
      <3> QED
        BY <2>1, <3>2, <3>3, <3>6
    <2>2. CASE q # r
      <3>1. q \in alone /\ execs'[q] = execs[q] /\ execs[q].at = "waiting"
        BY <1>1, <1>5, <1>13, <1>14, <2>2
      <3>2. execs[q].proc # p /\ execs[q].proc \in 1..Len(procs)
        BY <1>1, <1>2, <2>2, <3>1
      <3>3. procs'[execs[q].proc] = procs[execs[q].proc]
        BY <1>8, <3>2
      <3>4. LET y == procs[execs[q].proc]
            IN Follows(Whole(q), execs[q].from, y.input, y.buffer, y.discarded)
        BY <3>1 DEF ExecInv, CallsOK
      <3> QED
        BY <3>1, <3>3, <3>4
    <2> QED
      BY <2>1, <2>2
  <1>15. E!AloneIsExact'
    BY <1>1, <1>5, <1>7, <1>13 DEF E!AloneIsExact
  <1>16. \A q \in alone' : execs'[q].at # "idle"
    BY <1>1, <1>5, <1>7, <1>13
  <1>17. CallsOK'
    BY <1>5, <1>12, <1>13, <1>14, <1>15, <1>16 DEF CallsOK
  <1> QED
    BY <1>11, <1>17 DEF ExecInv

(* A call that waited ends: procs stay. *)
LEMMA Ending ==
  ASSUME ExecInv, NEW r \in Execs, NEW how \in {"done", "timed out"}, NEW out \in Answers,
         execs[r].at = "waiting", UNCHANGED <<sessions, procs, forgotten, alone>>,
         execs' = [execs EXCEPT ![r].at = how, ![r].output = out],
         how = "done" /\ r \in alone => out = E!Kept(E!Code(r))
  PROVE  ExecInv'
  <1>1. /\ execs \in [Execs -> Answer] /\ alone \subseteq Execs /\ E!AloneIsExact
        /\ \A q \in Execs : execs[q].at # "idle" => execs[q].proc \in 1..Len(procs)
        /\ \A q \in alone : execs[q].at # "idle"
        /\ \A q \in alone : execs[q].at = "waiting" =>
              LET x == procs[execs[q].proc]
              IN Follows(Whole(q), execs[q].from, x.input, x.buffer, x.discarded)
        /\ ProcsOK
    BY DEF ExecInv, CallsOK
  <1>2. /\ execs'[r].at = how /\ execs'[r].output = out /\ execs'[r].proc = execs[r].proc
        /\ execs' \in [Execs -> Answer]
        /\ \A q \in Execs : q # r => execs'[q] = execs[q]
    <2> DEFINE a == [execs[r] EXCEPT !.at = how, !.output = out]
    <2>1. a \in Answer /\ a.at = how /\ a.output = out /\ a.proc = execs[r].proc
      BY <1>1 DEF Answer
    <2>2. execs' = [execs EXCEPT ![r] = a]
      OBVIOUS
    <2> HIDE DEF a
    <2> QED
      BY <1>1, <2>1, <2>2
  <1>3. E!AloneIsExact'
    BY <1>1, <1>2 DEF E!AloneIsExact
  <1>4. CallsOK'
    BY <1>1, <1>2, <1>3 DEF CallsOK
  <1>5. ProcsOK'
    BY <1>1 DEF ProcsOK, E!LiveIsReachable
  <1> QED
    BY <1>4, <1>5 DEF ExecInv

(* What a run is shown, and, if it had its interpreter to itself, what it is *)
(* answered.                                                                 *)
LEMMA OutputTyped ==
  ASSUME ExecInv, NEW r \in Execs, execs[r].at = "waiting"
  PROVE  E!NewOutput(r) \in Seq(E!Item)
  <1> DEFINE x == procs[execs[r].proc]
             s == IF execs[r].from - x.discarded > 0
                  THEN execs[r].from - x.discarded ELSE 0
  <1>1. x \in Process /\ execs[r].from \in Nat
    <2>1. /\ execs[r] \in Answer /\ execs[r].proc \in 1..Len(procs)
          /\ procs \in Seq(Process)
      BY DEF ExecInv, ProcsOK, CallsOK
    <2>2. execs[r].from \in Nat
      BY <2>1 DEF Answer
    <2> QED
      BY <2>1, <2>2
  <1>2. x.buffer \in Seq(E!Item) /\ s \in Nat /\ Len(x.buffer) \in Nat
    <2> HIDE DEF x
    <2> QED
      BY <1>1 DEF Process
  <1>3. E!NewOutput(r) = SubSeq(x.buffer, s + 1, Len(x.buffer))
    BY DEF E!NewOutput
  <1> HIDE DEF x, s
  <1> QED
    BY <1>2, <1>3

LEMMA AloneAnswered ==
  ASSUME ExecInv, NEW r \in alone, execs[r].at = "waiting",
         E!HasSentinel(E!NewOutput(r))
  PROVE  E!UpToSentinel(E!NewOutput(r)) = E!Kept(E!Code(r))
  <1> DEFINE x == procs[execs[r].proc]
             from == execs[r].from
             s == IF from - x.discarded > 0 THEN from - x.discarded ELSE 0
             out == E!NewOutput(r)
  <1>1. /\ x \in Process /\ from \in Nat /\ Trimmed(x.buffer, x.discarded)
        /\ Follows(Whole(r), from, x.input, x.buffer, x.discarded) /\ r \in Execs
    <2>1. /\ r \in Execs /\ execs[r] \in Answer /\ execs[r].proc \in 1..Len(procs)
          /\ procs \in Seq(Process)
          /\ \A p \in 1..Len(procs) : Trimmed(procs[p].buffer, procs[p].discarded)
      BY DEF ExecInv, ProcsOK, CallsOK
    <2>2. execs[r].from \in Nat
      BY <2>1 DEF Answer
    <2>3. Follows(Whole(r), from, x.input, x.buffer, x.discarded)
      BY DEF ExecInv, CallsOK
    <2> QED
      BY <2>1, <2>2, <2>3
  <1>2. out = SubSeq(x.buffer, s + 1, Len(x.buffer))
    BY DEF E!NewOutput
  <1> HIDE DEF x, from, out
  <1>3. x.buffer \in Seq(E!Item) /\ x.discarded \in Nat /\ Len(x.buffer) \in Nat
    BY <1>1 DEF Process
  <1>4. x.discarded + Len(x.buffer) - from >= 0
    <2>1. /\ x.discarded + Len(x.buffer) - from \in 0..Len(Whole(r))
          /\ Len(Whole(r)) \in Nat
      BY <1>1, WholeFacts DEF Follows
    <2> QED
      BY <2>1
  <1>5. /\ s \in Nat /\ s <= Len(x.buffer)
        /\ s = from - x.discarded \/ (s = 0 /\ x.discarded >= from)
    BY <1>1, <1>3, <1>4
  <1> HIDE DEF s
  <1>6. s \in 0..Len(x.buffer)
    BY <1>3, <1>5
  <1>7. /\ out \in Seq(E!Item) /\ Len(out) = Len(x.buffer) - s
        /\ \A i \in 1..Len(x.buffer) - s : out[i] = x.buffer[i + s]
    BY <1>2, <1>3, <1>6, Suffix
  <1>8. E!HasSentinel(out)
    BY DEF out
  <1>9. E!UpToSentinel(out) = E!Kept(E!Code(r))
    BY <1>1, <1>3, <1>5, <1>7, <1>8, Answering
  <1> QED
    BY <1>9 DEF out

LEMMA InitExec == E!Init => ExecInv
  <1> SUFFICES ASSUME E!Init PROVE ExecInv
    OBVIOUS
  <1>1. /\ procs = <<>> /\ sessions = <<>> /\ alone = {}
        /\ execs = [r \in Execs |-> [at |-> "idle", proc |-> 0, from |-> 0, output |-> <<>>]]
    BY DEF E!Init
  <1>2. procs \in Seq(Process) /\ Len(procs) = 0 /\ DOMAIN sessions = {}
    BY <1>1
  <1>3. execs \in [Execs -> Answer] /\ \A r \in Execs : execs[r].at = "idle"
    <2>1. [at |-> "idle", proc |-> 0, from |-> 0, output |-> <<>>] \in Answer
      BY DEF Answer, Answers
    <2> QED
      BY <1>1, <2>1
  <1>4. ProcsOK
    BY <1>2 DEF ProcsOK, E!LiveIsReachable
  <1>5. CallsOK
    BY <1>1, <1>3 DEF CallsOK, E!AloneIsExact
  <1> QED
    BY <1>4, <1>5 DEF ExecInv

LEMMA NextExec == ExecInv /\ [E!Next]_execVars => ExecInv'
  <1> SUFFICES ASSUME ExecInv, [E!Next]_execVars PROVE ExecInv'
    OBVIOUS
  <1>1. ASSUME NEW id \in Ids, E!Start(id) PROVE ExecInv'
    BY <1>1, StartStep
  <1>2. ASSUME NEW id \in Ids, E!Close(id) PROVE ExecInv'
    BY <1>2, CloseStep
  <1>3. ASSUME NEW id \in Ids, NEW r \in Execs, E!Run(r, id) PROVE ExecInv'
    BY <1>3, RunStep
  <1>4. ASSUME NEW p \in 1..Len(procs), E!Exited(p) PROVE ExecInv'
    BY <1>4, ExitedStep
  <1>5. ASSUME NEW p \in 1..Len(procs), E!Prints(p) PROVE ExecInv'
    BY <1>5, PrintsStep
  <1>6. ASSUME NEW r \in Execs, E!Poll(r) PROVE ExecInv'
    <2> DEFINE out == E!UpToSentinel(E!NewOutput(r))
    <2>1. /\ execs[r].at = "waiting" /\ E!HasSentinel(E!NewOutput(r))
          /\ UNCHANGED <<sessions, procs, forgotten, alone>>
          /\ execs' = [execs EXCEPT ![r].at = "done", ![r].output = out]
      BY <1>6 DEF E!Poll
    <2>2. out \in Answers
      BY <2>1, OutputTyped DEF Answers
    <2>3. r \in alone => out = E!Kept(E!Code(r))
      BY <2>1, AloneAnswered
    <2> HIDE DEF out
    <2> QED
      BY <2>1, <2>2, <2>3, Ending
  <1>7. ASSUME NEW r \in Execs, E!TimeOut(r) PROVE ExecInv'
    <2> DEFINE out == E!NewOutput(r)
    <2>1. /\ execs[r].at = "waiting" /\ UNCHANGED <<sessions, procs, forgotten, alone>>
          /\ execs' = [execs EXCEPT ![r].at = "timed out", ![r].output = out]
      BY <1>7 DEF E!TimeOut
    <2>2. out \in Answers
      BY <2>1, OutputTyped DEF Answers
    <2> HIDE DEF out
    <2> QED
      BY <2>1, <2>2, Ending
  <1>8. ASSUME UNCHANGED execVars PROVE ExecInv'
    BY <1>8 DEF execVars, ExecInv, ProcsOK, CallsOK, E!LiveIsReachable, E!AloneIsExact
  <1> QED
    BY <1>1, <1>2, <1>3, <1>4, <1>5, <1>6, <1>7, <1>8 DEF E!Next

-----------------------------------------------------------------------------
(* The sandbox: unless a command failed or somebody stopped the container,   *)
(* it runs, or a call has created it and starts it next, or running is not   *)
(* set yet and who is about to create the container finds none.              *)

Brought == \/ container = "running"
           \/ \E v \in Users : at[v] = "starting"
           \/ ~running /\ (container = "none" \/ \A u \in Users : at[u] # "run")

BoxInv == E!BoxTypeOK /\ ~misled /\ (~broken => Brought)

LEMMA GoesOn ==
  ASSUME E!BoxTypeOK, ~misled, NEW u \in Users, E!Ready(u),
         ~broken' => \/ container' = "running"
                     \/ \E v \in Users \ {u} : at[v] = "starting"
  PROVE  /\ at' \in [Users -> {"idle", "exists?", "running?", "start", "run",
                               "starting", "exec"}]
         /\ misled' = FALSE
         /\ ~broken' => Brought'
  <1>1. /\ at' = [at EXCEPT ![u] = "exec"]
        /\ \A v \in Users \ {u} : at'[v] = at[v]
    BY DEF E!Ready, E!Go, E!BoxTypeOK
  <1>2. misled' = FALSE
    BY DEF E!Ready
  <1>3. ~broken' => Brought'
    BY <1>1 DEF Brought
  <1> QED
    BY <1>1, <1>2, <1>3 DEF E!BoxTypeOK

LEMMA NextBox == BoxInv /\ [E!BoxNext]_boxVars => BoxInv'
  <1> SUFFICES ASSUME BoxInv, [E!BoxNext]_boxVars PROVE BoxInv'
    OBVIOUS
  <1> USE BoxAssumption DEF BoxInv
  <1> DEFINE Places == {"idle", "exists?", "running?", "start", "run",
                        "starting", "exec"}
  <1>0. /\ container \in {"none", "stopped", "running"}
        /\ running \in BOOLEAN /\ broken \in BOOLEAN /\ misled = FALSE
        /\ at \in [Users -> Places] /\ uses \in 0..MaxUses
    BY DEF E!BoxTypeOK
  <1>1. ASSUME NEW u \in Users, E!Use(u) PROVE BoxInv'
    <2>1. /\ at[u] = "idle" /\ uses' \in 0..MaxUses
          /\ UNCHANGED <<container, running, broken>>
      BY <1>0, <1>1 DEF E!Use
    <2>2. CASE running
      <3>1. ~broken => \/ container = "running"
                       \/ \E v \in Users \ {u} : at[v] = "starting"
        BY <2>1, <2>2 DEF Brought
      <3>2. E!Ready(u)
        BY <1>1, <2>2 DEF E!Use
      <3>3. ~broken' => \/ container' = "running"
                        \/ \E v \in Users \ {u} : at[v] = "starting"
        BY <2>1, <3>1
      <3>4. at' \in [Users -> Places] /\ misled' = FALSE /\ (~broken' => Brought')
        BY <3>2, <3>3, GoesOn
      <3>5. running' = running
        BY <1>1 DEF E!Use
      <3> QED
        BY <1>0, <2>1, <3>4, <3>5 DEF E!BoxTypeOK
    <2>3. CASE ~running
      <3>1. at' = [at EXCEPT ![u] = "exists?"] /\ UNCHANGED misled
        BY <1>1, <2>3 DEF E!Use, E!Go
      <3>2. /\ at' \in [Users -> Places] /\ at'[u] = "exists?"
            /\ \A v \in Users \ {u} : at'[v] = at[v]
        BY <1>0, <3>1
      <3>3. ~broken => Brought'
        BY <2>1, <3>2 DEF Brought
      <3> QED
        BY <1>0, <2>1, <3>1, <3>2, <3>3 DEF E!BoxTypeOK
    <2> QED
      BY <2>2, <2>3
  <1>2. ASSUME NEW u \in Users, E!Inspect(u) PROVE BoxInv'
    <2>1. PICK ok \in BOOLEAN : /\ broken' = (broken \/ ~ok)
          /\ \/ /\ at[u] = "exists?"
                /\ E!Go(u, IF ok /\ container # "none" THEN "running?" ELSE "run")
                /\ UNCHANGED <<running, misled>>
             \/ /\ at[u] = "running?"
                /\ IF ok /\ container = "running"
                   THEN running' = TRUE /\ E!Ready(u)
                   ELSE E!Go(u, "start") /\ UNCHANGED <<running, misled>>
      BY <1>2 DEF E!Inspect
    <2>2. UNCHANGED <<container, uses>> /\ broken' \in BOOLEAN
      BY <1>0, <1>2, <2>1 DEF E!Inspect
    <2>3. CASE running' = TRUE /\ E!Ready(u) /\ container = "running"
      BY <1>0, <2>2, <2>3, GoesOn DEF E!BoxTypeOK
    <2>4. ASSUME NEW to \in {"running?", "run", "start"}, E!Go(u, to),
                 UNCHANGED <<running, misled>>, at[u] # "starting",
                 to = "run" /\ ~broken' => container = "none"
          PROVE  BoxInv'
      <3>1. /\ at' \in [Users -> Places] /\ at'[u] = to
            /\ \A v \in Users \ {u} : at'[v] = at[v]
        BY <1>0, <2>4 DEF E!Go
      <3>2. ~broken' => Brought'
        BY <2>1, <2>2, <2>4, <3>1 DEF Brought
      <3> QED
        BY <1>0, <2>2, <2>4, <3>1, <3>2 DEF E!BoxTypeOK
    <2>5. CASE /\ at[u] = "exists?"
               /\ E!Go(u, IF ok /\ container # "none" THEN "running?" ELSE "run")
               /\ UNCHANGED <<running, misled>>
      BY <2>1, <2>4, <2>5
    <2>6. CASE /\ at[u] = "running?" /\ E!Go(u, "start")
               /\ UNCHANGED <<running, misled>>
      BY <2>4, <2>6
    <2> QED
      BY <2>1, <2>3, <2>5, <2>6
  <1>3. ASSUME NEW u \in Users, E!Bring(u) PROVE BoxInv'
    <2>1. CASE E!StartContainer(u)
      BY <1>0, <2>1, GoesOn DEF E!StartContainer, E!BoxTypeOK
    <2>2. CASE E!Create(u)
      <3>1. /\ at' \in [Users -> Places] /\ at'[u] = "starting"
        BY <1>0, <2>2 DEF E!Create, E!Go
      <3> QED
        BY <1>0, <2>2, <3>1 DEF E!Create, E!BoxTypeOK, Brought
    <2>3. CASE E!Refused(u)
      <3>1. ~broken => \/ container = "running"
                       \/ \E v \in Users \ {u} : at[v] = "starting"
        BY <2>3 DEF Brought, E!Refused
      <3> QED
        BY <1>0, <2>3, <3>1, GoesOn DEF E!Refused, E!BoxTypeOK
    <2>4. CASE E!Fails(u)
      <3>1. broken' = TRUE /\ UNCHANGED <<container, uses>>
        BY <2>4 DEF E!Fails
      <3>2. CASE running' = TRUE /\ E!Ready(u)
        BY <1>0, <3>1, <3>2, GoesOn DEF E!BoxTypeOK
      <3>3. CASE E!Go(u, "idle") /\ UNCHANGED <<running, misled>>
        BY <1>0, <3>1, <3>3 DEF E!BoxTypeOK, E!Go
      <3> QED
        BY <2>4, <3>2, <3>3 DEF E!Fails
    <2> QED
      BY <1>3, <2>1, <2>2, <2>3, <2>4 DEF E!Bring
  <1>4. ASSUME NEW u \in Users, E!Exec(u) PROVE BoxInv'
    <2>1. /\ at[u] = "exec" /\ at' = [at EXCEPT ![u] = "idle"]
          /\ UNCHANGED <<container, running, uses, broken, misled>>
      BY <1>4 DEF E!Exec, E!Go
    <2>2. /\ at' \in [Users -> Places] /\ at'[u] = "idle"
          /\ \A v \in Users \ {u} : at'[v] = at[v]
      BY <1>0, <2>1
    <2>3. ~broken => Brought'
      BY <2>1, <2>2 DEF Brought
    <2> QED
      BY <1>0, <2>1, <2>2, <2>3 DEF E!BoxTypeOK
  <1>5. CASE E!ContainerEnds
    BY <1>5 DEF E!ContainerEnds, E!BoxTypeOK
  <1>6. CASE UNCHANGED boxVars
    BY <1>6 DEF boxVars, E!BoxTypeOK, Brought
  <1> QED
    BY <1>1, <1>2, <1>3, <1>4, <1>5, <1>6 DEF E!BoxNext, boxVars

LEMMA InitBox == E!BoxInit => BoxInv
  <1>1. ASSUME E!BoxInit PROVE E!BoxTypeOK
    <2>1. uses \in 0..MaxUses
      BY <1>1, BoxAssumption DEF E!BoxInit
    <2> QED
      BY <1>1, <2>1 DEF E!BoxInit, E!BoxTypeOK
  <1> QED
    BY <1>1 DEF E!BoxInit, BoxInv, Brought
-----------------------------------------------------------------------------
(* The refresh tokens: what a request read is at most what is stored, which  *)
(* is what the issuer takes, unless one request holds a newer one.  An issuer *)
(* that does not rotate has one token.                                       *)

Older == \A k \in Requests :
    /\ req[k].base <= stored.refresh
    /\ req[k].at = "answered" => /\ stored.refresh < issuer.refresh
                                 /\ req[k].given = issuer.refresh
                                 /\ \A other \in Requests \ {k} :
                                       req[other].at # "answered"

TokenInv ==
    /\ M!TokenTypeOK
    /\ issuer.rotates => issuer.refresh = issuer.count + 1
    /\ ~issuer.rotates => /\ issuer.refresh = 1 /\ stored.refresh = 1
                          /\ \A k \in Requests : req[k].base = 1
    /\ issuer.rotates /\ ~lost => Older /\ stored.refresh <= issuer.refresh
                                /\ M!RefreshTokenIsGood

LEMMA FailsTokens ==
  ASSUME TokenInv, NEW k \in Requests, M!Failed(k),
         UNCHANGED <<stored, issuer, posts>>, lost' \in {lost, TRUE},
         req[k].at # "answered" \/ lost'
  PROVE  TokenInv'
  <1>1. /\ connected' \in BOOLEAN /\ lost' \in BOOLEAN
        /\ req' = [req EXCEPT ![k].at = "idle"]
    BY DEF M!Failed, TokenInv, M!TokenTypeOK
  <1>2. /\ \A i \in Requests : /\ req'[i].base = req[i].base
                               /\ req'[i].given = req[i].given
        /\ req'[k].at = "idle" /\ \A i \in Requests \ {k} : req'[i] = req[i]
    BY <1>1 DEF TokenInv, M!TokenTypeOK
  <1>3. M!TokenTypeOK'
    BY <1>1 DEF TokenInv, M!TokenTypeOK
  <1>4. CASE issuer.rotates /\ ~lost'
    <2>1. Older /\ M!RefreshTokenIsGood /\ req[k].at # "answered"
      BY <1>4 DEF TokenInv
    <2>2. \A i \in Requests : req'[i].at = "answered" <=> req[i].at = "answered"
      BY <1>2, <2>1
    <2>3. Older'
      BY <1>2, <2>1, <2>2 DEF Older
    <2>4. M!RefreshTokenIsGood'
      BY <1>4, <2>1, <2>2 DEF M!RefreshTokenIsGood
    <2> QED
      BY <1>2, <1>3, <1>4, <2>3, <2>4 DEF TokenInv
  <1> QED
    BY <1>2, <1>3, <1>4 DEF TokenInv

LEMMA NextTokens == TokenInv /\ [M!TokenNext]_tokenVars => TokenInv'
  <1> SUFFICES ASSUME TokenInv, [M!TokenNext]_tokenVars PROVE TokenInv'
    OBVIOUS
  <1> DEFINE Request == [at : {"idle", "refresh", "answered", "post"},
                         base : M!Token, given : M!Token]
  <1>1. /\ stored \in [refresh : M!Token, expiring : BOOLEAN]
        /\ issuer \in [refresh : M!Token, rotates : BOOLEAN,
                       count : 0..MaxRefreshes]
        /\ connected \in BOOLEAN /\ lost \in BOOLEAN
        /\ req \in [Requests -> Request] /\ posts \in 0..MaxPosts
        /\ M!Token \subseteq Nat
    BY DEF TokenInv, M!TokenTypeOK, M!Token
  <1> USE DEF TokenInv, M!TokenTypeOK
  <1>2. CASE M!Expires
    BY <1>1, <1>2 DEF M!Expires, Older, M!RefreshTokenIsGood
  <1>3. CASE M!Reconnect
    BY <1>1, <1>3 DEF M!Reconnect, Older, M!RefreshTokenIsGood
  <1>4. ASSUME NEW k \in Requests, M!Headers(k) PROVE TokenInv'
    <2> DEFINE new == [at |-> IF stored.expiring THEN "refresh" ELSE "post",
                       base |-> stored.refresh, given |-> req[k].given]
    <2>1. /\ req[k].at = "idle" /\ posts < MaxPosts /\ posts' = posts + 1
          /\ UNCHANGED <<stored, issuer, connected, lost>>
          /\ req' = [req EXCEPT ![k] = new]
      BY <1>4 DEF M!Headers
    <2>2. new \in Request /\ new.at # "answered" /\ new.base = stored.refresh
      BY <1>1
    <2> HIDE DEF new
    <2>3. M!TokenTypeOK'
      BY <1>1, <2>1, <2>2, TokenAssumption
    <2>4. /\ req'[k] = new /\ \A i \in Requests : i # k => req'[i] = req[i]
      BY <1>1, <2>1
    <2>5. ASSUME issuer.rotates, ~lost PROVE Older' /\ M!RefreshTokenIsGood'
      <3>1. Older /\ M!RefreshTokenIsGood
        BY <2>5
      <3>2. Older'
        <4>1. /\ stored'.refresh = stored.refresh /\ stored.refresh \in Nat
              /\ issuer' = issuer
          BY <1>1, <2>1
        <4>2. \A i \in Requests : req'[i].base <= stored.refresh
          BY <2>2, <2>4, <3>1, <4>1 DEF Older
        <4>3. \A i \in Requests : req'[i].at = "answered" => req'[i] = req[i]
          BY <2>2, <2>4
        <4> QED
          BY <3>1, <4>1, <4>2, <4>3 DEF Older
      <3>3. M!RefreshTokenIsGood'
        BY <2>1, <2>2, <2>4, <3>1 DEF M!RefreshTokenIsGood
      <3> QED
        BY <3>2, <3>3
    <2> QED
      BY <1>1, <2>1, <2>2, <2>3, <2>4, <2>5
  <1>5. ASSUME NEW k \in Requests, M!Refresh(k) PROVE TokenInv'
    <2>1. /\ UNCHANGED <<stored, posts>> /\ connected' \in BOOLEAN
          /\ req[k].at = "refresh" /\ req[k] \in Request
      BY <1>1, <1>5 DEF M!Refresh, M!Failed
    <2>2. CASE UNCHANGED issuer /\ lost' \in {lost, TRUE} /\ M!Failed(k)
      BY <2>1, <2>2, FailsTokens
    <2>4. /\ issuer.refresh \in M!Token /\ issuer.count \in 0..MaxRefreshes
          /\ issuer.rotates \in BOOLEAN
      BY <1>1
    <2> DEFINE next == IF issuer.rotates THEN issuer.count + 2 ELSE issuer.refresh
    <2>3. CASE /\ req[k].base = issuer.refresh /\ issuer.count < MaxRefreshes
               /\ issuer' = [issuer EXCEPT !.refresh = next, !.count = @ + 1]
               /\ \/ /\ UNCHANGED lost
                     /\ req' = [req EXCEPT ![k].at = "answered", ![k].given = next]
                  \/ M!Failed(k) /\ lost' = TRUE
      <3>0. req' \in {[req EXCEPT ![k].at = "answered", ![k].given = next],
                      [req EXCEPT ![k].at = "idle"]}
        BY <2>3 DEF M!Failed
      <3>1. next \in M!Token /\ issuer.count + 1 \in 0..MaxRefreshes
        BY <2>3, <2>4, TokenAssumption DEF M!Token
      <3>2. /\ issuer'.refresh = next /\ issuer'.count = issuer.count + 1
            /\ issuer'.rotates = issuer.rotates
        BY <1>1, <2>3
      <3>3. M!TokenTypeOK'
        <4>1. issuer' \in [refresh : M!Token, rotates : BOOLEAN,
                            count : 0..MaxRefreshes]
          BY <2>3, <2>4, <3>1, <1>1
        <4>2. req' \in [Requests -> Request]
          BY <1>1, <2>1, <3>0, <3>1
        <4> QED
          BY <1>1, <2>1, <2>3, <4>1, <4>2
      <3>4. \A i \in Requests : req'[i].base = req[i].base
        BY <1>1, <3>0
      <3>5. CASE issuer.rotates /\ ~lost'
        <4>1. /\ req' = [req EXCEPT ![k].at = "answered", ![k].given = next]
              /\ ~lost
          BY <2>3, <3>5
        <4>2. /\ req'[k].at = "answered" /\ req'[k].given = next
              /\ \A i \in Requests : i # k => req'[i] = req[i]
          BY <1>1, <4>1
        <4>3. stored.refresh = issuer.refresh /\ stored.refresh < next
          BY <1>1, <2>1, <2>3, <2>4, <3>5, <4>1 DEF Older
        <4>4. \A i \in Requests : req[i].at # "answered"
          BY <1>1, <3>5, <4>1, <4>3 DEF Older
        <4>5. Older'
          BY <2>1, <3>2, <3>4, <3>5, <4>1, <4>2, <4>3, <4>4, <1>1 DEF Older
        <4>6. M!RefreshTokenIsGood' /\ stored'.refresh <= issuer'.refresh
          BY <2>1, <3>2, <4>2, <4>3, <1>1 DEF M!RefreshTokenIsGood
        <4>7. issuer'.rotates /\ next = issuer.count + 2
          BY <3>2, <3>5
        <4> QED
          BY <1>1, <3>2, <3>3, <3>5, <4>5, <4>6, <4>7
      <3>6. CASE issuer.rotates /\ lost'
        BY <1>1, <2>1, <3>2, <3>3, <3>4, <3>6
      <3>7. CASE ~issuer.rotates
        BY <1>1, <2>1, <3>2, <3>3, <3>4, <3>7
      <3> QED
        BY <3>5, <3>6, <3>7
    <2> QED
      BY <1>5, <2>2, <2>3 DEF M!Refresh
  <1>6. ASSUME NEW k \in Requests, M!Persist(k) PROVE TokenInv'
    <2> SUFFICES ASSUME UNCHANGED <<connected, lost>>,
                        req' = [req EXCEPT ![k].at = "post"],
                        stored' = [refresh |-> IF issuer.rotates
                                               THEN req[k].given ELSE req[k].base,
                                   expiring |-> FALSE]
                 PROVE  TokenInv'
      <3>1. ASSUME M!Failed(k), lost' = TRUE, UNCHANGED <<issuer, stored, posts>>
            PROVE  TokenInv'
        BY <3>1, FailsTokens
      <3> QED
        BY <1>6, <3>1 DEF M!Persist
    <2>1. /\ req[k].at = "answered" /\ req[k] \in Request
          /\ UNCHANGED <<issuer, connected, posts, lost>>
          /\ req' = [req EXCEPT ![k].at = "post"]
          /\ stored' = [refresh |-> IF issuer.rotates THEN req[k].given
                                                      ELSE req[k].base,
                        expiring |-> FALSE]
      BY <1>1, <1>6 DEF M!Persist
    <2>2. M!TokenTypeOK'
      BY <1>1, <2>1
    <2>3. /\ \A i \in Requests : req'[i].base = req[i].base
          /\ req'[k].at = "post"
          /\ \A i \in Requests : i # k => req'[i] = req[i]
      BY <1>1, <2>1
    <2>4. CASE issuer.rotates /\ ~lost
      <3>1. /\ stored'.refresh = issuer.refresh /\ stored.refresh < issuer.refresh
            /\ \A i \in Requests : req'[i].at # "answered"
        BY <2>1, <2>3, <2>4 DEF Older
      <3> QED
        BY <1>1, <2>1, <2>2, <2>3, <2>4, <3>1 DEF Older, M!RefreshTokenIsGood
    <2> QED
      BY <1>1, <2>1, <2>2, <2>3, <2>4
  <1>7. ASSUME NEW k \in Requests, M!Post(k) PROVE TokenInv'
    BY <1>7, FailsTokens DEF M!Post
  <1>8. CASE UNCHANGED tokenVars
    BY <1>1, <1>8 DEF tokenVars, Older, M!RefreshTokenIsGood
  <1> QED
    BY <1>2, <1>3, <1>4, <1>5, <1>6, <1>7, <1>8 DEF M!TokenNext, tokenVars

LEMMA InitTokens == M!TokenInit => TokenInv
  <1> SUFFICES ASSUME M!TokenInit PROVE TokenInv
    OBVIOUS
  <1>1. PICK rotates \in BOOLEAN :
           issuer = [refresh |-> 1, rotates |-> rotates, count |-> 0]
    BY DEF M!TokenInit
  <1>2. /\ stored = [refresh |-> 1, expiring |-> FALSE]
        /\ connected = TRUE /\ lost = FALSE /\ posts = 0
        /\ req = [k \in Requests |-> [at |-> "idle", base |-> 1, given |-> 1]]
    BY DEF M!TokenInit
  <1>3. 1 \in M!Token /\ 0 \in 0..MaxRefreshes /\ 0 \in 0..MaxPosts
    BY TokenAssumption DEF M!Token
  <1>4. M!TokenTypeOK
    BY <1>1, <1>2, <1>3 DEF M!TokenTypeOK
  <1>5. Older /\ M!RefreshTokenIsGood
    BY <1>1, <1>2 DEF Older, M!RefreshTokenIsGood
  <1> QED
    BY <1>1, <1>2, <1>4, <1>5 DEF TokenInv

LEMMA TokensMean == TokenInv => M!RefreshTokenIsGood
  BY DEF TokenInv, M!RefreshTokenIsGood

-----------------------------------------------------------------------------
Everyone == M!Everyone
Pendings == UNION {[D -> Everyone] : D \in SUBSET Nat}
Client == [open : BOOLEAN, alive : BOOLEAN, nextId : Nat \ {0}, pending : Pendings]
Methods == M!Asking \cup {"idle"}
Call == [at : M!Asking \cup M!Rest \cup {"waiting"}, client : Nat, id : Nat,
         n : Nat, got : Methods \X Nat]

(* The calls ks, the clients cs and what the processes have in hand, as, fit *)
(* together, but for the callers K whose request was just taken out.         *)
Kinds(ks, cs, as) ==
    /\ ks \in [Everyone -> Call] /\ cs \in Seq(Client)
    /\ as \subseteq Nat \X Nat \X (Methods \X Nat)
    /\ \A c \in 1..Len(cs) : /\ DOMAIN cs[c].pending \subseteq 1..cs[c].nextId - 1
                             /\ cs[c].alive => cs[c].open
Pending(ks, cs, K) ==
    \A k \in Everyone \ K : ks[k].at \in M!Asking =>
        /\ ks[k].client \in 1..Len(cs)
        /\ ks[k].id \in DOMAIN cs[ks[k].client].pending
        /\ cs[ks[k].client].pending[ks[k].id] = k
Waits(ks, cs, K) ==
    \A c \in 1..Len(cs) : \A id \in DOMAIN cs[c].pending :
        LET k == cs[c].pending[id]
        IN k \notin K /\ ks[k].at \in M!Asking /\ ks[k].client = c /\ ks[k].id = id
Own(ks, cs, as) ==
    \A m \in as :
        /\ m[1] \in 1..Len(cs) /\ m[2] < cs[m[1]].nextId
        /\ m[2] \in DOMAIN cs[m[1]].pending =>
              LET k == cs[m[1]].pending[m[2]] IN m[3] = <<ks[k].at, ks[k].n>>
Answered(ks) ==
    \A k \in Callers : ks[k].at = "answered" => ks[k].got = <<"call", ks[k].n>>
Settled(ks, cs, as, K) ==
    Kinds(ks, cs, as) /\ Pending(ks, cs, K) /\ Waits(ks, cs, K) /\ Own(ks, cs, as)
    /\ Answered(ks)

LEMMA Pend ==
  ASSUME NEW f \in Pendings, NEW k \in Everyone, NEW ids, ids \subseteq DOMAIN f, NEW id \in Nat
  PROVE  /\ DOMAIN f \subseteq Nat /\ \A i \in DOMAIN f : f[i] \in Everyone
         /\ [i \in ids |-> f[i]] \in Pendings
         /\ [i \in DOMAIN f \cup {id} |-> IF i = id THEN k ELSE f[i]] \in Pendings
         /\ <<>> \in Pendings /\ DOMAIN <<>> = {}
  <1>1. PICK D \in SUBSET Nat : f \in [D -> Everyone]
    BY DEF Pendings
  <1>2. DOMAIN f = D /\ \A i \in DOMAIN f : f[i] \in Everyone
    BY <1>1
  <1>3. [i \in ids |-> f[i]] \in [ids -> Everyone]
    BY <1>2
  <1>4. [i \in DOMAIN f \cup {id} |-> IF i = id THEN k ELSE f[i]] \in [DOMAIN f \cup {id} -> Everyone]
    BY <1>2
  <1>5. <<>> \in [{} -> Everyone] /\ DOMAIN <<>> = {}
    OBVIOUS
  <1>6. ids \in SUBSET Nat /\ DOMAIN f \cup {id} \in SUBSET Nat /\ {} \in SUBSET Nat
    BY <1>1, <1>2
  <1> QED
    BY <1>2, <1>3, <1>4, <1>5, <1>6 DEF Pendings

LEMMA CallFields ==
  ASSUME NEW a \in Call
  PROVE  /\ a.n \in Nat /\ a.client \in Nat /\ a.id \in Nat /\ a.got \in Methods \X Nat
         /\ a.at \in M!Asking \cup M!Rest \cup {"waiting"}
  BY DEF Call

LEMMA CallMoves ==
  ASSUME NEW a \in Call, NEW how \in M!Asking \cup M!Rest \cup {"waiting"}, NEW b,
         b = [a EXCEPT !.at = how]
  PROVE  /\ b \in Call /\ b.at = how /\ b.n = a.n /\ b.client = a.client /\ b.got = a.got
         /\ b.id = a.id
  BY DEF Call

LEMMA ClientFields ==
  ASSUME NEW x \in Client
  PROVE  /\ x.open \in BOOLEAN /\ x.alive \in BOOLEAN /\ x.nextId \in Nat \ {0}
         /\ x.pending \in Pendings
  BY DEF Client

LEMMA ClientMoves ==
  ASSUME NEW x \in Client, NEW p \in Pendings, NEW n \in Nat \ {0}, NEW o \in BOOLEAN,
         NEW l \in BOOLEAN, NEW y,
         \/ y = [x EXCEPT !.pending = p] /\ o = x.open /\ l = x.alive /\ n = x.nextId
         \/ y = [x EXCEPT !.pending = p, !.open = o] /\ l = x.alive /\ n = x.nextId
         \/ y = [x EXCEPT !.open = o, !.alive = l, !.pending = p] /\ n = x.nextId
         \/ y = [x EXCEPT !.alive = l] /\ o = x.open /\ p = x.pending /\ n = x.nextId
  PROVE  y \in Client /\ y.nextId = n /\ y.pending = p /\ y.open = o /\ y.alive = l
  BY DEF Client

LEMMA Pended ==
  ASSUME NEW ks, NEW cs, NEW as, NEW K, Settled(ks, cs, as, K), NEW c \in 1..Len(cs)
  PROVE  /\ cs[c] \in Client
         /\ \A id \in DOMAIN cs[c].pending : cs[c].pending[id] \in Everyone \ K /\ id \in Nat
  <1>1. cs[c] \in Client
    BY DEF Settled, Kinds
  <1>2. cs[c].pending \in Pendings
    BY <1>1, ClientFields
  <1>3. \A f \in Pendings : \A id \in DOMAIN f : f[id] \in Everyone /\ id \in Nat
    BY DEF Pendings
  <1>4. \A id \in DOMAIN cs[c].pending : cs[c].pending[id] \notin K
    BY DEF Settled, Waits
  <1> QED
    BY <1>1, <1>2, <1>3, <1>4

LEMMA RequestSettles ==
  ASSUME NEW ks, NEW cs, NEW as, NEW k \in Everyone, Settled(ks, cs, as, {k}),
         NEW c \in 1..Len(cs), NEW how \in M!Asking, M!Request(ks, cs, as, k, c, how)
  PROVE  Settled(calls', clients', asked', {})
  <1> DEFINE x == cs[c]
             new == [i \in DOMAIN x.pending \cup {x.nextId} |->
                        IF i = x.nextId THEN k ELSE x.pending[i]]
             y == [x EXCEPT !.nextId = x.nextId + 1, !.pending = new]
  <1>0. /\ ks \in [Everyone -> Call] /\ cs \in Seq(Client)
        /\ as \subseteq Nat \X Nat \X (Methods \X Nat)
        /\ \A d \in 1..Len(cs) : /\ DOMAIN cs[d].pending \subseteq 1..cs[d].nextId - 1
                                 /\ cs[d].alive => cs[d].open
    BY DEF Settled, Kinds
  <1>1. /\ ks \in [Everyone -> Call] /\ cs \in Seq(Client) /\ x \in Client
        /\ as \subseteq Nat \X Nat \X (Methods \X Nat)
        /\ \A d \in 1..Len(cs) : /\ DOMAIN cs[d].pending \subseteq 1..cs[d].nextId - 1
                                 /\ cs[d].alive => cs[d].open
    <2>1. cs[c] \in Client
      BY <1>0
    <2> QED
      BY <1>0, <2>1
  <1>2. Pending(ks, cs, {k}) /\ Waits(ks, cs, {k}) /\ Own(ks, cs, as) /\ Answered(ks)
    BY DEF Settled
  <1>3. \A d \in 1..Len(cs) : /\ cs[d].nextId \in Nat
                              /\ \A id \in DOMAIN cs[d].pending :
                                     cs[d].pending[id] \in Everyone \ {k}
    BY Pended, ClientFields
  <1>4. CASE ~x.open
    <2>1. /\ clients' = cs /\ asked' = as
          /\ calls' = [ks EXCEPT ![k] = [ks[k] EXCEPT !.at = "failed"]]
      BY <1>4 DEF M!Request, M!NextId
    <2>2. /\ calls' \in [Everyone -> Call] /\ calls'[k].at = "failed"
          /\ \A j \in Everyone : j # k => calls'[j] = ks[j]
      <3> DEFINE a == [ks[k] EXCEPT !.at = "failed"]
      <3>1. a \in Call /\ a.at = "failed"
        <4>1. ks[k] \in Call /\ "failed" \in M!Rest
          BY <1>1 DEF M!Rest
        <4> QED
          BY <4>1, CallMoves
      <3> HIDE DEF a
      <3> QED
        BY <1>1, <2>1, <3>1 DEF a
    <2>3. Pending(calls', clients', {})
      BY <1>2, <2>1, <2>2 DEF Pending, M!Asking
    <2>4. Waits(calls', clients', {})
      <3> SUFFICES ASSUME NEW d \in 1..Len(cs), NEW id \in DOMAIN cs[d].pending
                   PROVE  LET j == cs[d].pending[id]
                          IN calls'[j].at \in M!Asking /\ calls'[j].client = d
                             /\ calls'[j].id = id
        BY <2>1 DEF Waits
      <3>1. cs[d].pending[id] \in Everyone
        BY Pended
      <3> QED
        BY <1>2, <2>2, <3>1 DEF Waits
    <2>5. Own(calls', clients', asked')
      <3> SUFFICES ASSUME NEW m \in as, m[2] \in DOMAIN cs[m[1]].pending
                   PROVE  LET j == cs[m[1]].pending[m[2]]
                          IN m[3] = <<calls'[j].at, calls'[j].n>>
        BY <1>2, <2>1 DEF Own
      <3>1. m[1] \in 1..Len(cs) /\ cs[m[1]].pending[m[2]] \in Everyone \ {k}
        <4>1. m[1] \in 1..Len(cs)
          BY <1>2 DEF Own
        <4> QED
          BY <4>1, <1>3
      <3> QED
        BY <1>2, <2>2, <3>1 DEF Own
    <2>6. Answered(calls')
      BY <1>1, <1>2, <2>2 DEF Answered, Everyone, M!Everyone
    <2> QED
      BY <1>1, <2>1, <2>2, <2>3, <2>4, <2>5, <2>6 DEF Settled, Kinds
  <1>5. CASE x.open
    <2>1. /\ calls' = [ks EXCEPT ![k] = [ks[k] EXCEPT !.at = how, !.client = c,
                                                      !.id = x.nextId]]
          /\ clients' = [cs EXCEPT ![c] = y]
          /\ asked' \subseteq as \cup {<<c, x.nextId, <<how, ks[k].n>>>>}
      BY <1>5 DEF M!Request, M!NextId
    <2>2. /\ x.nextId \in Nat \ {0} /\ DOMAIN x.pending \subseteq 1..x.nextId - 1
          /\ x.pending \in Pendings /\ new \in Pendings
          /\ DOMAIN new = DOMAIN x.pending \cup {x.nextId} /\ new[x.nextId] = k
          /\ \A i \in DOMAIN x.pending : i # x.nextId /\ new[i] = x.pending[i]
      <3>1. x.nextId \in Nat \ {0} /\ x.pending \in Pendings
        BY <1>1, ClientFields
      <3>2. new \in Pendings
        <4> HIDE DEF x
        <4> QED
          BY <3>1, Pend
      <3>3. \A i \in DOMAIN x.pending : i # x.nextId
        BY <1>1, <3>1
      <3> QED
        BY <1>1, <3>1, <3>2, <3>3
    <2> HIDE DEF new
    <2>3. /\ y \in Client /\ y.nextId = x.nextId + 1 /\ y.pending = new
          /\ y.open = x.open /\ y.alive = x.alive
      <3> HIDE DEF x
      <3>1. x \in Client /\ x.nextId + 1 \in Nat \ {0}
        BY <1>1, <2>2
      <3> QED
        BY <2>2, <3>1 DEF Client
    <2>4. /\ calls' \in [Everyone -> Call] /\ calls'[k].at = how /\ calls'[k].client = c
          /\ calls'[k].id = x.nextId /\ calls'[k].n = ks[k].n
          /\ \A j \in Everyone : j # k => calls'[j] = ks[j]
      <3> DEFINE a == [ks[k] EXCEPT !.at = how, !.client = c, !.id = x.nextId]
      <3>1. /\ a \in Call /\ a.at = how /\ a.client = c /\ a.id = x.nextId
            /\ a.n = ks[k].n
        <4>1. c \in Nat /\ x.nextId \in Nat /\ ks[k] \in Call
          BY <1>1, <2>2
        <4> HIDE DEF x
        <4> QED
          BY <4>1 DEF Call
      <3> HIDE DEF a
      <3> QED
        BY <1>1, <2>1, <3>1 DEF a
    <2> HIDE DEF y
    <2>5. /\ clients' \in Seq(Client) /\ Len(clients') = Len(cs) /\ clients'[c] = y
          /\ \A d \in 1..Len(cs) : d # c => clients'[d] = cs[d]
      BY <1>1, <2>1, <2>3
    <2>6. \A d \in 1..Len(cs) : /\ DOMAIN clients'[d].pending \subseteq 1..clients'[d].nextId - 1
                                /\ clients'[d].alive => clients'[d].open
      <3> SUFFICES ASSUME NEW d \in 1..Len(cs)
                   PROVE  /\ DOMAIN clients'[d].pending \subseteq 1..clients'[d].nextId - 1
                          /\ clients'[d].alive => clients'[d].open
        OBVIOUS
      <3>1. CASE d = c
        <4>1. DOMAIN new \subseteq 1..(x.nextId + 1) - 1
          BY <2>2
        <4> QED
          BY <1>1, <2>3, <2>5, <3>1, <4>1
      <3>2. CASE d # c
        BY <1>1, <2>5, <3>2
      <3> QED
        BY <3>1, <3>2
    <2>7. Pending(calls', clients', {})
      <3> SUFFICES ASSUME NEW j \in Everyone, calls'[j].at \in M!Asking
                   PROVE  /\ calls'[j].client \in 1..Len(clients')
                          /\ calls'[j].id \in DOMAIN clients'[calls'[j].client].pending
                          /\ clients'[calls'[j].client].pending[calls'[j].id] = j
        BY DEF Pending
      <3>1. CASE j = k
        BY <2>2, <2>3, <2>4, <2>5, <3>1
      <3>2. CASE j # k
        <4>1. /\ ks[j].client \in 1..Len(cs) /\ ks[j].id \in DOMAIN cs[ks[j].client].pending
              /\ cs[ks[j].client].pending[ks[j].id] = j /\ calls'[j] = ks[j]
          BY <1>2, <2>4, <3>2 DEF Pending
        <4>2. CASE ks[j].client = c
          BY <2>2, <2>3, <2>5, <4>1, <4>2
        <4>3. CASE ks[j].client # c
          BY <2>5, <4>1, <4>3
        <4> QED
          BY <4>2, <4>3
      <3> QED
        BY <3>1, <3>2
    <2>8. Waits(calls', clients', {})
      <3> SUFFICES ASSUME NEW d \in 1..Len(cs), NEW id \in DOMAIN clients'[d].pending
                   PROVE  LET j == clients'[d].pending[id]
                          IN calls'[j].at \in M!Asking /\ calls'[j].client = d
                             /\ calls'[j].id = id
        BY <2>5 DEF Waits
      <3>1. CASE d = c /\ id = x.nextId
        BY <2>2, <2>3, <2>4, <2>5, <3>1
      <3>2. CASE ~(d = c /\ id = x.nextId)
        <4>1. id \in DOMAIN cs[d].pending /\ clients'[d].pending[id] = cs[d].pending[id]
          BY <2>2, <2>3, <2>5, <3>2
        <4>2. cs[d].pending[id] \in Everyone
          BY <4>1, <1>3
        <4> QED
          BY <1>2, <2>4, <4>1, <4>2 DEF Waits
      <3> QED
        BY <3>1, <3>2
    <2>9. Own(calls', clients', asked')
      <3> SUFFICES ASSUME NEW m \in asked'
                   PROVE  /\ m[1] \in 1..Len(cs) /\ m[2] < clients'[m[1]].nextId
                          /\ m[2] \in DOMAIN clients'[m[1]].pending =>
                                LET j == clients'[m[1]].pending[m[2]]
                                IN m[3] = <<calls'[j].at, calls'[j].n>>
        BY <2>5 DEF Own
      <3>1. CASE m \in as
        <4>1. /\ m[1] \in 1..Len(cs) /\ m[2] < cs[m[1]].nextId /\ m[2] \in Nat
              /\ cs[m[1]].nextId \in Nat
              /\ m[2] \in DOMAIN cs[m[1]].pending =>
                    LET j == cs[m[1]].pending[m[2]] IN m[3] = <<ks[j].at, ks[j].n>>
          <5>1. /\ m[1] \in 1..Len(cs) /\ m[2] < cs[m[1]].nextId
                /\ m[2] \in DOMAIN cs[m[1]].pending =>
                    LET j == cs[m[1]].pending[m[2]] IN m[3] = <<ks[j].at, ks[j].n>>
            BY <1>2, <3>1 DEF Own
          <5>2. m[2] \in Nat
            BY <1>1, <3>1
          <5>3. cs[m[1]].nextId \in Nat
            BY <5>1, <1>3
          <5> QED
            BY <5>1, <5>2, <5>3
        <4>2. m[2] \in DOMAIN cs[m[1]].pending => cs[m[1]].pending[m[2]] \in Everyone \ {k}
          BY <4>1, <1>3
        <4>3. /\ m[2] < clients'[m[1]].nextId
              /\ m[2] \in DOMAIN clients'[m[1]].pending =>
                    /\ m[2] \in DOMAIN cs[m[1]].pending
                    /\ clients'[m[1]].pending[m[2]] = cs[m[1]].pending[m[2]]
          <5>1. CASE m[1] = c
            <6>1. m[2] < x.nextId /\ m[2] \in Nat /\ x.nextId \in Nat
              BY <4>1, <5>1
            <6>2. m[2] < x.nextId + 1 /\ m[2] # x.nextId
              BY <6>1
            <6> QED
              BY <2>2, <2>3, <2>5, <5>1, <6>2
          <5>2. CASE m[1] # c
            BY <2>5, <4>1, <5>2
          <5> QED
            BY <5>1, <5>2
        <4> QED
          BY <2>4, <4>1, <4>2, <4>3
      <3>2. CASE m = <<c, x.nextId, <<how, ks[k].n>>>>
        <4>1. m[1] = c /\ m[2] = x.nextId /\ m[3] = <<how, ks[k].n>>
          BY <3>2
        <4>2. x.nextId < x.nextId + 1
          BY <2>2
        <4> QED
          BY <2>2, <2>3, <2>4, <2>5, <4>1, <4>2
      <3> QED
        BY <2>1, <3>1, <3>2
    <2>10. Answered(calls')
      BY <1>1, <1>2, <2>4 DEF Answered, Everyone, M!Everyone, M!Asking
    <2>11. asked' \subseteq Nat \X Nat \X (Methods \X Nat)
      <3>1. /\ c \in Nat /\ x.nextId \in Nat /\ how \in Methods /\ ks[k].n \in Nat
        <4>1. ks[k] \in Call
          BY <1>1
        <4>2. ks[k].n \in Nat
          BY <4>1, CallFields
        <4> QED
          BY <2>2, <4>2 DEF Methods
      <3>2. <<c, x.nextId, <<how, ks[k].n>>>> \in Nat \X Nat \X (Methods \X Nat)
        <4> HIDE DEF x
        <4> QED
          BY <3>1
      <3> QED
        BY <1>1, <2>1, <3>2
    <2> QED
      BY <2>4, <2>5, <2>6, <2>7, <2>8, <2>9, <2>10, <2>11 DEF Settled, Kinds
  <1> QED
    BY <1>1, <1>4, <1>5, ClientFields

(* The callers whose requests to x are not in ids. *)
Out(x, ids) == {x.pending[id] : id \in DOMAIN x.pending \ ids}

(* Requests are taken out of the list of one client. *)
LEMMA TakingOut ==
  ASSUME NEW ks, NEW cs, NEW as, Settled(ks, cs, as, {}), NEW c \in 1..Len(cs),
         NEW ids, ids \subseteq DOMAIN cs[c].pending, NEW y \in Client,
         DOMAIN y.pending = ids, \A id \in ids : y.pending[id] = cs[c].pending[id],
         y.nextId = cs[c].nextId,
         y.alive => y.open, NEW some, some \subseteq as,
         NEW ds, ds = [cs EXCEPT ![c] = y], NEW K, K = Out(cs[c], ids)
  PROVE  Settled(ks, ds, some, K)
  <1>0. /\ \A id \in DOMAIN cs[c].pending \ ids : cs[c].pending[id] \in K
        /\ \A k \in K : \E id \in DOMAIN cs[c].pending \ ids : cs[c].pending[id] = k
    BY DEF Out
  <1>1. Kinds(ks, cs, as) /\ Pending(ks, cs, {}) /\ Waits(ks, cs, {}) /\ Own(ks, cs, as)
        /\ Answered(ks)
    BY DEF Settled
  <1>2. /\ ds \in Seq(Client) /\ Len(ds) = Len(cs) /\ ds[c] = y
        /\ \A d \in 1..Len(cs) : d # c => ds[d] = cs[d]
    BY <1>1 DEF Kinds
  <1>3. \A d \in 1..Len(cs) : cs[d].nextId \in Nat
    BY Pended, ClientFields
  <1>4. Kinds(ks, ds, some)
    <2>1. \A d \in 1..Len(cs) : /\ DOMAIN ds[d].pending \subseteq 1..ds[d].nextId - 1
                                /\ ds[d].alive => ds[d].open
      BY <1>1, <1>2 DEF Kinds
    <2> QED
      BY <1>1, <1>2, <2>1 DEF Kinds
  <1>5. Pending(ks, ds, K)
    <2> SUFFICES ASSUME NEW k \in Everyone \ K, ks[k].at \in M!Asking
                 PROVE  /\ ks[k].client \in 1..Len(ds)
                        /\ ks[k].id \in DOMAIN ds[ks[k].client].pending
                        /\ ds[ks[k].client].pending[ks[k].id] = k
      BY DEF Pending
    <2>1. /\ ks[k].client \in 1..Len(cs) /\ ks[k].id \in DOMAIN cs[ks[k].client].pending
          /\ cs[ks[k].client].pending[ks[k].id] = k
      BY <1>1 DEF Pending
    <2>2. CASE ks[k].client = c
      <3>1. ks[k].id \in ids
        BY <1>0, <2>1, <2>2
      <3> QED
        BY <1>2, <2>1, <2>2, <3>1
    <2> QED
      BY <1>2, <2>1, <2>2
  <1>6. Waits(ks, ds, K)
    <2> SUFFICES ASSUME NEW d \in 1..Len(cs), NEW id \in DOMAIN ds[d].pending
                 PROVE  LET k == ds[d].pending[id]
                        IN k \notin K /\ ks[k].at \in M!Asking /\ ks[k].client = d
                           /\ ks[k].id = id
      BY <1>2 DEF Waits
    <2>1. id \in DOMAIN cs[d].pending /\ ds[d].pending[id] = cs[d].pending[id]
          /\ (d = c => id \in ids)
      BY <1>2
    <2>2. LET k == cs[d].pending[id]
          IN ks[k].at \in M!Asking /\ ks[k].client = d /\ ks[k].id = id
      BY <1>1, <2>1 DEF Waits
    <2>3. cs[d].pending[id] \notin K
      <3> SUFFICES ASSUME NEW i \in DOMAIN cs[c].pending \ ids,
                          cs[c].pending[i] = cs[d].pending[id]
                   PROVE  FALSE
        BY <1>0
      <3>1. ks[cs[c].pending[i]].client = c /\ ks[cs[c].pending[i]].id = i
        BY <1>1 DEF Waits
      <3> QED
        BY <2>1, <2>2, <3>1
    <2> QED
      BY <2>1, <2>2, <2>3
  <1>7. Own(ks, ds, some)
    <2> SUFFICES ASSUME NEW m \in some
                 PROVE  /\ m[1] \in 1..Len(cs) /\ m[2] < ds[m[1]].nextId
                        /\ m[2] \in DOMAIN ds[m[1]].pending =>
                              LET k == ds[m[1]].pending[m[2]]
                              IN m[3] = <<ks[k].at, ks[k].n>>
      BY <1>2 DEF Own
    <2>1. /\ m[1] \in 1..Len(cs) /\ m[2] < cs[m[1]].nextId
          /\ m[2] \in DOMAIN cs[m[1]].pending =>
                LET k == cs[m[1]].pending[m[2]] IN m[3] = <<ks[k].at, ks[k].n>>
      BY <1>1 DEF Own
    <2>2. CASE m[1] = c
      BY <1>2, <2>1, <2>2
    <2>3. CASE m[1] # c
      BY <1>2, <2>1, <2>3
    <2> QED
      BY <2>2, <2>3
  <1> QED
    BY <1>1, <1>4, <1>5, <1>6, <1>7 DEF Settled

LEMMA Rejecting ==
  ASSUME NEW ks, NEW cs, NEW as, NEW K, Settled(ks, cs, as, K), NEW ls,
         ls = [k \in Everyone |-> IF k \in K THEN [ks[k] EXCEPT !.at = "failed"]
                                             ELSE ks[k]]
  PROVE  Settled(ls, cs, as, {})
  <1>1. Kinds(ks, cs, as) /\ Pending(ks, cs, K) /\ Waits(ks, cs, K) /\ Own(ks, cs, as)
        /\ Answered(ks) /\ ks \in [Everyone -> Call]
    BY DEF Settled, Kinds
  <1>2. ASSUME NEW k \in Everyone
        PROVE  /\ ls[k] \in Call /\ (k \notin K => ls[k] = ks[k])
               /\ (k \in K => ls[k].at = "failed")
    <2>1. ks[k] \in Call
      BY <1>1
    <2> DEFINE a == [ks[k] EXCEPT !.at = "failed"]
    <2>2. a \in Call /\ a.at = "failed"
      BY <2>1 DEF Call, M!Rest
    <2>3. ls[k] = IF k \in K THEN a ELSE ks[k]
      OBVIOUS
    <2> HIDE DEF a
    <2> QED
      BY <2>1, <2>2, <2>3
  <1>3. Kinds(ls, cs, as)
    <2>1. ls = [k \in Everyone |-> ls[k]]
      OBVIOUS
    <2>2. ls \in [Everyone -> Call]
      BY <1>2, <2>1
    <2> QED
      BY <1>1, <2>2 DEF Kinds
  <1>4. Pending(ls, cs, {})
    BY <1>1, <1>2 DEF Pending, M!Asking
  <1>5. \A d \in 1..Len(cs) : \A id \in DOMAIN cs[d].pending :
           cs[d].pending[id] \in Everyone \ K
    BY Pended
  <1>6. Waits(ls, cs, {})
    BY <1>1, <1>2, <1>5 DEF Waits
  <1>7. Own(ls, cs, as)
    <2> SUFFICES ASSUME NEW m \in as, m[2] \in DOMAIN cs[m[1]].pending
                 PROVE  LET k == cs[m[1]].pending[m[2]] IN m[3] = <<ls[k].at, ls[k].n>>
      BY <1>1 DEF Own
    <2>1. m[1] \in 1..Len(cs)
      BY <1>1 DEF Own
    <2>2. cs[m[1]].pending[m[2]] \in Everyone \ K
      BY <1>5, <2>1
    <2>3. LET k == cs[m[1]].pending[m[2]] IN m[3] = <<ks[k].at, ks[k].n>>
      BY <1>1 DEF Own
    <2> QED
      BY <1>2, <2>2, <2>3
  <1>8. Answered(ls)
    BY <1>1, <1>2 DEF Answered, Everyone, M!Everyone
  <1> QED
    BY <1>3, <1>4, <1>6, <1>7, <1>8 DEF Settled

(* A caller that is not asking changes as it likes, but for its answer. *)
LEMMA Idling ==
  ASSUME NEW ks, NEW cs, NEW as, NEW k \in Everyone, NEW K,
         \/ K = {k} /\ Settled(ks, cs, as, {k})
         \/ K = {} /\ Settled(ks, cs, as, {}) /\ ks[k].at \notin M!Asking,
         NEW b \in Call, b.at \notin M!Asking \/ b = ks[k],
         k \in Callers /\ b.at = "answered" => b.got = <<"call", b.n>>,
         NEW J, J = {k} \/ (J = {} /\ b.at \notin M!Asking)
  PROVE  Settled([ks EXCEPT ![k] = b], cs, as, J)
  <1>1. Kinds(ks, cs, as) /\ Pending(ks, cs, {k}) /\ Waits(ks, cs, {k}) /\ Own(ks, cs, as)
        /\ Answered(ks) /\ ks \in [Everyone -> Call]
    <2>1. CASE K = {k} /\ Settled(ks, cs, as, {k})
      BY <2>1 DEF Settled, Kinds
    <2>2. CASE Settled(ks, cs, as, {}) /\ ks[k].at \notin M!Asking
      <3>1. /\ Kinds(ks, cs, as) /\ Pending(ks, cs, {}) /\ Waits(ks, cs, {})
            /\ Own(ks, cs, as) /\ Answered(ks) /\ ks \in [Everyone -> Call]
        BY <2>2 DEF Settled, Kinds
      <3>2. Pending(ks, cs, {k})
        BY <3>1 DEF Pending
      <3>3. Waits(ks, cs, {k})
        BY <2>2, <3>1 DEF Waits
      <3> QED
        BY <3>1, <3>2, <3>3
    <2> QED
      BY <2>1, <2>2
  <1>1a. Settled(ks, cs, as, {k})
    BY <1>1 DEF Settled
  <1> DEFINE ls == [ks EXCEPT ![k] = b]
  <1>2. ls \in [Everyone -> Call] /\ ls[k] = b /\ \A j \in Everyone : j # k => ls[j] = ks[j]
    BY <1>1
  <1> HIDE DEF ls
  <1>3. Kinds(ls, cs, as)
    BY <1>1, <1>2 DEF Kinds
  <1>4. Pending(ls, cs, J)
    BY <1>1, <1>2 DEF Pending
  <1>5. \A d \in 1..Len(cs) : \A id \in DOMAIN cs[d].pending :
           cs[d].pending[id] \in Everyone \ {k}
    BY <1>1a, Pended
  <1>6. Waits(ls, cs, J)
    BY <1>1, <1>2, <1>5 DEF Waits
  <1>7. Own(ls, cs, as)
    <2> SUFFICES ASSUME NEW m \in as, m[2] \in DOMAIN cs[m[1]].pending
                 PROVE  LET j == cs[m[1]].pending[m[2]] IN m[3] = <<ls[j].at, ls[j].n>>
      BY <1>1 DEF Own
    <2>1. m[1] \in 1..Len(cs)
      BY <1>1 DEF Own
    <2>2. cs[m[1]].pending[m[2]] \in Everyone \ {k}
      BY <1>5, <2>1
    <2>3. LET j == cs[m[1]].pending[m[2]] IN m[3] = <<ks[j].at, ks[j].n>>
      BY <1>1 DEF Own
    <2> QED
      BY <1>2, <2>2, <2>3
  <1>8. Answered(ls)
    BY <1>1, <1>2 DEF Answered, Everyone, M!Everyone
  <1>9. Settled(ls, cs, as, J)
    BY <1>3, <1>4, <1>6, <1>7, <1>8 DEF Settled
  <1> QED
    BY <1>9 DEF ls

(* A client is added. *)
LEMMA Adding ==
  ASSUME NEW ks, NEW cs, NEW as, NEW K, Settled(ks, cs, as, K), NEW y \in Client,
         DOMAIN y.pending = {}, y.open
  PROVE  Settled(ks, Append(cs, y), as, K)
  <1> DEFINE ds == Append(cs, y)
  <1>1. Kinds(ks, cs, as) /\ Pending(ks, cs, K) /\ Waits(ks, cs, K) /\ Own(ks, cs, as)
        /\ Answered(ks)
    BY DEF Settled
  <1>2. /\ ds \in Seq(Client) /\ Len(ds) = Len(cs) + 1 /\ ds[Len(cs) + 1] = y
        /\ \A d \in 1..Len(cs) : d \in 1..Len(ds) /\ ds[d] = cs[d]
        /\ \A d \in 1..Len(ds) : d \in 1..Len(cs) \/ d = Len(cs) + 1
    BY <1>1 DEF Kinds
  <1> HIDE DEF ds
  <1>3. Kinds(ks, ds, as)
    BY <1>1, <1>2 DEF Kinds
  <1>4. Pending(ks, ds, K)
    BY <1>1, <1>2 DEF Pending
  <1>5. Waits(ks, ds, K)
    BY <1>1, <1>2 DEF Waits
  <1>6. Own(ks, ds, as)
    BY <1>1, <1>2 DEF Own
  <1>7. Settled(ks, ds, as, K)
    BY <1>1, <1>3, <1>4, <1>5, <1>6 DEF Settled
  <1> QED
    BY <1>7 DEF ds

InWait == {k \in Callers : calls[k].at = "waiting"}

Managed ==
    /\ server \in [connected : BOOLEAN, client : Nat, attempts : Nat] /\ sends \in Nat
    /\ server.client <= Len(clients) /\ (server.connected => server.client # 0)
    /\ \A k \in Callers : calls[k].at \notin M!Rest => server.connected \/ stopped

McpInv == /\ Settled(calls, clients, asked, {}) /\ Managed
          /\ M!ProcessesAreHeld /\ M!RespawnsAreLimited

(* What a request leaves alone. *)
LEMMA Requested ==
  ASSUME NEW ks, NEW cs, NEW as, NEW k \in Everyone, Settled(ks, cs, as, {k}),
         NEW c \in 1..Len(cs), NEW how \in M!Asking, M!Request(ks, cs, as, k, c, how)
  PROVE  /\ Len(clients') = Len(cs) /\ Len(cs) \in Nat
         /\ \A d \in 1..Len(cs) : clients'[d].alive = cs[d].alive
         /\ \A j \in Everyone : j # k => calls'[j] = ks[j]
         /\ \/ calls'[k].at = "failed" /\ ~cs[c].alive
            \/ calls'[k].at = how /\ calls'[k].client = c
  <1> DEFINE x == cs[c]
  <1>1. /\ ks \in [Everyone -> Call] /\ cs \in Seq(Client) /\ ks[k] \in Call
        /\ \A d \in 1..Len(cs) : cs[d].alive => cs[d].open
    BY DEF Settled, Kinds
  <1>2. x \in Client
    BY <1>1
  <1>3. CASE ~x.open
    <2>1. clients' = cs /\ calls' = [ks EXCEPT ![k] = [ks[k] EXCEPT !.at = "failed"]]
      BY <1>3 DEF M!Request, M!NextId
    <2>2. [ks[k] EXCEPT !.at = "failed"].at = "failed"
      BY <1>1 DEF Call
    <2> QED
      BY <1>1, <1>3, <2>1, <2>2
  <1>4. CASE x.open
    <2> DEFINE y == [x EXCEPT !.nextId = x.nextId + 1,
                              !.pending = [i \in DOMAIN x.pending \cup {x.nextId} |->
                                              IF i = x.nextId THEN k ELSE x.pending[i]]]
               a == [ks[k] EXCEPT !.at = how, !.client = c, !.id = x.nextId]
    <2>1. clients' = [cs EXCEPT ![c] = y] /\ calls' = [ks EXCEPT ![k] = a]
      BY <1>4 DEF M!Request, M!NextId
    <2>2. y.alive = x.alive
      <3> HIDE DEF x
      <3> QED
        BY <1>2 DEF Client
    <2>3. a.at = how /\ a.client = c
      <3> HIDE DEF x
      <3> QED
        BY <1>1 DEF Call
    <2> HIDE DEF y, a
    <2>4. /\ Len(clients') = Len(cs) /\ clients'[c] = y
          /\ \A d \in 1..Len(cs) : d # c => clients'[d] = cs[d]
      BY <1>1, <2>1
    <2> QED
      BY <1>1, <2>1, <2>2, <2>3, <2>4
  <1> QED
    BY <1>2, <1>3, <1>4 DEF Client

(* Fewer wait, or as many: the limit holds. *)
LEMMA Counting ==
  ASSUME M!RespawnsAreLimited, Managed, InWait' \subseteq InWait,
         server'.attempts \in Nat, server'.attempts <= server.attempts
  PROVE  M!RespawnsAreLimited'
  <1>1. IsFiniteSet(InWait) /\ IsFiniteSet(InWait')
    <2>1. InWait \subseteq Callers
      BY DEF InWait
    <2> QED
      BY <2>1, ClientAssumption, FS_Subset
  <1>2. /\ Cardinality(InWait') <= Cardinality(InWait)
        /\ Cardinality(InWait) \in Nat /\ Cardinality(InWait') \in Nat
        /\ Cardinality(Callers) \in Nat
    BY <1>1, ClientAssumption, FS_Subset, FS_CardinalityType
  <1>3. server.attempts \in Nat /\ MaxRespawns \in Nat
    BY ClientAssumption DEF Managed
  <1>4. server.attempts + Cardinality(InWait) < MaxRespawns + Cardinality(Callers)
    BY DEF M!RespawnsAreLimited, InWait, M!Cardinality, Cardinality
  <1>5. server'.attempts + Cardinality(InWait') < MaxRespawns + Cardinality(Callers)
    BY <1>2, <1>3, <1>4
  <1> QED
    BY <1>5 DEF M!RespawnsAreLimited, InWait, M!Cardinality, Cardinality

(* A step in which the caller k, no longer asking, asks client c for how;    *)
(* ks and cs are what it found.  New clients are those of cs.                *)
LEMMA McpFacts ==
  ASSUME McpInv
  PROVE  /\ calls \in [Everyone -> Call] /\ clients \in Seq(Client) /\ Len(clients) \in Nat
         /\ Waits(calls, clients, {})
         /\ server.connected \in BOOLEAN /\ server.client \in Nat /\ server.attempts \in Nat
         /\ \A c \in 1..Len(clients) :
               /\ clients[c] \in Client
               /\ clients[c].alive => clients[c].open
               /\ \A id \in DOMAIN clients[c].pending : clients[c].pending[id] \in Everyone
  <1>1. /\ calls \in [Everyone -> Call] /\ clients \in Seq(Client)
        /\ Waits(calls, clients, {})
        /\ \A c \in 1..Len(clients) : clients[c].alive => clients[c].open
    BY DEF McpInv, Settled, Kinds
  <1>2. Len(clients) \in Nat /\ \A c \in 1..Len(clients) : clients[c] \in Client
    BY <1>1
  <1>3. \A c \in 1..Len(clients) :
           \A id \in DOMAIN clients[c].pending : clients[c].pending[id] \in Everyone
    BY Pended DEF McpInv
  <1>4. server.connected \in BOOLEAN /\ server.client \in Nat /\ server.attempts \in Nat
    BY DEF McpInv, Managed
  <1> QED
    BY <1>1, <1>2, <1>3, <1>4

(* The process of a client may die, its events be seen. *)
LEMMA DiesStep ==
  ASSUME McpInv, NEW c \in 1..Len(clients), M!ProcessDies(c)
  PROVE  McpInv'
  <1> DEFINE y == [clients[c] EXCEPT !.alive = FALSE]
  <1>1. /\ clients' = [clients EXCEPT ![c] = y]
        /\ UNCHANGED <<server, asked, calls, sends, left, stopped>>
    BY DEF M!ProcessDies
  <1>2. /\ y \in Client /\ y.alive = FALSE /\ y.pending = clients[c].pending
        /\ y.nextId = clients[c].nextId
    BY McpFacts DEF Client
  <1> HIDE DEF y
  <1>3. Settled(calls, clients', asked, {})
    <2>1. {} = Out(clients[c], DOMAIN clients[c].pending)
      BY DEF Out
    <2> QED
      BY <2>1, <1>1, <1>2, TakingOut DEF McpInv
  <1>5. Settled(calls, clients, asked, {})'
    BY <1>1, <1>3
  <1>6. Len(clients') = Len(clients) /\ \A d \in 1..Len(clients) : clients'[d].alive => clients[d].alive
    BY <1>1, <1>2, McpFacts
  <1>7. Managed'
    BY <1>1, <1>6 DEF McpInv, Managed
  <1>8. M!ProcessesAreHeld'
    BY <1>1, <1>6 DEF McpInv, M!ProcessesAreHeld, M!Held
  <1>9. M!RespawnsAreLimited'
    BY <1>1 DEF McpInv, M!RespawnsAreLimited
  <1> QED
    BY <1>5, <1>7, <1>8, <1>9 DEF McpInv

(* The callers K are rejected, the requests of c that are not in ids with them. *)
LEMMA RejectStep ==
  ASSUME McpInv, NEW c \in 1..Len(clients), NEW ids, ids \subseteq DOMAIN clients[c].pending,
         NEW y \in Client, DOMAIN y.pending = ids,
         \A id \in ids : y.pending[id] = clients[c].pending[id],
         y.nextId = clients[c].nextId, y.alive => y.open /\ clients[c].alive,
         clients' = [clients EXCEPT ![c] = y], asked' \subseteq asked,
         NEW K, K = Out(clients[c], ids),
         calls' = M!Reject(K), UNCHANGED sends,
         \/ UNCHANGED server /\ stopped' = stopped
         \/ stopped' /\ server' = [server EXCEPT !.connected = FALSE] /\ ~y.alive
            /\ (server.connected => server.client = c),
         left \subseteq left', y.alive /\ (\E k \in K : calls[k].at \in {"initialize", "list"}) => c \in left'
  PROVE  McpInv'
  <1>0. Settled(calls, clients, asked, {})
    BY DEF McpInv
  <1>1. Settled(calls, clients', asked', K)
    BY <1>0, TakingOut
  <1>2. Settled(calls, clients, asked, {})'
    <2>1. calls' = [k \in Everyone |-> IF k \in K THEN [calls[k] EXCEPT !.at = "failed"]
                                                 ELSE calls[k]]
      BY DEF M!Reject, Everyone
    <2> QED
      BY <1>1, <2>1, Rejecting
  <1>3. \A k \in Everyone : /\ k \notin K => calls'[k] = calls[k]
                            /\ k \in K => calls'[k].at = "failed"
    BY McpFacts DEF M!Reject, Everyone, Call
  <1>4. /\ Len(clients') = Len(clients) /\ clients'[c] = y
        /\ \A d \in 1..Len(clients) : d # c => clients'[d] = clients[d]
    BY McpFacts
  <1>5. \A k \in K : k \in Everyone /\ calls[k].client = c
    BY McpFacts DEF Waits, Out
  <1>6. /\ server' \in [connected : BOOLEAN, client : Nat, attempts : Nat]
        /\ server'.client = server.client /\ server'.attempts = server.attempts
        /\ server'.connected => server.connected
        /\ server.connected /\ ~server'.connected => stopped'
        /\ stopped => stopped'
    <2>1. server \in [connected : BOOLEAN, client : Nat, attempts : Nat]
      BY DEF McpInv, Managed
    <2>2. CASE UNCHANGED server /\ stopped' = stopped
      BY <2>1, <2>2
    <2>3. CASE stopped' /\ server' = [server EXCEPT !.connected = FALSE]
      BY <2>1, <2>3
    <2> QED
      BY <2>2, <2>3
  <1>7. Managed'
    <2>1. ASSUME NEW k \in Callers, calls'[k].at \notin M!Rest
          PROVE  server'.connected \/ stopped'
      <3>1. k \in Everyone /\ calls'[k] = calls[k]
        BY <1>3, <2>1 DEF Everyone, M!Everyone, M!Rest
      <3> QED
        BY <1>6, <2>1, <3>1 DEF McpInv, Managed
    <2> QED
      BY <1>4, <1>6, <2>1 DEF McpInv, Managed
  <1>8. M!ProcessesAreHeld'
    <2> SUFFICES ASSUME NEW d \in 1..Len(clients), clients'[d].alive, d \notin left'
                 PROVE  M!Held(d)'
      BY <1>4 DEF M!ProcessesAreHeld
    <2>1. clients[d].alive /\ d \notin left /\ (d = c => y.alive)
      BY <1>4
    <2>2. M!Held(d)
      BY <2>1 DEF McpInv, M!ProcessesAreHeld
    <2>3. CASE server.connected /\ server.client = d
      <3>1. server'.connected
        BY <2>1, <2>3
      <3> QED
        BY <1>6, <2>3, <3>1 DEF M!Held
    <2>4. CASE \E k \in Everyone : calls[k].client = d /\ calls[k].at \in {"initialize", "list"}
      <3>1. PICK k \in Everyone : calls[k].client = d /\ calls[k].at \in {"initialize", "list"}
        BY <2>4
      <3>2. k \notin K
        BY <1>5, <2>1, <3>1
      <3> QED
        BY <1>3, <3>1, <3>2 DEF M!Held, Everyone
    <2> QED
      BY <2>2, <2>3, <2>4 DEF M!Held, Everyone
  <1>9. M!RespawnsAreLimited'
    <2>1. InWait' \subseteq InWait
      <3> SUFFICES ASSUME NEW k \in Callers, calls'[k].at = "waiting"
                   PROVE  calls[k].at = "waiting"
        BY DEF InWait
      <3> QED
        BY <1>3 DEF Everyone, M!Everyone
    <2>2. server'.attempts \in Nat /\ server'.attempts <= server.attempts
      BY <1>6, McpFacts
    <2> QED
      BY <2>1, <2>2, Counting DEF McpInv
  <1> QED
    BY <1>2, <1>7, <1>8, <1>9 DEF McpInv

(* One caller moves, and one client with it. *)
LEMMA Moving ==
  ASSUME McpInv, NEW k \in Everyone, Settled(calls, clients, asked, {})',
         \A j \in Everyone : j # k => calls'[j] = calls[j],
         NEW c \in Nat, Len(clients) <= Len(clients'),
         \A d \in 1..Len(clients') :
            d # c /\ clients'[d].alive => d \in 1..Len(clients) /\ clients[d].alive,
         left \subseteq left', UNCHANGED stopped, sends' \in Nat,
         server' \in [connected : BOOLEAN, client : Nat, attempts : Nat],
         server'.client <= Len(clients'), server'.connected => server'.client # 0,
         server.connected => server'.connected,
         k \in Callers /\ calls'[k].at \notin M!Rest => server'.connected \/ stopped,
         server.connected => \/ server.client = c \/ server.client \in left'
                             \/ server'.client = server.client,
         calls[k].at \in {"initialize", "list"} => calls[k].client = c,
         c \in 1..Len(clients') /\ clients'[c].alive => M!Held(c)' \/ c \in left',
         M!RespawnsAreLimited'
  PROVE  McpInv'
  <1>1. Managed'
    <2>1. ASSUME NEW j \in Callers, calls'[j].at \notin M!Rest
          PROVE  server'.connected \/ stopped'
      <3>1. CASE j = k
        BY <2>1, <3>1
      <3>2. CASE j # k
        BY <2>1, <3>2 DEF McpInv, Managed, Everyone, M!Everyone
      <3> QED
        BY <3>1, <3>2
    <2> QED
      BY <2>1 DEF Managed
  <1>2. M!ProcessesAreHeld'
    <2> SUFFICES ASSUME NEW d \in 1..Len(clients'), clients'[d].alive, d \notin left', d # c
                 PROVE  M!Held(d)'
      BY DEF M!ProcessesAreHeld
    <2>1. d \in 1..Len(clients) /\ clients[d].alive /\ d \notin left
      OBVIOUS
    <2>2. M!Held(d)
      BY <2>1 DEF McpInv, M!ProcessesAreHeld
    <2>3. CASE server.connected /\ server.client = d
      BY <2>3 DEF M!Held
    <2>4. CASE \E j \in Everyone : calls[j].client = d /\ calls[j].at \in {"initialize", "list"}
      <3>1. PICK j \in Everyone : calls[j].client = d /\ calls[j].at \in {"initialize", "list"}
        BY <2>4
      <3>2. j # k
        BY <3>1
      <3> QED
        BY <3>1, <3>2 DEF M!Held, Everyone
    <2> QED
      BY <2>2, <2>3, <2>4 DEF M!Held, Everyone
  <1> QED
    BY <1>1, <1>2 DEF McpInv

(* Fewer wait, or one less and one more attempt. *)
LEMMA CountingRespawn ==
  ASSUME McpInv, NEW k \in Callers, calls[k].at = "waiting", calls'[k].at # "waiting",
         \A j \in Everyone : j # k => calls'[j] = calls[j],
         server'.attempts = server.attempts + 1
  PROVE  M!RespawnsAreLimited'
  <1>1. k \in InWait /\ InWait' = InWait \ {k}
    BY DEF InWait, Everyone, M!Everyone
  <1>2. IsFiniteSet(InWait) /\ InWait \subseteq Callers
    <2>1. InWait \subseteq Callers
      BY DEF InWait
    <2> QED
      BY <2>1, ClientAssumption, FS_Subset
  <1>3. /\ Cardinality(InWait') = Cardinality(InWait) - 1
        /\ Cardinality(InWait) \in Nat /\ Cardinality(InWait') \in Nat
        /\ Cardinality(Callers) \in Nat
    BY <1>1, <1>2, ClientAssumption, FS_RemoveElement, FS_CardinalityType
  <1>4. server.attempts \in Nat /\ MaxRespawns \in Nat
    BY ClientAssumption, McpFacts
  <1>5. server.attempts + Cardinality(InWait) < MaxRespawns + Cardinality(Callers)
    BY DEF McpInv, M!RespawnsAreLimited, InWait, M!Cardinality, Cardinality
  <1>6. server'.attempts + Cardinality(InWait') < MaxRespawns + Cardinality(Callers)
    BY <1>3, <1>4, <1>5
  <1> QED
    BY <1>6 DEF M!RespawnsAreLimited, InWait, M!Cardinality, Cardinality

LEMMA CountingCall ==
  ASSUME McpInv, UNCHANGED server, server.attempts < MaxRespawns
  PROVE  M!RespawnsAreLimited'
  <1>1. InWait' \subseteq Callers
    BY DEF InWait
  <1>2. /\ Cardinality(InWait') <= Cardinality(Callers)
        /\ Cardinality(InWait') \in Nat /\ Cardinality(Callers) \in Nat
    BY <1>1, ClientAssumption, FS_Subset, FS_CardinalityType
  <1>3. server.attempts \in Nat /\ MaxRespawns \in Nat
    BY ClientAssumption, McpFacts
  <1>4. server'.attempts + Cardinality(InWait') < MaxRespawns + Cardinality(Callers)
    BY <1>2, <1>3
  <1> QED
    BY <1>4 DEF M!RespawnsAreLimited, InWait, M!Cardinality, Cardinality

(* No more wait than before. *)
LEMMA CountingRest ==
  ASSUME McpInv, NEW k \in Everyone, calls'[k].at # "waiting",
         \A j \in Everyone : j # k => calls'[j] = calls[j],
         server'.attempts \in Nat, server'.attempts <= server.attempts
  PROVE  M!RespawnsAreLimited'
  <1>1. InWait' \subseteq InWait
    BY DEF InWait, Everyone, M!Everyone
  <1> QED
    BY <1>1, Counting DEF McpInv

(* The new client of a connection. *)
LEMMA ConnectStep ==
  ASSUME McpInv, NEW k \in Everyone, calls[k].at \in {"idle", "waiting"}, M!Connect(k),
         server' \in [connected : BOOLEAN, client : Nat, attempts : Nat],
         server'.client = server.client, server'.connected = server.connected,
         \/ UNCHANGED server
         \/ /\ k \in Callers /\ calls[k].at = "waiting"
            /\ server'.attempts = server.attempts + 1,
         k \in Callers => server.connected \/ stopped,
         UNCHANGED <<sends, left, stopped>>
  PROVE  McpInv'
  <1>1. PICK alive \in BOOLEAN :
           M!Request(calls, Append(clients, [open |-> TRUE, alive |-> alive, nextId |-> 1,
                                             pending |-> <<>>]),
                     asked, k, Len(clients) + 1, "initialize")
    BY DEF M!Connect
  <1> DEFINE y == [open |-> TRUE, alive |-> alive, nextId |-> 1, pending |-> <<>>]
             cs == Append(clients, y)
  <1>0. PICK c \in Nat : c = Len(clients) + 1
    BY McpFacts
  <1>2. y \in Client /\ DOMAIN y.pending = {} /\ y.open
    <2>1. <<>> \in [{} -> Everyone] /\ DOMAIN <<>> = {}
      OBVIOUS
    <2>2. <<>> \in Pendings
      BY <2>1 DEF Pendings
    <2> QED
      BY <2>1, <2>2 DEF Client
  <1>3. M!Request(calls, cs, asked, k, c, "initialize")
    BY <1>0, <1>1
  <1> HIDE DEF y
  <1>4. /\ Len(cs) = c /\ c \in 1..Len(cs) /\ c \in Nat
        /\ \A d \in 1..Len(clients) : cs[d] = clients[d]
        /\ \A d \in 1..c : d # c => d \in 1..Len(clients)
    BY <1>0, <1>2, McpFacts
  <1>5. Settled(calls, cs, asked, {k})
    <2>1. Settled(calls, cs, asked, {})
      BY <1>2, Adding DEF McpInv
    <2>2. calls[k] \in Call /\ calls[k].at \notin M!Asking /\ calls[k].at # "answered"
      BY McpFacts DEF M!Asking
    <2>3. [calls EXCEPT ![k] = calls[k]] = calls
      BY McpFacts
    <2> HIDE DEF cs
    <2>4. Settled([calls EXCEPT ![k] = calls[k]], cs, asked, {k})
      BY <2>1, <2>2, Idling
    <2> QED
      BY <2>3, <2>4
  <1> HIDE DEF cs
  <1>6. Settled(calls, clients, asked, {})'
    BY <1>3, <1>4, <1>5, RequestSettles DEF M!Asking
  <1>7. /\ Len(clients') = Len(cs)
        /\ \A d \in 1..Len(cs) : clients'[d].alive = cs[d].alive
        /\ \A j \in Everyone : j # k => calls'[j] = calls[j]
        /\ \/ calls'[k].at = "failed" /\ ~cs[c].alive
           \/ calls'[k].at = "initialize" /\ calls'[k].client = c
    BY <1>3, <1>4, <1>5, Requested DEF M!Asking
  <1>8. M!RespawnsAreLimited'
    <2>1. CASE UNCHANGED server
      BY <1>7, <2>1, McpFacts, CountingRest
    <2>2. CASE k \in Callers /\ calls[k].at = "waiting" /\ server'.attempts = server.attempts + 1
      BY <1>7, <2>2, CountingRespawn
    <2> QED
      BY <2>1, <2>2
  <1>9. /\ server.client <= Len(clients) /\ (server.connected => server.client # 0)
        /\ sends \in Nat /\ Len(clients) \in Nat /\ server.client \in Nat
    BY McpFacts DEF McpInv, Managed
  <1>10. /\ Len(clients) <= Len(clients') /\ server'.client <= Len(clients')
    <2>1. Len(clients') = Len(clients) + 1
      BY <1>0, <1>4, <1>7
    <2> QED
      BY <1>9, <2>1
  <1>11. c \in 1..Len(clients') /\ clients'[c].alive => M!Held(c)'
    BY <1>4, <1>7 DEF M!Held, Everyone
  <1>12. \A d \in 1..Len(clients') :
            d # c /\ clients'[d].alive => d \in 1..Len(clients) /\ clients[d].alive
    BY <1>4, <1>7
  <1> QED
    BY <1>4, <1>6, <1>7, <1>8, <1>9, <1>10, <1>11, <1>12, Moving

LEMMA ExpireStep ==
  ASSUME McpInv, NEW c \in 1..Len(clients), NEW id, M!Expire(c, id)
  PROVE  McpInv'
  <1> DEFINE x == clients[c]
             ids == DOMAIN x.pending \ {id}
             y == [x EXCEPT !.pending = [i \in ids |-> x.pending[i]]]
             k == x.pending[id]
  <1>1. /\ id \in DOMAIN x.pending /\ calls' = M!Reject({k}) /\ left' = left \cup M!Abandoned({k})
        /\ clients' = [clients EXCEPT ![c] = y]
        /\ UNCHANGED <<server, asked, sends, stopped>>
    BY DEF M!Expire, M!Restrict
  <1>2. x \in Client /\ (x.alive => x.open) /\ k \in Everyone /\ calls[k].client = c
    BY <1>1, McpFacts DEF Waits
  <1>3. {k} = Out(x, ids)
    BY <1>1 DEF Out
  <1>4. \A i \in ids : i \in DOMAIN x.pending
    OBVIOUS
  <1>5. (\E j \in {k} : calls[j].at \in {"initialize", "list"}) => c \in left'
    BY <1>1, <1>2 DEF M!Abandoned
  <1> HIDE DEF ids
  <1>6. /\ y \in Client /\ DOMAIN y.pending = ids /\ y.nextId = x.nextId /\ y.alive = x.alive
        /\ y.open = x.open /\ \A i \in ids : y.pending[i] = x.pending[i]
    <2> HIDE DEF x
    <2>1. x.pending \in Pendings
      BY <1>2, ClientFields
    <2>2. [i \in ids |-> x.pending[i]] \in Pendings
      BY <1>2, <1>4, <2>1, Pend
    <2> QED
      BY <1>2, <2>2 DEF Client
  <1> HIDE DEF y, k
  <1> QED
    BY <1>1, <1>2, <1>3, <1>4, <1>5, <1>6, RejectStep

LEMMA ExitSeenStep ==
  ASSUME McpInv, NEW c \in 1..Len(clients), M!ExitSeen(c)
  PROVE  McpInv'
  <1> DEFINE x == clients[c]
             K == M!Waiting(c)
  <1>1. PICK open \in BOOLEAN :
           clients' = [clients EXCEPT ![c].pending = <<>>, ![c].open = open]
    BY DEF M!ExitSeen
  <1> DEFINE y == [x EXCEPT !.pending = <<>>, !.open = open]
  <1>2. /\ ~x.alive /\ calls' = M!Reject(K) /\ left \subseteq left'
        /\ clients' = [clients EXCEPT ![c] = y] /\ asked' \subseteq asked
        /\ UNCHANGED <<server, sends, stopped>>
    BY <1>1 DEF M!ExitSeen
  <1>3. x \in Client
    BY McpFacts
  <1>4. K = Out(x, {})
    BY DEF Out, M!Waiting
  <1>5. /\ y \in Client /\ DOMAIN y.pending = {} /\ y.nextId = x.nextId /\ ~y.alive
    <2> HIDE DEF x
    <2>1. <<>> \in [{} -> Everyone] /\ DOMAIN <<>> = {}
      OBVIOUS
    <2>2. <<>> \in Pendings
      BY <2>1 DEF Pendings
    <2> QED
      BY <1>2, <1>3, <2>1, <2>2 DEF Client
  <1> HIDE DEF y, K
  <1>6. {} \subseteq DOMAIN x.pending /\ \A id \in {} : y.pending[id] = x.pending[id]
    OBVIOUS
  <1> QED
    BY <1>2, <1>4, <1>5, <1>6, RejectStep

LEMMA StopStep ==
  ASSUME McpInv, M!Stop
  PROVE  McpInv'
  <1>1. /\ stopped' /\ server' = [server EXCEPT !.connected = FALSE]
        /\ UNCHANGED <<sends, left>>
    BY DEF M!Stop
  <1>2. CASE server.connected
    <2> DEFINE c == server.client
               x == clients[c]
               y == [x EXCEPT !.open = FALSE, !.alive = FALSE, !.pending = <<>>]
               K == M!Waiting(c)
    <2>1. /\ clients' = [clients EXCEPT ![c] = y] /\ calls' = M!Reject(K)
          /\ asked' \subseteq asked
      BY <1>2 DEF M!Stop
    <2>2. c \in 1..Len(clients) /\ x \in Client
      <3>1. c \in Nat /\ c # 0 /\ c <= Len(clients) /\ Len(clients) \in Nat
        BY <1>2, McpFacts DEF McpInv, Managed
      <3>2. c \in 1..Len(clients)
        BY <3>1
      <3> QED
        BY <3>2, McpFacts
    <2>3. K = Out(x, {})
      BY DEF Out, M!Waiting
    <2>4. /\ y \in Client /\ DOMAIN y.pending = {} /\ y.nextId = x.nextId /\ y.alive = FALSE
      <3> HIDE DEF x
      <3>1. <<>> \in [{} -> Everyone] /\ DOMAIN <<>> = {}
        OBVIOUS
      <3>2. <<>> \in Pendings
        BY <3>1 DEF Pendings
      <3> QED
        BY <2>2, <3>1, <3>2 DEF Client
    <2> HIDE DEF y, K
    <2>5. {} \subseteq DOMAIN x.pending /\ \A id \in {} : y.pending[id] = x.pending[id]
      OBVIOUS
    <2> QED
      BY <1>1, <2>1, <2>2, <2>3, <2>4, <2>5, RejectStep
  <1>3. CASE ~server.connected
    <2>1. UNCHANGED <<clients, calls, asked>>
      BY <1>3 DEF M!Stop
    <2>2. server' = server
      <3>1. server \in [connected : BOOLEAN, client : Nat, attempts : Nat]
        BY DEF McpInv, Managed
      <3> QED
        BY <1>1, <1>3, <3>1
    <2>3. Settled(calls, clients, asked, {})'
      BY <2>1 DEF McpInv
    <2> QED
      BY <1>1, <2>1, <2>2, <2>3 DEF McpInv, Managed, M!ProcessesAreHeld, M!Held,
                                    M!RespawnsAreLimited
  <1> QED
    BY <1>2, <1>3, McpFacts

LEMMA StartStep_ ==
  ASSUME McpInv, M!Start
  PROVE  McpInv'
  <1>1. /\ calls[StartUp].at = "idle" /\ M!Connect(StartUp)
        /\ UNCHANGED <<server, sends, left, stopped>>
    BY DEF M!Start
  <1>2. StartUp \in Everyone /\ StartUp \notin Callers
    BY ClientAssumption DEF Everyone, M!Everyone
  <1>3. server' \in [connected : BOOLEAN, client : Nat, attempts : Nat]
    BY <1>1 DEF McpInv, Managed
  <1> QED
    BY <1>1, <1>2, <1>3, ConnectStep

LEMMA RespawnStep ==
  ASSUME McpInv, NEW k \in Callers, M!Respawn(k)
  PROVE  McpInv'
  <1>1. /\ calls[k].at = "waiting" /\ M!Connect(k)
        /\ server' = [server EXCEPT !.attempts = @ + 1]
        /\ UNCHANGED <<sends, left, stopped>> /\ k \in Everyone
    BY DEF M!Respawn, Everyone, M!Everyone
  <1>2. /\ server' \in [connected : BOOLEAN, client : Nat, attempts : Nat]
        /\ server'.client = server.client /\ server'.connected = server.connected
        /\ server'.attempts = server.attempts + 1
    <2>1. server \in [connected : BOOLEAN, client : Nat, attempts : Nat]
      BY DEF McpInv, Managed
    <2> QED
      BY <1>1, <2>1
  <1>3. server.connected \/ stopped
    BY <1>1 DEF McpInv, Managed, M!Rest
  <1> QED
    BY <1>1, <1>2, <1>3, ConnectStep

(* A call, made at once or after a respawn. *)
LEMMA CallToolStep ==
  ASSUME McpInv, NEW k \in Callers, M!CallTool(k)
  PROVE  McpInv'
  <1> DEFINE b == [M!Idle EXCEPT !.n = sends']
             ks == [calls EXCEPT ![k] = b]
  <1>1. /\ calls[k].at \in M!Rest /\ sends' = sends + 1 /\ k \in Everyone
        /\ UNCHANGED <<server, left, stopped>>
        /\ \/ /\ server.connected /\ clients[server.client].open
              /\ M!Request(ks, clients, asked, k, server.client, "call")
           \/ /\ calls' = [ks EXCEPT ![k].at = M!EnsureAlive]
              /\ UNCHANGED <<clients, asked>>
    BY DEF M!CallTool, Everyone, M!Everyone
  <1>2. /\ server \in [connected : BOOLEAN, client : Nat, attempts : Nat] /\ sends \in Nat
        /\ server.client <= Len(clients) /\ (server.connected => server.client # 0)
        /\ server.client \in Nat /\ Len(clients) \in Nat
    BY McpFacts DEF McpInv, Managed
  <1>3. sends' \in Nat /\ b \in Call /\ b.at = "idle"
    BY <1>1, <1>2 DEF Call, M!Rest, Methods, M!Idle, M!Nothing
  <1>4. calls[k].at \notin M!Asking
    BY <1>1 DEF M!Asking, M!Rest
  <1> HIDE DEF b
  <1>5. /\ ks \in [Everyone -> Call] /\ ks[k] = b
        /\ \A j \in Everyone : j # k => ks[j] = calls[j]
    BY <1>1, <1>3, McpFacts
  <1>6. CASE /\ server.connected /\ M!Request(ks, clients, asked, k, server.client, "call")
    <2>1. PICK c \in Nat : c = server.client
      BY <1>2
    <2>2. c \in 1..Len(clients) /\ M!Request(ks, clients, asked, k, c, "call")
      BY <1>2, <1>6, <2>1
    <2>3. Settled(ks, clients, asked, {k})
      <3>1. Settled(calls, clients, asked, {}) /\ b.at \notin M!Asking /\ b.at # "answered"
        BY <1>3 DEF McpInv, M!Asking
      <3> QED
        BY <1>1, <1>3, <1>4, <3>1, Idling
    <2> HIDE DEF ks
    <2>4. Settled(calls, clients, asked, {})'
      BY <1>1, <2>2, <2>3, RequestSettles DEF M!Asking
    <2>5. /\ Len(clients') = Len(clients)
          /\ \A d \in 1..Len(clients) : clients'[d].alive = clients[d].alive
          /\ \A j \in Everyone : j # k => calls'[j] = ks[j]
          /\ calls'[k].at \in {"failed", "call"}
      BY <1>1, <2>2, <2>3, Requested DEF M!Asking
    <2>6. \A j \in Everyone : j # k => calls'[j] = calls[j]
      BY <1>5, <2>5
    <2>7. M!RespawnsAreLimited'
      BY <1>1, <2>5, <2>6, McpFacts, CountingRest
    <2>8. M!Held(c)'
      BY <1>1, <1>6, <2>1 DEF M!Held
    <2>9. calls[k].at \notin {"initialize", "list"}
      BY <1>4 DEF M!Asking
    <2> QED
      BY <1>1, <1>2, <1>3, <1>6, <2>1, <2>4, <2>5, <2>6, <2>7, <2>8, <2>9, Moving
  <1>7. CASE calls' = [ks EXCEPT ![k].at = M!EnsureAlive] /\ UNCHANGED <<clients, asked>>
    <2> DEFINE a == [b EXCEPT !.at = M!EnsureAlive]
    <2>1. /\ M!EnsureAlive \in {"waiting", "failed"}
          /\ M!EnsureAlive = "waiting" => server.connected /\ server.attempts < MaxRespawns
      BY DEF M!EnsureAlive
    <2>2. a \in Call /\ a.at = M!EnsureAlive
      BY <1>3, <2>1 DEF Call, M!Rest
    <2>3. calls' = [calls EXCEPT ![k] = a]
      BY <1>1, <1>5, <1>7, McpFacts
    <2> HIDE DEF a
    <2>4. Settled(calls, clients, asked, {})'
      <3>1. Settled(calls, clients, asked, {}) /\ a.at \notin M!Asking /\ a.at # "answered"
        BY <2>1, <2>2 DEF McpInv, M!Asking
      <3>2. Settled([calls EXCEPT ![k] = a], clients, asked, {})
        BY <1>1, <1>4, <2>2, <3>1, Idling
      <3> QED
        BY <1>7, <2>3, <3>2
    <2>5. calls'[k] = a /\ \A j \in Everyone : j # k => calls'[j] = calls[j]
      BY <1>1, <2>3, McpFacts
    <2>6. M!RespawnsAreLimited'
      <3>1. CASE a.at = "waiting"
        BY <1>1, <2>1, <2>2, <3>1, CountingCall
      <3>2. CASE a.at # "waiting"
        BY <1>1, <2>5, <3>2, McpFacts, CountingRest
      <3> QED
        BY <3>1, <3>2
    <2>7. calls[k].at \notin {"initialize", "list"}
      BY <1>4 DEF M!Asking
    <2>8. k \in Callers /\ calls'[k].at \notin M!Rest => server.connected
      BY <2>1, <2>2, <2>5 DEF M!Rest
    <2>10. PICK c \in Nat : c = 0
      OBVIOUS
    <2>11. c \notin 1..Len(clients')
      BY <2>10
    <2>9. \A d \in 1..Len(clients') :
             d # c /\ clients'[d].alive => d \in 1..Len(clients) /\ clients[d].alive
      BY <1>7
    <2>12. Len(clients) <= Len(clients') /\ server'.client <= Len(clients')
      BY <1>1, <1>2, <1>7
    <2> QED
      BY <1>1, <1>2, <1>3, <2>4, <2>5, <2>6, <2>7, <2>8, <2>9, <2>11, <2>12, Moving
  <1> QED
    BY <1>1, <1>6, <1>7

(* An answer that is an error, or that nobody waits for. *)
LEMMA BadAnswer ==
  ASSUME McpInv, NEW m \in asked, NEW ok \in BOOLEAN, M!Answer(m, ok),
         ~ok \/ m[2] \notin DOMAIN clients[m[1]].pending
  PROVE  McpInv'
  <1> DEFINE c == m[1]
             id == m[2]
             x == clients[c]
             ids == DOMAIN x.pending \ {id}
             y == [x EXCEPT !.pending = [i \in ids |-> x.pending[i]]]
             k == x.pending[id]
  <1>0. c \in 1..Len(clients)
    BY DEF McpInv, Settled, Own
  <1>1. /\ asked' \subseteq asked /\ UNCHANGED <<server, sends, stopped>>
        /\ \/ UNCHANGED <<clients, calls, left>>
           \/ /\ id \in DOMAIN x.pending /\ calls' = M!Reject({k})
              /\ left' = left \cup M!Abandoned({k}) /\ clients' = [clients EXCEPT ![c] = y]
    BY DEF M!Answer, M!Restrict
  <1>2. x \in Client /\ (x.alive => x.open)
    BY <1>0, McpFacts
  <1>3. CASE UNCHANGED <<clients, calls, left>>
    <2>1. Settled(calls, clients, asked', {})
      BY <1>1 DEF McpInv, Settled, Kinds, Own
    <2>2. Settled(calls, clients, asked, {})'
      BY <1>3, <2>1
    <2> QED
      BY <1>1, <1>3, <2>2 DEF McpInv, Managed, M!ProcessesAreHeld, M!Held,
                              M!RespawnsAreLimited
  <1>4. CASE /\ id \in DOMAIN x.pending /\ calls' = M!Reject({k})
             /\ left' = left \cup M!Abandoned({k}) /\ clients' = [clients EXCEPT ![c] = y]
    <2>1. k \in Everyone /\ calls[k].client = c
      BY <1>0, <1>4, McpFacts DEF Waits
    <2>2. {k} = Out(x, ids)
      BY <1>4 DEF Out
    <2>3. \A i \in ids : i \in DOMAIN x.pending
      OBVIOUS
    <2>4. (\E j \in {k} : calls[j].at \in {"initialize", "list"}) => c \in left'
      BY <1>4, <2>1 DEF M!Abandoned
    <2>5. left \subseteq left'
      BY <1>4
    <2> HIDE DEF ids
    <2>6. /\ y \in Client /\ DOMAIN y.pending = ids /\ y.nextId = x.nextId /\ y.alive = x.alive
          /\ y.open = x.open /\ \A i \in ids : y.pending[i] = x.pending[i]
      <3> HIDE DEF x
      <3>1. x.pending \in Pendings
        BY <1>2, ClientFields
      <3>2. [i \in ids |-> x.pending[i]] \in Pendings
        BY <2>1, <2>3, <3>1, Pend
      <3> QED
        BY <1>2, <3>2 DEF Client
    <2> HIDE DEF y, k, c, id
    <2> QED
      BY <1>0, <1>1, <1>2, <1>4, <2>2, <2>3, <2>4, <2>5, <2>6, RejectStep
  <1> QED
    BY <1>1, <1>3, <1>4

(* As many clients as there are, their processes as they are. *)
Alike(cs) == /\ Len(cs) = Len(clients)
             /\ \A d \in 1..Len(clients) : cs[d].alive = clients[d].alive

(* What the next request of a caller to the same client does. *)
Asks(k, c, how) ==
    /\ Settled(calls', clients', asked', {})
    /\ Len(clients') = Len(clients) /\ Len(clients) \in Nat
    /\ \A d \in 1..Len(clients) : clients'[d].alive = clients[d].alive
    /\ \A j \in Everyone : j # k => calls'[j] = calls[j]
    /\ \/ calls'[k].at = "failed" /\ ~clients[c].alive
       \/ calls'[k].at = how /\ calls'[k].client = c

LEMMA AskedNext ==
  ASSUME NEW cs, NEW as, NEW k \in Everyone, Settled(calls, cs, as, {k}),
         NEW c \in 1..Len(cs), Alike(cs), NEW how \in M!Asking,
         M!Request(calls, cs, as, k, c, how)
  PROVE  Asks(k, c, how)
  <1>1. Settled(calls', clients', asked', {})
    BY RequestSettles
  <1>2. /\ Len(clients') = Len(cs) /\ Len(cs) \in Nat
        /\ \A d \in 1..Len(cs) : clients'[d].alive = cs[d].alive
        /\ \A j \in Everyone : j # k => calls'[j] = calls[j]
        /\ \/ calls'[k].at = "failed" /\ ~cs[c].alive
           \/ calls'[k].at = how /\ calls'[k].client = c
    BY Requested
  <1> QED
    BY <1>1, <1>2 DEF Alike, Asks

LEMMA MoreFacts ==
  ASSUME McpInv, NEW c \in 1..Len(clients), NEW k \in Everyone
  PROVE  /\ server \in [connected : BOOLEAN, client : Nat, attempts : Nat] /\ sends \in Nat
         /\ server.client <= Len(clients) /\ (server.connected => server.client # 0)
         /\ server.client \in Nat /\ Len(clients) \in Nat /\ c \in Nat /\ c # 0
         /\ server.attempts \in Nat /\ calls \in [Everyone -> Call] /\ c <= Len(clients)
         /\ calls[k] \in Call
  BY McpFacts DEF McpInv, Managed

(* The request of k to c was taken out, and k goes on: with the next one of  *)
(* the handshake,                                                            *)
LEMMA ListStep ==
  ASSUME McpInv, NEW cs, NEW as, NEW c \in 1..Len(cs), NEW k \in Everyone,
         Settled(calls, cs, as, {k}), calls[k].client = c, Alike(cs),
         UNCHANGED <<sends, stopped, server, left>>, calls[k].at = "initialize",
         M!Request(calls, cs, as, k, c, "list")
  PROVE  McpInv'
  <1>0. c \in 1..Len(clients)
    BY DEF Alike
  <1>1. /\ Settled(calls', clients', asked', {})
        /\ Len(clients') = Len(clients) /\ Len(clients) \in Nat
        /\ \A d \in 1..Len(clients) : clients'[d].alive = clients[d].alive
        /\ \A j \in Everyone : j # k => calls'[j] = calls[j]
        /\ \/ calls'[k].at = "failed" /\ ~clients[c].alive
           \/ calls'[k].at = "list" /\ calls'[k].client = c
    <2>1. "list" \in M!Asking
      BY DEF M!Asking
    <2>2. Asks(k, c, "list")
      BY <2>1, AskedNext
    <2> QED
      BY <2>2 DEF Asks
  <1>2. Settled(calls, clients, asked, {})'
    BY <1>1
  <1>3. M!RespawnsAreLimited'
    BY <1>1, <1>0, MoreFacts, CountingRest
  <1>4. clients'[c].alive => M!Held(c)'
    BY <1>0, <1>1 DEF M!Held, Everyone
  <1>5. k \in Callers => server.connected \/ stopped
    BY DEF McpInv, Managed, M!Rest
  <1> QED
    BY <1>1, <1>2, <1>3, <1>4, <1>5, <1>0, MoreFacts, Moving

(* with the call it respawned the server for, or the boot is over,           *)
LEMMA ConnectedStep ==
  ASSUME McpInv, NEW cs, NEW as, NEW c \in 1..Len(cs), NEW k \in Everyone,
         Settled(calls, cs, as, {k}), calls[k].client = c, Alike(cs),
         UNCHANGED <<sends, stopped>>, calls[k].at = "list", M!Connected(cs, as, k, c)
  PROVE  McpInv'
  <1>0. c \in 1..Len(clients)
    BY DEF Alike
  <1>1. /\ server' = [server EXCEPT !.client = c, !.attempts = 0,
                                    !.connected = server.connected \/ k = StartUp]
        /\ left' = left \cup (IF stopped THEN {c} ELSE {}) \cup ({server.client} \ {0})
        /\ \/ /\ k = StartUp /\ calls' = [calls EXCEPT ![k].at = "answered"]
              /\ clients' = cs /\ asked' = as
           \/ k # StartUp /\ M!Request(calls, cs, as, k, c, "call")
    BY DEF M!Connected
  <1>2. /\ server' \in [connected : BOOLEAN, client : Nat, attempts : Nat]
        /\ server'.client = c /\ server'.attempts = 0
        /\ server'.connected = (server.connected \/ k = StartUp)
    BY <1>1, <1>0, MoreFacts
  <1>3. k \in Callers => server.connected \/ stopped
    BY DEF McpInv, Managed, M!Rest
  <1>4. /\ Settled(calls, clients, asked, {})'
        /\ Len(clients') = Len(clients)
        /\ \A d \in 1..Len(clients) : clients'[d].alive = clients[d].alive
        /\ \A j \in Everyone : j # k => calls'[j] = calls[j]
        /\ calls'[k].at \in {"failed", "call", "answered"}
    <2>1. CASE k # StartUp /\ M!Request(calls, cs, as, k, c, "call")
      <3>1. /\ Settled(calls', clients', asked', {})
            /\ Len(clients') = Len(clients) /\ Len(clients) \in Nat
            /\ \A d \in 1..Len(clients) : clients'[d].alive = clients[d].alive
            /\ \A j \in Everyone : j # k => calls'[j] = calls[j]
            /\ \/ calls'[k].at = "failed" /\ ~clients[c].alive
               \/ calls'[k].at = "call" /\ calls'[k].client = c
        <4>1. "call" \in M!Asking
          BY DEF M!Asking
        <4>2. Asks(k, c, "call")
          BY <2>1, <4>1, AskedNext
        <4> QED
          BY <4>2 DEF Asks
      <3>2. Settled(calls, clients, asked, {})'
        BY <3>1
      <3> QED
        BY <3>1, <3>2
    <2>2. CASE /\ k = StartUp /\ calls' = [calls EXCEPT ![k].at = "answered"]
               /\ clients' = cs /\ asked' = as
      <3> DEFINE b == [calls[k] EXCEPT !.at = "answered"]
      <3>1. b \in Call /\ b.at = "answered"
        BY <1>0, MoreFacts DEF Call, M!Rest
      <3>2. calls' = [calls EXCEPT ![k] = b]
        BY <2>2
      <3> HIDE DEF b
      <3>3. k \notin Callers /\ b.at \notin M!Asking
        BY <2>2, <3>1, ClientAssumption DEF M!Asking
      <3>4. Settled([calls EXCEPT ![k] = b], cs, as, {})
        BY <3>1, <3>3, Idling
      <3>5. Settled(calls, clients, asked, {})'
        BY <2>2, <3>2, <3>4
      <3>6. /\ calls'[k].at = "answered"
            /\ \A j \in Everyone : j # k => calls'[j] = calls[j]
        BY <3>1, <3>2, <1>0, MoreFacts
      <3>7. /\ Len(clients') = Len(clients)
            /\ \A d \in 1..Len(clients) : clients'[d].alive = clients[d].alive
        BY <2>2 DEF Alike
      <3> QED
        BY <3>5, <3>6, <3>7
    <2> QED
      BY <1>1, <2>1, <2>2
  <1>5. M!RespawnsAreLimited'
    BY <1>2, <1>4, <1>0, MoreFacts, CountingRest
  <1>6. M!Held(c)' \/ c \in left'
    <2>1. CASE stopped
      BY <1>1, <2>1
    <2>2. CASE ~stopped
      <3>1. server.connected \/ k = StartUp
        BY <1>3, <2>2 DEF Everyone, M!Everyone
      <3> QED
        BY <1>2, <3>1 DEF M!Held
    <2> QED
      BY <2>1, <2>2
  <1>7. k \in Callers => server'.connected \/ stopped
    BY <1>2, <1>3
  <1>8. left \subseteq left' /\ (server.connected => server.client \in left')
    BY <1>1, <1>0, MoreFacts
  <1> QED
    BY <1>2, <1>4, <1>5, <1>6, <1>7, <1>8, <1>0, MoreFacts, Moving

(* or with its answer. *)
LEMMA ReturnStep ==
  ASSUME McpInv, NEW c \in 1..Len(clients), NEW k \in Everyone, NEW cs, NEW as,
         Settled(calls, cs, as, {k}), calls[k].client = c, Alike(cs),
         UNCHANGED <<sends, stopped, server, left>>, calls[k].at = "call",
         NEW what, what = <<calls[k].at, calls[k].n>>,
         calls' = [calls EXCEPT ![k].at = "answered", ![k].got = what],
         clients' = cs, asked' = as
  PROVE  McpInv'
  <1> DEFINE b == [calls[k] EXCEPT !.at = "answered", !.got = what]
  <1>1. /\ b \in Call /\ b.at = "answered" /\ b.got = what /\ b.n = calls[k].n
        /\ what = <<"call", calls[k].n>>
    <2>1. what \in Methods \X Nat /\ what = <<"call", calls[k].n>>
      BY MoreFacts, CallFields DEF Methods, M!Asking
    <2> QED
      BY <2>1, MoreFacts DEF Call, M!Rest
  <1>2. calls' = [calls EXCEPT ![k] = b]
    OBVIOUS
  <1> HIDE DEF b
  <1>3. b.at \notin M!Asking
    BY <1>1 DEF M!Asking
  <1>4. Settled([calls EXCEPT ![k] = b], cs, as, {})
    BY <1>1, <1>3, Idling
  <1>5. Settled(calls, clients, asked, {})'
    BY <1>2, <1>4
  <1>6. /\ calls'[k].at = "answered"
        /\ \A j \in Everyone : j # k => calls'[j] = calls[j]
    BY <1>1, <1>2, MoreFacts
  <1>7. M!RespawnsAreLimited'
    BY <1>6, MoreFacts, CountingRest
  <1>8. /\ Len(clients') = Len(clients)
        /\ \A d \in 1..Len(clients) : clients'[d].alive = clients[d].alive
    BY DEF Alike
  <1>9. clients'[c].alive => M!Held(c)' \/ c \in left'
    <2> SUFFICES ASSUME clients[c].alive, c \notin left PROVE M!Held(c)'
      BY <1>8
    <2>1. M!Held(c)
      BY DEF McpInv, M!ProcessesAreHeld
    <2>2. CASE server.connected /\ server.client = c
      BY <2>2 DEF M!Held
    <2>3. CASE \E j \in Everyone : calls[j].client = c /\ calls[j].at \in {"initialize", "list"}
      <3>1. PICK j \in Everyone : calls[j].client = c /\ calls[j].at \in {"initialize", "list"}
        BY <2>3
      <3>2. j # k
        BY <3>1
      <3> QED
        BY <1>6, <3>1, <3>2 DEF M!Held, Everyone
    <2> QED
      BY <2>1, <2>2, <2>3 DEF M!Held, Everyone
  <1>10. calls'[k].at \in M!Rest /\ calls[k].at \notin {"initialize", "list"}
    BY <1>6 DEF M!Rest
  <1>11. /\ server' \in [connected : BOOLEAN, client : Nat, attempts : Nat]
         /\ sends' \in Nat /\ server'.client <= Len(clients')
         /\ (server'.connected => server'.client # 0) /\ server'.client = server.client
         /\ Len(clients) <= Len(clients') /\ left \subseteq left' /\ c \in Nat
    BY <1>8, MoreFacts
  <1>12. \A d \in 1..Len(clients') :
            d # c /\ clients'[d].alive => d \in 1..Len(clients) /\ clients[d].alive
    BY <1>8
  <1> QED
    BY <1>5, <1>6, <1>7, <1>9, <1>10, <1>11, <1>12, Moving

LEMMA GoodAnswer ==
  ASSUME McpInv, NEW m \in asked, M!Answer(m, TRUE),
         m[2] \in DOMAIN clients[m[1]].pending
  PROVE  McpInv'
  <1> DEFINE c == m[1]
             x == clients[c]
             ids == DOMAIN x.pending \ {m[2]}
             y == [x EXCEPT !.pending = [i \in ids |-> x.pending[i]]]
             cs == [clients EXCEPT ![c] = y]
             as == asked \ {m}
             k == x.pending[m[2]]
  <1>1. /\ UNCHANGED <<sends, stopped>>
        /\ \/ /\ calls[k].at = "initialize" /\ M!Request(calls, cs, as, k, c, "list")
              /\ UNCHANGED <<server, left>>
           \/ calls[k].at = "list" /\ M!Connected(cs, as, k, c)
           \/ /\ calls[k].at = "call"
              /\ calls' = [calls EXCEPT ![k].at = "answered", ![k].got = m[3]]
              /\ clients' = cs /\ asked' = as /\ UNCHANGED <<server, left>>
    BY DEF M!Answer, M!Restrict
  <1>2. c \in 1..Len(clients) /\ m[3] = <<calls[k].at, calls[k].n>>
    BY DEF McpInv, Settled, Own
  <1>3. x \in Client /\ (x.alive => x.open) /\ k \in Everyone /\ calls[k].client = c
    BY <1>2, McpFacts DEF Waits
  <1>4. {k} = Out(x, ids) /\ as \subseteq asked /\ \A i \in ids : i \in DOMAIN x.pending
    BY DEF Out
  <1> HIDE DEF ids
  <1>5. /\ y \in Client /\ DOMAIN y.pending = ids /\ y.nextId = x.nextId /\ y.alive = x.alive
        /\ y.open = x.open /\ \A i \in ids : y.pending[i] = x.pending[i]
    <2> HIDE DEF x
    <2>1. x.pending \in Pendings
      BY <1>3, ClientFields
    <2>2. [i \in ids |-> x.pending[i]] \in Pendings
      BY <1>3, <1>4, <2>1, Pend
    <2> QED
      BY <1>3, <2>2 DEF Client
  <1> HIDE DEF y
  <1>6. Len(cs) = Len(clients) /\ \A d \in 1..Len(clients) : cs[d].alive = clients[d].alive
    BY <1>2, <1>5, McpFacts
  <1>7. cs = [clients EXCEPT ![c] = y] /\ Alike(cs)
    BY <1>6 DEF Alike
  <1> HIDE DEF k, cs, as, c
  <1>8. Settled(calls, cs, as, {k})
    <2>1. Settled(calls, clients, asked, {})
      BY DEF McpInv
    <2>2. /\ ids \subseteq DOMAIN clients[c].pending /\ y.nextId = clients[c].nextId
          /\ \A i \in ids : y.pending[i] = clients[c].pending[i]
          /\ {k} = Out(clients[c], ids) /\ (y.alive => y.open)
      BY <1>3, <1>4, <1>5
    <2> HIDE DEF x
    <2>3. PICK K : K = Out(clients[c], ids)
      OBVIOUS
    <2>4. Settled(calls, cs, as, K)
      BY <1>2, <1>4, <1>5, <1>7, <2>1, <2>2, <2>3, TakingOut
    <2> QED
      BY <2>2, <2>3, <2>4
  <1> HIDE DEF x
  <1>9a. PICK b \in 1..Len(clients), j \in Everyone : b = c /\ j = k
    BY <1>2, <1>3
  <1>9b. PICK ds, bs, what : ds = cs /\ bs = as /\ what = m[3]
    OBVIOUS
  <1>9. b = c /\ j = k /\ ds = cs /\ bs = as /\ what = m[3]
    BY <1>9a, <1>9b
  <1>10. /\ Settled(calls, ds, bs, {j}) /\ Alike(ds) /\ calls[j].client = b
         /\ b \in 1..Len(ds) /\ what = <<calls[j].at, calls[j].n>>
    BY <1>2, <1>3, <1>6, <1>7, <1>8, <1>9
  <1>11. CASE /\ calls[k].at = "initialize" /\ M!Request(calls, cs, as, k, c, "list")
              /\ UNCHANGED <<server, left>>
    <2>1. /\ calls[j].at = "initialize" /\ M!Request(calls, ds, bs, j, b, "list")
          /\ UNCHANGED <<server, left, sends, stopped>>
      BY <1>1, <1>9, <1>11
    <2> QED
      BY <1>10, <2>1, ListStep
  <1>12. CASE calls[k].at = "list" /\ M!Connected(cs, as, k, c)
    <2>1. calls[j].at = "list" /\ M!Connected(ds, bs, j, b) /\ UNCHANGED <<sends, stopped>>
      BY <1>1, <1>9, <1>12
    <2> QED
      BY <1>10, <2>1, ConnectedStep
  <1>13. CASE /\ calls[k].at = "call"
              /\ calls' = [calls EXCEPT ![k].at = "answered", ![k].got = m[3]]
              /\ clients' = cs /\ asked' = as /\ UNCHANGED <<server, left>>
    <2>1. /\ calls[j].at = "call" /\ clients' = ds /\ asked' = bs
          /\ calls' = [calls EXCEPT ![j].at = "answered", ![j].got = what]
          /\ UNCHANGED <<server, left, sends, stopped>>
      BY <1>1, <1>9, <1>13
    <2> QED
      BY <1>10, <2>1, ReturnStep
  <1> QED
    BY <1>1, <1>11, <1>12, <1>13

LEMMA InitMcp == M!Init => McpInv
  <1> SUFFICES ASSUME M!Init PROVE McpInv
    OBVIOUS
  <1>1. /\ server = [connected |-> FALSE, client |-> 0, attempts |-> 0]
        /\ clients = <<>> /\ asked = {} /\ left = {} /\ sends = 0
        /\ calls = [k \in Everyone |-> M!Idle]
    BY DEF M!Init, Everyone
  <1>2. M!Idle \in Call /\ M!Idle.at = "idle"
    BY DEF M!Idle, M!Nothing, Call, M!Rest, Methods
  <1>3. calls \in [Everyone -> Call] /\ \A k \in Everyone : calls[k].at = "idle"
    BY <1>1, <1>2
  <1>4. Len(clients) = 0 /\ clients \in Seq(Client)
    BY <1>1
  <1>5. Settled(calls, clients, asked, {})
    <2>1. Kinds(calls, clients, asked)
      BY <1>1, <1>3, <1>4 DEF Kinds
    <2>2. Pending(calls, clients, {})
      BY <1>3 DEF Pending, M!Asking
    <2>3. Waits(calls, clients, {}) /\ Own(calls, clients, asked)
      BY <1>1, <1>4 DEF Waits, Own
    <2>4. Answered(calls)
      BY <1>3 DEF Answered, Everyone, M!Everyone
    <2> QED
      BY <2>1, <2>2, <2>3, <2>4 DEF Settled
  <1>6. Managed
    <2>1. \A k \in Callers : calls[k].at \in M!Rest
      BY <1>3 DEF M!Rest, Everyone, M!Everyone
    <2> QED
      BY <1>1, <1>4, <2>1 DEF Managed
  <1>7. M!ProcessesAreHeld
    BY <1>4 DEF M!ProcessesAreHeld
  <1>8. M!RespawnsAreLimited
    <2>1. InWait = {}
      BY <1>3 DEF InWait, Everyone, M!Everyone
    <2>2. Cardinality(InWait) = 0 /\ Cardinality(Callers) \in Nat /\ MaxRespawns \in Nat \ {0}
      BY <2>1, ClientAssumption, FS_EmptySet, FS_CardinalityType
    <2>3. server.attempts = 0
      BY <1>1
    <2>4. server.attempts + Cardinality(InWait) < MaxRespawns + Cardinality(Callers)
      BY <2>2, <2>3
    <2> QED
      BY <2>4 DEF M!RespawnsAreLimited, InWait, M!Cardinality, Cardinality
  <1> QED
    BY <1>5, <1>6, <1>7, <1>8 DEF McpInv

LEMMA NextMcp == McpInv /\ [M!Next]_mcpVars => McpInv'
  <1> SUFFICES ASSUME McpInv, [M!Next]_mcpVars PROVE McpInv'
    OBVIOUS
  <1>1. CASE M!Start
    BY <1>1, StartStep_
  <1>2. CASE M!Stop
    BY <1>2, StopStep
  <1>3. ASSUME NEW k \in Callers, M!CallTool(k) PROVE McpInv'
    BY <1>3, CallToolStep
  <1>4. ASSUME NEW k \in Callers, M!Respawn(k) PROVE McpInv'
    BY <1>4, RespawnStep
  <1>5. ASSUME NEW c \in 1..Len(clients), M!ProcessDies(c) PROVE McpInv'
    BY <1>5, DiesStep
  <1>6. ASSUME NEW c \in 1..Len(clients), M!ExitSeen(c) PROVE McpInv'
    BY <1>6, ExitSeenStep
  <1>7. ASSUME NEW c \in 1..Len(clients), NEW id \in DOMAIN clients[c].pending, M!Expire(c, id)
        PROVE  McpInv'
    BY <1>7, ExpireStep
  <1>8. ASSUME NEW m \in asked, NEW ok \in BOOLEAN, M!Answer(m, ok) PROVE McpInv'
    <2>1. CASE ~ok \/ m[2] \notin DOMAIN clients[m[1]].pending
      BY <1>8, <2>1, BadAnswer
    <2>2. CASE ok /\ m[2] \in DOMAIN clients[m[1]].pending
      <3>1. M!Answer(m, TRUE)
        BY <1>8, <2>2
      <3> QED
        BY <2>2, <3>1, GoodAnswer
    <2> QED
      BY <1>8, <2>1, <2>2
  <1>9. CASE UNCHANGED mcpVars
    <2>1. /\ calls' = calls /\ clients' = clients /\ asked' = asked /\ server' = server
          /\ sends' = sends /\ left' = left /\ stopped' = stopped
      BY <1>9 DEF mcpVars
    <2>2. Settled(calls, clients, asked, {})'
      BY <2>1 DEF McpInv
    <2>3. Managed'
      BY <2>1 DEF McpInv, Managed
    <2>4. M!ProcessesAreHeld'
      BY <2>1 DEF McpInv, M!ProcessesAreHeld, M!Held
    <2>5. M!RespawnsAreLimited'
      BY <2>1 DEF McpInv, M!RespawnsAreLimited
    <2> QED
      BY <2>2, <2>3, <2>4, <2>5 DEF McpInv
  <1> QED
    BY <1>1, <1>2, <1>3, <1>4, <1>5, <1>6, <1>7, <1>8, <1>9 DEF M!Next

(* What is kept says what the calls are promised. *)
LEMMA McpMeans ==
  ASSUME McpInv
  PROVE  /\ M!AnswerIsOwn /\ M!WaitersArePending /\ M!ProcessesAreHeld
         /\ M!RespawnsAreLimited
  <1>1. Answered(calls) /\ Pending(calls, clients, {}) /\ Waits(calls, clients, {})
    BY DEF McpInv, Settled
  <1>2. M!AnswerIsOwn
    BY <1>1 DEF Answered, M!AnswerIsOwn
  <1>3. M!WaitersArePending
    BY <1>1 DEF Pending, Waits, M!WaitersArePending, Everyone
  <1> QED
    BY <1>2, <1>3 DEF McpInv

-----------------------------------------------------------------------------
(* All of it together: a behaviour is one of the parts, and the one it is    *)
(* keeps its invariant.                                                      *)

AllInv == /\ side = "selfmod" => SafeInv /\ MemoryInv
          /\ side = "cron" => CronInv
          /\ side = "exec" => ExecInv
          /\ side = "sandbox" => BoxInv
          /\ side = "mcp" => McpInv
          /\ side = "tokens" => TokenInv

LEMMA InitAll == AllInit => AllInv
  <1> SUFFICES ASSUME AllInit PROVE AllInv
    OBVIOUS
  <1>1. C!Init /\ S!Init /\ E!Init /\ E!BoxInit /\ M!Init /\ M!TokenInit
    BY DEF AllInit
  <1>2. SafeInv /\ MemoryInv
    BY <1>1, InitSafe, InitLearns, CommitAssumption
  <1>3. CronInv /\ ExecInv
    BY <1>1, InitCron, InitExec
  <1>4. BoxInv /\ McpInv /\ TokenInv
    BY <1>1, InitBox, InitMcp, InitTokens
  <1> QED
    BY <1>2, <1>3, <1>4 DEF AllInv

LEMMA NextAll == AllInv /\ [AllNext]_all => AllInv'
  <1> SUFFICES ASSUME AllInv, [AllNext]_all PROVE AllInv'
    OBVIOUS
  <1>1. /\ UNCHANGED side
        /\ side = "selfmod" => [S!Next]_modVars
        /\ side = "cron" => [C!Next]_cronVars
        /\ side = "exec" => [E!Next]_execVars
        /\ side = "sandbox" => [E!BoxNext]_boxVars
        /\ side = "mcp" => [M!Next]_mcpVars
        /\ side = "tokens" => [M!TokenNext]_tokenVars
    BY DEF AllNext, Journal, Cron, SelfMod, Exec, Box, Mcp, Tokens, all
  <1>2. side = "selfmod" => (SafeInv /\ MemoryInv)'
    BY <1>1, NextSafe, NextLearns, CommitAssumption DEF AllInv
  <1>3. side = "cron" => CronInv'
    BY <1>1, NextCron DEF AllInv
  <1>4. side = "exec" => ExecInv'
    BY <1>1, NextExec DEF AllInv
  <1>5. side = "sandbox" => BoxInv'
    BY <1>1, NextBox DEF AllInv
  <1>6. side = "mcp" => McpInv'
    BY <1>1, NextMcp DEF AllInv
  <1>7. side = "tokens" => TokenInv'
    BY <1>1, NextTokens DEF AllInv
  <1> QED
    BY <1>1, <1>2, <1>3, <1>4, <1>5, <1>6, <1>7 DEF AllInv

LEMMA AllHolds == AllSpec => []AllInv
  BY InitAll, NextAll, PTL DEF AllSpec

(* For any number of commits, gates, crashes and restarts: every head that   *)
(* is merged passed the gate as that very head, although a confirmation      *)
(* outlives its worktree; the commit a rollback goes back to is in main, in  *)
(* front of HEAD, unless one head was merged twice; and a merge the          *)
(* supervisor undid does not stay in memory as one that worked, unless its   *)
(* evidence was seen to be lost (self-mod-service.ts:104, :329, :340-360,    *)
(* supervisor-lib.mjs).                                                      *)
THEOREM MergesStaySound == AllSpec => []MergesAreSound
  <1>1. AllInv => MergesAreSound
    BY SafeMeans, Learnt DEF AllInv, MergesAreSound
  <1> QED
    BY <1>1, AllHolds, PTL

(* For any jobs, slots, sessions, runs, callers, users and requests: a job   *)
(* runs once at a time, has its timer, and a one-shot is delivered once, but *)
(* for what a save that failed or a death before the save excuses            *)
(* (cron/service.ts); a live interpreter is in the map or was put out of it  *)
(* by the late exit of the one before, and a run that had its interpreter to *)
(* itself is shown what it printed (exec/session-manager.ts); what goes on to*)
(* the sandbox finds it running or being started, unless a command failed or *)
(* somebody stopped it (docker-backend.ts); an answer of an MCP server       *)
(* reaches the call it belongs to, and nobody waits for a request that is not*)
(* pending (mcp/client.ts, mcp/manager.ts); and the store holds the refresh  *)
(* token the issuer takes, unless the newest could not be read or stored     *)
(* (mcp/oauth.ts).                                                           *)
THEOREM RunsStayInHand == AllSpec => []RunsAreInHand
  <1>1. AllInv => RunsAreInHand
    <2> SUFFICES ASSUME AllInv PROVE RunsAreInHand
      OBVIOUS
    <2>1. side = "cron" => C!NoStackedRuns /\ C!TimersMatchJobs /\ C!OneShotOnce
      BY DEF AllInv, CronInv, CronOK, RunsOK, TimersOK, OnceOK
    <2>2. side = "exec" => E!LiveIsReachable /\ E!AloneIsExact
      BY DEF AllInv, ExecInv, ProcsOK, CallsOK
    <2>3. side = "sandbox" => E!ReadyMeansRunning
      BY DEF AllInv, BoxInv, E!ReadyMeansRunning
    <2>4. side = "mcp" => /\ M!AnswerIsOwn /\ M!WaitersArePending
                          /\ M!ProcessesAreHeld /\ M!RespawnsAreLimited
      BY McpMeans DEF AllInv
    <2>5. side = "tokens" => M!RefreshTokenIsGood
      BY TokensMean DEF AllInv
    <2> QED
      BY <2>1, <2>2, <2>3, <2>4, <2>5 DEF RunsAreInHand
  <1> QED
    BY <1>1, AllHolds, PTL
=============================================================================
