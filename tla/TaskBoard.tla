------------------------------ MODULE TaskBoard ------------------------------
(* The task board (tasks/store.ts) with its three writers: the tools of the  *)
(* model, the console, and the heartbeat, which tidies the board without     *)
(* asking (services/heartbeat-service.ts, temporal/urgency.ts).  The order   *)
(* of the tasks counts: of two with one title the earlier is kept.  Each     *)
(* write is to memory and to the file at once, so there is one board.        *)
EXTENDS Integers, Sequences, SequencesExt, WellFoundedInduction, TLAPS

CONSTANTS
    Keys,       \* titles, reduced to latin letters and digits
    EventKeys,  \* those that name an event by a word of the title
    Late,       \* days overdue after which a task nobody began is given up
    LateByUTC,  \* the same for the cleanup, which counts in hours from midnight UTC
    MaxDay,     \* bound: days
    MaxTasks,   \* bound: tasks on the board
    None        \* no due date

ASSUME BoardAssumption ==
    /\ EventKeys \subseteq Keys /\ MaxDay \in Nat /\ MaxTasks \in Nat
    /\ Late \in Nat \ {0} /\ LateByUTC \in {Late, Late + 1}

VARIABLES
    board,      \* the tasks, in the order of their creation
    today,
    tidied      \* the heartbeat has cleaned up and has yet to act on what is due

boardVars == <<board, today, tidied>>

Status == {"todo", "in_progress", "done", "cancelled"}
Dates == (0..MaxDay) \cup {None}
Task == [key : Keys, due : Dates, status : Status]

TypeOK == /\ board \in Seq(Task) /\ Len(board) <= MaxTasks
          /\ today \in 0..MaxDay /\ tidied \in BOOLEAN

Init == board = <<>> /\ today = 0 /\ tidied = FALSE
-----------------------------------------------------------------------------
Active(t) == t.status \in {"todo", "in_progress"}
IsEvent(t) == t.key \in EventKeys
Past(t) == t.due # None /\ t.due < today
Overdue(t, days) == t.due # None /\ today - t.due >= days

(* task_add and the console: at the end, as "todo". *)
Add(key, due) ==
    /\ Len(board) < MaxTasks
    /\ board' = Append(board, [key |-> key, due |-> due, status |-> "todo"])
    /\ UNCHANGED <<today, tidied>>

(* task_update, task_done and the console: any field, any status from any. *)
Update(n, key, due, status) ==
    /\ n \in DOMAIN board
    /\ board' = [board EXCEPT ![n] = [key |-> key, due |-> due, status |-> status]]
    /\ board' # board /\ UNCHANGED <<today, tidied>>

Delete(n) == /\ n \in DOMAIN board /\ board' = RemoveAt(board, n)
             /\ UNCHANGED <<today, tidied>>

NextDay == today < MaxDay /\ today' = today + 1 /\ UNCHANGED <<board, tidied>>
-----------------------------------------------------------------------------
(* What the heartbeat does to the board *)

WithStatus(t, status) == [t EXCEPT !.status = status]

(* Given up: overdue for long, and nobody began it. *)
GivenUp(b) == [n \in DOMAIN b |->
    IF b[n].status = "todo" /\ Overdue(b[n], LateByUTC) THEN WithStatus(b[n], "cancelled") ELSE b[n]]

(* Of the active tasks with one title the first stays. *)
Deduplicated(b) == [n \in DOMAIN b |->
    IF Active(b[n]) /\ \E m \in 1..(n - 1) : Active(b[m]) /\ b[m].key = b[n].key
    THEN WithStatus(b[n], "cancelled") ELSE b[n]]

(* Mutant: the duplicates are looked for first. *)
CleanedDuplicatesFirst(b) == GivenUp(Deduplicated(b))

Cleaned(b) == Deduplicated(GivenUp(b))

(* Events of the past are done, other tasks long overdue are given up. *)
Acted(b) == [n \in DOMAIN b |->
    IF ~Active(b[n]) THEN b[n]
    ELSE IF IsEvent(b[n]) /\ Past(b[n]) THEN WithStatus(b[n], "done")
    ELSE IF b[n].status = "todo" /\ Overdue(b[n], Late) THEN WithStatus(b[n], "cancelled")
    ELSE b[n]]

(* The cleanup comes first; model calls on memory lie between the two. *)
Cleanup == ~tidied /\ board' = Cleaned(board) /\ tidied' = TRUE /\ UNCHANGED today
Act == tidied /\ board' = Acted(board) /\ tidied' = FALSE /\ UNCHANGED today

Next ==
    \/ \E key \in Keys, due \in Dates : Add(key, due)
    \/ \E n \in DOMAIN board :
          \/ Delete(n)
          \/ \E status \in Status : Update(n, board[n].key, board[n].due, status)
          \/ \E due \in Dates : Update(n, board[n].key, due, board[n].status)
          \/ \E key \in Keys : Update(n, key, board[n].due, board[n].status)
    \/ NextDay \/ Cleanup \/ Act

Spec == Init /\ [][Next]_boardVars
-----------------------------------------------------------------------------
(* Properties *)

Heartbeat == tidied' # tidied
Open(b, key) == {n \in DOMAIN b : Active(b[n]) /\ b[n].key = key}

(* The cleanup leaves of each title a task open, if one was open that is not *)
(* itself given up: it never cancels the new one as a duplicate of the old   *)
(* one and the old one as overdue.                                           *)
KeepsTitles == ~tidied =>
    \A key \in Keys : (\E n \in Open(board, key) : Active(GivenUp(board)[n]))
                         => Open(board', key) # {}

Only(n) == Open(board, board[n].key) = {n}

(* What somebody has begun stays begun, unless it is an event of the past or *)
(* the same title is open twice.                                             *)
KeepsBegun == \A n \in DOMAIN board :
    board[n].status = "in_progress" /\ Only(n) /\ ~(IsEvent(board[n]) /\ Past(board[n]))
    => board'[n].status = "in_progress"

(* What is not yet due stays open, but for a duplicate.                      *)
KeepsDue == \A n \in DOMAIN board :
    Active(board[n]) /\ ~Past(board[n]) /\ Only(n) => Active(board'[n])

(* The heartbeat tidies the board without asking and loses no work.          *)
WorkIsKept == [][Heartbeat => KeepsTitles /\ KeepsBegun /\ KeepsDue]_boardVars
-----------------------------------------------------------------------------
(* The tidying loses no work, on a board of any length *)

USE BoardAssumption

(* Any set of naturals has a least element. *)
LEMMA LeastNat ==
  ASSUME NEW T \in SUBSET Nat, T # {}
  PROVE  \E x \in T : \A y \in T : x <= y
  <1> DEFINE R == OpToRel(<, Nat)
  <1>1. IsWellFoundedOn(R, Nat)
    BY NatLessThanWellFounded
  <1>2. \A x, y \in Nat : x < y => <<x, y>> \in R
    BY DEF OpToRel
  <1> HIDE DEF R
  <1>3. PICK x \in T : \A y \in T : ~(<<y, x>> \in R)
    BY <1>1, WFMin
  <1>4. \A y \in T : ~(y < x)
    BY <1>2, <1>3
  <1>5. \A y \in T : x <= y
    BY <1>4
  <1> QED
    BY <1>5

LEMMA WithStatusType ==
  ASSUME NEW t \in Task, NEW status \in Status
  PROVE  /\ WithStatus(t, status) \in Task
         /\ WithStatus(t, status).key = t.key
         /\ WithStatus(t, status).due = t.due
         /\ WithStatus(t, status).status = status
  BY DEF WithStatus, Task

(* A pass of the tidying maps each task to itself or to one that is closed.  *)
Tidies(b, c) ==
    /\ c \in Seq(Task) /\ Len(c) = Len(b)
    /\ \A n \in 1..Len(b) :
          c[n] = b[n] \/ (c[n].key = b[n].key /\ ~Active(c[n]))

LEMMA MappedTidies ==
  ASSUME NEW b \in Seq(Task), NEW c, DOMAIN c = DOMAIN b,
         c = [n \in DOMAIN b |-> c[n]],
         \A n \in DOMAIN b : \/ c[n] = b[n]
                             \/ \E status \in {"done", "cancelled"} :
                                   c[n] = WithStatus(b[n], status)
  PROVE  Tidies(b, c)
  <1>1. Len(b) \in Nat /\ DOMAIN b = 1..Len(b) /\ \A n \in DOMAIN b : b[n] \in Task
    OBVIOUS
  <1>2. \A n \in DOMAIN b :
          /\ c[n] \in Task
          /\ c[n] = b[n] \/ (c[n].key = b[n].key /\ ~Active(c[n]))
    <2> TAKE n \in DOMAIN b
    <2>1. CASE c[n] = b[n]
      BY <1>1, <2>1
    <2>2. ASSUME NEW status \in {"done", "cancelled"},
                 c[n] = WithStatus(b[n], status)
          PROVE  c[n] \in Task /\ c[n].key = b[n].key /\ ~Active(c[n])
      BY <1>1, <2>2, WithStatusType DEF Status, Active
    <2> QED
      BY <2>1, <2>2
  <1>3. c \in [1..Len(b) -> Task]
    BY <1>1, <1>2
  <1>4. c \in Seq(Task) /\ Len(c) = Len(b)
    BY <1>1, <1>3
  <1> QED
    BY <1>1, <1>2, <1>4 DEF Tidies

LEMMA GivenUpTidies == ASSUME NEW b \in Seq(Task) PROVE Tidies(b, GivenUp(b))
  BY MappedTidies DEF GivenUp

LEMMA DeduplicatedTidies ==
  ASSUME NEW b \in Seq(Task) PROVE Tidies(b, Deduplicated(b))
  BY MappedTidies DEF Deduplicated

LEMMA ActedTidies == ASSUME NEW b \in Seq(Task) PROVE Tidies(b, Acted(b))
  BY MappedTidies DEF Acted

LEMMA CleanedTidies == ASSUME NEW b \in Seq(Task) PROVE Tidies(b, Cleaned(b))
  BY GivenUpTidies, DeduplicatedTidies DEF Tidies, Cleaned

LEMMA NextType == TypeOK /\ [Next]_boardVars => TypeOK'
  <1> SUFFICES ASSUME TypeOK, [Next]_boardVars PROVE TypeOK'
    OBVIOUS
  <1>1. /\ board \in Seq(Task) /\ Len(board) \in Nat /\ DOMAIN board = 1..Len(board)
        /\ Len(board) <= MaxTasks /\ today \in 0..MaxDay /\ tidied \in BOOLEAN
        /\ MaxTasks \in Nat
    BY DEF TypeOK
  <1>2. ASSUME NEW key \in Keys, NEW due \in Dates, Add(key, due)
        PROVE  TypeOK'
    <2>1. [key |-> key, due |-> due, status |-> "todo"] \in Task
      BY DEF Task, Status
    <2>2. board' \in Seq(Task) /\ Len(board') = Len(board) + 1
      BY <1>1, <1>2, <2>1 DEF Add
    <2> QED
      BY <1>1, <1>2, <2>2 DEF Add, TypeOK
  <1>3. ASSUME NEW n \in DOMAIN board, Delete(n)
        PROVE  TypeOK'
    <2> n \in 1..Len(board) /\ n \in Nat
      BY <1>1
    <2>1. SubSeq(board, 1, n - 1) \in Seq(Task)
          /\ Len(SubSeq(board, 1, n - 1)) = n - 1
      BY <1>1
    <2>2. SubSeq(board, n + 1, Len(board)) \in Seq(Task)
          /\ Len(SubSeq(board, n + 1, Len(board))) = Len(board) - n
      BY <1>1
    <2>3. board' \in Seq(Task) /\ Len(board') = Len(board) - 1
      BY <1>1, <1>3, <2>1, <2>2 DEF Delete, RemoveAt
    <2> QED
      BY <1>1, <1>3, <2>3 DEF Delete, TypeOK
  <1>4. ASSUME NEW n \in DOMAIN board, NEW key \in Keys, NEW due \in Dates,
               NEW status \in Status, Update(n, key, due, status)
        PROVE  TypeOK'
    <2>1. [key |-> key, due |-> due, status |-> status] \in Task
      BY DEF Task
    <2>2. board' \in Seq(Task) /\ Len(board') = Len(board)
      BY <1>1, <1>4, <2>1 DEF Update
    <2> QED
      BY <1>1, <1>4, <2>2 DEF Update, TypeOK
  <1>5. CASE NextDay
    BY <1>1, <1>5 DEF NextDay, TypeOK
  <1>6. CASE Cleanup
    BY <1>1, <1>6, CleanedTidies DEF Cleanup, Tidies, TypeOK
  <1>7. CASE Act
    BY <1>1, <1>7, ActedTidies DEF Act, Tidies, TypeOK
  <1>8. CASE UNCHANGED boardVars
    BY <1>1, <1>8 DEF boardVars, TypeOK
  <1>9. ASSUME NEW n \in DOMAIN board
        PROVE  /\ board[n].key \in Keys /\ board[n].due \in Dates
               /\ board[n].status \in Status
    <2>1. board[n] \in Task
      BY <1>1
    <2> QED
      BY <2>1 DEF Task
  <1> QED
    BY <1>2, <1>3, <1>4, <1>5, <1>6, <1>7, <1>8, <1>9 DEF Next

(* The board is well typed for any titles, days and number of tasks. *)
THEOREM TypeCorrect == Spec => []TypeOK
  <1>1. Init => TypeOK
    <2> SUFFICES ASSUME Init PROVE TypeOK
      OBVIOUS
    <2>1. board \in Seq(Task) /\ Len(board) = 0
      BY DEF Init
    <2>2. today \in 0..MaxDay
      BY DEF Init
    <2>3. tidied \in BOOLEAN
      BY DEF Init
    <2> QED
      BY <2>1, <2>2, <2>3 DEF TypeOK
  <1> QED
    BY <1>1, NextType, PTL DEF Spec

(* What the two passes do to a task that is the only open one of its title. *)
LEMMA CleanedOnly ==
  ASSUME NEW b \in Seq(Task), NEW n \in DOMAIN b, Open(b, b[n].key) = {n},
         GivenUp(b)[n] = b[n]
  PROVE  Cleaned(b)[n] = b[n]
  <1> DEFINE g == GivenUp(b)
  <1>1. g \in Seq(Task) /\ Len(g) = Len(b)
        /\ \A m \in 1..Len(b) : g[m] = b[m] \/ (g[m].key = b[m].key /\ ~Active(g[m]))
    BY GivenUpTidies DEF Tidies
  <1>2. DOMAIN g = DOMAIN b /\ DOMAIN b = 1..Len(b) /\ Len(b) \in Nat
    BY <1>1
  <1>3. ASSUME NEW m \in 1..(n - 1), Active(g[m]), g[m].key = g[n].key
        PROVE  FALSE
    <2>1. m \in DOMAIN b /\ m # n
      BY <1>2
    <2>2. g[m] = b[m]
      BY <1>1, <1>2, <1>3, <2>1
    <2>3. m \in Open(b, b[n].key)
      BY <1>3, <2>1, <2>2 DEF Open
    <2> QED
      BY <2>1, <2>3
  <1> HIDE DEF g
  <1>4. Deduplicated(g)[n] = g[n]
    BY <1>2, <1>3 DEF Deduplicated
  <1> QED
    BY <1>4 DEF Cleaned, g

(* What is not overdue is not given up, and what somebody began is not.      *)
LEMMA NotGivenUp ==
  ASSUME TypeOK, NEW n \in DOMAIN board,
         board[n].status = "in_progress" \/ ~Past(board[n])
  PROVE  /\ GivenUp(board)[n] = board[n]
         /\ ~(board[n].status = "todo" /\ Overdue(board[n], Late))
  <1>1. board[n].due \in Dates /\ today \in 0..MaxDay
    <2>1. board[n] \in Task
      BY DEF TypeOK
    <2> QED
      BY <2>1 DEF TypeOK, Task
  <1>2. ASSUME NEW days \in Nat \ {0}, Overdue(board[n], days)
        PROVE  Past(board[n])
    BY <1>1, <1>2 DEF Overdue, Past, Dates
  <1>3. LateByUTC \in Nat \ {0} /\ Late \in Nat \ {0}
    OBVIOUS
  <1> QED
    BY <1>2, <1>3 DEF GivenUp

(* Of the tasks of a title that are not given up the first stays open.       *)
LEMMA FirstStays ==
  ASSUME NEW b \in Seq(Task), NEW key \in Keys, NEW n \in Open(b, key),
         Active(GivenUp(b)[n])
  PROVE  Open(Cleaned(b), key) # {}
  <1> DEFINE g == GivenUp(b)
             T == Open(g, key)
  <1>1. g \in Seq(Task) /\ Len(g) = Len(b)
        /\ \A m \in 1..Len(b) : g[m] = b[m] \/ (g[m].key = b[m].key /\ ~Active(g[m]))
    BY GivenUpTidies DEF Tidies
  <1> HIDE DEF g
  <1>2. DOMAIN g = 1..Len(b) /\ DOMAIN b = 1..Len(b) /\ Len(b) \in Nat
    BY <1>1
  <1>3. n \in T
    BY <1>1, <1>2 DEF Open, g
  <1>4. T \in SUBSET Nat
    BY <1>2 DEF Open
  <1>5. PICK m \in T : \A k \in T : m <= k
    BY <1>3, <1>4, LeastNat
  <1>6. m \in DOMAIN g /\ m \in Nat /\ Active(g[m]) /\ g[m].key = key
    BY <1>4, <1>5 DEF Open
  <1>7. ASSUME NEW k \in 1..(m - 1), Active(g[k]), g[k].key = g[m].key
        PROVE  FALSE
    <2>1. k \in DOMAIN g /\ k \in Nat /\ k < m
      BY <1>2, <1>6
    <2>2. k \in T
      BY <1>6, <1>7, <2>1 DEF Open
    <2> QED
      BY <1>5, <1>6, <2>1, <2>2
  <1>8. Deduplicated(g)[m] = g[m]
    BY <1>6, <1>7 DEF Deduplicated
  <1>9. DOMAIN Deduplicated(g) = DOMAIN g
    BY DEF Deduplicated
  <1>10. m \in Open(Cleaned(b), key)
    BY <1>6, <1>8, <1>9 DEF Open, Cleaned, g
  <1> QED
    BY <1>10

(* The heartbeat tidies the board without asking and loses no work: of each  *)
(* title a task stays open, what somebody began stays begun, and what is not *)
(* yet due stays open.                                                       *)
THEOREM TidyingLosesNoWork == Spec => WorkIsKept
  <1>1. ASSUME TypeOK, [Next]_boardVars, tidied' # tidied
        PROVE  KeepsTitles /\ KeepsBegun /\ KeepsDue
    <2>1. Cleanup \/ Act
      BY <1>1 DEF Next, Add, Delete, Update, NextDay, boardVars
    <2>2. board \in Seq(Task)
      BY <1>1 DEF TypeOK
    <2>3. CASE Cleanup
      <3>1. board' = Cleaned(board)
        BY <2>3 DEF Cleanup
      <3>2. KeepsTitles
        BY <2>2, <3>1, FirstStays DEF KeepsTitles
      <3>3. \A n \in DOMAIN board :
              Only(n) /\ (board[n].status = "in_progress" \/ ~Past(board[n]))
                => board'[n] = board[n]
        BY <1>1, <2>2, <3>1, NotGivenUp, CleanedOnly DEF Only
      <3> QED
        BY <3>2, <3>3 DEF KeepsBegun, KeepsDue
    <2>4. CASE Act
      <3>1. board' = Acted(board) /\ tidied
        BY <2>4 DEF Act
      <3>2. KeepsTitles
        BY <3>1 DEF KeepsTitles
      <3>3. \A n \in DOMAIN board :
              ~(IsEvent(board[n]) /\ Past(board[n]))
              /\ (board[n].status = "in_progress" \/ ~Past(board[n]))
                => board'[n] = board[n]
        BY <1>1, <3>1, NotGivenUp DEF Acted
      <3> QED
        BY <3>2, <3>3 DEF KeepsBegun, KeepsDue
    <2> QED
      BY <2>1, <2>3, <2>4
  <1> QED
    BY <1>1, TypeCorrect, PTL DEF Spec, WorkIsKept, Heartbeat
=============================================================================
