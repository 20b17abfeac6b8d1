----------------------------- MODULE BrowserPage -----------------------------
(* A page and the numbers the agent knows its elements by: a snapshot        *)
(* numbers what is visible and writes each number on its element; a later    *)
(* click, entry or choice names a number.  Two backends do this: the local   *)
(* browser (browser/client.ts), which numbers anew when it finds no element  *)
(* and falls back to a vision model (browser/visual.ts), and the extension's *)
(* content script (chrome-extension/entrypoints/content.ts).                 *)
EXTENDS Integers, Sequences, FiniteSets, FiniteSetsExt

CONSTANTS
    Elements,   \* 1..n in the order of the document
    Backends,   \* of "local" and "extension"
    MaxSteps,   \* bound: changes of the page
    None

VARIABLES
    backend,
    state,      \* [Elements -> "visible", "hidden", "out" (of the document)]
    mark,       \* data-ref: [Elements -> the number written on it, or 0]
    listed,     \* what the agent was shown: the n-th is under the number n
    fresh,      \* history: the page is as it was shown
    aim,        \* a question to the vision model: the number, what for, or None
    acted,      \* what was done last: [n, hit, sure], or None
    steps

pageVars == <<backend, state, mark, listed, fresh, aim, acted, steps>>

States == {"visible", "hidden", "out"}
Numbers == 1..Cardinality(Elements)

TypeOK ==
    /\ backend \in Backends /\ state \in [Elements -> States] /\ fresh \in BOOLEAN
    /\ mark \in [Elements -> Numbers \cup {0}] /\ listed \in Seq(Elements)
    /\ aim \in [n : Numbers, use : {"click", "type"}] \cup {None}
    /\ acted \in [n : Numbers, hit : Elements, sure : BOOLEAN] \cup {None}
    /\ steps \in 0..MaxSteps
    /\ \A e \in Elements : state[e] = "out" => mark[e] = 0

Init == /\ backend \in Backends /\ state \in [Elements -> States]
        /\ mark = [e \in Elements |-> 0] /\ listed = <<>> /\ fresh = FALSE
        /\ aim = None /\ acted = None /\ steps = 0
-----------------------------------------------------------------------------
Visible == {e \in Elements : state[e] = "visible"}
Place(e) == Cardinality({d \in Visible : d <= e})

(* What is shown, in the order of the document. *)
InOrder == [n \in 1..Cardinality(Visible) |-> CHOOSE e \in Visible : Place(e) = n]

(* Mutant: what is hidden is counted. *)
CountedAll(e) == Cardinality({d \in Elements : d <= e /\ state[d] # "out"})

Counted(e) == Place(e)

(* What is hidden keeps the number it was given before. *)
Numbered == [e \in Elements |-> IF e \in Visible THEN Counted(e) ELSE mark[e]]

Snapshot == /\ mark' = Numbered /\ listed' = InOrder /\ fresh' = TRUE
            /\ acted' = None /\ UNCHANGED <<backend, state, aim, steps>>

(* A script shows, hides, removes or inserts an element. *)
PageChanges(e) ==
    /\ steps < MaxSteps /\ steps' = steps + 1 /\ fresh' = FALSE
    /\ \E s \in States \ {state[e]} :
          /\ state' = [state EXCEPT ![e] = s]
          /\ mark' = IF "out" \in {s, state[e]} THEN [mark EXCEPT ![e] = 0] ELSE mark
    /\ UNCHANGED <<backend, listed, aim, acted>>

Navigate == /\ steps < MaxSteps /\ steps' = steps + 1 /\ fresh' = FALSE
            /\ state' \in [Elements -> States] /\ mark' = [e \in Elements |-> 0]
            /\ acted' = None /\ UNCHANGED <<backend, listed, aim>>
-----------------------------------------------------------------------------
(* querySelector: the first in the document that bears the number. *)
Found(m, n) == LET with == {e \in Elements : m[e] = n}
               IN IF with = {} THEN None ELSE Min(with)

(* Numbers of now, when no element bears the one that is looked for. *)
Renumbered(n) == IF Found(mark, n) = None THEN Numbered ELSE mark

Hits(n, e, sure) == acted' = [n |-> n, hit |-> e, sure |-> sure]

(* The local browser acts on what is visible; what it cannot act on is       *)
(* described to the vision model, if there is one; a choice in a list is not.*)
LocalAct(n, use) ==
    /\ backend = "local" /\ aim = None /\ mark' = Renumbered(n)
    /\ LET e == Found(mark', n) IN
         \/ e # None /\ state[e] = "visible" /\ Hits(n, e, TRUE) /\ UNCHANGED aim
         \/ /\ use \in {"click", "type"} /\ aim' = [n |-> n, use |-> use]
            /\ acted' = None
         \/ acted' = None /\ UNCHANGED aim          \* "not found"
    /\ UNCHANGED <<backend, state, listed, fresh, steps>>

(* The content script acts on whatever bears the number. *)
ExtensionAct(n) ==
    /\ backend = "extension"
    /\ IF Found(mark, n) = None THEN acted' = None ELSE Hits(n, Found(mark, n), TRUE)
    /\ UNCHANGED <<backend, state, mark, listed, fresh, aim, steps>>

Described(n) == IF n <= Len(listed) THEN listed[n] ELSE None

ActsUnsure(use) == use = "type"

(* The vision model has looked: it is sure of what was described, if that is *)
(* there; else it is in doubt, or finds nothing.  A click in doubt is        *)
(* refused, an entry is made.                                                *)
Look ==
    /\ aim # None /\ aim' = None
    /\ \/ Described(aim.n) \in Visible /\ Hits(aim.n, Described(aim.n), TRUE)
       \/ \E e \in Visible : ActsUnsure(aim.use) /\ Hits(aim.n, e, aim.use # "type")
       \/ acted' = None
    /\ UNCHANGED <<backend, state, mark, listed, fresh, steps>>

Next == \/ Snapshot \/ Navigate \/ Look
        \/ \E e \in Elements : PageChanges(e)
        \/ \E n \in Numbers : ExtensionAct(n) \/ \E use \in {"click", "type", "select"} : LocalAct(n, use)

Spec == Init /\ [][Next]_pageVars
-----------------------------------------------------------------------------
(* Properties *)

RightElement == acted # None /\ acted.sure /\ fresh =>
    acted.n <= Len(listed) /\ acted.hit = listed[acted.n]

(* While the page is as it was shown, what the local browser acts on under a *)
(* number is what was shown under it; but an entry may be made in doubt.     *)
ActsOnWhatWasShown == backend = "local" => RightElement

=============================================================================
