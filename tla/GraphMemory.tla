----------------------------- MODULE GraphMemory -----------------------------
(* The graph of facts of one person (memory/graph-store.ts): writes with     *)
(* their checks for duplicates and contradictions, forgetting, promotion,    *)
(* and facts that fade.  Every query and every model call is an await and    *)
(* may fail (the database is lost), and all operations run side by side.     *)
(*                                                                           *)
(* A text is a fact in one of its wordings: wordings of one fact lie within  *)
(* the distance of a duplicate, other facts within that of a contradiction.  *)
(* What the owner asks to forget is a query, and a query is the texts it is  *)
(* found in: as it is written, in whatever case, and those that have all its *)
(* longer words.  The nodes of other persons lie in the same vector index.   *)
(* Forgets do not overlap, and a statement of the owner lifts none of them;  *)
(* entities, tags, turns, ranking and the vectors themselves are left out.   *)
EXTENDS Integers, FiniteSets

CONSTANTS
    Texts,      \* pairs: a fact and its wording
    Others,     \* texts that nodes of other persons may have
    Lasting,    \* facts of importance 4 and 5: no decay
    Adds,       \* calls of addFact that may overlap
    Queries,    \* what may be forgotten: [exact, hits, words, long], where
                \* exact, hits and words are the texts that match it, and long
                \* says that it has two longer words at least
    MaxId,      \* bound: facts ever stored
    MaxForgets, \* bound: queries forgotten
    None

VARIABLES
    nodes,      \* the Fact nodes, by id
    newer,      \* SUPERSEDES edges: <<new, old>>
    top,        \* the newest id
    add,        \* the calls of addFact: where each awaits
    forgetting, \* the forget under way: its query, whether its words are to be
                \* tried, and the texts that were looked for
    forgotten,  \* removed.jsonl of the flat store: what a removal refuses, and,
                \* as history, the texts that were looked for in the graph
    raced,      \* history: facts added by two calls at once, or although they
                \* were there, since the node of another person was nearer
    excused     \* history: texts forgotten while they were written

vars == <<nodes, newer, top, add, forgetting, forgotten, raced, excused>>

Same(t, u) == t[1] = u[1]
FactsIn(texts) == {t[1] : t \in texts}
Idle == [pc |-> "idle", text |-> None, prov |-> "observed", olds |-> {}, id |-> 0]
Busy(a) == add[a].pc # "idle"
Forgetting == [query : Queries, again : BOOLEAN, looked : SUBSET Texts]
Removal == [refused : SUBSET Texts, looked : SUBSET Texts]

TypeOK ==
    /\ DOMAIN nodes \subseteq 1..top /\ top \in 0..MaxId
    /\ \A i \in DOMAIN nodes :
          /\ nodes[i].text \in Texts /\ nodes[i].old \in BOOLEAN
          /\ nodes[i].prov \in {"observed", "stated"}
    /\ newer \subseteq (DOMAIN nodes) \X (DOMAIN nodes)
    /\ \A a \in Adds : /\ add[a].pc \in {"idle", "embed", "judge", "link"}
                       /\ add[a].text \in Texts \cup {None}
                       /\ add[a].olds \subseteq 1..MaxId
    /\ forgetting \in Forgetting \cup {None} /\ forgotten \subseteq Removal
    /\ raced \subseteq FactsIn(Texts) /\ excused \subseteq Texts

Init ==
    /\ nodes = [i \in {} |-> None] /\ newer = {} /\ top = 0
    /\ add = [a \in Adds |-> Idle] /\ forgetting = None /\ forgotten = {}
    /\ raced = {} /\ excused = {}
-----------------------------------------------------------------------------
(* addFact *)

(* A record of a removal matches the text. *)
Suppressed(t) == \E r \in forgotten : t \in r.refused

(* The owner's statement passes; all else must not have been forgotten. *)
Begin(a, t, prov) ==
    /\ ~Busy(a) /\ (prov = "stated" \/ ~Suppressed(t))
    /\ add' = [add EXCEPT ![a] = [Idle EXCEPT !.pc = "embed", !.text = t, !.prov = prov]]
    /\ raced' = IF \E b \in Adds : Busy(b) /\ Same(add[b].text, t)
                THEN raced \cup {t[1]} ELSE raced
    /\ excused' = IF forgetting # None /\ t \in forgetting.query.hits
                  THEN excused \cup {t} ELSE excused
    /\ UNCHANGED <<nodes, newer, top, forgetting, forgotten>>

Stored(t) == \E i \in DOMAIN nodes : Same(nodes[i].text, t)

(* Mutant: only the very words count as a duplicate. *)
DuplicateWord(t, others) == {t} \cap ({nodes[i].text : i \in DOMAIN nodes} \cup others)

(* What the index may give for the one node nearest to t, within the         *)
(* distance of a duplicate.  It knows no persons: others are their texts.    *)
Duplicate(t, others) ==
    LET near == {u \in {nodes[i].text : i \in DOMAIN nodes} \cup others : Same(u, t)}
    IN IF t \in near THEN {t} ELSE near

(* The text has its vector.  If the nearest node is one of this person's,    *)
(* the text is rejected.  If it is another's, or there is none, it passes,   *)
(* and the neighbours are read for the model to say which of them it         *)
(* contradicts.                                                              *)
Search(a) ==
    /\ add[a].pc = "embed"
    /\ \E others \in SUBSET Others :
          LET t == add[a].text
              nearest == Duplicate(t, others)
          IN \/ /\ \E i \in DOMAIN nodes : nodes[i].text \in nearest
                /\ add' = [add EXCEPT ![a] = Idle] /\ UNCHANGED raced
             \/ /\ nearest \subseteq others
                /\ \E olds \in SUBSET {i \in DOMAIN nodes : ~Same(nodes[i].text, t)} :
                      add' = [add EXCEPT ![a].pc = "judge", ![a].olds = olds]
                /\ raced' = IF Stored(t) /\ nearest # {}
                            THEN raced \cup {t[1]} ELSE raced
    /\ UNCHANGED <<nodes, newer, top, forgetting, forgotten, excused>>

(* The node. *)
Create(a) ==
    /\ add[a].pc = "judge" /\ top < MaxId /\ top' = top + 1
    /\ nodes' = [i \in DOMAIN nodes \cup {top'} |->
                   IF i \in DOMAIN nodes THEN nodes[i]
                   ELSE [text |-> add[a].text, prov |-> add[a].prov, old |-> FALSE]]
    /\ add' = [add EXCEPT ![a].pc = "link", ![a].id = top']
    /\ UNCHANGED <<newer, forgetting, forgotten, raced, excused>>

Edges(id, olds) == {id} \X olds

(* An edge to each of the old ones, as far as both are still there and the   *)
(* query does not fail.                                                      *)
Link(a) ==
    /\ add[a].pc = "link" /\ add' = [add EXCEPT ![a] = Idle]
    /\ \E olds \in SUBSET (add[a].olds \cap DOMAIN nodes) :
          /\ add[a].id \notin DOMAIN nodes => olds = {}
          /\ newer' = newer \cup Edges(add[a].id, olds)
          /\ nodes' = [i \in DOMAIN nodes |-> [nodes[i] EXCEPT !.old = @ \/ i \in olds]]
    /\ UNCHANGED <<top, forgetting, forgotten, raced, excused>>

(* A query or the embedding fails before the node is made. *)
AddFails(a) ==
    /\ add[a].pc \in {"embed", "judge"} /\ add' = [add EXCEPT ![a] = Idle]
    /\ UNCHANGED <<nodes, newer, top, forgetting, forgotten, raced, excused>>
-----------------------------------------------------------------------------
(* DETACH DELETE *)
Detach(ids) ==
    /\ nodes' = [i \in DOMAIN nodes \ ids |-> nodes[i]]
    /\ newer' = {e \in newer : {e[1], e[2]} \cap ids = {}}

HasText(texts) == {i \in DOMAIN nodes : nodes[i].text \in texts}

(* !forget and memory_forget: the graph first, where it can be reached.  The *)
(* query is looked for as it is written; if that finds nothing, and it has   *)
(* two longer words, so are its words.  Orphaned entities are another await. *)
Forget(q, reached) ==
    /\ forgetting = None /\ Cardinality(forgotten) < MaxForgets
    /\ IF reached
       THEN /\ Detach(HasText(q.exact))
            /\ forgetting' = [query |-> q, looked |-> q.exact,
                              again |-> HasText(q.exact) = {} /\ q.long]
       ELSE /\ forgetting' = [query |-> q, looked |-> {}, again |-> FALSE]
            /\ UNCHANGED <<nodes, newer>>
    /\ excused' = excused \cup {t \in q.hits : \E a \in Adds : Busy(a) /\ add[a].text = t}
    /\ UNCHANGED <<top, add, forgotten, raced>>

(* The second query, which may fail. *)
ForgetWords(reached) ==
    /\ forgetting # None /\ forgetting.again
    /\ IF reached
       THEN /\ Detach(HasText(forgetting.query.words))
            /\ forgetting' = [forgetting EXCEPT !.again = FALSE,
                                                !.looked = forgetting.query.hits]
       ELSE /\ forgetting' = [forgetting EXCEPT !.again = FALSE]
            /\ UNCHANGED <<nodes, newer>>
    /\ UNCHANGED <<top, add, forgotten, raced, excused>>

(* Then the flat store, which knows no case: from now on it refuses what the *)
(* query matches, and the other wordings of what it held of it.              *)
Recorded ==
    /\ forgetting # None /\ ~forgetting.again /\ forgetting' = None
    /\ LET hits == forgetting.query.hits
       IN \E held \in SUBSET hits :
             forgotten' = forgotten \cup
                 {[refused |-> hits \cup {t \in Texts : \E u \in held : Same(t, u)},
                   looked |-> forgetting.looked]}
    /\ UNCHANGED <<nodes, newer, top, add, raced, excused>>

(* setProvenance: !save promotes what the owner has read. *)
Promote(i) ==
    /\ i \in DOMAIN nodes /\ nodes' = [nodes EXCEPT ![i].prov = "stated"]
    /\ UNCHANGED <<newer, top, add, forgetting, forgotten, raced, excused>>
-----------------------------------------------------------------------------
(* applyDecay removes what has faded, row by row: at some time or other a    *)
(* fact that is not lasting.                                                 *)
Fade(i) ==
    /\ i \in DOMAIN nodes /\ nodes[i].text[1] \notin Lasting /\ Detach({i})
    /\ UNCHANGED <<top, add, forgetting, forgotten, raced, excused>>

Next ==
    \/ \E a \in Adds :
          \/ \E t \in Texts, prov \in {"observed", "stated"} : Begin(a, t, prov)
          \/ Search(a) \/ Create(a) \/ Link(a) \/ AddFails(a)
    \/ \E q \in Queries, reached \in BOOLEAN : Forget(q, reached)
    \/ \E reached \in BOOLEAN : ForgetWords(reached)
    \/ Recorded \/ (\E i \in DOMAIN nodes : Promote(i))
    \/ \E i \in DOMAIN nodes : Fade(i)

Spec == Init /\ [][Next]_vars
-----------------------------------------------------------------------------
(* Properties *)

(* A fact is stored once, in whatever wording, however many conversations    *)
(* bring it up; only two calls that add it at once store it twice, and one   *)
(* whose check met the node of another person first (graph-store.ts:242).    *)
StoredOnce == \A i, j \in DOMAIN nodes :
    Same(nodes[i].text, nodes[j].text) => i = j \/ nodes[i].text[1] \in raced

(* What was removed from the graph is not in it, however many writes were    *)
(* under way, unless the owner stated it or it was being written meanwhile.  *)
(* That is not all the owner forgot (what "Flat/graph must not diverge",     *)
(* builtin.ts:336, asks for): the flat store goes by the query in any case,  *)
(* the graph by the query as it is written, and by its words only if it has  *)
(* two longer ones (graph-store.ts:579-604).                                 *)
ForgottenIsGone == \A i \in DOMAIN nodes, r \in forgotten :
    nodes[i].text \in r.looked => nodes[i].prov = "stated" \/ nodes[i].text \in excused

(* Whatever is deleted beside, the edges lead from a fact to facts that were *)
(* there before it and are marked: a history can be walked to its start.     *)
HistoryIsWalkable == \A e \in newer : e[2] < e[1] /\ nodes[e[2]].old

=============================================================================
