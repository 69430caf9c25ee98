---------------------------- MODULE FeedbackIndex ----------------------------
(***************************************************************************)
(* The user feedback index (FeedbackIndex.cpp): a trie of queries, a       *)
(* vector of feedback lists and a linked list of the vector's slots, the   *)
(* query without feedback for the longest time first, which gives up its   *)
(* slot when a new query comes and MaxQueries are stored.                  *)
(*                                                                         *)
(* writerLock makes addFeedback() and merge() exclude each other.  A       *)
(* search takes readerWriterLock shared; the two take it exclusively only  *)
(* to evict a query and to remove trie nodes.  A query is the sequence of  *)
(* its characters.  A node of the trie's write view is the one of the read *)
(* view until a query whose path it is on is added; then it is a copy.     *)
(* Query ids, by which the linked list knows the queries, are in module    *)
(* KeywordIds: here the list holds the queries themselves.                 *)
(***************************************************************************)
EXTENDS Integers, Sequences, SequencesExt

CONSTANTS
  Query,         \* queries: nonempty sequences of characters
  Record,        \* internal record ids
  Searcher,      \* threads that look up feedback
  None,
  MaxQueries,    \* maxCountOfFeedbackQueries
  MaxInfo,       \* maxFeedbackInfoCountPerQuery
  Capacity,      \* capacity of feedbackListIndexVector, 1023 in the code
  MaxAdds        \* bound: calls of addFeedback

\* What the constants have to be.  With room for a single query the code
\* indexes queryAgeOrder with -1.
FeedbackAssumption ==
  /\ \A q \in Query : q # <<>>
  /\ MaxQueries \in Nat /\ MaxQueries > 1
  /\ MaxInfo \in Nat \ {0} /\ Capacity \in Nat /\ MaxAdds \in Nat

Slot == 0 .. MaxQueries - 1
List == 1 .. MaxAdds

VARIABLES
  node,      \* write view: inverted list offset of each trie node
  terminal,  \* write view: the nodes that end a query
  copied,    \* nodes that are no longer those of the read view (isCopy)
  nodeRead,  \* read view of node
  empty,     \* emptyLeafNodeIds
  terminals, \* numberOfTerminalNodes
  total,     \* totalQueryCount
  head, tail,\* headId, tailId
  age,       \* queryAgeOrder: prev, next and query of a slot
  array,     \* the array of the vector's write view
  arrayRead, \* the array of its read view, if it is not the same
  sizeRead,  \* size of its read view
  lists,     \* the feedback lists that exist
  toMerge,   \* feedBackListsToMerge
  pending,   \* the addFeedback that has evicted a query
  stage,     \* where the merge is
  search,    \* what each search has found in the trie
  adds       \* calls so far: the timestamp

trie == <<node, terminal, copied, nodeRead, empty, terminals>>
order == <<total, head, tail, age>>
vector == <<array, arrayRead, sizeRead>>
vars == <<trie, order, vector, lists, toMerge, pending, stage, search, adds>>

Size == Len(array)

TypeOK ==
  /\ node \in [DOMAIN node -> Int] /\ terminal \subseteq DOMAIN node
  /\ total \in 0 .. MaxQueries /\ head \in -1 .. MaxQueries - 1 /\ tail \in -1 .. MaxQueries - 1
  /\ DOMAIN lists \subseteq List
  /\ toMerge \subseteq Slot
  /\ Size <= MaxQueries /\ sizeRead <= Size

Init ==
  /\ node = <<>> /\ nodeRead = <<>> /\ terminal = {} /\ copied = {} /\ empty = {}
  /\ terminals = 0 /\ total = 0
  /\ head = -1 /\ tail = -1
  /\ age = [s \in Slot |-> [prev |-> -1, next |-> -1, query |-> None]]
  /\ array = <<>> /\ arrayRead = None /\ sizeRead = 0
  /\ lists = <<>> /\ toMerge = {}
  /\ pending = None /\ stage = "idle"
  /\ search = [x \in Searcher |-> None]
  /\ adds = 0

-----------------------------------------------------------------------------
(* The linked list *)

\* A slot is appended at the tail t.
AppendAge(a, t, s, q) ==
  [[a EXCEPT ![t].next = s] EXCEPT ![s] = [prev |-> t, next |-> -1, query |-> q]]

\* The second and later elements move up when slot s leaves.
Detach(a, s) ==
  IF s = head THEN [a EXCEPT ![a[s].next].prev = -1]
  ELSE [[a EXCEPT ![a[s].prev].next = a[s].next] EXCEPT ![a[s].next].prev = a[s].prev]

-----------------------------------------------------------------------------
(* addFeedback *)

\* The nodes from the root, exclusive, to that of q.
Path(q) == Prefixes(q) \ {<<>>}

Set(f, x, y) == [z \in DOMAIN f \cup {x} |-> IF z = x THEN y ELSE f[z]]

\* Trie::addKeyword_ThreadSafe copies the path of q and adds what is missing;
\* a node that did not end a query gets the next offset.
AddKeyword(q) ==
  LET nodes == [p \in DOMAIN node \cup Path(q) |-> IF p \in DOMAIN node THEN node[p] ELSE 0]
  IN IF q \in terminal THEN [node |-> nodes, terminals |-> terminals]
     ELSE [node |-> Set(nodes, q, terminals), terminals |-> terminals + 1]

\* A list takes the feedback of q on r: into its write view, where an entry
\* made since the last merge is overwritten.
Noted(l, q, r, t) == [l EXCEPT !.delta = Set(@, r, t), !.by = @ \cup {q}]

\* vectorview::at: beyond the capacity the write view gets a new array.
PutInVector(s, l) ==
  /\ array' = IF s < Size THEN [array EXCEPT ![s + 1] = l] ELSE Append(array, l)
  /\ arrayRead' = IF s >= Capacity /\ s >= Size /\ arrayRead = None THEN array ELSE arrayRead

\* The query is at the end of the list, its feedback is noted.
Store(q, r, s, isNew) ==
  LET l == IF isNew THEN adds + 1 ELSE array[s + 1]
      old == IF isNew THEN [read |-> <<>>, delta |-> <<>>, by |-> {}] ELSE lists[l]
  IN /\ IF isNew THEN PutInVector(s, l) ELSE UNCHANGED <<array, arrayRead>>
     /\ lists' = Set(lists, l, Noted(old, q, r, adds))
     /\ toMerge' = toMerge \cup {s}
     /\ adds' = adds + 1
     /\ UNCHANGED sizeRead

\* Mutant: only a new query goes to the end.
TouchNot(s) == UNCHANGED order

\* An existing query that is not the latest goes to the end.
Touch(s) ==
  IF s = tail THEN UNCHANGED order
  ELSE /\ head' = IF s = head THEN age[s].next ELSE head
       /\ age' = AppendAge(Detach(age, s), tail, s, age[s].query)
       /\ tail' = s
       /\ UNCHANGED total

\* The first query, or one more at the end.
Enqueue(q, s) ==
  /\ head' = IF head = -1 /\ tail = -1 THEN 0 ELSE head
  /\ tail' = s
  /\ age' = IF head = -1 /\ tail = -1
            THEN [age EXCEPT ![s] = [prev |-> -1, next |-> -1, query |-> q]]
            ELSE AppendAge(age, tail, s, q)

Idle == pending = None /\ stage = "idle" /\ adds < MaxAdds

\* A query that the trie does not know, or knows as deleted.
IsNew(off) == off = -1 \/ off >= Size

\* addFeedback of a known query, or of one for which there is room.
AddFeedback(q, r) ==
  LET k == AddKeyword(q)
      off == k.node[q]
  IN /\ Idle
     /\ IsNew(off) => total < MaxQueries
     /\ node' = k.node /\ terminals' = k.terminals
     /\ terminal' = terminal \cup {q}
     /\ copied' = copied \cup Path(q)
     /\ empty' = IF off = -1 THEN empty \ {q} ELSE empty
     /\ IF IsNew(off) THEN total' = total + 1 /\ Enqueue(q, off) ELSE Touch(off)
     /\ Store(q, r, off, IsNew(off))
     /\ UNCHANGED <<nodeRead, pending, stage, search>>

\* addFeedback of a new query that finds the index full: the oldest query is
\* marked as deleted and its list freed while no search is under way ...
Evict(q, r) ==
  LET k == AddKeyword(q)
      off == k.node[q]
      oldest == age[head].query
  IN /\ Idle
     /\ IsNew(off) /\ total = MaxQueries
     /\ \A x \in Searcher : search[x] = None
     /\ node' = [k.node EXCEPT ![oldest] = -1]
     /\ terminals' = k.terminals
     /\ terminal' = terminal \cup {q}
     /\ copied' = copied \cup Path(q)
     /\ nodeRead' = IF oldest \in copied \cup Path(q) THEN nodeRead
                    ELSE [nodeRead EXCEPT ![oldest] = -1]
     /\ empty' = (IF off = -1 THEN empty \ {q} ELSE empty) \cup {oldest}
     /\ lists' = [l \in DOMAIN lists \ {array[head + 1]} |-> lists[l]]
     /\ pending' = [query |-> q, record |-> r]
     /\ UNCHANGED <<order, vector, toMerge, stage, search, adds>>

\* ... and its slot is given to the new query.
Reuse ==
  LET q == pending.query
  IN /\ pending # None
     /\ node' = [node EXCEPT ![q] = head] /\ terminals' = terminals - 1
     /\ head' = age[head].next
     /\ age' = AppendAge([age EXCEPT ![age[head].next].prev = -1], tail, head, q)
     /\ tail' = head
     /\ Store(q, pending.record, head, TRUE)
     /\ pending' = None
     /\ UNCHANGED <<total, nodeRead, terminal, copied, empty, stage, search>>

-----------------------------------------------------------------------------
(* merge *)

\* mergeFeedbackList: the two views of a list become one; of more than MaxInfo
\* records the ones with the latest feedback stay.
Newest(f) ==
  LET later(r) == {x \in DOMAIN f : f[x] > f[r]}
      kept == {r \in DOMAIN f : Cardinality(later(r)) < MaxInfo}
  IN [r \in kept |-> f[r]]

MergedList(l) ==
  [l EXCEPT !.read = Newest([r \in DOMAIN l.read \cup DOMAIN l.delta |->
                               IF r \in DOMAIN l.delta THEN l.delta[r] ELSE l.read[r]]),
            !.delta = <<>>]

\* _merge: first the lists with new feedback ...
MergeLists ==
  LET merged == {array[s + 1] : s \in toMerge}
  IN /\ stage = "idle" /\ pending = None
     /\ copied # {}
     /\ stage' = "vector"
     /\ lists' = [l \in DOMAIN lists |-> IF l \in merged THEN MergedList(lists[l]) ELSE lists[l]]
     /\ toMerge' = {}
     /\ UNCHANGED <<trie, order, vector, pending, search, adds>>

\* ... then the vector ...
MergeVector ==
  /\ stage = "vector" /\ stage' = "trie"
  /\ arrayRead' = None /\ sizeRead' = Size
  /\ UNCHANGED <<trie, order, array, lists, toMerge, pending, search, adds>>

\* ... then the trie ...
MergeTrie ==
  /\ stage = "trie"
  /\ stage' = IF empty = {} THEN "idle" ELSE "remove"
  /\ nodeRead' = node /\ copied' = {}
  /\ UNCHANGED <<node, terminal, empty, terminals, order, vector, lists, toMerge, pending, search, adds>>

\* ... and while no search is under way the nodes of deleted queries go.
RemoveDeletedNodes ==
  LET ends == terminal \ empty
      rest == {p \in DOMAIN node : \E q \in ends : p \in Path(q)}
  IN /\ stage = "remove" /\ stage' = "idle"
     /\ \A x \in Searcher : search[x] = None
     /\ terminal' = ends
     /\ node' = [p \in rest |-> node[p]] /\ nodeRead' = node'
     /\ empty' = {} /\ copied' = {}
     /\ UNCHANGED <<terminals, order, vector, lists, toMerge, pending, search, adds>>

-----------------------------------------------------------------------------
(* retrieveUserFeedbackInfoForQuery *)

\* The node of the query in the read view, if it is not marked as deleted ...
Lookup(x, q) ==
  /\ search[x] = None
  /\ q \in DOMAIN nodeRead /\ nodeRead[q] # -1
  /\ search' = [search EXCEPT ![x] = [query |-> q, offset |-> nodeRead[q]]]
  /\ UNCHANGED <<trie, order, vector, lists, toMerge, pending, stage, adds>>

\* ... the list at its offset.
Found(x) == (IF arrayRead = None THEN array ELSE arrayRead)[search[x].offset + 1]

Retrieve(x) ==
  /\ search[x] # None
  /\ search' = [search EXCEPT ![x] = None]
  /\ UNCHANGED <<trie, order, vector, lists, toMerge, pending, stage, adds>>

-----------------------------------------------------------------------------

Next ==
  \/ \E q \in Query, r \in Record : AddFeedback(q, r) \/ Evict(q, r)
  \/ Reuse
  \/ MergeLists \/ MergeVector \/ MergeTrie \/ RemoveDeletedNodes
  \/ \E x \in Searcher : (\E q \in Query : Lookup(x, q)) \/ Retrieve(x)

Spec == Init /\ [][Next]_vars

-----------------------------------------------------------------------------
(* Properties *)

\* The slots in the order of the linked list.
Chain ==
  LET chain[n \in 0 .. MaxQueries] ==
        IF n = 0 \/ head = -1 THEN <<>>
        ELSE LET c == chain[n - 1]
                 s == IF c = <<>> THEN head ELSE age[Last(c)].next
             IN IF s = -1 THEN c ELSE Append(c, s)
  IN chain[MaxQueries]

\* When a list last took feedback.
Latest(l) == Max({lists[l].read[r] : r \in DOMAIN lists[l].read}
                 \cup {lists[l].delta[r] : r \in DOMAIN lists[l].delta})

\* The linked list of addFeedback(), linked both ways, has the slots in the
\* order of their last feedback, so that the slot that is reused is always the
\* one without feedback for the longest; and the assertion there holds: the
\* query to evict is in the trie.
AgeOrder ==
  /\ Len(Chain) = total
  /\ Chain # <<>> => Last(Chain) = tail
  /\ \A i \in 1 .. Len(Chain) :
       /\ age[Chain[i]].prev = (IF i = 1 THEN -1 ELSE Chain[i - 1])
       /\ age[Chain[i]].query \in terminal
  /\ pending = None => \A i, j \in 1 .. Len(Chain) :
       i < j => Latest(array[Chain[i] + 1]) < Latest(array[Chain[j] + 1])

\* A search is given the feedback on its own query only, from a list that has
\* not been freed.
RetrievesOwn ==
  \A x \in Searcher : search[x] # None =>
    /\ search[x].offset < sizeRead
    /\ Found(x) \in DOMAIN lists
    /\ lists[Found(x)].read # <<>> => lists[Found(x)].by \subseteq {search[x].query}

=============================================================================
