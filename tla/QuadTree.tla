------------------------------ MODULE QuadTree ------------------------------
(* The geo index: QuadTree and QuadTreeNode of core/geo.  One writer at a time
   (IndexReaderWriter holds lockForWriters) inserts into, removes from and
   merges the write view; searches keep the read view they started with.  The
   views share nodes: a node is copied before it is changed, and what the copy
   replaces goes to the free lists of the read view, to be deleted with it.

   Below the copies an insertion changes the nodes in place, also those of read
   views: the splitting of such a leaf is in steps, and so is the way of a search
   through its view.  Races within one vector are left out.

   The location of a record is the way down to it, the position of the child
   taken at every depth.  The counts of leaf nodes, used for estimates only,
   and the geometry of a query are left out. *)
EXTENDS Integers, Sequences, FiniteSets, FiniteSetsExt, SequencesExt, TLC

CONSTANTS
  Location,  \* the location of each record
  Child,     \* the positions of children, GEO_CHILD_NUM of them
  MaxDepth,  \* bound: the depth where GEO_MBR_LIMIT stops the splitting
  LeafSize,  \* GEO_MAX_NUM_OF_ELEMENTS
  Reader,    \* the searches
  MaxMade,   \* bound: elements ever made
  MaxNodes,  \* bound: nodes alive
  NoNode     \* NULL

\* Of the constants.
QuadTreeAssumption ==
  /\ MaxDepth \in Nat /\ LeafSize \in Nat \ {0} /\ MaxMade \in Nat /\ MaxNodes \in Nat
  /\ \A r \in DOMAIN Location : Location[r] \in [1..MaxDepth -> Child]

VARIABLES
  nodes,      \* the nodes alive, by address
  made,       \* the GeoElements ever made
  dropped,    \* the elements deleted
  loaded,     \* commited
  required,   \* mergeRequired of IndexData
  writeRoot,  \* root_writeview
  readRoot,   \* root_readview, named by its root
  free,       \* the free lists of the read views alive, as sets
  twice,      \* whether something was put on a free list twice
  queue,      \* oldReadViewQueue
  held,       \* the read view of each search, what was in it at the start,
              \* the children it has to read and the leaves it has found
  splitting   \* the insertion that is splitting a leaf in place, or NoNode

geoVars == <<nodes, made, dropped, loaded, required, writeRoot, readRoot, free, twice, queue, held, splitting>>

-----------------------------------------------------------------------------
(* Nodes.  An element is its record and a serial number.                     *)

Way(e) == Location[e[1]]
Under(way, es) == {e \in es : IsPrefix(way, Way(e))}

Leaf(es) == [leaf |-> TRUE, kids |-> [c \in Child |-> NoNode], elements |-> es,
             count |-> Cardinality(es), copy |-> FALSE]

Kids(h, n) == {h[n].kids[c] : c \in Child} \ {NoNode}

\* The addresses below a root, itself included.
Tree(h, root) ==
  LET level[d \in 0..MaxDepth] ==
        IF d = 0 THEN {root} ELSE UNION {Kids(h, n) : n \in level[d - 1] \cap DOMAIN h}
  IN  UNION {level[d] : d \in 0..MaxDepth}

\* getElements()
Contents(h, root) == UNION {h[n].elements : n \in Tree(h, root) \cap DOMAIN h}

\* The nodes that findChildContainingPoint() leads to, from the root down.
Chain(h, root, way) ==
  LET down[d \in 0..MaxDepth] ==
        IF d = 0 THEN <<root>>
        ELSE LET above == down[d - 1]
                 kid == IF Len(above) = d THEN h[Last(above)].kids[way[d]] ELSE NoNode
             IN  IF kid = NoNode THEN above ELSE Append(above, kid)
  IN  down[MaxDepth]

\* Unused addresses, the lowest ones, for the members of S; there are always enough.
Unused(h) == 1..2 * MaxNodes \ DOMAIN h
Fresh(h, S) == FoldSet(LAMBDA x, at : (x :> Min(Unused(h) \ Range(at))) @@ at, <<>>, S)

-----------------------------------------------------------------------------
(* insertGeoElement(), which copies nothing                                  *)

\* split() and the insertion that made it necessary: the ways of the nodes
\* below the one at way for the elements es.
Branches(way, es) ==
  {v \in UNION {Prefixes(Way(e)) : e \in es} :
     /\ Len(v) > Len(way)
     /\ Len(v) = Len(way) + 1 \/ Cardinality(Under(Front(v), es)) > LeafSize}

Split(h, n, way, es) ==
  LET at == Fresh(h, Branches(way, es))
      kid(v, c) == IF Append(v, c) \in DOMAIN at THEN at[Append(v, c)] ELSE NoNode
      node(v) == IF \A c \in Child : kid(v, c) = NoNode THEN Leaf(Under(v, es))
                 ELSE [leaf |-> FALSE, kids |-> [c \in Child |-> kid(v, c)], elements |-> {},
                       count |-> Cardinality(Under(v, es)), copy |-> FALSE]
  IN  [m \in Range(at) |-> node(CHOOSE v \in DOMAIN at : at[v] = m)]
      @@ (n :> [node(way) EXCEPT !.copy = h[n].copy]) @@ h

\* The element goes into the leaf at the end of the chain, which is split if it
\* is full, or into a new leaf.
InsertGeoElement(h, chain, e) ==
  LET n == Last(chain)
      d == Len(chain) - 1
      counted == [m \in Range(chain) |-> [h[m] EXCEPT !.count = @ + 1]] @@ h
      new == Fresh(h, {e})[e]
  IN  IF ~h[n].leaf
      THEN (new :> Leaf({e})) @@ [counted EXCEPT ![n].kids[Way(e)[d + 1]] = new]
      ELSE IF h[n].count >= LeafSize /\ d < MaxDepth
      THEN Split(counted, n, SubSeq(Way(e), 1, d), h[n].elements \cup {e})
      ELSE [counted EXCEPT ![n].elements = @ \cup {e}]

-----------------------------------------------------------------------------
(* Copying: to gives the addresses of the copies                             *)

Shared(h, ns) == {n \in ns : ~h[n].copy}
Moved(to, n) == IF n \in DOMAIN to THEN to[n] ELSE n

\* The nodes ns of a chain are copied and linked to the copies below them.
Copy(h, ns, to) ==
  LET own(n) == [h[n] EXCEPT !.kids = [c \in Child |-> Moved(to, @[c])], !.copy = TRUE]
  IN  [m \in {Moved(to, n) : n \in ns} |-> own(CHOOSE n \in ns : Moved(to, n) = m)] @@ h

\* insertGeoElement_ThreadSafe() goes on with insertGeoElement() of the child:
\* only the root and the child are copies.
Copied(chain) == {chain[i] : i \in DOMAIN chain \cap {1, 2}}

\* resetCopyFlag(), which goes down as far as there are copies.
ResetCopyFlag(h, root) ==
  LET level[d \in 0..MaxDepth] ==
        IF d = 0 THEN {root} ELSE {m \in UNION {Kids(h, n) : n \in level[d - 1]} : h[m].copy}
      copies == UNION {level[d] : d \in 0..MaxDepth}
  IN  [n \in copies |-> [h[n] EXCEPT !.copy = FALSE]] @@ h

\* The copy constructor
Cloned(node) == [node EXCEPT !.copy = TRUE]

-----------------------------------------------------------------------------
(* The writer                                                                *)

Present(r) == \E e \in Contents(nodes, writeRoot) : e[1] = r

\* A record may be added, within the bound on elements.
Addable(r) == Cardinality(made) < MaxMade /\ ~Present(r)

\* The element that is made next for a record.
NewElement(r) == <<r, Cardinality({e \in made : e[1] = r}) + 1>>

\* insert(), until commit() has been called.
Load(r) ==
  /\ ~loaded /\ Addable(r)
  /\ made' = made \cup {NewElement(r)}
  /\ required' = TRUE
  /\ nodes' = InsertGeoElement(nodes, Chain(nodes, writeRoot, Location[r]), NewElement(r))
  /\ UNCHANGED <<dropped, loaded, writeRoot, readRoot, free, twice, queue, held, splitting>>

\* commit(): the write view becomes the read view.
Commit ==
  /\ ~loaded
  /\ loaded' = TRUE
  /\ LET flat == ResetCopyFlag(nodes, writeRoot)
         new == Fresh(nodes, {writeRoot})[writeRoot]
     IN  /\ nodes' = [n \in (DOMAIN nodes \cup {new}) \ {readRoot} |->
                        IF n = new THEN Cloned(flat[writeRoot]) ELSE flat[n]]
         /\ writeRoot' = new
  /\ readRoot' = writeRoot
  /\ free' = (writeRoot :> free[readRoot])
  /\ UNCHANGED <<made, dropped, required, twice, queue, held, splitting>>

\* Nodes and elements are put on the free lists of the read view.
Release(ns, es) ==
  /\ free' = [free EXCEPT ![readRoot].nodes = @ \cup ns, ![readRoot].elements = @ \cup es]
  /\ twice' = (twice \/ \E v \in DOMAIN free : free[v].nodes \cap ns # {} \/ free[v].elements \cap es # {})

\* split() has begun: the node is no leaf any more, and has no child yet.
Opened(h, n) == [h EXCEPT ![n].leaf = FALSE, ![n].count = 0]

\* The leaf at the end of the chain, one that is not copied, has to be split.
SplitsInPlace(h, chain) ==
  LET d == Len(chain) - 1
  IN  d \in 2..MaxDepth - 1 /\ h[Last(chain)].leaf /\ h[Last(chain)].count >= LeafSize

\* An insertion as far as to the leaf that it splits in place, or to its end.  If
\* the root has just been split, the child that split() made is copied too, and
\* the original is released.
Inserted(h, root, r, e) ==
  LET chain == Chain(h, root, Location[r])
      shared == Shared(h, Copied(chain))
      to == Fresh(h, shared)
      moved == [i \in DOMAIN chain |-> Moved(to, chain[i])]
      copied == Copy(h, Copied(chain), to)
      above == [m \in Range(Front(moved)) |-> [copied[m] EXCEPT !.count = @ + 1]] @@ copied
      inserted == InsertGeoElement(copied, moved, e)
      kid == inserted[root].kids[Location[r][1]]
      split0 == Under(SubSeq(Location[r], 1, 1), h[root].elements)
      passing == IF kid = NoNode \/ split0 = {} THEN {} ELSE {Fresh(inserted, {r})[r]}
  IN  IF SplitsInPlace(h, chain)
      THEN [nodes |-> Opened(above, Last(chain)), released |-> shared,
            splitting |-> [node |-> Last(chain), depth |-> Len(chain) - 1,
                           left |-> h[Last(chain)].elements, element |-> e]]
      ELSE [nodes |-> [n \in passing |-> Leaf(split0)]
                      @@ [n \in {kid} \ {NoNode} |-> [inserted[n] EXCEPT !.copy = TRUE]] @@ inserted,
            released |-> shared \cup passing, splitting |-> NoNode]

\* insert_ThreadSafe(), of a new record or one that is recovered.
Insert(r) ==
  /\ loaded /\ splitting = NoNode /\ Addable(r)
  /\ made' = made \cup {NewElement(r)}
  /\ required' = TRUE
  /\ \E done \in {Inserted(nodes, writeRoot, r, NewElement(r))} :
       /\ nodes' = done.nodes
       /\ splitting' = done.splitting
       /\ Release(done.released, {})
  /\ UNCHANGED <<dropped, loaded, writeRoot, readRoot, queue, held>>

\* The element goes into a child of node n at depth d, which takes it as a leaf.
IntoChild(h, n, d, e) ==
  LET kid == h[n].kids[Way(e)[d + 1]]
      new == Fresh(h, {e})[e]
      counted == [h EXCEPT ![n].count = @ + 1]
  IN  IF kid = NoNode THEN (new :> Leaf({e})) @@ [counted EXCEPT ![n].kids[Way(e)[d + 1]] = new]
      ELSE [counted EXCEPT ![kid].elements = @ \cup {e}, ![kid].count = @ + 1]

\* split(): one of the elements goes to a child, which has room for all of them.
Reinsert ==
  /\ splitting # NoNode
  /\ \E e \in splitting.left :
       /\ nodes' = IntoChild(nodes, splitting.node, splitting.depth, e)
       /\ splitting' = [splitting EXCEPT !.left = @ \ {e}]
  /\ UNCHANGED <<made, dropped, loaded, required, writeRoot, readRoot, free, twice, queue, held>>

\* split() clears the elements, and the insertion goes on to the child, which may
\* have to be split in turn.
GoOn ==
  /\ splitting # NoNode /\ splitting.left = {}
  /\ LET n == splitting.node
         d == splitting.depth + 1
         kid == nodes[n].kids[Way(splitting.element)[d]]
         cleared == [nodes EXCEPT ![n].elements = {}]
     IN  IF kid # NoNode /\ nodes[kid].count >= LeafSize /\ d < MaxDepth
         THEN /\ nodes' = Opened([cleared EXCEPT ![n].count = @ + 1], kid)
              /\ splitting' = [splitting EXCEPT !.node = kid, !.depth = d, !.left = nodes[kid].elements]
         ELSE /\ nodes' = IntoChild(cleared, n, d - 1, splitting.element)
              /\ splitting' = NoNode
  /\ UNCHANGED <<made, dropped, loaded, required, writeRoot, readRoot, free, twice, queue, held>>

\* Mutant: mergeChildren() takes no element over.
RemoveForgetting(h, chain, e) ==
  LET counted == [m \in Range(chain) |-> [h[m] EXCEPT !.count = @ - 1]] @@ h
  IN  [n \in Range(chain) |->
         IF ~h[n].leaf /\ counted[n].count < LeafSize THEN [Leaf({}) EXCEPT !.copy = TRUE]
         ELSE [counted[n] EXCEPT !.elements = @ \ {e}]] @@ h

\* removeGeoElement_ThreadSafe() of the element, at the end of the chain; on the
\* way back, mergeChildren() makes leaves of the nodes with too few elements.
RemoveElement(h, chain, e) ==
  LET counted == [m \in Range(chain) |-> [h[m] EXCEPT !.count = @ - 1]] @@ h
      erased == [counted EXCEPT ![Last(chain)].elements = @ \ {e}]
  IN  [n \in Range(chain) |->
         IF ~h[n].leaf /\ counted[n].count < LeafSize
         THEN [Leaf(Contents(erased, n)) EXCEPT !.copy = TRUE] ELSE erased[n]] @@ h

\* The children that mergeChildren() gives to the free list.
Merged(h, chain) == UNION {Kids(h, n) : n \in {m \in Range(chain) : ~h[m].leaf /\ h[m].count <= LeafSize}}

\* A removal: every node on the way is copied.
Removed(h, root, r) ==
  LET chain == Chain(h, root, Location[r])
      e == CHOOSE x \in Contents(h, root) : x[1] = r
      shared == Shared(h, Range(chain))
      to == Fresh(h, shared)
      moved == [i \in DOMAIN chain |-> Moved(to, chain[i])]
      copied == Copy(h, Range(chain), to)
  IN  [nodes |-> RemoveElement(copied, moved, e), element |-> e,
       released |-> shared \cup Merged(copied, moved)]

\* remove_ThreadSafe()
Delete(r) ==
  /\ loaded /\ splitting = NoNode /\ Present(r)
  /\ required' = TRUE
  /\ \E done \in {Removed(nodes, writeRoot, r)} :
       /\ nodes' = done.nodes
       /\ Release(done.released, {done.element})
  /\ UNCHANGED <<made, dropped, loaded, writeRoot, readRoot, queue, held, splitting>>

\* Mutant: a view that no search holds is dropped before older ones.
DroppedAnywhere(q) == {q[i] : i \in {j \in DOMAIN q : \A s \in Reader : held[s].view # q[j]}}

\* The read views at the front of the queue that no search holds.
Dropped(q) == {q[i] : i \in {j \in DOMAIN q : \A k \in 1..j, s \in Reader : held[s].view # q[k]}}

\* merge(): a new read view, a new write view; the old read views are dropped
\* from the oldest on, with what is in their free lists.
Merge ==
  /\ loaded /\ splitting = NoNode /\ required
  /\ required' = FALSE
  /\ \E flat \in {ResetCopyFlag(nodes, writeRoot)}, at \in {Fresh(nodes, {"read", "write"})},
        gone \in {Dropped(Append(queue, readRoot))} :
       LET deleted == gone \cup {writeRoot} \cup UNION {free[v].nodes : v \in gone}
       IN  /\ readRoot' = at["read"]
           /\ writeRoot' = at["write"]
           /\ queue' = SelectSeq(Append(queue, readRoot), LAMBDA v : v \notin gone)
           /\ free' = [v \in (DOMAIN free \ gone) \cup {at["read"]} |->
                         IF v = at["read"] THEN [nodes |-> {}, elements |-> {}] ELSE free[v]]
           /\ nodes' = [n \in (DOMAIN nodes \ deleted) \cup Range(at) |->
                          IF n \in Range(at) THEN Cloned(flat[writeRoot]) ELSE flat[n]]
           /\ dropped' = dropped \cup UNION {free[v].elements : v \in gone}
  /\ UNCHANGED <<made, loaded, twice, held, splitting>>

-----------------------------------------------------------------------------
(* The searches                                                              *)

Idle == [view |-> NoNode, elements |-> {}, todo |-> <<>>, leaves |-> {}]

\* A search has got to a node: it takes the address of the elements of a leaf, and
\* otherwise has to look at the children, one after the other.
AtNode(search, n) ==
  IF nodes[n].leaf THEN [search EXCEPT !.leaves = @ \cup {n}]
  ELSE [search EXCEPT !.todo = SetToSeq({n} \X Child) \o @]

\* getQuadTreeRootNode_ReadView(), through readerPreEnter(), and rangeQuery() of
\* the root, which nobody changes.
Enter(s) ==
  /\ loaded /\ held[s].view = NoNode
  /\ held' = [held EXCEPT ![s] =
       AtNode([Idle EXCEPT !.view = readRoot, !.elements = Contents(nodes, readRoot)], readRoot)]
  /\ UNCHANGED <<nodes, made, dropped, loaded, required, writeRoot, readRoot, free, twice, queue, splitting>>

\* rangeQuery() reads the next child.
Visit(s) ==
  /\ held[s].todo # <<>>
  /\ LET next == Head(held[s].todo)
         kid == nodes[next[1]].kids[next[2]]
         rest == [held[s] EXCEPT !.todo = Tail(@)]
     IN  held' = [held EXCEPT ![s] = IF kid = NoNode THEN rest ELSE AtNode(rest, kid)]
  /\ UNCHANGED <<nodes, made, dropped, loaded, required, writeRoot, readRoot, free, twice, queue, splitting>>

\* readerPreExit(): the token gives up its shared pointer.
Exit(s) ==
  /\ held[s].view # NoNode
  /\ held' = [held EXCEPT ![s] = Idle]
  /\ UNCHANGED <<nodes, made, dropped, loaded, required, writeRoot, readRoot, free, twice, queue, splitting>>

-----------------------------------------------------------------------------

\* The constructor
Init ==
  /\ nodes = (1 :> Leaf({})) @@ (2 :> Cloned(Leaf({})))
  /\ made = {} /\ dropped = {}
  /\ loaded = FALSE /\ required = TRUE
  /\ readRoot = 1 /\ writeRoot = 2
  /\ free = (1 :> [nodes |-> {}, elements |-> {}])
  /\ twice = FALSE /\ queue = <<>>
  /\ held = [s \in Reader |-> Idle]
  /\ splitting = NoNode

Next ==
  \/ /\ \/ \E r \in DOMAIN Location : Load(r) \/ Insert(r) \/ Delete(r)
        \/ Commit \/ Reinsert \/ GoOn \/ Merge
     /\ Cardinality(DOMAIN nodes') <= MaxNodes
  \/ \E s \in Reader : Enter(s) \/ Visit(s) \/ Exit(s)

Spec == Init /\ [][Next]_geoVars

-----------------------------------------------------------------------------
(* Properties                                                                *)

\* The read views that are used, or may be.
Views == DOMAIN free

\* Type invariant
TypeOK ==
  /\ Cardinality(DOMAIN nodes) <= MaxNodes
  /\ Views = {readRoot} \cup Range(queue)
  /\ \A s \in Reader : held[s].view \in Views \cup {NoNode}
  /\ writeRoot \in DOMAIN nodes

\* What a search may still read: the nodes whose children it has to look at, and
\* the leaves whose elements it has taken.
InUse(s) == {next[1] : next \in Range(held[s].todo)} \cup held[s].leaves

\* No view reaches a deleted node or element, and nothing is deleted twice: the
\* read views that share what one of them frees are dropped before it.  A search
\* on its way through a view, also one that is changed in place under it, has
\* only nodes and elements that are alive.
ViewsIntact ==
  /\ \A root \in Views \cup {writeRoot} :
       /\ Tree(nodes, root) \subseteq DOMAIN nodes
       /\ Contents(nodes, root) \cap dropped = {}
  /\ ~twice
  /\ \A s \in Reader :
       /\ InUse(s) \subseteq DOMAIN nodes
       /\ (held[s].elements \cup UNION {nodes[n].elements : n \in InUse(s)}) \cap dropped = {}

\* Splitting, merging of children and copying lose no element: those that were
\* not deleted, or put on a free list to be, are in the write view.  There every
\* element is in the leaf of its location, once, the counts are right, and a node
\* with fewer than LeafSize elements is a leaf.  While a leaf is being split this is
\* not so, but then no other writer is there.
WriteExact ==
  splitting = NoNode =>
    /\ Contents(nodes, writeRoot) = made \ (dropped \cup UNION {free[v].elements : v \in Views})
    /\ \A e \in Contents(nodes, writeRoot) :
         LET chain == Chain(nodes, writeRoot, Way(e))
         IN  /\ {n \in Tree(nodes, writeRoot) : e \in nodes[n].elements} = {Last(chain)}
             /\ \A n \in Range(chain) :
                  /\ nodes[n].count = Cardinality(Contents(nodes, n))
                  /\ nodes[n].leaf \/ nodes[n].count >= LeafSize

\* Nothing of what a search reads changes under it.  Not so: below the copied
\* child insertGeoElement_ThreadSafe() changes the nodes in place.
ViewsFrozen ==
  \A s \in Reader : held[s].view # NoNode => held[s].elements = Contents(nodes, held[s].view)
=============================================================================
