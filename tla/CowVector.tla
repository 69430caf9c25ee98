------------------------------ MODULE CowVector ------------------------------
(***************************************************************************)
(* The copy-on-write vector of src/core/util/cowvector/cowvector.h: one    *)
(* writer works on a write view, readers hold read views, and merge()      *)
(* publishes the write view as the next read view.                         *)
(*                                                                         *)
(* Views (vectorview<T>) and arrays (array<T>) are heap objects known by   *)
(* their addresses: an address is taken by new, given back by delete, and  *)
(* may then be taken again.                                                *)
(*                                                                         *)
(* A read view is reached through shared_ptrs: m_readView of the vector,   *)
(* the copies readers hold and the copies the ReadViewManager keeps.       *)
(* use_count() is not a variable, it is read off those holders.            *)
(*                                                                         *)
(* merge() runs under the spin lock, but a reader drops its shared_ptr     *)
(* without it, so merge() is split where such a drop can fall: classify    *)
(* (and store) the old read view, clean the past generations one by one,   *)
(* publish, fork the next write view.                                      *)
(***************************************************************************)
EXTENDS Integers, FiniteSets

CONSTANTS
  Reader,         \* reader threads
  View,           \* addresses of vectorview objects (bound: their number)
  Array,          \* addresses of array objects (bound: their number)
  Value,          \* element values
  Garbage,        \* content of a cell that was never written
  None,           \* no view
  InitCapacity,   \* capacity given to the constructor
  MaxLen,         \* bound: indexes stay below MaxLen
  MaxStored,      \* bound: no new reader once that many views are stored
  Usage,          \* how the client calls merge(), see below
  InPlace         \* TRUE: the client also overwrites elements below size()

(* "managed": merge(&manager), the directories of the forward and the      *)
(*            inverted index and keywordIds;                               *)
(* "copied":  merge() with no manager, after sortAndMerge() has moved the  *)
(*            write view to an array of its own: the inverted lists and    *)
(*            the feedback lists;                                          *)
(* "bare":    merge() with no manager and no copy: feedbackListIndexVector.*)
ASSUME ParamAssumption ==
  /\ None \notin View
  /\ Garbage \notin Value
  /\ InitCapacity \in Nat
  /\ MaxLen \in Nat
  /\ MaxStored \in Nat
  /\ Usage \in {"managed", "copied", "bare"}
  /\ InPlace \in BOOLEAN

Index == 0 .. MaxLen - 1

VARIABLES
  views,       \* the vectorview objects that exist: their fields by address
  arrays,      \* the array objects that exist: their fields by address
  readView,    \* m_readView
  writeView,   \* m_writeView
  held,        \* held[r]: the shared_ptr of reader r
  current,     \* readViewGenerations[currentGen]: views kept alive
  past,        \* the earlier generations that still hold views
  toClean,     \* generations the loop of cleanReadViews() has yet to visit
  pc           \* where the writer is

mgrVars == <<current, past, toClean>>
vars == <<views, arrays, readView, writeView, held, mgrVars, pc>>

\* m_array, and m_sizeAndFlags: the size, bit 31 and bit 30.
ViewRecord ==
  [arr : Array, size : Nat, isWrite : BOOLEAN, needToFree : BOOLEAN]

\* Cells from MaxLen on are never touched and left out.
ArrayRecord == [capacity : Nat, extent : [Index -> Value \cup {Garbage}]]

WriterState == {"bulk", "idle", "merge", "clean", "publish", "fork", "destroyed"}

live == DOMAIN views
heap == DOMAIN arrays

TypeOK ==
  /\ live \subseteq View
  /\ views \in [live -> ViewRecord]
  /\ heap \subseteq Array
  /\ arrays \in [heap -> ArrayRecord]
  /\ readView \in View
  /\ writeView \in View
  /\ held \in [Reader -> View \cup {None}]
  /\ current \subseteq View
  /\ past \subseteq SUBSET View
  /\ toClean \subseteq past
  /\ pc \in WriterState

-----------------------------------------------------------------------------
(* vectorview *)

Without(f, S) == [x \in DOMAIN f \ S |-> f[x]]
With(f, x, y) == [z \in DOMAIN f \cup {x} |-> IF z = x THEN y ELSE f[z]]

\* ~vectorview: only a read view with the flag releases the array.
FreedBy(vs) ==
  {views[v].arr : v \in {w \in vs : ~views[w].isWrite /\ views[w].needToFree}}

\* delete of the views vs, and of the arrays they release.
DeleteViews(vs) ==
  /\ views' = Without(views, vs)
  /\ arrays' = Without(arrays, FreedBy(vs))

\* vectorview(vectorview&): a write view on the same array.
ForkOf(view) == [view EXCEPT !.isWrite = TRUE, !.needToFree = FALSE]

\* Mutant: the growing loop of at() stops one step early.
GrownCapacityOffByOne(c, i) == {i}

\* The capacity at() settles on, the first of c, 2c+1, 2(2c+1)+1, ... above i
\* (a set of one number).
GrownCapacity(c, i) ==
  {d \in i + 1 .. 2 * i + 1 : \E n \in 1 .. MaxLen + 1 : d + 1 = (c + 1) * 2^n}

\* memcpy of the first n cells into the extent of a fresh array.
CopyOf(extent, n) == [i \in Index |-> IF i < n THEN extent[i] ELSE Garbage]

\* The elements a view shows; no elements once the view is gone.
Contents(v) ==
  [i \in {j \in Index : v \in live /\ j < views[v].size} |->
     arrays[views[v].arr].extent[i]]

\* Mutant: the array left behind is never deleted.
MoveWriteViewLeaking(b, record, n) ==
  /\ arrays' = With(arrays, b, record)
  /\ views' = [views EXCEPT ![writeView] =
                 [@ EXCEPT !.arr = b, !.size = n, !.needToFree = TRUE]]

\* The write view moves to a fresh array b; the array it leaves is deleted
\* if it is its own (the flag is set), and left to the readers otherwise.
MoveWriteView(b, record, n) ==
  LET w == views[writeView] IN
  /\ arrays' = With(Without(arrays, IF w.needToFree THEN {w.arr} ELSE {}), b, record)
  /\ views' = [views EXCEPT ![writeView] =
                 [w EXCEPT !.arr = b, !.size = n, !.needToFree = TRUE]]

Unique(v) == \A r \in Reader : held[r] # v

Stored(v) == v \in current \/ \E g \in past : v \in g

SpinLocked == pc \in {"clean", "publish"}

Init ==
  \E v \in View, a \in Array :
    /\ views = [w \in {v} |->
                  [arr |-> a, size |-> 0, isWrite |-> TRUE, needToFree |-> TRUE]]
    /\ arrays = [b \in {a} |-> [capacity |-> InitCapacity,
                                extent |-> [i \in Index |-> Garbage]]]
    /\ readView = v
    /\ writeView = v
    /\ held = [r \in Reader |-> None]
    /\ current = {}
    /\ past = {}
    /\ toClean = {}
    /\ pc = "bulk"

-----------------------------------------------------------------------------
(* The writer *)

\* at(i) of the write view, i below the capacity, and the assignment to it.
AtInCapacity(i, x, n) ==
  LET a == views[writeView].arr IN
  /\ i < arrays[a].capacity
  /\ arrays' = [arrays EXCEPT ![a].extent[i] = x]
  /\ views' = [views EXCEPT ![writeView].size = n]

\* at(i) beyond the capacity: reallocate and copy first.
AtReallocating(i, x, n) ==
  LET w == views[writeView]
      a == arrays[w.arr]
  IN
  /\ i >= a.capacity
  /\ \E b \in Array \ heap, c \in GrownCapacity(a.capacity, i) :
       MoveWriteView(b, [capacity |-> c,
                         extent |-> [CopyOf(a.extent, w.size) EXCEPT ![i] = x]], n)

At(i, x) ==
  LET size == views[writeView].size
      n == IF i < size THEN size ELSE i + 1
  IN
  /\ pc \in {"bulk", "idle"}
  /\ i >= size \/ InPlace
  /\ AtInCapacity(i, x, n) \/ AtReallocating(i, x, n)
  /\ UNCHANGED <<readView, writeView, held, mgrVars, pc>>

\* commit(): the view built so far becomes the read view, and a write view
\* that shares its array is forked.
Commit ==
  LET rv == [views[readView] EXCEPT !.isWrite = FALSE] IN
  /\ pc = "bulk"
  /\ \E v \in View \ live :
       /\ views' = With([views EXCEPT ![readView] = rv], v, ForkOf(rv))
       /\ writeView' = v
  /\ pc' = "idle"
  /\ UNCHANGED <<arrays, readView, held, mgrVars>>

\* load() into a new vector: the elements of the archive replace the array,
\* at their exact size, and the vector is committed.
Load(n, cells) ==
  /\ pc = "bulk"
  /\ views[readView].size = 0
  /\ \E v \in View \ live, b \in Array \ heap :
       LET rv == [arr |-> b, size |-> n, isWrite |-> FALSE, needToFree |-> TRUE]
       IN
       /\ views' = With([views EXCEPT ![readView] = rv], v, ForkOf(rv))
       /\ arrays' = With(Without(arrays, {views[readView].arr}), b,
                         [capacity |-> n, extent |-> CopyOf(cells, n)])
       /\ writeView' = v
  /\ pc' = "idle"
  /\ UNCHANGED <<readView, held, mgrVars>>

\* Mutant: sortAndMerge() without forceCreateCopy().
SortAndMergeShared(n, pick) ==
  LET w == views[writeView]
      a == arrays[w.arr]
  IN
  /\ Usage = "copied"
  /\ pc = "idle"
  /\ n <= w.size
  /\ \A i \in 0 .. n - 1 : pick[i] < w.size
  /\ arrays' = [arrays EXCEPT ![w.arr].extent =
                  [i \in Index |-> IF i < n THEN a.extent[pick[i]] ELSE a.extent[i]]]
  /\ views' = [views EXCEPT ![writeView].size = n]
  /\ pc' = "merge"
  /\ UNCHANGED <<readView, writeView, held, mgrVars>>

\* sortAndMerge() of an inverted list (mergeFeedbackList() of a feedback
\* list): the write view leaves the array it shares with the read view, is
\* cut down to n elements picked from its own, and merge() follows.
SortAndMerge(n, pick) ==
  LET w == views[writeView]
      a == arrays[w.arr]
      kept == [i \in Index |-> IF i < n THEN a.extent[pick[i]] ELSE a.extent[i]]
  IN
  /\ Usage = "copied"
  /\ pc = "idle"
  /\ n <= w.size
  /\ \A i \in 0 .. n - 1 : /\ pick[i] < w.size
                           /\ \A j \in 0 .. i - 1 : pick[i] # pick[j]
  /\ \/ /\ w.arr = views[readView].arr
        /\ \E b \in Array \ heap :
             MoveWriteView(b, [a EXCEPT !.extent = CopyOf(kept, w.size)], n)
     \/ /\ w.arr # views[readView].arr
        /\ arrays' = [arrays EXCEPT ![w.arr].extent = kept]
        /\ views' = [views EXCEPT ![writeView].size = n]
  /\ pc' = "merge"
  /\ UNCHANGED <<readView, writeView, held, mgrVars>>

\* Mutant: a read view that still has readers keeps its flag.
MergeClassifyKeepingFlag ==
  LET realloc == views[readView].arr # views[writeView].arr
      flag == realloc \/ (views[readView].needToFree /\ ~Unique(readView))
  IN
  /\ pc = IF Usage = "copied" THEN "merge" ELSE "idle"
  /\ views' = [views EXCEPT ![readView].needToFree = flag]
  /\ past' = IF realloc THEN past \cup {current \cup {readView}} ELSE past
  /\ current' = IF realloc THEN {}
                ELSE IF Unique(readView) THEN current ELSE current \cup {readView}
  /\ toClean' = past'
  /\ pc' = "clean"
  /\ UNCHANGED <<arrays, readView, writeView, held>>

\* merge(), first part: the spin lock is taken, the old read view learns
\* whether it is the last one of its array, and the manager keeps it alive.
MergeClassify ==
  /\ pc = IF Usage = "copied" THEN "merge" ELSE "idle"
  /\ LET realloc == views[readView].arr # views[writeView].arr IN
       /\ views' = [views EXCEPT ![readView].needToFree = realloc]
       /\ IF Usage # "managed"
          THEN /\ pc' = "publish"
               /\ UNCHANGED mgrVars
          ELSE /\ pc' = "clean"
               /\ IF realloc
                  THEN /\ past' = past \cup {current \cup {readView}}
                       /\ current' = {}
                  ELSE /\ past' = past
                       /\ current' = IF Unique(readView) THEN current
                                     ELSE current \cup {readView}
               /\ toClean' = past'
  /\ UNCHANGED <<arrays, readView, writeView, held>>

\* Mutants: readers are not looked for; the manager takes its own reference
\* for a reader; the loop does not advance.
CleanGenerationBlindly(g) ==
  /\ pc = "clean"
  /\ toClean' = toClean \ {g}
  /\ past' = past \ {g}
  /\ DeleteViews(g \ {readView})
  /\ UNCHANGED <<readView, writeView, held, current, pc>>

CleanGenerationNever(g) ==
  /\ pc = "clean"
  /\ toClean' = toClean \ {g}
  /\ UNCHANGED <<past, views, arrays, readView, writeView, held, current, pc>>

CleanGenerationStuck(g) ==
  /\ pc = "clean"
  /\ IF \A v \in g : Unique(v) /\ v # readView
     THEN /\ toClean' = toClean
          /\ past' = past \ {g}
          /\ DeleteViews(g)
     ELSE /\ toClean' = toClean \ {g}
          /\ UNCHANGED <<past, views, arrays>>
  /\ UNCHANGED <<readView, writeView, held, current, pc>>

\* cleanReadViews(), one generation: it is dropped when no view of it has a
\* holder besides the manager.
CleanGeneration(g) ==
  /\ pc = "clean"
  /\ toClean' = toClean \ {g}
  /\ IF \A v \in g : Unique(v) /\ v # readView
     THEN /\ past' = past \ {g}
          /\ DeleteViews(g)
     ELSE UNCHANGED <<past, views, arrays>>
  /\ UNCHANGED <<readView, writeView, held, current, pc>>

CleanDone ==
  /\ pc = "clean"
  /\ toClean = {}
  /\ pc' = "publish"
  /\ UNCHANGED <<views, arrays, readView, writeView, held, mgrVars>>

\* m_readView.reset(m_writeView): the write view becomes the read view; the
\* old one dies here if nobody else holds it.  The spin lock is released.
MergePublish ==
  LET dying == IF Unique(readView) /\ ~Stored(readView) THEN {readView} ELSE {}
  IN
  /\ pc = "publish"
  /\ views' = [Without(views, dying) EXCEPT ![writeView].isWrite = FALSE]
  /\ arrays' = Without(arrays, FreedBy(dying))
  /\ readView' = writeView
  /\ pc' = "fork"
  /\ UNCHANGED <<writeView, held, mgrVars>>

\* merge(), last part: new vectorview(*m_readView), after the unlock.
MergeFork ==
  /\ pc = "fork"
  /\ \E v \in View \ live :
       /\ views' = With(views, v, ForkOf(views[readView]))
       /\ writeView' = v
  /\ pc' = "idle"
  /\ UNCHANGED <<arrays, readView, held, mgrVars>>

\* ~cowvector and ~ReadViewManager, once the readers have left.
Destroy ==
  /\ pc = "idle"
  /\ \A r \in Reader : held[r] = None
  /\ views' = Without(views, live)
  /\ arrays' = Without(arrays, {views[readView].arr}
                                 \cup FreedBy(current \cup UNION past))
  /\ current' = {} /\ past' = {} /\ toClean' = {}
  /\ pc' = "destroyed"
  /\ UNCHANGED <<readView, writeView, held>>

-----------------------------------------------------------------------------
(* The readers *)

\* getReadView(), under the spin lock.  Readers come only after the commit.
GetReadView(r) ==
  /\ pc \notin {"bulk", "destroyed"}
  /\ ~SpinLocked
  /\ held[r] = None
  /\ Cardinality(current \cup UNION past) < MaxStored
  /\ held' = [held EXCEPT ![r] = readView]
  /\ UNCHANGED <<views, arrays, readView, writeView, mgrVars, pc>>

\* The reader's shared_ptr goes; the view dies with its last shared_ptr.
ReleaseReadView(r) ==
  LET v == held[r]
      last == v # readView /\ ~Stored(v) /\ \A s \in Reader \ {r} : held[s] # v
      dying == IF last THEN {v} ELSE {}
  IN
  /\ v # None
  /\ held' = [held EXCEPT ![r] = None]
  /\ DeleteViews(dying)
  /\ UNCHANGED <<readView, writeView, mgrVars, pc>>

-----------------------------------------------------------------------------
Merging ==
  \/ MergeClassify
  \/ \E g \in toClean : CleanGeneration(g)
  \/ CleanDone
  \/ MergePublish
  \/ MergeFork

WriterStep ==
  \/ \E i \in Index, x \in Value : At(i, x)
  \/ Commit
  \/ \E n \in 0 .. MaxLen : \E cells \in [0 .. n - 1 -> Value] : Load(n, cells)
  \/ \E n \in 0 .. MaxLen : \E pick \in [0 .. n - 1 -> Index] :
        SortAndMerge(n, pick)
  \/ Merging
  \/ Destroy

ReaderStep(r) == GetReadView(r) \/ ReleaseReadView(r)

Next == WriterStep \/ \E r \in Reader : ReaderStep(r)

Spec == Init /\ [][Next]_vars

\* A reader finishes its query; the merge thread calls merge() at least
\* every mergeEveryNSeconds and never stops half way.
FairSpec ==
  /\ Spec
  /\ WF_vars(Merging)
  /\ \A r \in Reader : WF_vars(ReleaseReadView(r))

-----------------------------------------------------------------------------
(* Properties *)

\* The array of every view exists.
ArraysExist == \A v \in live : views[v].arr \in heap

(* Whatever can still be reached exists: the views that a reader, the      *)
(* manager or the vector itself points to, and their arrays.  What         *)
(* merge(), cleanReadViews(), at() and a dropped shared_ptr delete is out  *)
(* of everybody's sight.                                                   *)
NoUseAfterFree ==
  /\ \A r \in Reader : held[r] = None \/ held[r] \in live
  /\ current \cup UNION past \subseteq live
  /\ pc # "destroyed" => {readView, writeView} \subseteq live
  /\ ArraysExist

(* Of the views that share an array at most one carries needToFreeArray,   *)
(* so that the destructors of a generation delete the array once.          *)
SingleOwner ==
  \A v, w \in live :
    views[v].arr = views[w].arr /\ views[v].needToFree /\ views[w].needToFree
      => v = w

(* Every array is owned: by a view that will delete it, or by the current  *)
(* read view, which merge() or the destructor makes its owner.  An array   *)
(* owned by nobody is lost for the life of the process.                    *)
NoLeak ==
  pc # "destroyed" =>
    \A a \in heap : \E v \in live :
      views[v].arr = a /\ (views[v].needToFree \/ v = readView)

(* Reallocation keeps up with the size: no view ever covers a cell beyond  *)
(* the end of its array (at(), load(), setSize()).                         *)
SizeWithinCapacity == \A v \in live : views[v].size <= arrays[views[v].arr].capacity

(* A past generation never loses its array while one of its views has a    *)
(* reader, and it is not kept for ever: an array that is neither published *)
(* nor being written is eventually deleted, whatever readers overlap.      *)
Superseded(a) ==
  /\ pc # "destroyed"
  /\ a \in heap
  /\ \A v \in {readView, writeView} : views[v].arr # a

Reclaimed == \A a \in Array : Superseded(a) ~> ~Superseded(a)

(* What readers see is a snapshot, see SnapshotVector.                     *)
Snapshot == INSTANCE SnapshotVector WITH
  committed <- pc \notin {"bulk", "destroyed"},
  published <- Contents(readView),
  working   <- Contents(writeView),
  snap      <- [r \in Reader |-> IF held[r] = None THEN None
                                 ELSE Contents(held[r])]

(* Without in-place writes the vector implements SnapshotVector: appends,  *)
(* reallocations, sortAndMerge() and merges never change what a reader     *)
(* that already holds a view sees.                                         *)
ImplementsSnapshot == Snapshot!Spec
=============================================================================
