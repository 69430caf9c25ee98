--------------------------- MODULE CowVectorProofs ---------------------------
(* Proofs about CowVector, for any number of readers, views and arrays.     *)
EXTENDS CowVector, TLAPS

-----------------------------------------------------------------------------
(* The inductive invariant *)

\* Whatever can be reached exists.
Reachable ==
  /\ pc = "destroyed" => live = {}
  /\ pc # "destroyed" => readView \in live /\ writeView \in live
  /\ \A r \in Reader : held[r] = None \/ held[r] \in live
  /\ current \subseteq live
  /\ \A g \in past : g \subseteq live

\* Who is who: the write view is nobody else's, and it is the read view
\* itself before the commit and between publishing and forking.
Roles ==
  /\ pc = "bulk" => /\ live = {readView}
                    /\ views[readView].needToFree
                    /\ \A r \in Reader : held[r] = None
  /\ pc \in {"bulk", "fork"} => readView = writeView
  /\ pc \notin {"bulk", "fork", "destroyed"} => readView # writeView
  /\ \A v \in live : views[v].isWrite <=> (v = writeView /\ pc # "fork")
  /\ pc # "fork" => \A r \in Reader : held[r] # writeView
  /\ writeView \notin current
  /\ \A g \in past : writeView \notin g

\* A write view with the flag has its array for itself.
WriteViewOwnsAlone ==
  \A v, w \in live :
    v = writeView /\ w # v /\ views[v].needToFree => views[w].arr # views[v].arr

\* With a manager: a past generation has its array for itself, the views of
\* the current one share the array of the read view and leave it alone, and
\* a view that can still be reached by a reader is kept.
Managed ==
  Usage = "managed" =>
    /\ \A g \in past : \A v \in g : \A w \in live :
         w \in g <=> views[w].arr = views[v].arr
    /\ \A v \in current : /\ ~views[v].needToFree
                          /\ views[v].arr = views[readView].arr
    /\ \A v \in live : v = readView \/ v = writeView \/ Stored(v)
    /\ pc \in {"clean", "publish"} =>
         /\ views[readView].needToFree <=> views[readView].arr # views[writeView].arr
         /\ views[readView].needToFree =>
              current = {} /\ \E g \in past : readView \in g
         /\ ~Stored(readView) => Unique(readView)
    /\ pc \notin {"clean", "publish"} => \A g \in past : readView \notin g
    /\ pc # "merge"

\* Without one, but with a copy before each merge: no two views share an
\* array, save the write view and the read view it was forked from.
CopiedApart ==
  Usage = "copied" =>
    /\ current = {} /\ past = {} /\ toClean = {}
    /\ \A v, w \in live :
         v # w /\ views[v].arr = views[w].arr =>
           (v = readView /\ w = writeView) \/ (v = writeView /\ w = readView)
    /\ pc \in {"merge", "publish"} => views[readView].arr # views[writeView].arr
    /\ pc = "publish" => views[readView].needToFree
    /\ pc # "clean"

IInv ==
  /\ TypeOK
  /\ Reachable
  /\ Roles
  /\ WriteViewOwnsAlone
  /\ Managed
  /\ CopiedApart
  /\ ArraysExist
  /\ SingleOwner
  /\ NoLeak
  /\ SizeWithinCapacity

-----------------------------------------------------------------------------
(* Typing *)

LEMMA InitType == Init => TypeOK
BY ParamAssumption DEF Init, TypeOK, live, heap, ViewRecord, ArrayRecord, WriterState, Index

-----------------------------------------------------------------------------
(* Writing through the write view: at() and sortAndMerge() *)

\* What both leave alone.
WriteEffect ==
  /\ live' = live
  /\ views' \in [live -> ViewRecord]
  /\ \A v \in live : v # writeView => views'[v] = views[v]
  /\ views'[writeView].isWrite = views[writeView].isWrite
  /\ heap' \subseteq Array
  /\ arrays' \in [heap' -> ArrayRecord]
  /\ UNCHANGED <<readView, writeView, held, mgrVars>>

\* The write view keeps its array.
Stays ==
  /\ heap' = heap
  /\ \A a \in heap : arrays'[a].capacity = arrays[a].capacity
  /\ views'[writeView].arr = views[writeView].arr
  /\ views'[writeView].needToFree = views[writeView].needToFree
  /\ views'[writeView].size <= arrays[views[writeView].arr].capacity

\* The write view moves to a fresh array.
Moves ==
  \E b \in Array \ heap :
    /\ heap' = (heap \ IF views[writeView].needToFree THEN {views[writeView].arr}
                                                      ELSE {}) \cup {b}
    /\ \A a \in heap' : a # b => arrays'[a] = arrays[a]
    /\ views'[writeView].arr = b
    /\ views'[writeView].needToFree
    /\ views'[writeView].size <= arrays'[b].capacity

\* What the facts the writer relies on give about the write view.
LEMMA WriteViewType ==
  ASSUME TypeOK, Reachable, ArraysExist, SizeWithinCapacity, pc # "destroyed"
  PROVE  /\ writeView \in live
         /\ views[writeView] \in ViewRecord
         /\ views[writeView].arr \in heap
         /\ views[writeView].size \in Nat
         /\ arrays[views[writeView].arr] \in ArrayRecord
         /\ arrays[views[writeView].arr].capacity \in Nat
         /\ arrays[views[writeView].arr].extent \in [Index -> Value \cup {Garbage}]
         /\ views[writeView].size <= arrays[views[writeView].arr].capacity
<1>1. writeView \in live
  BY DEF Reachable
<1>2. views[writeView] \in ViewRecord /\ views[writeView].arr \in heap
  BY <1>1 DEF TypeOK, ArraysExist
<1>3. arrays[views[writeView].arr] \in ArrayRecord
  BY <1>2 DEF TypeOK
<1> QED
  BY <1>1, <1>2, <1>3 DEF SizeWithinCapacity, ViewRecord, ArrayRecord

LEMMA MoveWriteViewEffect ==
  ASSUME TypeOK, Reachable, ArraysExist, SizeWithinCapacity, pc # "destroyed",
         NEW b \in Array \ heap, NEW record \in ArrayRecord, NEW n \in Nat,
         n <= record.capacity, MoveWriteView(b, record, n),
         UNCHANGED <<readView, writeView, held, mgrVars>>
  PROVE  WriteEffect /\ Moves /\ views'[writeView].size = n
<1> DEFINE w == views[writeView]
           freed == IF w.needToFree THEN {w.arr} ELSE {}
           moved == [w EXCEPT !.arr = b, !.size = n, !.needToFree = TRUE]
<1>1. writeView \in live /\ w \in ViewRecord
  BY WriteViewType
<1>2. /\ moved \in ViewRecord
      /\ moved.arr = b /\ moved.size = n /\ moved.needToFree
      /\ moved.isWrite = w.isWrite
  BY <1>1 DEF ViewRecord
<1>3. views \in [live -> ViewRecord] /\ arrays \in [heap -> ArrayRecord] /\ heap \subseteq Array
  BY DEF TypeOK
<1>4. /\ live' = live
      /\ views' \in [live -> ViewRecord]
      /\ \A v \in live : v # writeView => views'[v] = views[v]
      /\ views'[writeView] = moved
  BY <1>1, <1>2, <1>3 DEF MoveWriteView, live
<1>5. /\ heap' = (heap \ freed) \cup {b}
      /\ arrays'[b] = record
      /\ \A a \in heap \ freed : arrays'[a] = arrays[a]
      /\ arrays' = [z \in (heap \ freed) \cup {b} |-> IF z = b THEN record ELSE arrays[z]]
  <2>1. arrays' = With(Without(arrays, freed), b, record)
    BY DEF MoveWriteView
  <2>2. Without(arrays, freed) = [x \in heap \ freed |-> arrays[x]]
    BY DEF Without, heap
  <2> HIDE DEF freed
  <2> QED BY <2>1, <2>2 DEF With, heap
<1>6. heap' \subseteq Array /\ arrays' \in [heap' -> ArrayRecord]
  <2> HIDE DEF freed
  <2> QED BY <1>3, <1>5
<1> HIDE DEF moved
<1> QED BY <1>2, <1>4, <1>5, <1>6 DEF WriteEffect, Moves

LEMMA AtEffect ==
  ASSUME TypeOK, Reachable, ArraysExist, SizeWithinCapacity,
         NEW i \in Index, NEW x \in Value, At(i, x)
  PROVE  WriteEffect /\ (Stays \/ Moves) /\ pc' = pc /\ pc \in {"bulk", "idle"}
<1> DEFINE w == views[writeView]
           a == arrays[w.arr]
           n == IF i < w.size THEN w.size ELSE i + 1
<1>1. /\ pc \in {"bulk", "idle"} /\ pc' = pc
      /\ UNCHANGED <<readView, writeView, held, mgrVars>>
      /\ i \in Nat
  BY ParamAssumption DEF At, Index
<1>2. /\ writeView \in live /\ w \in ViewRecord /\ w.arr \in heap /\ a \in ArrayRecord
      /\ w.size \in Nat /\ a.capacity \in Nat /\ w.size <= a.capacity
      /\ a.extent \in [Index -> Value \cup {Garbage}]
  BY <1>1, WriteViewType
<1>3. n \in Nat /\ (i < a.capacity => n <= a.capacity) /\ n <= IF i < w.size THEN w.size ELSE i + 1
  BY <1>1, <1>2
<1>4. views \in [live -> ViewRecord] /\ arrays \in [heap -> ArrayRecord] /\ heap \subseteq Array
  BY DEF TypeOK
<1>5. CASE AtInCapacity(i, x, n)
  <2> DEFINE e == [a.extent EXCEPT ![i] = x]
             v2 == [w EXCEPT !.size = n]
             a2 == [a EXCEPT !.extent = e]
  <2>1. e \in [Index -> Value \cup {Garbage}]
    BY <1>2
  <2>2. /\ v2 \in ViewRecord /\ v2.arr = w.arr /\ v2.size = n
        /\ v2.needToFree = w.needToFree /\ v2.isWrite = w.isWrite
    BY <1>2, <1>3 DEF ViewRecord
  <2>3. a2 \in ArrayRecord /\ a2.capacity = a.capacity
    <3> HIDE DEF e
    <3> QED BY <1>2, <2>1 DEF ArrayRecord
  <2>4. views' = [views EXCEPT ![writeView] = v2] /\ i < a.capacity
    BY <1>5 DEF AtInCapacity
  <2>5. arrays' = [arrays EXCEPT ![w.arr] = a2]
    BY <1>5 DEF AtInCapacity
  <2> HIDE DEF v2, a2
  <2>6. /\ live' = live /\ views' \in [live -> ViewRecord] /\ views'[writeView] = v2
        /\ \A v \in live : v # writeView => views'[v] = views[v]
    BY <1>2, <1>4, <2>2, <2>4 DEF live
  <2>7. /\ heap' = heap /\ arrays' \in [heap -> ArrayRecord]
        /\ \A z \in heap : arrays'[z].capacity = arrays[z].capacity
    BY <1>2, <1>4, <2>3, <2>5 DEF heap
  <2> HIDE DEF n
  <2> QED BY <1>1, <1>3, <1>4, <2>2, <2>4, <2>6, <2>7 DEF WriteEffect, Stays
<1>6. CASE AtReallocating(i, x, n)
  <2>1. PICK b \in Array \ heap, c \in GrownCapacity(a.capacity, i) :
          MoveWriteView(b, [capacity |-> c,
                         extent |-> [CopyOf(a.extent, w.size) EXCEPT ![i] = x]], n)
    BY <1>6 DEF AtReallocating
  <2> DEFINE e == [CopyOf(a.extent, w.size) EXCEPT ![i] = x]
             record == [capacity |-> c, extent |-> e]
  <2>2. c \in Nat /\ c > i
    BY <1>1 DEF GrownCapacity
  <2>3. i >= a.capacity
    BY <1>6 DEF AtReallocating
  <2>4. CopyOf(a.extent, w.size) \in [Index -> Value \cup {Garbage}]
    BY <1>2 DEF CopyOf
  <2>5. e \in [Index -> Value \cup {Garbage}]
    BY <2>4
  <2>6. record \in ArrayRecord /\ record.capacity = c
    <3> HIDE DEF e
    <3> QED BY <2>2, <2>5 DEF ArrayRecord
  <2>7. n <= record.capacity
    BY <1>1, <1>2, <2>2, <2>3, <2>6
  <2> HIDE DEF e, record, n
  <2>8. MoveWriteView(b, record, n)
    BY <2>1 DEF e, record
  <2> QED BY <1>1, <1>3, <2>6, <2>7, <2>8, MoveWriteViewEffect
<1> QED BY <1>1, <1>5, <1>6 DEF At

LEMMA SortAndMergeEffect ==
  ASSUME TypeOK, Reachable, ArraysExist, SizeWithinCapacity,
         NEW n \in 0 .. MaxLen, NEW pick \in [0 .. n - 1 -> Index],
         SortAndMerge(n, pick)
  PROVE  /\ WriteEffect /\ (Stays \/ Moves)
         /\ pc = "idle" /\ pc' = "merge" /\ Usage = "copied"
         /\ views[writeView].arr = views[readView].arr => Moves
<1> DEFINE w == views[writeView]
           a == arrays[w.arr]
           kept == [i \in Index |-> IF i < n THEN a.extent[pick[i]] ELSE a.extent[i]]
<1>1. /\ pc = "idle" /\ pc' = "merge" /\ Usage = "copied"
      /\ UNCHANGED <<readView, writeView, held, mgrVars>>
      /\ n \in Nat /\ n <= w.size
  <2>1. n \in Nat
    BY ParamAssumption
  <2>2. n <= w.size
    BY DEF SortAndMerge
  <2>3. /\ pc = "idle" /\ pc' = "merge" /\ Usage = "copied"
        /\ UNCHANGED <<readView, writeView, held, mgrVars>>
    BY Zenon DEF SortAndMerge
  <2> QED BY <2>1, <2>2, <2>3
<1>2. /\ writeView \in live /\ w \in ViewRecord /\ w.arr \in heap /\ a \in ArrayRecord
      /\ w.size \in Nat /\ a.capacity \in Nat /\ w.size <= a.capacity
      /\ a.extent \in [Index -> Value \cup {Garbage}]
  BY <1>1, WriteViewType
<1>3. n <= a.capacity
  BY <1>1, <1>2
<1>4. kept \in [Index -> Value \cup {Garbage}]
  BY <1>1, <1>2, ParamAssumption DEF Index
<1>5. views \in [live -> ViewRecord] /\ arrays \in [heap -> ArrayRecord] /\ heap \subseteq Array
  BY DEF TypeOK
<1> HIDE DEF kept
<1>6. CASE /\ w.arr = views[readView].arr
           /\ \E b \in Array \ heap :
                MoveWriteView(b, [a EXCEPT !.extent = CopyOf(kept, w.size)], n)
  <2>1. PICK b \in Array \ heap :
          MoveWriteView(b, [a EXCEPT !.extent = CopyOf(kept, w.size)], n)
    BY <1>6
  <2> DEFINE record == [a EXCEPT !.extent = CopyOf(kept, w.size)]
  <2>2. CopyOf(kept, w.size) \in [Index -> Value \cup {Garbage}]
    BY <1>4 DEF CopyOf
  <2>3. record \in ArrayRecord /\ record.capacity = a.capacity
    BY <1>2, <2>2 DEF ArrayRecord
  <2> HIDE DEF record
  <2>4. MoveWriteView(b, record, n)
    BY <2>1 DEF record
  <2> QED BY <1>1, <1>3, <2>3, <2>4, MoveWriteViewEffect
<1>7. CASE /\ w.arr # views[readView].arr
           /\ arrays' = [arrays EXCEPT ![w.arr].extent = kept]
           /\ views' = [views EXCEPT ![writeView].size = n]
  <2> DEFINE v2 == [w EXCEPT !.size = n]
             a2 == [a EXCEPT !.extent = kept]
  <2>1. /\ v2 \in ViewRecord /\ v2.arr = w.arr /\ v2.size = n
        /\ v2.needToFree = w.needToFree /\ v2.isWrite = w.isWrite
    BY <1>1, <1>2 DEF ViewRecord
  <2>2. a2 \in ArrayRecord /\ a2.capacity = a.capacity
    BY <1>2, <1>4 DEF ArrayRecord
  <2>3. views' = [views EXCEPT ![writeView] = v2] /\ arrays' = [arrays EXCEPT ![w.arr] = a2]
    BY <1>7
  <2> HIDE DEF v2, a2
  <2>4. /\ live' = live /\ views' \in [live -> ViewRecord] /\ views'[writeView] = v2
        /\ \A v \in live : v # writeView => views'[v] = views[v]
    BY <1>2, <1>5, <2>1, <2>3 DEF live
  <2>5. /\ heap' = heap /\ arrays' \in [heap -> ArrayRecord]
        /\ \A z \in heap : arrays'[z].capacity = arrays[z].capacity
    BY <1>2, <1>5, <2>2, <2>3 DEF heap
  <2> QED BY <1>1, <1>3, <1>5, <1>7, <2>1, <2>4, <2>5 DEF WriteEffect, Stays
<1> QED BY <1>1, <1>6, <1>7 DEF SortAndMerge, kept

\* Writing preserves the invariant.
LEMMA WritePreserves ==
  ASSUME IInv, Usage # "bare", WriteEffect, Stays \/ Moves,
         \/ pc \in {"bulk", "idle"} /\ pc' = pc
         \/ /\ pc = "idle" /\ pc' = "merge" /\ Usage = "copied"
            /\ views[writeView].arr = views[readView].arr => Moves
  PROVE  IInv'
<1> USE DEF IInv
<1> DEFINE w == views[writeView]
<1>1. /\ writeView \in live /\ readView \in live
      /\ w \in ViewRecord /\ w.arr \in heap /\ views \in [live -> ViewRecord]
  BY WriteViewType DEF Reachable, TypeOK
<1>2. /\ live' = live /\ readView' = readView /\ writeView' = writeView
      /\ held' = held /\ current' = current /\ past' = past /\ toClean' = toClean
      /\ \A v \in live : v # writeView => views'[v] = views[v]
      /\ views'[writeView].isWrite = w.isWrite
  BY DEF WriteEffect, mgrVars
<1>3. \A v \in live : v # writeView /\ w.needToFree => views[v].arr # w.arr
  BY <1>1 DEF WriteViewOwnsAlone
<1>4. pc # "destroyed" /\ pc' # "destroyed" /\ pc' \in WriterState
      /\ pc # "fork" /\ pc' # "fork" /\ pc \notin {"clean", "publish"} /\ pc' \notin {"clean", "publish"}
  BY DEF WriterState
<1>5. TypeOK'
  BY <1>2, <1>4 DEF TypeOK, WriteEffect
<1>6. Reachable'
  BY <1>2, <1>4 DEF Reachable
<1>7. Roles'
  BY <1>1, <1>2, <1>4 DEF Roles, Stays, Moves
<1>8. ArraysExist'
  BY <1>1, <1>2, <1>3 DEF ArraysExist, Stays, Moves
<1>9. \A v \in live : v # writeView /\ Moves => views'[v].arr # views'[writeView].arr
  BY <1>1, <1>2 DEF ArraysExist, Moves
<1>10. WriteViewOwnsAlone' /\ SingleOwner'
  BY <1>1, <1>2, <1>3, <1>9 DEF WriteViewOwnsAlone, SingleOwner, Stays
<1>11. Managed'
  <2> SUFFICES ASSUME Usage = "managed" PROVE Managed'
    BY DEF Managed
  <2>1. \A g \in past : writeView \notin g /\ g \subseteq live
    BY DEF Roles, Reachable
  <2>2. \A g \in past : \A v \in g : \A u \in live :
          u \in g <=> views'[u].arr = views'[v].arr
    BY <1>1, <1>2, <1>9, <2>1 DEF Managed, Stays
  <2>3. writeView \notin current /\ current \subseteq live
    BY DEF Roles, Reachable
  <2>4. \A v \in current : ~views'[v].needToFree /\ views'[v].arr = views'[readView].arr
    <3>1. CASE pc = "bulk"
      BY <3>1, <2>3 DEF Roles, Reachable
    <3>2. CASE pc = "idle"
      BY <3>2, <1>1, <1>2, <2>3 DEF Managed, Roles
    <3> QED BY <3>1, <3>2
  <2>5. \A v \in live : v = readView \/ v = writeView \/ Stored(v)
    BY DEF Managed
  <2> QED BY <1>2, <1>4, <2>2, <2>4, <2>5 DEF Managed, Stored
<1>12. CopiedApart'
  <2>1. pc # "bulk" => readView # writeView
    BY <1>4 DEF Roles
  <2>2. \A u, v \in live :
          u # v /\ views'[u].arr = views'[v].arr /\ Usage = "copied" =>
            (u = readView /\ v = writeView) \/ (u = writeView /\ v = readView)
    BY <1>1, <1>2, <1>9 DEF CopiedApart, Stays
  <2>3. pc' = "merge" => views'[readView].arr # views'[writeView].arr
    BY <1>1, <1>2, <1>4, <1>9, <2>1 DEF Stays, CopiedApart
  <2> QED BY <1>2, <1>4, <2>2, <2>3 DEF CopiedApart
<1>13. NoLeak'
  <2> SUFFICES ASSUME NEW a \in heap'
               PROVE  \E v \in live : views'[v].arr = a /\ (views'[v].needToFree \/ v = readView)
    BY <1>2 DEF NoLeak
  <2>1. \A z \in heap : \E v \in live : views[v].arr = z /\ (views[v].needToFree \/ v = readView)
    BY <1>4 DEF NoLeak
  <2>2. CASE Stays
    BY <1>1, <1>2, <2>1, <2>2 DEF Stays
  <2>3. CASE Moves
    <3>1. readView = writeView => w.needToFree
      BY <1>4 DEF Roles
    <3> QED BY <1>1, <1>2, <2>1, <2>3, <3>1 DEF Moves
  <2> QED BY <2>2, <2>3
<1>14. SizeWithinCapacity'
  <2>1. \A v \in live : v # writeView => views'[v].arr \in heap /\ views'[v].size <= arrays[views'[v].arr].capacity
    BY <1>2 DEF SizeWithinCapacity, ArraysExist
  <2>2. CASE Stays
    BY <1>1, <1>2, <2>1, <2>2 DEF Stays, SizeWithinCapacity
  <2>3. CASE Moves
    BY <1>1, <1>2, <1>3, <2>1, <2>3 DEF Moves, SizeWithinCapacity
  <2> QED BY <2>2, <2>3
<1> QED BY <1>5, <1>6, <1>7, <1>8, <1>10, <1>11, <1>12, <1>13, <1>14

-----------------------------------------------------------------------------
(* Forking a write view: commit(), the end of merge(), load() *)

ForkEffect(v, rv) ==
  /\ live' = live \cup {v}
  /\ views' \in [live \cup {v} -> ViewRecord]
  /\ views'[v] = ForkOf(rv)
  /\ views'[readView] = rv
  /\ \A u \in live : u # readView => views'[u] = views[u]
  /\ ForkOf(rv).arr = rv.arr /\ ForkOf(rv).size = rv.size
  /\ ForkOf(rv).isWrite /\ ~ForkOf(rv).needToFree

LEMMA ForkFields ==
  ASSUME TypeOK, readView \in live, NEW v \in View \ live, NEW rv \in ViewRecord,
         views' = With([views EXCEPT ![readView] = rv], v, ForkOf(rv))
  PROVE  ForkEffect(v, rv)
<1>1. /\ ForkOf(rv) \in ViewRecord
      /\ ForkOf(rv).arr = rv.arr /\ ForkOf(rv).size = rv.size
      /\ ForkOf(rv).isWrite /\ ~ForkOf(rv).needToFree
  BY DEF ForkOf, ViewRecord
<1>2. views \in [live -> ViewRecord]
  BY DEF TypeOK
<1>3. [views EXCEPT ![readView] = rv] \in [live -> ViewRecord]
  BY <1>2
<1>4. views' = [z \in live \cup {v} |->
                  IF z = v THEN ForkOf(rv) ELSE [views EXCEPT ![readView] = rv][z]]
  BY <1>3 DEF With
<1> QED BY <1>1, <1>2, <1>4 DEF ForkEffect, live

LEMMA ForkPreserves ==
  ASSUME IInv, Usage # "bare", NEW v \in View \ live, NEW rv \in ViewRecord,
         pc \in {"bulk", "fork"}, pc' = "idle",
         rv.arr = views[readView].arr, rv.size = views[readView].size,
         rv.needToFree = views[readView].needToFree, ~rv.isWrite,
         ForkEffect(v, rv), writeView' = v, UNCHANGED <<arrays, readView, held, mgrVars>>
  PROVE  IInv'
<1> USE DEF IInv
<1>1. readView \in live /\ writeView = readView /\ v \in View /\ v \notin live
  BY DEF Reachable, Roles
<1> DEFINE f == ForkOf(rv)
<1>2. /\ live' = live \cup {v} /\ views' \in [live \cup {v} -> ViewRecord]
      /\ \A u \in live : u # readView => views'[u] = views[u]
      /\ views'[v] = f /\ f.arr = rv.arr /\ f.size = rv.size
      /\ f.isWrite /\ ~f.needToFree
      /\ views'[readView] = rv
  BY DEF ForkEffect
<1> HIDE DEF f
<1>3. /\ readView' = readView /\ writeView' = v /\ held' = held
      /\ current' = current /\ past' = past /\ toClean' = toClean
      /\ arrays' = arrays /\ heap' = heap /\ pc' = "idle"
  BY DEF mgrVars, heap
<1>4. TypeOK'
  BY <1>1, <1>2, <1>3 DEF TypeOK, WriterState
<1>5. Reachable'
  BY <1>1, <1>2, <1>3 DEF Reachable
<1>6. Roles'
  <2>1. \A r \in Reader : held[r] # v
    BY <1>1, ParamAssumption DEF Reachable
  <2>2. v \notin current /\ \A g \in past : v \notin g
    BY <1>1 DEF Reachable
  <2>3. \A u \in live : ~views'[u].isWrite
    BY <1>1, <1>2 DEF Roles
  <2> QED BY <1>1, <1>2, <1>3, <2>1, <2>2, <2>3 DEF Roles
<1>7. /\ \A u \in live : /\ views'[u].arr = views[u].arr
                         /\ views'[u].size = views[u].size
                         /\ views'[u].needToFree <=> views[u].needToFree
      /\ views'[v].arr = views[readView].arr
      /\ views'[v].size = views[readView].size
      /\ ~views'[v].needToFree
  BY <1>1, <1>2
<1>8. ArraysExist' /\ SizeWithinCapacity'
  BY <1>1, <1>2, <1>3, <1>7 DEF ArraysExist, SizeWithinCapacity
<1>9. WriteViewOwnsAlone'
  BY <1>2, <1>3, <1>7 DEF WriteViewOwnsAlone
<1>10. SingleOwner'
  <2>1. \A x, y \in live : views'[x].arr = views'[y].arr
          /\ views'[x].needToFree /\ views'[y].needToFree => x = y
    BY <1>7 DEF SingleOwner
  <2> QED BY <1>2, <1>7, <2>1 DEF SingleOwner
<1>11. Managed'
  <2> SUFFICES ASSUME Usage = "managed" PROVE Managed'
    BY DEF Managed
  <2>1. \A g \in past : readView \notin g /\ g \subseteq live
    BY DEF Managed, Reachable
  <2>2. \A g \in past : \A x \in g : \A u \in live' :
          u \in g <=> views'[u].arr = views'[x].arr
    <3>1. \A g \in past : \A x \in g : \A u \in live :
            u \in g <=> views[u].arr = views[x].arr
      BY DEF Managed
    <3> SUFFICES ASSUME NEW g \in past, NEW x \in g, NEW u \in live'
                 PROVE  u \in g <=> views'[u].arr = views'[x].arr
      OBVIOUS
    <3>2. x \in live /\ views'[x].arr = views[x].arr
      BY <1>7, <2>1
    <3>3. CASE u = v
      BY <1>1, <1>7, <2>1, <3>1, <3>2, <3>3
    <3>4. CASE u \in live
      BY <1>7, <3>1, <3>2, <3>4
    <3> QED BY <1>2, <3>3, <3>4
  <2>3. \A x \in current : ~views'[x].needToFree /\ views'[x].arr = views'[readView].arr
    BY <1>1, <1>7 DEF Managed, Reachable
  <2>4. \A u \in live' : u = readView \/ u = v \/ Stored(u)
    BY <1>1, <1>2 DEF Managed
  <2> QED BY <1>3, <2>1, <2>2, <2>3, <2>4 DEF Managed, Stored
<1>12. CopiedApart'
  <2> SUFFICES ASSUME Usage = "copied" PROVE CopiedApart'
    BY DEF CopiedApart
  <2>1. \A x, u \in live' : x # u /\ views'[x].arr = views'[u].arr =>
           (x = readView /\ u = v) \/ (x = v /\ u = readView)
    BY <1>1, <1>2, <1>7 DEF CopiedApart
  <2> QED BY <1>3, <2>1 DEF CopiedApart
<1>13. NoLeak'
  <2>1. \A a \in heap : \E u \in live :
          views[u].arr = a /\ (views[u].needToFree \/ u = readView)
    BY DEF NoLeak
  <2> SUFFICES ASSUME NEW a \in heap
               PROVE  \E u \in live' :
                        views'[u].arr = a /\ (views'[u].needToFree \/ u = readView)
    BY <1>3 DEF NoLeak
  <2>2. PICK u \in live : views[u].arr = a /\ (views[u].needToFree \/ u = readView)
    BY <2>1
  <2> QED BY <1>2, <1>7, <2>2
<1> QED BY <1>4, <1>5, <1>6, <1>8, <1>9, <1>10, <1>11, <1>12, <1>13

LEMMA CommitPreserves ==
  ASSUME IInv, Usage # "bare", Commit
  PROVE  IInv'
<1> DEFINE rv == [views[readView] EXCEPT !.isWrite = FALSE]
<1>1. PICK v \in View \ live :
        /\ views' = With([views EXCEPT ![readView] = rv], v, ForkOf(rv))
        /\ writeView' = v
  BY DEF Commit
<1>2. views[readView] \in ViewRecord
  BY DEF IInv, TypeOK, Reachable, Commit
<1>3. /\ rv \in ViewRecord /\ rv.arr = views[readView].arr /\ rv.size = views[readView].size
      /\ rv.needToFree = views[readView].needToFree /\ ~rv.isWrite
  BY <1>2 DEF ViewRecord
<1>4. pc \in {"bulk", "fork"} /\ pc' = "idle" /\ UNCHANGED <<arrays, readView, held, mgrVars>>
  BY DEF Commit
<1> HIDE DEF rv
<1>5. ForkEffect(v, rv)
  BY <1>1, <1>3, ForkFields DEF IInv, Reachable, Commit
<1> QED BY <1>1, <1>3, <1>4, <1>5, ForkPreserves

LEMMA MergeForkPreserves ==
  ASSUME IInv, Usage # "bare", MergeFork
  PROVE  IInv'
<1> DEFINE rv == views[readView]
<1>1. PICK v \in View \ live : views' = With(views, v, ForkOf(rv)) /\ writeView' = v
  BY DEF MergeFork
<1>2. rv \in ViewRecord /\ readView \in live /\ views \in [live -> ViewRecord] /\ ~rv.isWrite
  BY DEF IInv, TypeOK, Reachable, MergeFork, Roles
<1>3. [views EXCEPT ![readView] = rv] = views
  BY <1>2
<1>4. pc \in {"bulk", "fork"} /\ pc' = "idle" /\ UNCHANGED <<arrays, readView, held, mgrVars>>
  BY DEF MergeFork
<1>5. ForkEffect(v, rv)
  BY <1>1, <1>2, <1>3, ForkFields DEF IInv
<1> QED BY <1>1, <1>2, <1>4, <1>5, ForkPreserves

LEMMA LoadPreserves ==
  ASSUME IInv, Usage # "bare", NEW n \in 0 .. MaxLen, NEW cells \in [0 .. n - 1 -> Value],
         Load(n, cells)
  PROVE  IInv'
<1> USE DEF IInv
<1>1. PICK v \in View \ live, b \in Array \ heap :
        LET rv == [arr |-> b, size |-> n, isWrite |-> FALSE, needToFree |-> TRUE]
        IN
        /\ views' = With([views EXCEPT ![readView] = rv], v, ForkOf(rv))
        /\ arrays' = With(Without(arrays, {views[readView].arr}), b,
                          [capacity |-> n, extent |-> CopyOf(cells, n)])
        /\ writeView' = v
  BY DEF Load
<1> DEFINE rv == [arr |-> b, size |-> n, isWrite |-> FALSE, needToFree |-> TRUE]
           f == ForkOf(rv)
           record == [capacity |-> n, extent |-> CopyOf(cells, n)]
<1>2. /\ readView \in live /\ live = {readView} /\ readView = writeView /\ pc = "bulk"
      /\ \A r \in Reader : held[r] = None
      /\ views[readView].arr \in heap
      /\ n \in Nat
  BY ParamAssumption DEF Reachable, Roles, Load, ArraysExist
<1>3. rv \in ViewRecord /\ rv.arr = b /\ rv.size = n /\ ~rv.isWrite /\ rv.needToFree
  BY <1>2 DEF ViewRecord
<1>4. CopyOf(cells, n) \in [Index -> Value \cup {Garbage}]
  BY <1>2 DEF CopyOf, Index
<1>5. record \in ArrayRecord /\ record.capacity = n
  BY <1>2, <1>4 DEF ArrayRecord
<1> HIDE DEF rv, record
<1>6. ForkEffect(v, rv)
  BY <1>1, <1>2, <1>3, ForkFields DEF rv
<1>7. /\ live' = {readView, v} /\ views' \in [live \cup {v} -> ViewRecord]
      /\ views'[v] = f /\ f.arr = b /\ f.size = n
      /\ f.isWrite /\ ~f.needToFree
      /\ views'[readView] = rv
  BY <1>2, <1>3, <1>6 DEF ForkEffect
<1> HIDE DEF f
<1>8. heap = {views[readView].arr}
  BY <1>2 DEF NoLeak
<1>9. /\ heap' = {b} /\ arrays'[b] = record /\ arrays' \in [heap' -> ArrayRecord]
  <2>1. arrays' = With(Without(arrays, {views[readView].arr}), b, record)
    BY <1>1 DEF record
  <2>2. Without(arrays, {views[readView].arr}) = [x \in {} |-> arrays[x]]
    BY <1>8 DEF Without, heap
  <2>3. arrays' = [z \in {b} |-> record]
    BY <2>1, <2>2 DEF With
  <2> QED BY <2>3, <1>5 DEF heap
<1>10. /\ readView' = readView /\ writeView' = v /\ held' = held
       /\ current' = current /\ past' = past /\ toClean' = toClean /\ pc' = "idle"
  BY <1>1 DEF Load, mgrVars
<1>11. current = {} /\ \A g \in past : g = {}
  BY <1>2 DEF Reachable, Roles
<1>12. TypeOK'
  BY <1>2, <1>7, <1>9, <1>10 DEF TypeOK, WriterState
<1>13. Reachable' /\ Roles'
  BY <1>2, <1>3, <1>7, <1>10, <1>11, ParamAssumption DEF Reachable, Roles, TypeOK
<1>14. ArraysExist' /\ SingleOwner' /\ WriteViewOwnsAlone'
  BY <1>3, <1>7, <1>9, <1>10 DEF ArraysExist, SingleOwner, WriteViewOwnsAlone
<1>15. NoLeak'
  BY <1>3, <1>7, <1>9, <1>10 DEF NoLeak
<1>16. SizeWithinCapacity'
  BY <1>2, <1>3, <1>5, <1>7, <1>9 DEF SizeWithinCapacity
<1>17. Managed' /\ CopiedApart'
  BY <1>7, <1>10, <1>11 DEF Managed, CopiedApart
<1> QED BY <1>12, <1>13, <1>14, <1>15, <1>16, <1>17

-----------------------------------------------------------------------------
(* merge() *)

LEMMA MergeClassifyPreserves ==
  ASSUME IInv, Usage # "bare", MergeClassify
  PROVE  IInv'
<1> USE DEF IInv
<1> DEFINE realloc == views[readView].arr # views[writeView].arr
<1>1. /\ pc = (IF Usage = "copied" THEN "merge" ELSE "idle")
      /\ pc' = (IF Usage = "managed" THEN "clean" ELSE "publish")
      /\ views' = [views EXCEPT ![readView].needToFree = realloc]
      /\ UNCHANGED <<arrays, readView, writeView, held>>
  BY DEF MergeClassify
<1>2. /\ readView \in live /\ writeView \in live /\ readView # writeView
      /\ views[readView] \in ViewRecord /\ views \in [live -> ViewRecord]
  BY <1>1 DEF Reachable, Roles, TypeOK
<1>3. /\ live' = live /\ heap' = heap /\ views' \in [live -> ViewRecord]
      /\ \A v \in live : /\ views'[v].arr = views[v].arr
                         /\ views'[v].size = views[v].size
                         /\ views'[v].isWrite = views[v].isWrite
                         /\ v # readView => views'[v].needToFree = views[v].needToFree
      /\ views'[readView].needToFree = realloc
  <2> DEFINE rv == [views[readView] EXCEPT !.needToFree = realloc]
  <2>1. /\ rv \in ViewRecord /\ rv.arr = views[readView].arr /\ rv.needToFree = realloc
        /\ rv.size = views[readView].size /\ rv.isWrite = views[readView].isWrite
    BY <1>2 DEF ViewRecord
  <2>2. views' = [views EXCEPT ![readView] = rv]
    BY <1>1
  <2> HIDE DEF rv, realloc
  <2> QED BY <1>1, <1>2, <2>1, <2>2 DEF live, heap
<1>4. /\ current' \subseteq current \cup {readView}
      /\ \A g \in past' : g \in past \/ g = current \cup {readView}
      /\ past \subseteq past'
      /\ Usage = "copied" => UNCHANGED mgrVars
      /\ Usage = "managed" => toClean' = past'
  BY <1>1 DEF MergeClassify, mgrVars
<1>5. TypeOK'
  <2>1. toClean' \subseteq past'
    BY <1>1, <1>4, ParamAssumption DEF mgrVars, TypeOK
  <2>2. past' \subseteq SUBSET View /\ current' \subseteq View
    BY <1>4 DEF TypeOK
  <2> QED BY <1>1, <1>3, <2>1, <2>2 DEF TypeOK, WriterState
<1>6. Reachable'
  BY <1>1, <1>2, <1>3, <1>4 DEF Reachable
<1>7. Roles'
  <2>1. writeView \notin current' /\ \A g \in past' : writeView \notin g
    BY <1>2, <1>4 DEF Roles
  <2> QED BY <1>1, <1>2, <1>3, <2>1 DEF Roles
<1>8. ArraysExist' /\ SizeWithinCapacity'
  BY <1>1, <1>3 DEF ArraysExist, SizeWithinCapacity
<1>9. WriteViewOwnsAlone'
  BY <1>1, <1>2, <1>3 DEF WriteViewOwnsAlone
<1>10. ASSUME NEW v \in live, views[v].needToFree, realloc, v # readView
       PROVE  views[v].arr # views[readView].arr
  <2>1. CASE Usage = "copied"
    BY <1>2, <1>10, <2>1 DEF CopiedApart
  <2>2. CASE Usage = "managed"
    <3>1. v = writeView \/ v \in current \/ \E g \in past : v \in g
      BY <1>10, <2>2 DEF Managed, Stored
    <3>2. \A g \in past : readView \notin g
      BY <1>1, <2>2 DEF Managed
    <3>3. v \notin current
      BY <1>10, <2>2 DEF Managed
    <3> QED BY <1>2, <1>10, <2>2, <3>1, <3>2, <3>3 DEF Managed
  <2> QED BY <2>1, <2>2, ParamAssumption
<1>11. SingleOwner'
  <2> SUFFICES ASSUME NEW v \in live, NEW w \in live, views'[v].arr = views'[w].arr,
                      views'[v].needToFree, views'[w].needToFree, v # w
               PROVE  FALSE
    BY <1>3 DEF SingleOwner
  <2>1. views[v].arr = views[w].arr
    BY <1>3
  <2>2. CASE v # readView /\ w # readView
    BY <1>3, <2>1, <2>2 DEF SingleOwner
  <2>3. CASE v = readView
    <3>1. views[w].needToFree /\ realloc
      BY <1>3, <2>3
    <3> QED BY <1>10, <2>1, <2>3, <3>1
  <2>4. CASE w = readView
    <3>1. views[v].needToFree /\ realloc
      BY <1>3, <2>4
    <3> QED BY <1>10, <2>1, <2>4, <3>1
  <2> QED BY <2>2, <2>3, <2>4
<1>12. NoLeak'
  <2> SUFFICES ASSUME NEW a \in heap
               PROVE  \E u \in live : views'[u].arr = a /\ (views'[u].needToFree \/ u = readView)
    BY <1>1, <1>3 DEF NoLeak
  <2>1. PICK u \in live : views[u].arr = a /\ (views[u].needToFree \/ u = readView)
    BY <1>1 DEF NoLeak
  <2> QED BY <1>3, <2>1
<1>13. CopiedApart'
  <2> SUFFICES ASSUME Usage = "copied" PROVE CopiedApart'
    BY DEF CopiedApart
  <2>1. realloc
    BY <1>1 DEF CopiedApart
  <2>2. current' = {} /\ past' = {} /\ toClean' = {}
    BY <1>4 DEF CopiedApart, mgrVars
  <2>3. \A v, w \in live : v # w /\ views'[v].arr = views'[w].arr =>
           (v = readView /\ w = writeView) \/ (v = writeView /\ w = readView)
    BY <1>3 DEF CopiedApart
  <2>4. pc' = "publish" /\ live' = live /\ readView' = readView /\ writeView' = writeView
    BY <1>1, <1>3
  <2>5. views'[readView].arr # views'[writeView].arr /\ views'[readView].needToFree
    BY <1>2, <1>3, <2>1
  <2> QED BY ONLY <2>2, <2>3, <2>4, <2>5 DEF CopiedApart
<1>14. Managed'
  <2> SUFFICES ASSUME Usage = "managed" PROVE Managed'
    BY DEF Managed
  <2>1. /\ \A g \in past : readView \notin g /\ writeView \notin g /\ g \subseteq live
        /\ current \subseteq live /\ writeView \notin current
        /\ \A v \in current : ~views[v].needToFree /\ views[v].arr = views[readView].arr
        /\ \A v \in live : v = readView \/ v = writeView \/ Stored(v)
        /\ \A g \in past : \A v \in g : \A w \in live :
             w \in g <=> views[w].arr = views[v].arr
    BY <1>1 DEF Managed, Roles, Reachable
  <2>2. CASE realloc
    <3>1. past' = past \cup {current \cup {readView}} /\ current' = {}
      BY <1>1, <2>2 DEF MergeClassify
    <3>2. ASSUME NEW v \in current \cup {readView}, NEW w \in live,
                 w \notin current \cup {readView}
          PROVE  views[w].arr # views[v].arr
      <4>1. views[v].arr = views[readView].arr
        BY <2>1
      <4>2. w = writeView \/ \E g \in past : w \in g
        BY <2>1, <3>2 DEF Stored
      <4> QED BY <1>2, <2>1, <2>2, <4>1, <4>2
    <3>3. \A g \in past' : \A v \in g : \A w \in live :
             w \in g <=> views'[w].arr = views'[v].arr
      BY <1>2, <1>3, <1>4, <2>1, <3>2
    <3>4. \A v \in live : v = readView \/ v = writeView \/ Stored(v)'
      BY <2>1, <3>1 DEF Stored
    <3>5. \E g \in past' : readView \in g
      BY <3>1
    <3>6. views'[readView].needToFree /\ views'[readView].arr # views'[writeView].arr
      BY <1>2, <1>3, <2>2
    <3> QED BY <1>1, <1>3, <3>1, <3>3, <3>4, <3>5, <3>6 DEF Managed, Stored
  <2>3. CASE ~realloc
    <3>1. /\ past' = past
          /\ current' = IF Unique(readView) THEN current ELSE current \cup {readView}
      BY <1>1, <2>3 DEF MergeClassify
    <3>2. ~views'[readView].needToFree /\ views'[readView].arr = views'[writeView].arr
      BY <1>2, <1>3, <2>3
    <3>3. \A v \in current' : ~views'[v].needToFree /\ views'[v].arr = views'[readView].arr
      BY <1>2, <1>3, <2>1, <3>1, <3>2
    <3>4. \A v \in live : v = readView \/ v = writeView \/ Stored(v)'
      BY <2>1, <3>1 DEF Stored
    <3>5. \A g \in past' : \A v \in g : \A w \in live :
             w \in g <=> views'[w].arr = views'[v].arr
      BY <1>3, <2>1, <3>1
    <3>6. ~Stored(readView)' => Unique(readView)'
      BY <1>1, <3>1 DEF Stored, Unique
    <3> HIDE DEF realloc
    <3> QED BY <1>1, <1>3, <3>2, <3>3, <3>4, <3>5, <3>6 DEF Managed, Stored
  <2> QED BY <2>2, <2>3
<1> QED BY <1>5, <1>6, <1>7, <1>8, <1>9, <1>11, <1>12, <1>13, <1>14

LEMMA CleanDonePreserves ==
  ASSUME IInv, Usage # "bare", CleanDone
  PROVE  IInv'
<1> USE DEF IInv, CleanDone
<1>1. /\ UNCHANGED <<views, arrays, readView, writeView, held, mgrVars>>
      /\ live' = live /\ heap' = heap
  BY DEF live, heap
<1>2. TypeOK' /\ Reachable' /\ Roles' /\ WriteViewOwnsAlone'
  BY <1>1 DEF TypeOK, Reachable, Roles, WriteViewOwnsAlone, WriterState, mgrVars
<1>3. ArraysExist' /\ SingleOwner' /\ NoLeak' /\ SizeWithinCapacity'
  BY <1>1 DEF ArraysExist, SingleOwner, NoLeak, SizeWithinCapacity
<1>4. Managed' /\ CopiedApart'
  BY <1>1 DEF Managed, CopiedApart, Stored, Unique, mgrVars
<1> QED BY <1>2, <1>3, <1>4

\* Deleting views that own their arrays alone.  The write view is never
\* among them, and nobody but the deleted shares a freed array.
LEMMA DeleteEffect ==
  ASSUME IInv, NEW vs \in SUBSET live, writeView \notin vs \/ pc = "fork", DeleteViews(vs)
  PROVE  /\ live' = live \ vs
         /\ views' \in [live \ vs -> ViewRecord]
         /\ \A v \in live \ vs : views'[v] = views[v]
         /\ heap' = heap \ FreedBy(vs)
         /\ heap' \subseteq Array
         /\ arrays' \in [heap' -> ArrayRecord]
         /\ \A a \in heap' : arrays'[a] = arrays[a]
         /\ \A a \in FreedBy(vs) : \E v \in vs : views[v].arr = a /\ views[v].needToFree
         /\ \A v \in vs : views[v].needToFree => views[v].arr \in FreedBy(vs)
<1>1. views \in [live -> ViewRecord] /\ arrays \in [heap -> ArrayRecord] /\ heap \subseteq Array
  BY DEF IInv, TypeOK
<1>2. \A v \in vs : ~views[v].isWrite
  BY DEF IInv, Roles
<1>3. views' = [x \in live \ vs |-> views[x]] /\ arrays' = [x \in heap \ FreedBy(vs) |-> arrays[x]]
  BY DEF DeleteViews, Without, live, heap
<1>4. /\ live' = live \ vs
      /\ views' \in [live \ vs -> ViewRecord]
      /\ \A v \in live \ vs : views'[v] = views[v]
  BY <1>1, <1>3 DEF live
<1>5. /\ heap' = heap \ FreedBy(vs) /\ heap' \subseteq Array
      /\ arrays' \in [heap' -> ArrayRecord]
      /\ \A a \in heap' : arrays'[a] = arrays[a]
  BY <1>1, <1>3 DEF heap
<1>6. /\ \A a \in FreedBy(vs) : \E v \in vs : views[v].arr = a /\ views[v].needToFree
      /\ \A v \in vs : views[v].needToFree => views[v].arr \in FreedBy(vs)
  BY <1>2 DEF FreedBy
<1> QED BY <1>4, <1>5, <1>6

\* Deleting views preserves what does not depend on the kind of client.
LEMMA DeletePreserves ==
  ASSUME IInv, NEW vs \in SUBSET live, readView \notin vs, writeView \notin vs,
         DeleteViews(vs), pc # "destroyed", pc' = pc,
         \A v \in vs : \A w \in live \ vs :
           views[v].needToFree => views[w].arr # views[v].arr,
         UNCHANGED <<readView, writeView>>
  PROVE  /\ ArraysExist' /\ SingleOwner' /\ NoLeak' /\ SizeWithinCapacity'
         /\ WriteViewOwnsAlone'
<1>1. /\ live' = live \ vs
      /\ \A v \in live \ vs : views'[v] = views[v]
      /\ heap' = heap \ FreedBy(vs)
      /\ \A a \in heap' : arrays'[a] = arrays[a]
      /\ \A a \in FreedBy(vs) : \E v \in vs : views[v].arr = a /\ views[v].needToFree
      /\ \A v \in vs : views[v].needToFree => views[v].arr \in FreedBy(vs)
  BY DeleteEffect
<1>2. ArraysExist'
  <2> SUFFICES ASSUME NEW v \in live \ vs PROVE views[v].arr \in heap'
    BY <1>1 DEF ArraysExist
  <2>1. views[v].arr \in heap
    BY DEF IInv, ArraysExist
  <2> QED BY <1>1, <2>1
<1>3. SizeWithinCapacity'
  BY <1>1, <1>2 DEF IInv, SizeWithinCapacity, ArraysExist
<1>4. SingleOwner' /\ WriteViewOwnsAlone'
  BY <1>1 DEF IInv, SingleOwner, WriteViewOwnsAlone
<1>5. NoLeak'
  <2> SUFFICES ASSUME NEW a \in heap'
               PROVE  \E u \in live' : views'[u].arr = a /\ (views'[u].needToFree \/ u = readView)
    BY DEF NoLeak
  <2>1. PICK u \in live : views[u].arr = a /\ (views[u].needToFree \/ u = readView)
    BY <1>1 DEF IInv, NoLeak
  <2> QED BY <1>1, <2>1
<1> QED BY <1>2, <1>3, <1>4, <1>5

LEMMA CleanGenerationPreserves ==
  ASSUME IInv, Usage # "bare", NEW g \in toClean, CleanGeneration(g)
  PROVE  IInv'
<1> USE DEF IInv
<1>1. /\ pc = "clean" /\ pc' = pc /\ toClean' = toClean \ {g}
      /\ UNCHANGED <<readView, writeView, held, current>>
      /\ g \in past /\ g \subseteq live /\ writeView \notin g
      /\ readView \in live /\ writeView \in live
  BY DEF CleanGeneration, TypeOK, Reachable, Roles
<1>2. Usage = "managed"
  BY <1>1, ParamAssumption DEF CopiedApart
<1>3. CASE UNCHANGED <<past, views, arrays>>
  <2>1. live' = live /\ heap' = heap
    BY <1>3 DEF live, heap
  <2>2. TypeOK' /\ Reachable' /\ Roles' /\ WriteViewOwnsAlone'
    BY <1>1, <1>3, <2>1 DEF TypeOK, Reachable, Roles, WriteViewOwnsAlone
  <2>3. ArraysExist' /\ SingleOwner' /\ NoLeak' /\ SizeWithinCapacity'
    BY <1>1, <1>3, <2>1 DEF ArraysExist, SingleOwner, NoLeak, SizeWithinCapacity
  <2>4. Managed' /\ CopiedApart'
    BY <1>1, <1>2, <1>3, <2>1 DEF Managed, CopiedApart, Stored, Unique
  <2> QED BY <2>2, <2>3, <2>4
<1>4. CASE /\ \A v \in g : Unique(v) /\ v # readView
           /\ past' = past \ {g}
           /\ DeleteViews(g)
  <2>1. readView \notin g
    BY <1>4
  <2>2. /\ live' = live \ g
        /\ views' \in [live \ g -> ViewRecord]
        /\ \A v \in live \ g : views'[v] = views[v]
        /\ heap' \subseteq Array
        /\ arrays' \in [heap' -> ArrayRecord]
    BY <1>1, <1>4, DeleteEffect
  <2>3. \A v \in g : \A w \in live \ g : views[w].arr # views[v].arr
    BY <1>1, <1>2 DEF Managed
  <2>4. ArraysExist' /\ SingleOwner' /\ NoLeak' /\ SizeWithinCapacity' /\ WriteViewOwnsAlone'
    BY <1>1, <1>4, <2>1, <2>3, DeletePreserves
  <2>5. \A v \in current : v \notin g
    <3>1. \A v \in current : v \in live /\ views[v].arr = views[readView].arr
      BY <1>2 DEF Managed, Reachable
    <3> QED BY <1>1, <2>1, <2>3, <3>1
  <2>6. \A h \in past' : \A v \in h : v \notin g
    <3>1. SUFFICES ASSUME NEW h \in past, h # g, NEW v \in h, v \in g PROVE FALSE
      BY <1>4
    <3>2. \A w \in live : w \in g <=> views[w].arr = views[v].arr
      BY <1>1, <1>2, <3>1 DEF Managed
    <3>3. \A w \in live : w \in h <=> views[w].arr = views[v].arr
      BY <1>1, <1>2, <3>1 DEF Managed
    <3>4. h \subseteq live /\ g \subseteq live
      BY <3>1, <1>1 DEF Reachable
    <3>5. \A w : w \in g <=> w \in h
      BY <3>2, <3>3, <3>4, <3>1
    <3> QED BY <3>1, <3>5
  <2>7. TypeOK'
    BY <1>1, <1>4, <2>2 DEF TypeOK
  <2>8. Reachable'
    <3>1. \A r \in Reader : held[r] \notin g
      BY <1>4 DEF Unique
    <3> QED BY <1>1, <1>4, <2>1, <2>2, <2>5, <2>6, <3>1 DEF Reachable
  <2>9. Roles'
    BY <1>1, <1>4, <2>1, <2>2 DEF Roles
  <2>10. Managed'
    <3>1. \A h \in past' : \A v \in h : \A w \in live' :
            w \in h <=> views'[w].arr = views'[v].arr
      BY <1>1, <1>2, <1>4, <2>2, <2>6 DEF Managed, Reachable
    <3>2. \A v \in current : ~views'[v].needToFree /\ views'[v].arr = views'[readView].arr
      BY <1>1, <1>2, <2>1, <2>2, <2>5 DEF Managed, Reachable
    <3>3. \A v \in live' : v = readView \/ v = writeView \/ Stored(v)'
      <4>1. \A v \in live : v = readView \/ v = writeView \/ Stored(v)
        BY <1>2 DEF Managed
      <4> QED BY <1>1, <1>4, <2>2, <4>1 DEF Stored
    <3>4. /\ views'[readView] = views[readView] /\ views'[writeView] = views[writeView]
      BY <1>1, <2>1, <2>2
    <3>5. views[readView].needToFree => current = {} /\ \E h \in past' : readView \in h
      BY <1>1, <1>2, <1>4, <2>1 DEF Managed
    <3>6. ~Stored(readView)' => Unique(readView)'
      BY <1>1, <1>2, <1>4, <2>1 DEF Managed, Stored, Unique
    <3>7. views[readView].needToFree <=> views[readView].arr # views[writeView].arr
      BY <1>1, <1>2 DEF Managed
    <3> QED BY <1>1, <3>1, <3>2, <3>3, <3>4, <3>5, <3>6, <3>7 DEF Managed
  <2>11. CopiedApart'
    BY <1>2 DEF CopiedApart
  <2> QED BY <2>4, <2>7, <2>8, <2>9, <2>10, <2>11
<1> QED BY <1>3, <1>4 DEF CleanGeneration

LEMMA MergePublishPreserves ==
  ASSUME IInv, Usage # "bare", MergePublish
  PROVE  IInv'
<1> USE DEF IInv
<1> DEFINE dying == IF Unique(readView) /\ ~Stored(readView) THEN {readView} ELSE {}
<1>1. /\ pc = "publish" /\ pc' = "fork" /\ readView' = writeView /\ writeView' = writeView
      /\ UNCHANGED <<held, current, past, toClean>>
      /\ readView \in live /\ writeView \in live /\ readView # writeView
      /\ dying \subseteq {readView}
      /\ ~views[readView].isWrite
  BY DEF MergePublish, Reachable, Roles, mgrVars
<1>2. views \in [live -> ViewRecord] /\ arrays \in [heap -> ArrayRecord] /\ heap \subseteq Array
  BY DEF TypeOK
<1>3. FreedBy(dying) = IF views[readView].needToFree /\ dying # {}
                       THEN {views[readView].arr} ELSE {}
  BY <1>1 DEF FreedBy
<1> DEFINE wv == [views[writeView] EXCEPT !.isWrite = FALSE]
<1>4. /\ wv \in ViewRecord /\ wv.arr = views[writeView].arr /\ wv.size = views[writeView].size
      /\ wv.needToFree = views[writeView].needToFree /\ ~wv.isWrite
  BY <1>1, <1>2 DEF ViewRecord
<1>5. views' = [x \in live \ dying |-> IF x = writeView THEN wv ELSE views[x]]
  <2>1. views' = [Without(views, dying) EXCEPT ![writeView].isWrite = FALSE]
    BY DEF MergePublish
  <2>2. Without(views, dying) = [x \in live \ dying |-> views[x]]
    BY DEF Without, live
  <2> HIDE DEF dying
  <2> QED BY <1>1, <2>1, <2>2
<1>6. arrays' = [x \in heap \ FreedBy(dying) |-> arrays[x]]
  BY DEF MergePublish, Without, heap
<1> HIDE DEF dying, wv
<1>7. /\ live' = live \ dying /\ views' \in [live' -> ViewRecord] /\ writeView \in live'
      /\ \A v \in live' : /\ views'[v].arr = views[v].arr
                          /\ views'[v].size = views[v].size
                          /\ views'[v].needToFree = views[v].needToFree
                          /\ ~views'[v].isWrite
  <2>1. live' = live \ dying /\ views' \in [live' -> ViewRecord] /\ writeView \in live'
    BY <1>1, <1>2, <1>4, <1>5 DEF live
  <2>2. \A v \in live : v # writeView => ~views[v].isWrite
    BY DEF Roles
  <2> QED BY <1>4, <1>5, <2>1, <2>2
<1>8. /\ heap' = heap \ FreedBy(dying) /\ heap' \subseteq Array
      /\ arrays' \in [heap' -> ArrayRecord] /\ \A a \in heap' : arrays'[a] = arrays[a]
  BY <1>2, <1>6 DEF heap
<1>9. TypeOK'
  BY <1>1, <1>7, <1>8 DEF TypeOK, WriterState
<1>10. \A r \in Reader : held[r] \notin dying
  BY DEF dying, Unique
<1>11. \A v \in dying : ~Stored(v)
  BY DEF dying
<1>12. Reachable'
  BY <1>1, <1>7, <1>10, <1>11 DEF Reachable, Stored
<1>13. Roles'
  BY <1>1, <1>7 DEF Roles
<1>14. WriteViewOwnsAlone' /\ SingleOwner'
  BY <1>1, <1>7 DEF WriteViewOwnsAlone, SingleOwner
<1>15. \* a freed array is the old read view's alone
       \A v \in live' : v # readView => views[v].arr \notin FreedBy(dying)
  <2> SUFFICES ASSUME NEW v \in live', v # readView,
                      views[readView].needToFree, dying # {}
               PROVE  views[v].arr # views[readView].arr
    BY <1>3
  <2>1. CASE Usage = "managed"
    BY <1>1, <2>1 DEF Managed, Stored, dying
  <2>2. CASE Usage = "copied"
    BY <1>1, <1>7, <2>2 DEF CopiedApart
  <2> QED BY <2>1, <2>2, ParamAssumption
<1>16. ArraysExist'
  <2> SUFFICES ASSUME NEW v \in live' PROVE views[v].arr \in heap \ FreedBy(dying)
    BY <1>7, <1>8 DEF ArraysExist
  <2>1. v \in live /\ views[v].arr \in heap
    BY <1>7 DEF ArraysExist
  <2>2. CASE v = readView
    BY <1>1, <1>3, <1>7, <2>1, <2>2
  <2> QED BY <1>15, <2>1, <2>2
<1>17. SizeWithinCapacity'
  BY <1>7, <1>8, <1>16 DEF SizeWithinCapacity, ArraysExist
<1>18. NoLeak'
  <2> SUFFICES ASSUME NEW a \in heap'
               PROVE  \E u \in live' : views'[u].arr = a /\ (views'[u].needToFree \/ u = writeView)
    BY <1>1 DEF NoLeak
  <2>1. PICK u \in live : views[u].arr = a /\ (views[u].needToFree \/ u = readView)
    BY <1>1, <1>8 DEF NoLeak
  <2>2. CASE u # readView
    BY <1>1, <1>7, <2>1, <2>2
  <2>3. CASE u = readView /\ views[readView].needToFree
    <3>1. dying = {}
      BY <1>3, <1>8, <2>1, <2>3
    <3> QED BY <1>7, <2>1, <2>3, <3>1
  <2>4. CASE u = readView /\ ~views[readView].needToFree
    <3>1. views[readView].arr = views[writeView].arr
      BY <1>1, <2>4, ParamAssumption DEF Managed, CopiedApart
    <3> QED BY <1>7, <2>1, <2>4, <3>1
  <2> QED BY <2>2, <2>3, <2>4
<1>19. Managed'
  <2> SUFFICES ASSUME Usage = "managed" PROVE Managed'
    BY DEF Managed
  <2>1. /\ \A g \in past : writeView \notin g /\ g \subseteq live'
        /\ current \subseteq live'
    BY <1>1, <1>12 DEF Roles, Reachable
  <2>2. \A g \in past : \A v \in g : \A w \in live' :
          w \in g <=> views'[w].arr = views'[v].arr
    BY <1>7, <2>1 DEF Managed
  <2>3. \A v \in current : ~views'[v].needToFree /\ views'[v].arr = views'[writeView].arr
    <3>1. \A v \in current : ~views[v].needToFree /\ views[v].arr = views[readView].arr
      BY DEF Managed
    <3>2. current # {} => views[readView].arr = views[writeView].arr
      BY <1>1 DEF Managed
    <3> QED BY <1>7, <2>1, <3>1, <3>2
  <2>4. \A v \in live' : v = writeView \/ Stored(v)
    <3>1. readView \in live' => Stored(readView)
      <4>1. ~Stored(readView) => Unique(readView)
        BY <1>1 DEF Managed
      <4> QED BY <1>7, <4>1 DEF dying
    <3>2. \A v \in live : v = readView \/ v = writeView \/ Stored(v)
      BY DEF Managed
    <3> QED BY <1>7, <3>1, <3>2
  <2> QED BY <1>1, <2>1, <2>2, <2>3, <2>4 DEF Managed, Stored
<1>20. CopiedApart'
  <2> SUFFICES ASSUME Usage = "copied" PROVE CopiedApart'
    BY DEF CopiedApart
  <2>1. views[readView].arr # views[writeView].arr
    BY <1>1 DEF CopiedApart
  <2>2. \A v, w \in live' : v # w => views'[v].arr # views'[w].arr
    BY <1>7, <2>1 DEF CopiedApart
  <2> QED BY <1>1, <2>2 DEF CopiedApart
<1> QED BY <1>9, <1>12, <1>13, <1>14, <1>16, <1>17, <1>18, <1>19, <1>20

-----------------------------------------------------------------------------
(* Readers, and the end *)

LEMMA GetReadViewPreserves ==
  ASSUME IInv, Usage # "bare", NEW r \in Reader, GetReadView(r)
  PROVE  IInv'
<1> USE DEF IInv
<1>1. /\ pc \notin {"bulk", "destroyed", "clean", "publish"} /\ pc' = pc
      /\ held' = [held EXCEPT ![r] = readView]
      /\ UNCHANGED <<views, arrays, readView, writeView, current, past, toClean>>
      /\ live' = live /\ heap' = heap
  BY DEF GetReadView, SpinLocked, mgrVars, live, heap
<1>2. readView \in live /\ readView \in View
  BY <1>1 DEF Reachable, TypeOK
<1>3. held' \in [Reader -> View \cup {None}] /\ \A s \in Reader : held'[s] = held[s] \/ held'[s] = readView
  BY <1>1, <1>2 DEF TypeOK
<1>4. TypeOK' /\ Reachable'
  BY <1>1, <1>2, <1>3 DEF TypeOK, Reachable
<1>5. Roles' /\ WriteViewOwnsAlone'
  BY <1>1, <1>2, <1>3 DEF Roles, WriteViewOwnsAlone
<1>6. ArraysExist' /\ SingleOwner' /\ NoLeak' /\ SizeWithinCapacity'
  BY <1>1 DEF ArraysExist, SingleOwner, NoLeak, SizeWithinCapacity
<1>7. Managed' /\ CopiedApart'
  BY <1>1 DEF Managed, CopiedApart, Stored
<1> QED BY <1>4, <1>5, <1>6, <1>7

LEMMA ReleaseReadViewPreserves ==
  ASSUME IInv, Usage # "bare", NEW r \in Reader, ReleaseReadView(r)
  PROVE  IInv'
<1> USE DEF IInv
<1> DEFINE v == held[r]
           last == v # readView /\ ~Stored(v) /\ \A s \in Reader \ {r} : held[s] # v
           dying == IF last THEN {v} ELSE {}
<1>1. /\ v # None /\ held' = [held EXCEPT ![r] = None] /\ DeleteViews(dying)
      /\ UNCHANGED <<readView, writeView, current, past, toClean>> /\ pc' = pc
  BY DEF ReleaseReadView, mgrVars
<1>2. /\ v \in live /\ pc # "destroyed" /\ pc # "bulk"
      /\ readView \in live /\ writeView \in live
      /\ pc # "fork" => v # writeView
      /\ pc = "fork" => readView = writeView
  BY <1>1 DEF Reachable, Roles
<1>3. /\ dying \subseteq live /\ readView \notin dying /\ writeView \notin dying
  BY <1>2
<1>4. \A u \in dying : ~Stored(u) /\ u # readView /\ \A s \in Reader \ {r} : held[s] # u
  OBVIOUS
<1> HIDE DEF v, last, dying
<1>5. /\ live' = live \ dying
      /\ views' \in [live \ dying -> ViewRecord]
      /\ \A u \in live \ dying : views'[u] = views[u]
      /\ heap' \subseteq Array
      /\ arrays' \in [heap' -> ArrayRecord]
  BY <1>1, <1>3, DeleteEffect
<1>6. Usage = "managed" => dying = {}
  BY <1>3, <1>4 DEF Managed
<1>7. \A x \in dying : \A w \in live \ dying : views[x].needToFree => views[w].arr # views[x].arr
  <2>1. CASE Usage = "copied"
    BY <1>3, <2>1 DEF CopiedApart
  <2> QED BY <1>6, <2>1, ParamAssumption
<1>8. ArraysExist' /\ SingleOwner' /\ NoLeak' /\ SizeWithinCapacity' /\ WriteViewOwnsAlone'
  BY <1>1, <1>2, <1>3, <1>7, DeletePreserves
<1>9. held' \in [Reader -> View \cup {None}] /\ \A s \in Reader : held'[s] = (IF s = r THEN None ELSE held[s])
  BY <1>1 DEF TypeOK
<1>10. TypeOK'
  BY <1>1, <1>5, <1>9 DEF TypeOK
<1>11. Reachable'
  BY <1>1, <1>2, <1>3, <1>4, <1>5, <1>9 DEF Reachable, Stored
<1>12. Roles'
  BY <1>1, <1>2, <1>3, <1>5, <1>9, ParamAssumption DEF Roles, TypeOK
<1>13. CopiedApart'
  BY <1>1, <1>2, <1>3, <1>5 DEF CopiedApart
<1>14. Managed'
  <2> SUFFICES ASSUME Usage = "managed" PROVE Managed'
    BY DEF Managed
  <2>1. live' = live /\ \A u \in live : views'[u] = views[u]
    BY <1>5, <1>6
  <2>2. Unique(readView) => Unique(readView)'
    BY <1>1, <1>2, <1>9, ParamAssumption DEF Unique, TypeOK
  <2>3. \A u \in live : Stored(u)' <=> Stored(u)
    BY <1>1 DEF Stored
  <2>4. /\ \A g \in past : g \subseteq live
        /\ current \subseteq live
    BY DEF Reachable
  <2> QED BY <1>1, <1>2, <2>1, <2>2, <2>3, <2>4 DEF Managed
<1> QED BY <1>8, <1>10, <1>11, <1>12, <1>13, <1>14

LEMMA DestroyPreserves ==
  ASSUME IInv, Usage # "bare", Destroy
  PROVE  IInv'
<1> USE DEF IInv
<1>1. views' = [x \in {} |-> views[x]] /\ live' = {}
  BY DEF Destroy, Without, live
<1>2. heap' \subseteq heap
  BY DEF Destroy, Without, heap
<1>3. /\ pc' = "destroyed" /\ current' = {} /\ past' = {} /\ toClean' = {}
      /\ UNCHANGED <<readView, writeView, held>>
      /\ \A r \in Reader : held[r] = None
  BY DEF Destroy
<1>4. TypeOK'
  <2>1. arrays' \in [heap' -> ArrayRecord] /\ heap' \subseteq Array
    <3>1. arrays \in [heap -> ArrayRecord] /\ heap \subseteq Array
      BY DEF TypeOK
    <3>2. arrays' = [a \in heap' |-> arrays[a]]
      BY DEF Destroy, Without, heap
    <3> QED BY <1>2, <3>1, <3>2
  <2> QED BY <1>1, <1>3, <2>1 DEF TypeOK, WriterState
<1>5. Reachable' /\ Roles' /\ WriteViewOwnsAlone'
  BY <1>1, <1>3, ParamAssumption DEF Reachable, Roles, WriteViewOwnsAlone, TypeOK
<1>6. ArraysExist' /\ SingleOwner' /\ NoLeak' /\ SizeWithinCapacity'
  BY <1>1, <1>3 DEF ArraysExist, SingleOwner, NoLeak, SizeWithinCapacity
<1>7. Managed' /\ CopiedApart'
  BY <1>1, <1>3 DEF Managed, CopiedApart
<1> QED BY <1>4, <1>5, <1>6, <1>7

-----------------------------------------------------------------------------
(* The theorems *)

LEMMA InitInv == Init => IInv
<1> SUFFICES ASSUME Init PROVE IInv
  OBVIOUS
<1>1. PICK v \in View, a \in Array :
    /\ views = [w \in {v} |->
                  [arr |-> a, size |-> 0, isWrite |-> TRUE, needToFree |-> TRUE]]
    /\ arrays = [b \in {a} |-> [capacity |-> InitCapacity,
                                extent |-> [i \in Index |-> Garbage]]]
    /\ readView = v
    /\ writeView = v
    /\ held = [r \in Reader |-> None]
    /\ current = {}
    /\ past = {}
    /\ toClean = {}
    /\ pc = "bulk"
  BY DEF Init
<1>2. /\ live = {v} /\ heap = {a} /\ views[v].arr = a /\ views[v].size = 0
      /\ views[v].isWrite /\ views[v].needToFree /\ arrays[a].capacity = InitCapacity
  BY <1>1 DEF live, heap
<1>3. TypeOK
  BY InitType
<1>4. Reachable /\ Roles /\ WriteViewOwnsAlone
  BY <1>1, <1>2, ParamAssumption DEF Reachable, Roles, WriteViewOwnsAlone
<1>5. Managed /\ CopiedApart
  BY <1>1, <1>2 DEF Managed, CopiedApart
<1>6. ArraysExist /\ SingleOwner /\ NoLeak
  BY <1>1, <1>2 DEF ArraysExist, SingleOwner, NoLeak
<1>7. SizeWithinCapacity
  BY <1>2, ParamAssumption DEF SizeWithinCapacity
<1> QED BY <1>3, <1>4, <1>5, <1>6, <1>7 DEF IInv

LEMMA NextInv == ASSUME IInv, Usage # "bare", [Next]_vars PROVE IInv'
<1>1. CASE \E i \in Index, x \in Value : At(i, x)
  <2>1. PICK i \in Index, x \in Value : At(i, x)
    BY <1>1
  <2>2. WriteEffect /\ (Stays \/ Moves) /\ pc' = pc /\ pc \in {"bulk", "idle"}
    BY <2>1, AtEffect DEF IInv
  <2> QED BY <2>2, WritePreserves
<1>2. CASE Commit
  BY <1>2, CommitPreserves
<1>3. CASE \E n \in 0 .. MaxLen : \E cells \in [0 .. n - 1 -> Value] : Load(n, cells)
  BY <1>3, LoadPreserves
<1>4. CASE \E n \in 0 .. MaxLen : \E pick \in [0 .. n - 1 -> Index] : SortAndMerge(n, pick)
  <2>1. PICK n \in 0 .. MaxLen : \E pick \in [0 .. n - 1 -> Index] : SortAndMerge(n, pick)
    BY <1>4
  <2>2. PICK pick \in [0 .. n - 1 -> Index] : SortAndMerge(n, pick)
    BY <2>1
  <2>3. /\ WriteEffect /\ (Stays \/ Moves)
        /\ pc = "idle" /\ pc' = "merge" /\ Usage = "copied"
        /\ views[writeView].arr = views[readView].arr => Moves
    BY <2>2, SortAndMergeEffect DEF IInv
  <2> QED BY <2>3, WritePreserves
<1>5. CASE Merging
  BY <1>5, MergeClassifyPreserves, CleanGenerationPreserves, CleanDonePreserves,
     MergePublishPreserves, MergeForkPreserves DEF Merging
<1>6. CASE Destroy
  BY <1>6, DestroyPreserves
<1>7. CASE \E r \in Reader : ReaderStep(r)
  BY <1>7, GetReadViewPreserves, ReleaseReadViewPreserves DEF ReaderStep
<1>8. CASE UNCHANGED vars
  <2>1. /\ UNCHANGED <<views, arrays, readView, writeView, held, current, past, toClean, pc>>
        /\ live' = live /\ heap' = heap
    BY <1>8 DEF vars, mgrVars, live, heap
  <2>2. TypeOK' /\ Reachable' /\ Roles' /\ WriteViewOwnsAlone'
    BY <2>1 DEF IInv, TypeOK, Reachable, Roles, WriteViewOwnsAlone
  <2>3. ArraysExist' /\ SingleOwner' /\ NoLeak' /\ SizeWithinCapacity'
    BY <2>1 DEF IInv, ArraysExist, SingleOwner, NoLeak, SizeWithinCapacity
  <2>4. Managed' /\ CopiedApart'
    BY <2>1 DEF IInv, Managed, CopiedApart, Stored, Unique
  <2> QED BY <2>2, <2>3, <2>4 DEF IInv
<1> QED BY <1>1, <1>2, <1>3, <1>4, <1>5, <1>6, <1>7, <1>8 DEF Next, WriterStep

(* A vector that is merged with a ReadViewManager, or after a forced copy,  *)
(* keeps the whole invariant, whatever its readers do.                      *)
THEOREM Invariance == ASSUME Usage # "bare" PROVE Spec => []IInv
<1>1. Init => IInv
  BY InitInv
<1>2. IInv /\ [Next]_vars => IInv'
  BY NextInv
<1> QED BY <1>1, <1>2, PTL DEF Spec

(* Type correctness of the vector under all its operations.                 *)
THEOREM TypeCorrect == ASSUME Usage # "bare" PROVE Spec => []TypeOK
<1>1. IInv => TypeOK
  BY DEF IInv
<1> QED BY <1>1, Invariance, PTL

(* merge(), cleanReadViews() and at() never delete an array that a reader,  *)
(* the manager or the vector itself can still reach.                        *)
THEOREM MemorySafe == ASSUME Usage # "bare" PROVE Spec => []NoUseAfterFree
<1>1. IInv => NoUseAfterFree
  BY DEF IInv, Reachable, NoUseAfterFree
<1> QED BY <1>1, Invariance, PTL

(* No array is deleted twice: at most one of the views sharing it carries   *)
(* the needToFreeArray flag.                                                *)
THEOREM FreedOnce == ASSUME Usage # "bare" PROVE Spec => []SingleOwner
<1>1. IInv => SingleOwner
  BY DEF IInv
<1> QED BY <1>1, Invariance, PTL

(* No array is lost: somebody is always bound to delete it.                 *)
THEOREM NothingLost == ASSUME Usage # "bare" PROVE Spec => []NoLeak
<1>1. IInv => NoLeak
  BY DEF IInv
<1> QED BY <1>1, Invariance, PTL

(* No view covers cells beyond the end of its array.                        *)
THEOREM InBounds == ASSUME Usage # "bare" PROVE Spec => []SizeWithinCapacity
<1>1. IInv => SizeWithinCapacity
  BY DEF IInv
<1> QED BY <1>1, Invariance, PTL

-----------------------------------------------------------------------------
(* CowVector implements SnapshotVector: without in-place writes nobody but  *)
(* the writer sees what the writer does before it is merged.                *)

(* What a view shows *)

\* Contents(v), for any version of the two heaps.
Cells(vs, as, v) ==
  [i \in {j \in Index : v \in DOMAIN vs /\ j < vs[v].size} |-> as[vs[v].arr].extent[i]]

\* The readers' side of the refinement mapping.
Snap == [r \in Reader |-> IF held[r] = None THEN None ELSE Contents(held[r])]

\* A step leaves what v shows alone.
Keeps(v) ==
  /\ v \in live /\ v \in live'
  /\ views'[v].size = views[v].size
  /\ \A j \in Index : j < views[v].size =>
       arrays'[views'[v].arr].extent[j] = arrays[views[v].arr].extent[j]

LEMMA CellsKept == ASSUME NEW v, Keeps(v)
                   PROVE  Cells(views', arrays', v) = Cells(views, arrays, v)
BY DEF Keeps, Cells, live

LEMMA ContentsNow ==
  /\ Contents(readView) = Cells(views, arrays, readView)
  /\ Contents(writeView) = Cells(views, arrays, writeView)
  /\ Snap = [r \in Reader |-> IF held[r] = None THEN None ELSE Cells(views, arrays, held[r])]
BY DEF Contents, Cells, live, Snap

LEMMA ContentsNext ==
  /\ Contents(readView)' = Cells(views', arrays', readView')
  /\ Contents(writeView)' = Cells(views', arrays', writeView')
  /\ Snap' = [r \in Reader |-> IF held'[r] = None THEN None
                               ELSE Cells(views', arrays', held'[r])]
BY DEF Contents, Cells, live, Snap

\* A view whose fields and array nobody touches.
LEMMA Untouched ==
  ASSUME ArraysExist, ArraysExist', NEW v, v \in live, v \in live',
         views'[v].arr = views[v].arr, views'[v].size = views[v].size,
         \A a \in heap' : a \in heap => arrays'[a] = arrays[a]
  PROVE  Keeps(v)
BY DEF Keeps, ArraysExist

\* Readers whose views are left alone see what they saw.
LEMMA SnapKept ==
  ASSUME held' = held, \A r \in Reader : held[r] # None => Keeps(held[r])
  PROVE  Snap' = Snap
<1>1. \A r \in Reader : held[r] # None =>
        Cells(views', arrays', held[r]) = Cells(views, arrays, held[r])
  BY CellsKept
<1> QED BY <1>1, ContentsNow, ContentsNext

-----------------------------------------------------------------------------
(* The views that share the write view's array show a prefix of it *)

SharedPrefix ==
  pc # "destroyed" => \A v \in live :
    views[v].arr = views[writeView].arr => views[v].size <= views[writeView].size

-----------------------------------------------------------------------------
(* Writing changes nothing that another view shows *)

\* A move to a fresh array leaves every other view alone: the array that is
\* deleted was the write view's alone.
LEMMA MovesKeeps ==
  ASSUME IInv, IInv', WriteEffect, Moves, pc' # "destroyed", pc # "destroyed"
  PROVE  /\ \A v \in live : v # writeView => Keeps(v)
         /\ SharedPrefix'
<1>1. PICK b \in Array \ heap :
        /\ \A a \in heap' : a # b => arrays'[a] = arrays[a]
        /\ views'[writeView].arr = b
  BY DEF Moves
<1>2. /\ live' = live /\ writeView' = writeView
      /\ \A v \in live : v # writeView => views'[v] = views[v]
      /\ writeView \in live /\ views'[writeView].size \in Nat
      /\ ArraysExist /\ ArraysExist'
  BY DEF WriteEffect, IInv, Reachable, ViewRecord
<1>3. \A v \in live : v # writeView => Keeps(v)
  BY <1>1, <1>2, Untouched
<1>4. \A v \in live : v # writeView => views'[v].arr # b
  BY <1>1, <1>2 DEF ArraysExist
<1>5. SharedPrefix'
  BY <1>1, <1>2, <1>4 DEF SharedPrefix
<1> QED BY <1>3, <1>5

LEMMA AtKeeps ==
  ASSUME IInv, IInv', SharedPrefix, ~InPlace, NEW i \in Index, NEW x \in Value, At(i, x)
  PROVE  /\ \A v \in live : v # writeView => Keeps(v)
         /\ SharedPrefix'
<1> DEFINE w == views[writeView]
           n == IF i < w.size THEN w.size ELSE i + 1
<1>1. WriteEffect /\ (Stays \/ Moves) /\ pc' = pc /\ pc \in {"bulk", "idle"}
  BY AtEffect DEF IInv
<1>2. /\ writeView \in live /\ w.arr \in heap /\ w.size \in Nat
      /\ \A v \in live : views[v].size \in Nat /\ views[v].arr \in heap
      /\ \A a \in heap : arrays[a] \in ArrayRecord
      /\ views \in [live -> ViewRecord] /\ arrays \in [heap -> ArrayRecord]
      /\ ArraysExist /\ ArraysExist'
  BY <1>1 DEF IInv, Reachable, TypeOK, ArraysExist, ViewRecord
<1>3. /\ live' = live /\ writeView' = writeView
      /\ \A v \in live : v # writeView => views'[v] = views[v]
  BY <1>1 DEF WriteEffect
<1>4. \A v \in live : views[v].arr = w.arr => views[v].size <= w.size
  BY <1>1 DEF SharedPrefix
<1>5. i >= w.size /\ i \in Nat /\ n = i + 1
  BY <1>2, ParamAssumption DEF At, Index
<1>6. CASE AtInCapacity(i, x, n)
  <2>1. /\ arrays' = [arrays EXCEPT ![w.arr].extent[i] = x]
        /\ views' = [views EXCEPT ![writeView].size = n]
    BY <1>6 DEF AtInCapacity
  <2>2. \A a \in heap : \A j \in Index :
          a # w.arr \/ j # i => arrays'[a].extent[j] = arrays[a].extent[j]
    <3> SUFFICES ASSUME NEW a \in heap, NEW j \in Index, a # w.arr \/ j # i
                 PROVE  arrays'[a].extent[j] = arrays[a].extent[j]
      OBVIOUS
    <3>1. CASE a # w.arr
      BY <1>2, <2>1, <3>1
    <3>2. CASE a = w.arr
      <4>1. arrays[w.arr] \in ArrayRecord
        BY <1>2
      <4>2. arrays'[w.arr].extent = [arrays[w.arr].extent EXCEPT ![i] = x]
        BY <1>2, <2>1, <4>1 DEF ArrayRecord
      <4> QED BY <3>2, <4>1, <4>2 DEF ArrayRecord
    <3> QED BY <3>1, <3>2
  <2>3. views'[writeView].arr = w.arr /\ views'[writeView].size = n
    BY <1>2, <2>1 DEF ViewRecord
  <2>4. \A v \in live : v # writeView => Keeps(v)
    BY <1>2, <1>3, <1>4, <1>5, <2>2, ParamAssumption DEF Keeps, Index
  <2>5. SharedPrefix'
    BY <1>2, <1>3, <1>4, <1>5, <2>3 DEF SharedPrefix
  <2> QED BY <2>4, <2>5
<1>7. CASE Moves
  BY <1>1, <1>2, <1>3, <1>7, MovesKeeps
<1>8. CASE AtReallocating(i, x, n) /\ Stays
  <2>1. views'[writeView].arr \notin heap
    <3>1. PICK b \in Array \ heap, c \in GrownCapacity(arrays[w.arr].capacity, i) :
          MoveWriteView(b, [capacity |-> c,
                         extent |-> [CopyOf(arrays[w.arr].extent, w.size) EXCEPT ![i] = x]], n)
      BY <1>8 DEF AtReallocating
    <3> QED BY <1>2, <3>1 DEF MoveWriteView, ViewRecord
  <2> QED BY <1>2, <1>8, <2>1 DEF Stays
<1> QED BY <1>1, <1>6, <1>7, <1>8 DEF At

LEMMA SortAndMergeKeeps ==
  ASSUME IInv, IInv', SharedPrefix, NEW n \in 0 .. MaxLen,
         NEW pick \in [0 .. n - 1 -> Index], SortAndMerge(n, pick)
  PROVE  /\ \A v \in live : v # writeView => Keeps(v)
         /\ SharedPrefix'
<1> DEFINE w == views[writeView]
<1>1. /\ WriteEffect /\ (Stays \/ Moves)
      /\ pc = "idle" /\ pc' = "merge" /\ Usage = "copied"
      /\ w.arr = views[readView].arr => Moves
  BY SortAndMergeEffect DEF IInv
<1>2. CASE Moves
  BY <1>1, <1>2, MovesKeeps
<1>3. CASE Stays /\ w.arr # views[readView].arr
  <2>1. /\ live' = live /\ writeView' = writeView /\ writeView \in live /\ readView \in live
        /\ \A v \in live : v # writeView => views'[v] = views[v]
        /\ views'[writeView].size \in Nat /\ views'[writeView].arr = w.arr
        /\ arrays \in [heap -> ArrayRecord] /\ ArraysExist /\ ArraysExist'
    BY <1>1, <1>3 DEF WriteEffect, Stays, IInv, Reachable, ViewRecord, TypeOK
  <2>2. \A v \in live : v # writeView => views[v].arr # w.arr
    BY <1>1, <1>3, <2>1 DEF IInv, CopiedApart
  <2>3. \A a \in heap : a # w.arr => arrays'[a] = arrays[a]
    BY <1>3, <2>1 DEF SortAndMerge
  <2>4. \A v \in live : v # writeView => Keeps(v)
    BY <2>1, <2>2, <2>3 DEF Keeps, ArraysExist
  <2>5. SharedPrefix'
    BY <2>1, <2>2 DEF SharedPrefix
  <2> QED BY <2>4, <2>5
<1> QED BY <1>1, <1>2, <1>3

-----------------------------------------------------------------------------
(* The refinement, step by step *)

Committed == pc \notin {"bulk", "destroyed"}

\* One step of SnapshotVector, or none, from committed, published, working and
\* snap = c, p, w, s to c2, p2, w2, s2.
StepBetween(c, p, w, s, c2, p2, w2, s2) ==
  \/ ~c /\ w2 = p2 /\ s2 = s                                       \* BulkLoad
  \/ c /\ c2 /\ p2 = p /\ s2 = s                                   \* Write
  \/ c /\ c2 /\ p2 = w /\ w2 = w /\ s2 = s                         \* Publish
  \/ /\ c /\ ~c2 /\ w2 = p2 /\ s2 = s                              \* Close
     /\ \A r \in Reader : s[r] = None
  \/ \E r \in Reader : /\ c /\ c2 /\ p2 = p /\ w2 = w              \* Acquire
                       /\ s[r] = None /\ s2 = [s EXCEPT ![r] = p]
  \/ \E r \in Reader : /\ c2 <=> c                                 \* Release
                       /\ p2 = p /\ w2 = w
                       /\ s[r] # None /\ s2 = [s EXCEPT ![r] = None]
  \/ (c2 <=> c) /\ p2 = p /\ w2 = w /\ s2 = s

SnapshotStep ==
  StepBetween(Committed, Contents(readView), Contents(writeView), Snap,
              Committed', Contents(readView)', Contents(writeView)', Snap')

\* Nobody reads before the commit, and there is one view.
LEMMA BulkStep ==
  ASSUME IInv, pc = "bulk", held' = held,
         Cells(views', arrays', writeView') = Cells(views', arrays', readView')
  PROVE  SnapshotStep
<1>1. \A r \in Reader : held[r] = None
  BY DEF IInv, Roles
<1>2. Snap' = Snap
  BY <1>1, SnapKept
<1> QED BY <1>2, ContentsNext DEF SnapshotStep, StepBetween, Committed

\* Readers and the read view keep what they show: a write.
LEMMA WriteStep ==
  ASSUME IInv, pc = "idle", pc' \in {"idle", "merge"}, UNCHANGED <<readView, held>>,
         \A v \in live : v # writeView => Keeps(v)
  PROVE  SnapshotStep
<1>1. readView \in live /\ readView # writeView
      /\ \A r \in Reader : held[r] # None => held[r] \in live /\ held[r] # writeView
  BY DEF IInv, Reachable, Roles
<1>2. Snap' = Snap
  BY <1>1, SnapKept
<1>3. Contents(readView)' = Contents(readView)
  BY <1>1, CellsKept, ContentsNow, ContentsNext
<1> QED BY <1>2, <1>3 DEF SnapshotStep, StepBetween, Committed

\* Every view that is left keeps what it shows: nothing happens to the abstract
\* vector.
LEMMA QuietStep ==
  ASSUME IInv, Committed, Committed', UNCHANGED <<readView, held>>,
         Keeps(readView), Keeps(writeView),
         Cells(views', arrays', writeView') = Cells(views', arrays', writeView),
         \A r \in Reader : held[r] # None => Keeps(held[r])
  PROVE  SnapshotStep
<1>1. Snap' = Snap
  BY SnapKept
<1>2. Contents(readView)' = Contents(readView) /\ Contents(writeView)' = Contents(writeView)
  BY CellsKept, ContentsNow, ContentsNext
<1> QED BY <1>1, <1>2 DEF SnapshotStep, StepBetween

\* A fork shows what the view it is forked from shows.
LEMMA ForkCells ==
  ASSUME NEW v, NEW rv, ForkEffect(v, rv), readView \in live
  PROVE  Cells(views', arrays', v) = Cells(views', arrays', readView)
<1>1. /\ v \in live' /\ readView \in live'
      /\ views'[v].arr = views'[readView].arr /\ views'[v].size = views'[readView].size
  BY DEF ForkEffect
<1> QED BY <1>1 DEF Cells, live

LEMMA CommitStep ==
  ASSUME IInv, IInv', Commit
  PROVE  SnapshotStep /\ SharedPrefix'
<1> DEFINE rv == [views[readView] EXCEPT !.isWrite = FALSE]
<1>1. PICK v \in View \ live :
        /\ views' = With([views EXCEPT ![readView] = rv], v, ForkOf(rv))
        /\ writeView' = v
  BY DEF Commit
<1>2. /\ readView \in live /\ views[readView] \in ViewRecord /\ live = {readView}
      /\ pc = "bulk" /\ readView' = readView /\ held' = held
  BY DEF IInv, TypeOK, Reachable, Roles, Commit
<1>3. rv \in ViewRecord
  BY <1>2 DEF ViewRecord
<1> HIDE DEF rv
<1>4. ForkEffect(v, rv)
  BY <1>1, <1>2, <1>3, ForkFields DEF IInv
<1>5. SnapshotStep
  BY <1>1, <1>2, <1>4, ForkCells, BulkStep
<1>6. SharedPrefix'
  BY <1>1, <1>2, <1>3, <1>4 DEF SharedPrefix, ForkEffect, ViewRecord
<1> QED BY <1>5, <1>6

LEMMA LoadStep ==
  ASSUME IInv, IInv', NEW n \in 0 .. MaxLen, NEW cells \in [0 .. n - 1 -> Value],
         Load(n, cells)
  PROVE  SnapshotStep /\ SharedPrefix'
<1>1. PICK v \in View \ live, b \in Array \ heap :
        LET rv == [arr |-> b, size |-> n, isWrite |-> FALSE, needToFree |-> TRUE]
        IN
        /\ views' = With([views EXCEPT ![readView] = rv], v, ForkOf(rv))
        /\ writeView' = v
  BY DEF Load
<1> DEFINE rv == [arr |-> b, size |-> n, isWrite |-> FALSE, needToFree |-> TRUE]
<1>2. /\ readView \in live /\ live = {readView}
      /\ pc = "bulk" /\ readView' = readView /\ held' = held
  BY DEF IInv, Reachable, Roles, Load
<1>3. rv \in ViewRecord
  BY ParamAssumption DEF ViewRecord
<1>4. views' = With([views EXCEPT ![readView] = rv], v, ForkOf(rv)) /\ writeView' = v
  BY <1>1
<1> HIDE DEF rv
<1>5. ForkEffect(v, rv)
  BY <1>2, <1>3, <1>4, ForkFields DEF IInv
<1>6. SnapshotStep
  BY <1>2, <1>4, <1>5, ForkCells, BulkStep
<1>7. SharedPrefix'
  BY <1>2, <1>3, <1>4, <1>5 DEF SharedPrefix, ForkEffect, ViewRecord
<1> QED BY <1>6, <1>7

LEMMA MergeForkStep ==
  ASSUME IInv, IInv', SharedPrefix, MergeFork
  PROVE  SnapshotStep /\ SharedPrefix'
<1> DEFINE rv == views[readView]
<1>1. PICK v \in View \ live : views' = With(views, v, ForkOf(rv)) /\ writeView' = v
  BY DEF MergeFork
<1>2. /\ rv \in ViewRecord /\ readView \in live /\ views \in [live -> ViewRecord]
      /\ pc = "fork" /\ pc' = "idle" /\ readView = writeView
      /\ UNCHANGED <<arrays, readView, held>> /\ heap' = heap
      /\ ArraysExist /\ ArraysExist'
  BY DEF IInv, TypeOK, Reachable, MergeFork, Roles, heap
<1>3. ForkEffect(v, rv)
  <2>1. [views EXCEPT ![readView] = rv] = views
    BY <1>2
  <2> QED BY <1>1, <1>2, <2>1, ForkFields DEF IInv
<1>4. /\ live' = live \cup {v} /\ \A u \in live : views'[u] = views[u]
      /\ views'[v].arr = rv.arr /\ views'[v].size = rv.size
  BY <1>3 DEF ForkEffect
<1>5. \A u \in live : Keeps(u)
  BY <1>2, <1>4, Untouched
<1>6. \A r \in Reader : held[r] # None => held[r] \in live
  BY DEF IInv, Reachable
<1>7. Cells(views', arrays', v) = Cells(views', arrays', readView)
  BY <1>2, <1>3, ForkCells
<1>8. SnapshotStep
  BY <1>1, <1>2, <1>5, <1>6, <1>7, QuietStep DEF Committed
<1>9. SharedPrefix'
  BY <1>1, <1>2, <1>4 DEF SharedPrefix, ViewRecord
<1> QED BY <1>8, <1>9

LEMMA MergeClassifyStep ==
  ASSUME IInv, IInv', SharedPrefix, MergeClassify
  PROVE  SnapshotStep /\ SharedPrefix'
<1> DEFINE realloc == views[readView].arr # views[writeView].arr
<1>1. /\ pc \in {"merge", "idle"} /\ pc' \in {"clean", "publish"}
      /\ views' = [views EXCEPT ![readView].needToFree = realloc]
      /\ UNCHANGED <<arrays, readView, writeView, held>> /\ heap' = heap
      /\ ArraysExist /\ ArraysExist'
  BY DEF MergeClassify, heap, IInv
<1>2. readView \in live /\ writeView \in live /\ views \in [live -> ViewRecord]
  BY <1>1 DEF IInv, Reachable, TypeOK
<1> HIDE DEF realloc
<1>3. live' = live /\ \A v \in live : /\ views'[v].arr = views[v].arr
                                      /\ views'[v].size = views[v].size
  BY <1>1, <1>2 DEF live, ViewRecord
<1>4. \A v \in live : Keeps(v)
  BY <1>1, <1>3, Untouched
<1>5. \A r \in Reader : held[r] # None => held[r] \in live
  BY DEF IInv, Reachable
<1>6. SnapshotStep
  BY <1>1, <1>2, <1>4, <1>5, QuietStep DEF Committed
<1>7. SharedPrefix'
  BY <1>1, <1>2, <1>3 DEF SharedPrefix
<1> QED BY <1>6, <1>7

\* Deleting views leaves the others alone.
LEMMA DeleteKeeps ==
  ASSUME IInv, IInv', NEW vs \in SUBSET live, writeView \notin vs, DeleteViews(vs)
  PROVE  /\ live' = live \ vs
         /\ \A v \in live \ vs : Keeps(v) /\ views'[v] = views[v]
<1>1. /\ live' = live \ vs
      /\ \A v \in live \ vs : views'[v] = views[v]
      /\ \A a \in heap' : arrays'[a] = arrays[a]
      /\ ArraysExist /\ ArraysExist'
  BY DeleteEffect DEF IInv
<1>2. \A v \in live \ vs : Keeps(v)
  BY <1>1, Untouched
<1> QED BY <1>1, <1>2

LEMMA CleanGenerationStep ==
  ASSUME IInv, IInv', SharedPrefix, NEW g \in toClean, CleanGeneration(g)
  PROVE  SnapshotStep /\ SharedPrefix'
<1>1. /\ pc = "clean" /\ pc' = "clean" /\ UNCHANGED <<readView, writeView, held>>
      /\ g \subseteq live /\ writeView \notin g /\ readView \in live /\ writeView \in live
      /\ \A r \in Reader : held[r] # None => held[r] \in live
      /\ ArraysExist /\ ArraysExist'
  BY DEF CleanGeneration, IInv, TypeOK, Reachable, Roles
<1>2. CASE UNCHANGED <<past, views, arrays>>
  <2>1. live' = live /\ heap' = heap
    BY <1>2 DEF live, heap
  <2>2. \A v \in live : Keeps(v)
    BY <1>1, <1>2, <2>1, Untouched
  <2>3. SnapshotStep
    BY <1>1, <2>2, QuietStep DEF Committed
  <2> QED BY <1>1, <1>2, <2>1, <2>3 DEF SharedPrefix
<1>3. CASE (\A v \in g : Unique(v) /\ v # readView) /\ DeleteViews(g)
  <2>1. live' = live \ g /\ \A v \in live \ g : Keeps(v) /\ views'[v] = views[v]
    BY <1>1, <1>3, DeleteKeeps
  <2>2. readView \notin g /\ \A r \in Reader : held[r] \notin g
    BY <1>3 DEF Unique
  <2>3. SnapshotStep
    BY <1>1, <2>1, <2>2, QuietStep DEF Committed
  <2> QED BY <1>1, <2>1, <2>3 DEF SharedPrefix
<1> QED BY <1>2, <1>3 DEF CleanGeneration

LEMMA CleanDoneStep ==
  ASSUME IInv, IInv', SharedPrefix, CleanDone
  PROVE  SnapshotStep /\ SharedPrefix'
<1>1. /\ pc = "clean" /\ pc' = "publish"
      /\ UNCHANGED <<views, arrays, readView, writeView, held>>
      /\ live' = live /\ heap' = heap /\ readView \in live /\ writeView \in live
      /\ \A r \in Reader : held[r] # None => held[r] \in live
      /\ ArraysExist /\ ArraysExist'
  BY DEF CleanDone, live, heap, IInv, Reachable
<1>2. \A v \in live : Keeps(v)
  BY <1>1, Untouched
<1>3. SnapshotStep
  BY <1>1, <1>2, QuietStep DEF Committed
<1> QED BY <1>1, <1>3 DEF SharedPrefix

LEMMA MergePublishStep ==
  ASSUME IInv, IInv', SharedPrefix, MergePublish
  PROVE  SnapshotStep /\ SharedPrefix'
<1> DEFINE dying == IF Unique(readView) /\ ~Stored(readView) THEN {readView} ELSE {}
<1>1. /\ pc = "publish" /\ pc' = "fork" /\ readView' = writeView /\ writeView' = writeView
      /\ held' = held /\ readView # writeView
      /\ readView \in live /\ writeView \in live
      /\ views \in [live -> ViewRecord]
      /\ \A r \in Reader : held[r] # None => held[r] \in live
      /\ ArraysExist /\ ArraysExist'
      /\ writeView \notin dying /\ dying \subseteq live
  BY DEF MergePublish, IInv, Reachable, Roles, TypeOK
<1>2. \A r \in Reader : held[r] \notin dying
  BY DEF Unique
<1>3. views' = [Without(views, dying) EXCEPT ![writeView].isWrite = FALSE]
  BY DEF MergePublish
<1>4. \A a \in heap' : arrays'[a] = arrays[a]
  BY DEF MergePublish, Without, heap
<1> HIDE DEF dying
<1>5. Without(views, dying) = [x \in live \ dying |-> views[x]]
  BY DEF Without, live
<1>6. /\ live' = live \ dying
      /\ \A v \in live \ dying : views'[v].arr = views[v].arr /\ views'[v].size = views[v].size
  BY <1>1, <1>3, <1>5 DEF live, ViewRecord
<1>7. \A v \in live \ dying : Keeps(v)
  BY <1>1, <1>4, <1>6, Untouched
<1>8. Snap' = Snap
  BY <1>1, <1>2, <1>7, SnapKept
<1>9. Cells(views', arrays', writeView) = Cells(views, arrays, writeView)
  BY <1>1, <1>7, CellsKept
<1>10. SnapshotStep
  BY <1>1, <1>8, <1>9, ContentsNow, ContentsNext DEF SnapshotStep, StepBetween, Committed
<1>11. SharedPrefix'
  BY <1>1, <1>6 DEF SharedPrefix
<1> QED BY <1>10, <1>11

LEMMA DestroyStep ==
  ASSUME IInv, IInv', Destroy
  PROVE  SnapshotStep /\ SharedPrefix'
<1>1. /\ pc = "idle" /\ pc' = "destroyed" /\ held' = held
      /\ \A r \in Reader : held[r] = None
      /\ DOMAIN views' = {}
  BY DEF Destroy, Without, live
<1>2. Snap' = Snap
  BY <1>1, SnapKept
<1>3. Cells(views', arrays', writeView') = Cells(views', arrays', readView')
  BY <1>1 DEF Cells
<1>4. SnapshotStep
  BY <1>1, <1>2, <1>3, ContentsNext DEF SnapshotStep, StepBetween, Committed
<1> QED BY <1>1, <1>4 DEF SharedPrefix

LEMMA GetReadViewStep ==
  ASSUME IInv, SharedPrefix, NEW r \in Reader, GetReadView(r)
  PROVE  SnapshotStep /\ SharedPrefix'
<1>1. /\ pc \notin {"bulk", "destroyed"} /\ pc' = pc /\ held[r] = None
      /\ held' = [held EXCEPT ![r] = readView]
      /\ UNCHANGED <<views, arrays, readView, writeView>> /\ live' = live
      /\ readView \in View /\ held \in [Reader -> View \cup {None}]
  BY DEF GetReadView, live, IInv, TypeOK
<1>2. Snap' = [Snap EXCEPT ![r] = Contents(readView)]
  BY <1>1, ContentsNow, ContentsNext, ParamAssumption
<1>3. Contents(readView)' = Contents(readView) /\ Contents(writeView)' = Contents(writeView)
  BY <1>1, ContentsNow, ContentsNext
<1>4. Snap[r] = None
  BY <1>1 DEF Snap
<1>5. SnapshotStep
  BY <1>1, <1>2, <1>3, <1>4 DEF SnapshotStep, StepBetween, Committed
<1> QED BY <1>1, <1>5 DEF SharedPrefix

LEMMA ReleaseReadViewStep ==
  ASSUME IInv, IInv', SharedPrefix, NEW r \in Reader, ReleaseReadView(r)
  PROVE  SnapshotStep /\ SharedPrefix'
<1> DEFINE v == held[r]
           last == v # readView /\ ~Stored(v) /\ \A s \in Reader \ {r} : held[s] # v
           dying == IF last THEN {v} ELSE {}
<1>1. /\ v # None /\ held' = [held EXCEPT ![r] = None] /\ DeleteViews(dying)
      /\ UNCHANGED <<readView, writeView>> /\ pc' = pc
      /\ held \in [Reader -> View \cup {None}]
  BY DEF ReleaseReadView, IInv, TypeOK
<1>2. /\ v \in live /\ pc # "destroyed" /\ pc # "bulk"
      /\ readView \in live /\ writeView \in live
      /\ \A s \in Reader : held[s] # None => held[s] \in live
      /\ dying \subseteq live /\ readView \notin dying /\ writeView \notin dying
  BY <1>1 DEF IInv, Reachable, Roles
<1>3. \A s \in Reader : s # r => held[s] \notin dying
  OBVIOUS
<1> HIDE DEF v, last, dying
<1>4. live' = live \ dying /\ \A u \in live \ dying : Keeps(u) /\ views'[u] = views[u]
  BY <1>1, <1>2, DeleteKeeps
<1>5. \A u \in live \ dying : Cells(views', arrays', u) = Cells(views, arrays, u)
  BY <1>4, CellsKept
<1>6. Snap' = [Snap EXCEPT ![r] = None]
  BY <1>1, <1>2, <1>3, <1>5, ContentsNow, ContentsNext
<1>7. Contents(readView)' = Contents(readView) /\ Contents(writeView)' = Contents(writeView)
  BY <1>1, <1>2, <1>5, ContentsNow, ContentsNext
<1>8. SnapshotStep
  <2>1. CASE Snap[r] # None
    BY <1>1, <1>6, <1>7, <2>1 DEF SnapshotStep, StepBetween, Committed
  <2>2. CASE Snap[r] = None
    <3>1. Snap' = Snap
      BY <1>6, <2>2 DEF Snap
    <3> QED BY <1>1, <1>7, <3>1 DEF SnapshotStep, StepBetween, Committed
  <2> QED BY <2>1, <2>2
<1>9. SharedPrefix'
  BY <1>1, <1>2, <1>4 DEF SharedPrefix
<1> QED BY <1>8, <1>9

\* What every step of the vector is for its readers.
LEMMA StepRefines ==
  ASSUME IInv, SharedPrefix, Usage # "bare", ~InPlace, [Next]_vars
  PROVE  SnapshotStep /\ SharedPrefix'
<1>1. IInv'
  BY NextInv
<1>2. CASE \E i \in Index, x \in Value : At(i, x)
  <2>1. PICK i \in Index, x \in Value : At(i, x)
    BY <1>2
  <2>2. (\A v \in live : v # writeView => Keeps(v)) /\ SharedPrefix'
    BY <1>1, <2>1, AtKeeps
  <2>3. pc' = pc /\ pc \in {"bulk", "idle"} /\ UNCHANGED <<readView, writeView, held>>
    BY <2>1 DEF At
  <2>4. CASE pc = "idle"
    BY <2>2, <2>3, <2>4, WriteStep
  <2>5. CASE pc = "bulk"
    <3>1. readView = writeView
      BY <2>5 DEF IInv, Roles
    <3> QED BY <2>2, <2>3, <2>5, <3>1, BulkStep
  <2> QED BY <2>3, <2>4, <2>5
<1>3. CASE Commit
  BY <1>1, <1>3, CommitStep
<1>4. CASE \E n \in 0 .. MaxLen : \E cells \in [0 .. n - 1 -> Value] : Load(n, cells)
  BY <1>1, <1>4, LoadStep
<1>5. CASE \E n \in 0 .. MaxLen : \E pick \in [0 .. n - 1 -> Index] : SortAndMerge(n, pick)
  <2>1. PICK n \in 0 .. MaxLen : \E pick \in [0 .. n - 1 -> Index] : SortAndMerge(n, pick)
    BY <1>5
  <2>2. PICK pick \in [0 .. n - 1 -> Index] : SortAndMerge(n, pick)
    BY <2>1
  <2>3. (\A v \in live : v # writeView => Keeps(v)) /\ SharedPrefix'
    BY <1>1, <2>2, SortAndMergeKeeps
  <2>4. pc = "idle" /\ pc' = "merge" /\ UNCHANGED <<readView, held>>
    BY <2>2 DEF SortAndMerge
  <2> QED BY <2>3, <2>4, WriteStep
<1>6. CASE Merging
  BY <1>1, <1>6, MergeClassifyStep, CleanGenerationStep, CleanDoneStep, MergePublishStep,
     MergeForkStep DEF Merging
<1>7. CASE Destroy
  BY <1>1, <1>7, DestroyStep
<1>8. CASE \E r \in Reader : ReaderStep(r)
  BY <1>1, <1>8, GetReadViewStep, ReleaseReadViewStep DEF ReaderStep
<1>9. CASE UNCHANGED vars
  <2>1. UNCHANGED <<views, arrays, readView, writeView, held, pc>> /\ live' = live
    BY <1>9 DEF vars, live
  <2>2. SnapshotStep
    BY <2>1, ContentsNow, ContentsNext DEF SnapshotStep, StepBetween, Committed
  <2> QED BY <2>1, <2>2 DEF SharedPrefix
<1> QED BY <1>2, <1>3, <1>4, <1>5, <1>6, <1>7, <1>8, <1>9 DEF Next, WriterStep

LEMMA SnapshotInit ==
  ASSUME Init
  PROVE  /\ SharedPrefix /\ ~Committed
         /\ Contents(writeView) = Contents(readView)
         /\ Snap = [r \in Reader |-> None]
<1>1. /\ pc = "bulk" /\ readView = writeView /\ live = {writeView}
      /\ views[writeView].size = 0
      /\ held = [r \in Reader |-> None]
  BY DEF Init, live
<1> QED BY <1>1 DEF SharedPrefix, Committed, Snap

\* SnapshotStep is a step of the abstract specification.
LEMMA StepMaps == SnapshotStep => [Snapshot!Next]_(Snapshot!vars)
BY DEF SnapshotStep, StepBetween, Snapshot!Next, Snapshot!BulkLoad, Snapshot!Write,
   Snapshot!Publish, Snapshot!Close, Snapshot!Acquire, Snapshot!Release, Snapshot!vars,
   Committed, Snap

(* A vector merged with a ReadViewManager, or after a forced copy, and never *)
(* written in place gives its readers snapshots: at(), sortAndMerge(),       *)
(* merge() and the deletions never change what a reader already sees.        *)
THEOREM Refinement ==
  ASSUME Usage # "bare", ~InPlace
  PROVE  Spec => ImplementsSnapshot
<1>1. Init => IInv /\ SharedPrefix
  BY InitInv, SnapshotInit
<1>2. IInv /\ SharedPrefix /\ [Next]_vars => (IInv /\ SharedPrefix)'
  BY NextInv, StepRefines
<1>3. Init => Snapshot!Init
  BY SnapshotInit DEF Snapshot!Init, Committed, Snap
<1>4. IInv /\ SharedPrefix /\ [Next]_vars => [Snapshot!Next]_(Snapshot!vars)
  BY StepRefines, StepMaps
<1> QED BY <1>1, <1>2, <1>3, <1>4, PTL DEF Spec, ImplementsSnapshot, Snapshot!Spec
=============================================================================
