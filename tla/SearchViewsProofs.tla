-------------------------- MODULE SearchViewsProofs --------------------------
(* Proofs about SearchViews, for any keywords, records and searches.        *)
EXTENDS SearchViews, FiniteSetTheorems, TLAPS

-----------------------------------------------------------------------------
(* The inductive invariant *)

Tries == UNION {[S -> Node] : S \in SUBSET Keyword}

SearchRecord ==
  [pc : Pc, trie : Tries, size : Nat, dir : Nat, owed : SUBSET Record,
   key : Keyword \cup {None}, answer : SUBSET Record]

\* Records and inverted lists are numbered from 0 without gaps, and the next
\* offset the trie gives is at most the next free one.
Shape ==
  /\ TypeOK
  /\ reader \in [Reader -> SearchRecord]
  /\ size \in Nat /\ DOMAIN content = 0 .. size - 1
  /\ dir \in Nat /\ DOMAIN lists = 0 .. dir - 1
  /\ terminals <= dir

\* A keyword of the trie has an inverted list of its own, which holds records
\* with the keyword only, and all of those that are valid.  A list no keyword
\* leads to is empty, so that its offset can be given again.
ListsInv ==
  /\ \A k \in DOMAIN trie : trie[k].offset < terminals
  /\ \A j, k \in DOMAIN trie : trie[j].offset = trie[k].offset => j = k
  /\ \A k \in DOMAIN trie : \A i \in lists[trie[k].offset] :
       i \in DOMAIN content /\ content[i].key = k
  /\ \A o \in DOMAIN lists : listsRead[o] \subseteq lists[o]
  /\ \A o \in DOMAIN lists : lists[o] = {} \/ \E k \in DOMAIN trie : trie[k].offset = o
  /\ \A i \in valid : /\ content[i].key \in DOMAIN trie
                      /\ i \in lists[trie[content[i].key].offset]

\* What the next merge still has to do: a list it does not know of is
\* published, without deleted records, and not empty.
PendingInv ==
  /\ \A o \in DOMAIN lists, k \in Keyword :
       <<o, k>> \in toMerge => k \in DOMAIN trie /\ trie[k].offset = o
  /\ \A k \in DOMAIN trie : <<trie[k].offset, k>> \notin toMerge =>
       /\ listsRead[trie[k].offset] = lists[trie[k].offset]
       /\ lists[trie[k].offset] \subseteq valid
       /\ lists[trie[k].offset] # {} \/ k \in emptyLeaves
  /\ \A k \in emptyLeaves : k \in DOMAIN trie /\ lists[trie[k].offset] = {}
  /\ emptyLeaves # {} => merging \in {"lists", "reassign", "trie", "remove"}
  /\ merging \in {"reassign", "trie", "remove"} => toMerge = {}
  /\ merging = "idle" /\ ~mergeRequired => toMerge = {}

\* The trie of the searches is an earlier trie of the writers, with the same
\* offsets and, save between the reassignment and the merge of the trie, the
\* same ids; forward lists carry the ids of the writers' trie.
IdsInv ==
  /\ \A k \in DOMAIN trieRead : /\ k \in DOMAIN trie
                                /\ trieRead[k].offset = trie[k].offset
                                /\ merging # "trie" => trieRead[k].id = trie[k].id
  /\ \A i \in valid : content[i].id = trie[content[i].key].id

\* What a finished merge has published stays published.
PublishedInv ==
  /\ published \subseteq DOMAIN content
  /\ \A i \in published : i < sizeRead
  /\ \A i \in published \cap valid :
       /\ content[i].key \in DOMAIN trieRead
       /\ i \in listsRead[trie[content[i].key].offset]
  /\ merging \in {"directory", "lists", "reassign", "trie", "remove"} => sizeRead = size
  /\ merging \in {"lists", "reassign", "trie", "remove"} => dirRead = dir
  /\ \A k \in DOMAIN trieRead : trieRead[k].offset < dirRead

HasTrie == {"trie", "forward", "views", "answer"}
HasForward == {"forward", "views", "answer"}

\* While a search is under way no leaf goes: the trie it took is part of the
\* writers', and within the directory it will take.
ViewsInv ==
  \A r \in Reader : reader[r].pc \in HasTrie =>
    \A k \in DOMAIN reader[r].trie :
      /\ k \in DOMAIN trie
      /\ reader[r].trie[k].offset = trie[k].offset
      /\ reader[r].trie[k].offset < dirRead
      /\ reader[r].pc = "views" => reader[r].trie[k].offset < reader[r].dir

IInv == Shape /\ ListsInv /\ PendingInv /\ IdsInv /\ PublishedInv /\ ViewsInv

\* With room for new ids the id of a keyword is the same everywhere, for ever.
RoomInv ==
  Room =>
    /\ reassign = {} /\ merging # "reassign"
    /\ \A k \in DOMAIN trie : trie[k].id = k
    /\ \A k \in DOMAIN trieRead : trieRead[k].id = k
    /\ \A i \in DOMAIN content : content[i].id = content[i].key
    /\ \A r \in Reader : reader[r].pc \in HasTrie =>
         \A k \in DOMAIN reader[r].trie : reader[r].trie[k].id = k

\* Cached and returned answers hold records with the keyword only.
SoundInv ==
  /\ \A k \in Keyword : cache[k] # None =>
       \A i \in cache[k] : i \in DOMAIN content /\ content[i].key = k
  /\ \A r \in Reader : reader[r].pc = "answer" =>
       \A i \in reader[r].answer : i \in DOMAIN content /\ content[i].key = reader[r].key

\* Whatever a search owes its caller is in reach of the views it has taken.
OwedInv ==
  /\ \A k \in Keyword : cache[k] = None
  /\ \A r \in Reader :
       /\ reader[r].owed \subseteq published
       /\ reader[r].pc \in HasTrie =>
            \A i \in reader[r].owed \cap valid : content[i].key \in DOMAIN reader[r].trie
       /\ reader[r].pc \in HasForward =>
            \A i \in reader[r].owed : i < reader[r].size
  /\ AnswerComplete

-----------------------------------------------------------------------------
(* Counting and typing *)

LEMMA IntervalSize == \A n \in Nat : Cardinality(0 .. n - 1) = n
<1> SUFFICES ASSUME NEW n \in Nat PROVE Cardinality(0 .. n - 1) = n
  OBVIOUS
<1> QED BY FS_Interval

LEMMA EmptyFunction == DOMAIN <<>> = {} /\ \A T : <<>> \in [{} -> T]
OBVIOUS

LEMMA TriesType == \A f : f \in Tries <=> PartialFunction(f, Keyword, Node)
BY DEF Tries, PartialFunction

\* The types the proofs use, pointwise.
LEMMA Typed ==
  ASSUME Shape
  PROVE  /\ DOMAIN content \subseteq Record /\ content \in [DOMAIN content -> [key : Keyword, id : Nat]]
         /\ \A i \in DOMAIN content : content[i].key \in Keyword /\ content[i].id \in Nat
         /\ valid \subseteq DOMAIN content
         /\ DOMAIN trie \subseteq Keyword /\ trie \in [DOMAIN trie -> Node]
         /\ \A k \in DOMAIN trie : trie[k].offset \in Nat /\ trie[k].id \in Nat
         /\ DOMAIN trieRead \subseteq Keyword /\ trieRead \in [DOMAIN trieRead -> Node]
         /\ \A k \in DOMAIN trieRead : trieRead[k].offset \in Nat /\ trieRead[k].id \in Nat
         /\ terminals \in Nat /\ dir \in Nat /\ size \in Nat /\ terminals <= dir
         /\ DOMAIN lists = 0 .. dir - 1 /\ lists \in [DOMAIN lists -> SUBSET Record]
         /\ listsRead \in [DOMAIN lists -> SUBSET Record] /\ DOMAIN listsRead = DOMAIN lists
         /\ DOMAIN content = 0 .. size - 1
BY DEF Shape, TypeOK, PartialFunction, Node

-----------------------------------------------------------------------------
(* Adding a record *)

AddEffect(k) ==
  /\ merging = "idle" /\ size < MaxRecords
  /\ size' = size + 1 /\ DOMAIN content' = DOMAIN content \cup {size}
  /\ size \notin DOMAIN content
  /\ content'[size].key = k /\ content'[size].id = trie'[k].id
  /\ \A i \in DOMAIN content : content'[i] = content[i]
  /\ valid' = valid \cup {size}
  /\ k \in DOMAIN trie' /\ DOMAIN trie' = DOMAIN trie \cup {k}
  /\ \A j \in DOMAIN trie : trie'[j] = trie[j]
  /\ k \in DOMAIN trie => terminals' = terminals
  /\ k \notin DOMAIN trie => terminals' = terminals + 1 /\ trie'[k].offset = terminals
  /\ DOMAIN lists' = DOMAIN lists \cup {trie'[k].offset}
  /\ \A o \in DOMAIN lists : o # trie'[k].offset =>
       lists'[o] = lists[o] /\ listsRead'[o] = listsRead[o]
  /\ lists'[trie'[k].offset] = HitList(lists, trie'[k].offset) \cup {size}
  /\ listsRead'[trie'[k].offset] = HitList(listsRead, trie'[k].offset)
  /\ toMerge' = toMerge \cup {<<trie'[k].offset, k>>}
  /\ mergeRequired'
  /\ UNCHANGED <<emptyLeaves, trieRead, sizeRead, dirRead, merging, published, cache, reader>>

LEMMA AddTrie ==
  ASSUME Shape, ListsInv, NEW k \in Keyword, AddKeyword(k)
  PROVE  /\ k \in DOMAIN trie' /\ DOMAIN trie' = DOMAIN trie \cup {k}
         /\ trie' \in [DOMAIN trie' -> Node]
         /\ \A j \in DOMAIN trie : trie'[j] = trie[j]
         /\ k \in DOMAIN trie => terminals' = terminals /\ trie'[k].offset < terminals
         /\ k \notin DOMAIN trie => terminals' = terminals + 1 /\ trie'[k].offset = terminals
         /\ trie'[k].offset \in Nat /\ trie'[k].id \in Nat /\ terminals' \in Nat
         /\ trie'[k].offset <= terminals
         /\ copied' \subseteq Keyword /\ reassign' \subseteq Keyword
         /\ Room => reassign' = reassign /\ (k \notin DOMAIN trie => trie'[k].id = k)
<1>1. /\ DOMAIN trie \subseteq Keyword /\ trie \in [DOMAIN trie -> Node] /\ terminals \in Nat
      /\ \A j \in DOMAIN trie : trie[j].offset \in Nat /\ trie[j].id \in Nat
      /\ \A j \in DOMAIN trie : trie[j].offset < terminals
      /\ copied \subseteq Keyword /\ reassign \subseteq Keyword
  BY Typed DEF ListsInv, Shape, TypeOK
<1>2. MaxId \in Nat /\ Keyword \subseteq Nat
  BY SearchViewsAssumption
<1>3. copied' \subseteq Keyword /\ reassign' \subseteq Keyword
  BY <1>1 DEF AddKeyword
<1>4. CASE k \in DOMAIN trie
  <2>1. trie' = trie /\ terminals' = terminals /\ reassign' = reassign
    BY <1>4 DEF AddKeyword
  <2> QED BY <1>1, <1>3, <1>4, <2>1
<1>5. CASE k \notin DOMAIN trie
  <2>1. terminals' = terminals + 1
    BY <1>5 DEF AddKeyword
  <2>2. PICK id \in Nat : /\ trie' = With(trie, k, [offset |-> terminals, id |-> id])
                          /\ Room => id = k /\ reassign' = reassign
    <3>1. CASE Room
      BY <1>2, <1>5, <3>1 DEF AddKeyword
    <3>2. CASE ~Room
      <4>1. MaxId + 1 + terminals \in Nat
        BY <1>1, <1>2
      <4> QED BY <1>5, <3>2, <4>1 DEF AddKeyword
    <3> QED BY <3>1, <3>2
  <2> DEFINE node == [offset |-> terminals, id |-> id]
  <2>3. node \in Node /\ node.offset = terminals /\ node.id = id
    BY <1>1 DEF Node
  <2> HIDE DEF node
  <2>4. trie' = [z \in DOMAIN trie \cup {k} |-> IF z = k THEN node ELSE trie[z]]
    BY <2>2 DEF With, node
  <2> QED BY <1>1, <1>3, <1>5, <2>1, <2>2, <2>3, <2>4
<1> QED BY <1>4, <1>5

LEMMA AddRecordEffect ==
  ASSUME Shape, ListsInv, NEW k \in Keyword, AddRecord(k)
  PROVE  AddEffect(k) /\ Shape'
<1> DEFINE o == trie'[k].offset
           n == size
<1>1. /\ merging = "idle" /\ size < MaxRecords /\ mergeRequired' = TRUE
      /\ AddKeyword(k) /\ AddForwardList(k, trie'[k].id) /\ AddToInvertedIndex(o, k, n)
      /\ UNCHANGED <<emptyLeaves, trieRead, sizeRead, dirRead, merging, published, cache, reader>>
  BY DEF AddRecord, LockFree
<1>2. /\ k \in DOMAIN trie' /\ DOMAIN trie' = DOMAIN trie \cup {k}
      /\ trie' \in [DOMAIN trie' -> Node]
      /\ \A j \in DOMAIN trie : trie'[j] = trie[j]
      /\ k \in DOMAIN trie => terminals' = terminals /\ o < terminals
      /\ k \notin DOMAIN trie => terminals' = terminals + 1 /\ o = terminals
      /\ o \in Nat /\ trie'[k].id \in Nat /\ terminals' \in Nat
      /\ o <= terminals
      /\ copied' \subseteq Keyword /\ reassign' \subseteq Keyword
  BY <1>1, AddTrie
<1>3. /\ DOMAIN content \subseteq Record /\ content \in [DOMAIN content -> [key : Keyword, id : Nat]]
      /\ valid \subseteq DOMAIN content /\ DOMAIN trie \subseteq Keyword
      /\ terminals \in Nat /\ dir \in Nat /\ size \in Nat /\ terminals <= dir
      /\ DOMAIN lists = 0 .. dir - 1 /\ lists \in [DOMAIN lists -> SUBSET Record]
      /\ listsRead \in [DOMAIN lists -> SUBSET Record] /\ DOMAIN listsRead = DOMAIN lists
      /\ DOMAIN content = 0 .. size - 1
  BY Typed
<1>4. n \in Record /\ n \notin DOMAIN content /\ MaxRecords \in Nat
  BY <1>1, <1>3, SearchViewsAssumption DEF Record
<1>5. /\ DOMAIN content' = DOMAIN content \cup {n}
      /\ content' \in [DOMAIN content' -> [key : Keyword, id : Nat]]
      /\ content'[n].key = k /\ content'[n].id = trie'[k].id
      /\ \A i \in DOMAIN content : content'[i] = content[i]
      /\ valid' = valid \cup {n}
  <2> DEFINE c == [key |-> k, id |-> trie'[k].id]
  <2>1. c \in [key : Keyword, id : Nat] /\ c.key = k /\ c.id = trie'[k].id
    BY <1>2
  <2> HIDE DEF c
  <2>2. content' = [z \in DOMAIN content \cup {n} |-> IF z = n THEN c ELSE content[z]]
    BY <1>1 DEF AddForwardList, With, c
  <2>3. valid' = valid \cup {n}
    BY <1>1 DEF AddForwardList
  <2> QED BY <1>3, <1>4, <2>1, <2>2, <2>3
<1>6. size' = size + 1 /\ size' \in Nat /\ DOMAIN content' = 0 .. size' - 1
  <2>1. DOMAIN content' = 0 .. (size + 1) - 1
    BY <1>3, <1>5
  <2>2. Cardinality(0 .. (size + 1) - 1) = size + 1
    BY <1>3, IntervalSize
  <2> QED BY <1>3, <2>1, <2>2 DEF size
<1>7. /\ HitList(lists, o) \in SUBSET Record /\ HitList(listsRead, o) \in SUBSET Record
  BY <1>3 DEF HitList
<1>8. /\ DOMAIN lists' = DOMAIN lists \cup {o} /\ lists' \in [DOMAIN lists' -> SUBSET Record]
      /\ \A z \in DOMAIN lists : z # o => lists'[z] = lists[z]
      /\ lists'[o] = HitList(lists, o) \cup {n}
  <2>1. lists' = [z \in DOMAIN lists \cup {o} |->
                    IF z = o THEN HitList(lists, o) \cup {n} ELSE lists[z]]
    BY <1>1 DEF AddToInvertedIndex, With
  <2> HIDE DEF o
  <2> QED BY <1>3, <1>4, <1>7, <2>1
<1>9. /\ listsRead' \in [DOMAIN lists' -> SUBSET Record]
      /\ \A z \in DOMAIN lists : z # o => listsRead'[z] = listsRead[z]
      /\ listsRead'[o] = HitList(listsRead, o)
  <2>1. listsRead' = [z \in DOMAIN listsRead \cup {o} |->
                    IF z = o THEN HitList(listsRead, o) ELSE listsRead[z]]
    BY <1>1 DEF AddToInvertedIndex, With
  <2> HIDE DEF o
  <2> QED BY <1>3, <1>7, <1>8, <2>1
<1>10. toMerge' = toMerge \cup {<<o, k>>}
  BY <1>1 DEF AddToInvertedIndex
<1> HIDE DEF o
<1>11. /\ dir' \in Nat /\ dir <= dir' /\ DOMAIN lists' = 0 .. dir' - 1 /\ terminals' <= dir'
  <2>1. CASE o < dir
    <3>1. DOMAIN lists' = 0 .. dir - 1
      BY <1>2, <1>3, <1>8, <2>1
    <3>2. dir' = dir
      BY <1>3, <3>1 DEF dir
    <3> QED BY <1>2, <1>3, <2>1, <3>1, <3>2
  <2>2. CASE o = dir
    <3>1. DOMAIN lists' = 0 .. (dir + 1) - 1
      BY <1>2, <1>3, <1>8, <2>2
    <3>2. dir' = dir + 1
      BY <1>3, <3>1, IntervalSize DEF dir
    <3> QED BY <1>2, <1>3, <2>2, <3>1, <3>2
  <2> QED BY <1>2, <1>3, <2>1, <2>2
<1>12. AddEffect(k)
  BY <1>1, <1>2, <1>4, <1>5, <1>6, <1>8, <1>9, <1>10 DEF AddEffect, o
<1>13. toMerge' \subseteq (DOMAIN lists') \X Keyword
  <2>1. toMerge \subseteq (DOMAIN lists) \X Keyword
    BY DEF Shape, TypeOK
  <2> QED BY <1>8, <1>10, <2>1
<1>14. sizeRead' \in 0 .. size' /\ dirRead' \in 0 .. dir'
  BY <1>1, <1>3, <1>6, <1>11 DEF Shape, TypeOK
<1>15. PartialFunction(content, Record, [key : Keyword, id : Nat])' /\ valid' \subseteq DOMAIN content'
  BY <1>3, <1>4, <1>5 DEF PartialFunction
<1>16. PartialFunction(trie, Keyword, Node)' /\ PartialFunction(lists, Nat, SUBSET Record)'
  BY <1>2, <1>3, <1>8, <1>11 DEF PartialFunction
<1>17. TypeOK'
  <2>1. \A r \in Reader : /\ reader'[r].pc \in Pc
                          /\ PartialFunction(reader[r].trie, Keyword, Node)'
                          /\ reader'[r].answer \subseteq Record
    BY <1>1 DEF Shape, TypeOK, PartialFunction
  <2>2. PartialFunction(trieRead, Keyword, Node)'
    BY <1>1 DEF Shape, TypeOK, PartialFunction
  <2> QED
    BY <2>1, <2>2, <1>1, <1>2, <1>9, <1>13, <1>14, <1>15, <1>16 DEF Shape, TypeOK
<1> QED BY <1>1, <1>6, <1>11, <1>12, <1>17 DEF Shape

\* The list of the keyword gets the record; a new keyword finds its list empty,
\* even one whose offset is given a second time.
LEMMA AddLists ==
  ASSUME Shape, ListsInv, NEW k \in Keyword, AddEffect(k)
  PROVE  /\ trie'[k].offset \in DOMAIN lists'
         /\ k \in DOMAIN trie =>
              /\ trie'[k] = trie[k] /\ trie[k].offset \in DOMAIN lists
              /\ lists'[trie[k].offset] = lists[trie[k].offset] \cup {size}
              /\ listsRead'[trie[k].offset] = listsRead[trie[k].offset]
         /\ k \notin DOMAIN trie =>
              /\ lists'[trie'[k].offset] = {size}
              /\ listsRead'[trie'[k].offset] = {}
         /\ \A j \in DOMAIN trie : j # k =>
              /\ trie'[j] = trie[j] /\ trie[j].offset # trie'[k].offset
              /\ trie[j].offset \in DOMAIN lists
              /\ lists'[trie[j].offset] = lists[trie[j].offset]
              /\ listsRead'[trie[j].offset] = listsRead[trie[j].offset]
<1> DEFINE o == trie'[k].offset
<1>1. /\ DOMAIN lists' = DOMAIN lists \cup {o}
      /\ k \in DOMAIN trie' /\ DOMAIN trie' = DOMAIN trie \cup {k}
      /\ \A j \in DOMAIN trie : trie'[j] = trie[j]
      /\ k \notin DOMAIN trie => o = terminals
      /\ \A z \in DOMAIN lists : z # o => lists'[z] = lists[z] /\ listsRead'[z] = listsRead[z]
      /\ lists'[o] = HitList(lists, o) \cup {size}
      /\ listsRead'[o] = HitList(listsRead, o)
  BY DEF AddEffect
<1>2. /\ DOMAIN lists = 0 .. dir - 1 /\ DOMAIN listsRead = DOMAIN lists
      /\ \A j \in DOMAIN trie : trie[j].offset \in Nat
      /\ terminals \in Nat /\ dir \in Nat /\ terminals <= dir
      /\ lists \in [DOMAIN lists -> SUBSET Record]
      /\ listsRead \in [DOMAIN lists -> SUBSET Record]
  BY Typed
<1>3. \A j \in DOMAIN trie : trie[j].offset \in DOMAIN lists /\ trie[j].offset < terminals
  BY <1>2 DEF ListsInv
<1>4. \A j \in DOMAIN trie : j # k => trie[j].offset # o
  BY <1>1, <1>2, <1>3 DEF ListsInv
<1>5. CASE k \in DOMAIN trie
  BY <1>1, <1>2, <1>3, <1>4, <1>5 DEF HitList
<1>6. CASE k \notin DOMAIN trie
  <2>1. o \in DOMAIN lists => lists[o] = {} /\ listsRead[o] = {}
    BY <1>1, <1>2, <1>3, <1>6 DEF ListsInv
  <2> QED BY <1>1, <1>2, <1>3, <1>4, <1>6, <2>1 DEF HitList
<1> QED BY <1>5, <1>6

LEMMA AddPreserves ==
  ASSUME IInv, NEW k \in Keyword, AddRecord(k)
  PROVE  IInv'
<1> DEFINE o == trie'[k].offset
           n == size
<1>1. AddEffect(k) /\ Shape' /\ Shape /\ ListsInv
  BY AddRecordEffect DEF IInv
<1>2. /\ o \in DOMAIN lists'
      /\ k \in DOMAIN trie =>
           /\ trie'[k] = trie[k] /\ trie[k].offset \in DOMAIN lists
           /\ lists'[trie[k].offset] = lists[trie[k].offset] \cup {n}
           /\ listsRead'[trie[k].offset] = listsRead[trie[k].offset]
      /\ k \notin DOMAIN trie => lists'[o] = {n} /\ listsRead'[o] = {}
      /\ \A j \in DOMAIN trie : j # k =>
           /\ trie'[j] = trie[j] /\ trie[j].offset # o
           /\ trie[j].offset \in DOMAIN lists
           /\ lists'[trie[j].offset] = lists[trie[j].offset]
           /\ listsRead'[trie[j].offset] = listsRead[trie[j].offset]
  BY <1>1, AddLists, Zenon
<1>3. /\ merging = "idle" /\ size' = size + 1 /\ DOMAIN content' = DOMAIN content \cup {n}
      /\ n \notin DOMAIN content
      /\ content'[n].key = k /\ content'[n].id = trie'[k].id
      /\ \A i \in DOMAIN content : content'[i] = content[i]
      /\ valid' = valid \cup {n}
      /\ k \in DOMAIN trie' /\ DOMAIN trie' = DOMAIN trie \cup {k}
      /\ k \in DOMAIN trie => terminals' = terminals
      /\ k \notin DOMAIN trie => terminals' = terminals + 1 /\ o = terminals
      /\ DOMAIN lists' = DOMAIN lists \cup {o}
      /\ \A z \in DOMAIN lists : z # o => lists'[z] = lists[z] /\ listsRead'[z] = listsRead[z]
      /\ toMerge' = toMerge \cup {<<o, k>>} /\ mergeRequired'
      /\ UNCHANGED <<emptyLeaves, trieRead, sizeRead, dirRead, merging, published, cache, reader>>
  BY <1>1 DEF AddEffect
<1>4. /\ valid \subseteq DOMAIN content /\ DOMAIN trieRead \subseteq Keyword
      /\ \A j \in DOMAIN trie : trie[j].offset \in Nat
      /\ terminals \in Nat /\ dir \in Nat /\ size \in Nat /\ terminals <= dir
      /\ lists \in [DOMAIN lists -> SUBSET Record]
      /\ DOMAIN content = 0 .. size - 1
  BY <1>1, Typed
<1> HIDE DEF o, n
<1>5. ListsInv'
  <2>1. \A j \in DOMAIN trie' : trie'[j].offset < terminals'
    BY <1>1, <1>2, <1>3, <1>4 DEF ListsInv, o
  <2>2. \A i, j \in DOMAIN trie' : trie'[i].offset = trie'[j].offset => i = j
    BY <1>1, <1>2, <1>3 DEF ListsInv, o
  <2>3. \A j \in DOMAIN trie' : \A i \in lists'[trie'[j].offset] :
          i \in DOMAIN content' /\ content'[i].key = j
    BY <1>1, <1>2, <1>3 DEF ListsInv, o
  <2>4. \A z \in DOMAIN lists' : listsRead'[z] \subseteq lists'[z]
    BY <1>1, <1>2, <1>3 DEF ListsInv, o
  <2>5. \A z \in DOMAIN lists' : lists'[z] = {} \/ \E j \in DOMAIN trie' : trie'[j].offset = z
    BY <1>1, <1>2, <1>3 DEF ListsInv, o
  <2>6. \A i \in valid' : /\ content'[i].key \in DOMAIN trie'
                          /\ i \in lists'[trie'[content'[i].key].offset]
    BY <1>1, <1>2, <1>3, <1>4 DEF ListsInv, o
  <2> QED BY <2>1, <2>2, <2>3, <2>4, <2>5, <2>6 DEF ListsInv
<1>6. PendingInv'
  <2>1. \A z \in DOMAIN lists', j \in Keyword :
          <<z, j>> \in toMerge' => j \in DOMAIN trie' /\ trie'[j].offset = z
    <3> SUFFICES ASSUME NEW z, NEW j \in Keyword, <<z, j>> \in toMerge'
                 PROVE  j \in DOMAIN trie' /\ trie'[j].offset = z
      OBVIOUS
    <3>1. CASE <<z, j>> = <<o, k>>
      BY <1>3, <3>1 DEF o
    <3>2. CASE <<z, j>> \in toMerge
      <4>1. z \in DOMAIN lists
        BY <1>1, <3>2 DEF Shape, TypeOK
      <4>2. j \in DOMAIN trie /\ trie[j].offset = z
        BY <3>2, <4>1 DEF IInv, PendingInv
      <4> QED BY <1>2, <1>3, <4>2
    <3> QED BY <1>3, <3>1, <3>2
  <2>2. \A j \in DOMAIN trie' : <<trie'[j].offset, j>> \notin toMerge' =>
          /\ listsRead'[trie'[j].offset] = lists'[trie'[j].offset]
          /\ lists'[trie'[j].offset] \subseteq valid'
          /\ lists'[trie'[j].offset] # {} \/ j \in emptyLeaves'
    BY <1>2, <1>3 DEF IInv, PendingInv, o
  <2>3. emptyLeaves = {}
    BY <1>3 DEF IInv, PendingInv
  <2> QED BY <1>3, <2>1, <2>2, <2>3 DEF PendingInv
<1>7. IdsInv'
  BY <1>2, <1>3, <1>4 DEF IInv, IdsInv, ListsInv
<1>8. PublishedInv'
  <2>1. published \subseteq DOMAIN content
    BY DEF IInv, PublishedInv
  <2>2. \A i \in published \cap valid :
          /\ content[i].key \in DOMAIN trieRead /\ content[i].key \in DOMAIN trie
          /\ i \in listsRead[trie[content[i].key].offset]
    BY DEF IInv, PublishedInv, IdsInv
  <2>3. \A i \in published \cap valid' :
          /\ content'[i].key \in DOMAIN trieRead
          /\ i \in listsRead'[trie'[content'[i].key].offset]
    BY <1>2, <1>3, <2>1, <2>2
  <2> QED BY <1>3, <2>1, <2>3 DEF IInv, PublishedInv
<1>9. ViewsInv'
  BY <1>2, <1>3 DEF IInv, ViewsInv
<1> QED BY <1>1, <1>5, <1>6, <1>7, <1>8, <1>9 DEF IInv

-----------------------------------------------------------------------------
(* Deleting a record, and the steps of the merge that publish sizes *)

LEMMA DeletePreserves ==
  ASSUME IInv, NEW i \in Record, DeleteRecord(i)
  PROVE  IInv'
<1> DEFINE k == content[i].key
           o == trie[k].offset
<1>1. /\ merging = "idle" /\ i \in valid
      /\ valid' = valid \ {i} /\ toMerge' = toMerge \cup {<<o, k>>} /\ mergeRequired' = TRUE
      /\ UNCHANGED <<content, trie, copied, terminals, reassign, emptyLeaves, lists,
                     trieRead, listsRead, sizeRead, dirRead, merging, published, cache, reader>>
      /\ size' = size /\ dir' = dir
  BY DEF DeleteRecord, LockFree, readVars, size, dir
<1>2. /\ valid \subseteq DOMAIN content /\ k \in Keyword /\ k \in DOMAIN trie
      /\ o \in DOMAIN lists
  <2>1. valid \subseteq DOMAIN content /\ k \in Keyword /\ k \in DOMAIN trie
    BY <1>1, Typed DEF IInv, ListsInv
  <2> QED BY <2>1, Typed DEF IInv, ListsInv
<1> HIDE DEF k, o
<1>3. Shape'
  <2>1. toMerge \subseteq (DOMAIN lists) \X Keyword
    BY DEF IInv, Shape, TypeOK
  <2>2. toMerge' \subseteq (DOMAIN lists) \X Keyword
    BY <1>1, <1>2, <2>1
  <2>3. TypeOK'
    BY <1>1, <2>2 DEF IInv, Shape, TypeOK, PartialFunction
  <2> QED BY <1>1, <2>3 DEF IInv, Shape
<1>4. ListsInv' /\ IdsInv' /\ ViewsInv'
  BY <1>1 DEF IInv, ListsInv, IdsInv, ViewsInv
<1>5. PublishedInv'
  BY <1>1 DEF IInv, PublishedInv
<1>6. PendingInv'
  <2>1. \A z \in DOMAIN lists, j \in Keyword :
          <<z, j>> \in toMerge' => j \in DOMAIN trie /\ trie[j].offset = z
    BY <1>1, <1>2 DEF IInv, PendingInv, o
  <2>2. \A j \in DOMAIN trie : <<trie[j].offset, j>> \notin toMerge' =>
          /\ listsRead[trie[j].offset] = lists[trie[j].offset]
          /\ lists[trie[j].offset] \subseteq valid \ {i}
          /\ lists[trie[j].offset] # {} \/ j \in emptyLeaves
    <3> SUFFICES ASSUME NEW j \in DOMAIN trie, <<trie[j].offset, j>> \notin toMerge'
                 PROVE  /\ listsRead[trie[j].offset] = lists[trie[j].offset]
                        /\ lists[trie[j].offset] \subseteq valid \ {i}
                        /\ lists[trie[j].offset] # {} \/ j \in emptyLeaves
      OBVIOUS
    <3>1. <<trie[j].offset, j>> \notin toMerge /\ j # k
      BY <1>1 DEF o
    <3>2. i \notin lists[trie[j].offset]
      BY <3>1 DEF IInv, ListsInv, k
    <3> QED BY <3>1, <3>2 DEF IInv, PendingInv
  <2>3. /\ \A j \in emptyLeaves : j \in DOMAIN trie /\ lists[trie[j].offset] = {}
        /\ emptyLeaves # {} => merging \in {"lists", "reassign", "trie", "remove"}
    BY DEF IInv, PendingInv
  <2> QED BY <1>1, <2>1, <2>2, <2>3 DEF PendingInv
<1> QED BY <1>3, <1>4, <1>5, <1>6 DEF IInv

LEMMA MergeBeginPreserves ==
  ASSUME IInv, MergeBegin
  PROVE  IInv'
<1>1. /\ merging = "idle" /\ mergeRequired /\ merging' = "forward"
      /\ cache' = [k \in Keyword |-> None]
      /\ UNCHANGED <<content, valid, trie, copied, terminals, reassign, emptyLeaves, lists,
                     toMerge, trieRead, listsRead, sizeRead, dirRead, mergeRequired,
                     published, reader>>
      /\ size' = size /\ dir' = dir
  BY DEF MergeBegin, LockFree, indexVars, readVars, size, dir
<1>2. Shape'
  <2>1. TypeOK'
    BY <1>1 DEF IInv, Shape, TypeOK, PartialFunction
  <2> QED BY <1>1, <2>1 DEF IInv, Shape
<1>3. ListsInv' /\ IdsInv' /\ ViewsInv' /\ PublishedInv' /\ PendingInv'
  BY <1>1 DEF IInv, ListsInv, IdsInv, ViewsInv, PublishedInv, PendingInv
<1> QED BY <1>2, <1>3 DEF IInv

LEMMA MergeForwardPreserves ==
  ASSUME IInv, MergeForward
  PROVE  IInv'
<1>1. /\ merging = "forward" /\ merging' = "directory" /\ sizeRead' = size
      /\ UNCHANGED <<content, valid, trie, copied, terminals, reassign, emptyLeaves, lists,
                     toMerge, trieRead, listsRead, dirRead, mergeRequired, published,
                     cache, reader>>
      /\ size' = size /\ dir' = dir
  BY DEF MergeForward, indexVars, size, dir
<1>2. size \in Nat /\ DOMAIN content = 0 .. size - 1
  BY DEF IInv, Shape
<1>3. Shape'
  <2>1. sizeRead' \in 0 .. size
    BY <1>1, <1>2
  <2>2. TypeOK'
    BY <1>1, <2>1 DEF IInv, Shape, TypeOK, PartialFunction
  <2> QED BY <1>1, <2>2 DEF IInv, Shape
<1>4. ListsInv' /\ IdsInv' /\ ViewsInv' /\ PendingInv'
  BY <1>1 DEF IInv, ListsInv, IdsInv, ViewsInv, PendingInv
<1>5. PublishedInv'
  BY <1>1, <1>2 DEF IInv, PublishedInv
<1> QED BY <1>3, <1>4, <1>5 DEF IInv

LEMMA MergeDirectoryPreserves ==
  ASSUME IInv, MergeDirectory
  PROVE  IInv'
<1>1. /\ merging = "directory" /\ merging' = "lists" /\ dirRead' = dir
      /\ UNCHANGED <<content, valid, trie, copied, terminals, reassign, emptyLeaves, lists,
                     toMerge, trieRead, listsRead, sizeRead, mergeRequired, published,
                     cache, reader>>
      /\ size' = size /\ dir' = dir
  BY DEF MergeDirectory, indexVars, size, dir
<1>2. dir \in Nat /\ dirRead \in 0 .. dir
  BY DEF IInv, Shape, TypeOK
<1>3. Shape'
  <2>1. dirRead' \in 0 .. dir
    BY <1>1, <1>2
  <2>2. TypeOK'
    BY <1>1, <2>1 DEF IInv, Shape, TypeOK, PartialFunction
  <2> QED BY <1>1, <2>2 DEF IInv, Shape
<1>4. ListsInv' /\ IdsInv' /\ PendingInv'
  BY <1>1 DEF IInv, ListsInv, IdsInv, PendingInv
<1>5. PublishedInv'
  <2>1. \A k \in DOMAIN trieRead : trieRead[k].offset < dir
    BY <1>2, Typed DEF IInv, PublishedInv
  <2> QED BY <1>1, <2>1 DEF IInv, PublishedInv
<1>6. ViewsInv'
  <2>1. \A r \in Reader : reader[r].pc \in HasTrie =>
          \A k \in DOMAIN reader[r].trie :
            /\ reader[r].trie[k].offset = trie[k].offset /\ trie[k].offset \in Nat
            /\ trie[k].offset < dirRead
    BY Typed DEF IInv, ViewsInv
  <2>2. \A r \in Reader : reader[r].pc \in HasTrie =>
          \A k \in DOMAIN reader[r].trie : reader[r].trie[k].offset < dir
    BY <1>2, <2>1
  <2> QED BY <1>1, <2>2 DEF IInv, ViewsInv
<1> QED BY <1>3, <1>4, <1>5, <1>6 DEF IInv

-----------------------------------------------------------------------------
(* Merging the lists *)

LEMMA MergeListPreserves ==
  ASSUME IInv, NEW o \in DOMAIN lists, NEW k \in Keyword, MergeList(o, k)
  PROVE  IInv'
<1> DEFINE kept == lists[o] \cap valid
<1>1. /\ merging = "lists" /\ <<o, k>> \in toMerge
      /\ lists' = [lists EXCEPT ![o] = lists[o] \cap valid]
      /\ listsRead' = [listsRead EXCEPT ![o] = kept]
      /\ emptyLeaves' = (IF kept = {} THEN emptyLeaves \cup {k} ELSE emptyLeaves)
      /\ toMerge' = toMerge \ {<<o, k>>}
      /\ UNCHANGED <<content, valid, trie, copied, terminals, reassign,
                     trieRead, sizeRead, dirRead, mergeRequired, merging, published,
                     cache, reader>>
  BY DEF MergeList, mergeVars
<1>2. /\ lists \in [DOMAIN lists -> SUBSET Record] /\ kept \in SUBSET Record
      /\ listsRead \in [DOMAIN lists -> SUBSET Record]
  BY Typed DEF IInv
<1>3. k \in DOMAIN trie /\ trie[k].offset = o
  BY <1>1 DEF IInv, PendingInv
<1> HIDE DEF kept
<1>4. /\ DOMAIN lists' = DOMAIN lists /\ lists' \in [DOMAIN lists -> SUBSET Record]
      /\ listsRead' \in [DOMAIN lists -> SUBSET Record]
      /\ lists'[o] = kept /\ listsRead'[o] = kept
      /\ \A z \in DOMAIN lists : z # o => lists'[z] = lists[z] /\ listsRead'[z] = listsRead[z]
      /\ size' = size /\ dir' = dir
  BY <1>1, <1>2 DEF kept, size, dir
<1>5. \A j \in DOMAIN trie : /\ trie[j].offset \in DOMAIN lists
                             /\ j # k => trie[j].offset # o
  BY <1>3, Typed DEF IInv, ListsInv
<1>6. Shape'
  <2>1. emptyLeaves' \subseteq Keyword
    BY <1>1 DEF IInv, Shape, TypeOK
  <2>2. toMerge' \subseteq (DOMAIN lists') \X Keyword
    BY <1>1, <1>4 DEF IInv, Shape, TypeOK
  <2>3. PartialFunction(lists, Nat, SUBSET Record)'
    BY <1>4 DEF IInv, Shape, TypeOK, PartialFunction
  <2>4. TypeOK'
    BY <1>1, <1>4, <2>1, <2>2, <2>3 DEF IInv, Shape, TypeOK, PartialFunction
  <2> QED BY <1>1, <1>4, <2>4 DEF IInv, Shape
<1>7. ListsInv'
  <2>1. \A j \in DOMAIN trie : \A i \in lists'[trie[j].offset] :
          i \in DOMAIN content /\ content[i].key = j
    BY <1>3, <1>4, <1>5 DEF IInv, ListsInv, kept
  <2>2. \A z \in DOMAIN lists : listsRead'[z] \subseteq lists'[z]
    BY <1>4 DEF IInv, ListsInv
  <2>3. \A z \in DOMAIN lists : lists'[z] = {} \/ \E j \in DOMAIN trie : trie[j].offset = z
    BY <1>3, <1>4 DEF IInv, ListsInv
  <2>4. \A i \in valid : /\ content[i].key \in DOMAIN trie
                         /\ i \in lists'[trie[content[i].key].offset]
    BY <1>4, <1>5 DEF IInv, ListsInv, kept
  <2> QED BY <1>1, <1>4, <2>1, <2>2, <2>3, <2>4 DEF IInv, ListsInv
<1>8. PendingInv'
  <2>1. \A z \in DOMAIN lists, j \in Keyword :
          <<z, j>> \in toMerge' => j \in DOMAIN trie /\ trie[j].offset = z
    BY <1>1 DEF IInv, PendingInv
  <2>2. \A j \in DOMAIN trie : <<trie[j].offset, j>> \notin toMerge' =>
          /\ listsRead'[trie[j].offset] = lists'[trie[j].offset]
          /\ lists'[trie[j].offset] \subseteq valid
          /\ lists'[trie[j].offset] # {} \/ j \in emptyLeaves'
    <3> SUFFICES ASSUME NEW j \in DOMAIN trie, <<trie[j].offset, j>> \notin toMerge'
                 PROVE  /\ listsRead'[trie[j].offset] = lists'[trie[j].offset]
                        /\ lists'[trie[j].offset] \subseteq valid
                        /\ lists'[trie[j].offset] # {} \/ j \in emptyLeaves'
      OBVIOUS
    <3>1. CASE j = k
      BY <1>1, <1>3, <1>4, <3>1 DEF kept
    <3>2. CASE j # k
      <4>1. <<trie[j].offset, j>> \notin toMerge
        BY <1>1, <3>2
      <4> QED BY <1>1, <1>4, <1>5, <3>2, <4>1 DEF IInv, PendingInv
    <3> QED BY <3>1, <3>2
  <2>3. \A j \in emptyLeaves' : j \in DOMAIN trie /\ lists'[trie[j].offset] = {}
    BY <1>1, <1>3, <1>4, <1>5 DEF IInv, PendingInv, kept
  <2> QED BY <1>1, <1>4, <2>1, <2>2, <2>3 DEF PendingInv
<1>9. IdsInv' /\ ViewsInv'
  BY <1>1 DEF IInv, IdsInv, ViewsInv
<1>10. PublishedInv'
  <2>1. \A i \in published \cap valid :
          /\ content[i].key \in DOMAIN trieRead
          /\ i \in listsRead'[trie[content[i].key].offset]
    <3> SUFFICES ASSUME NEW i \in published \cap valid
                 PROVE  /\ content[i].key \in DOMAIN trieRead
                        /\ i \in listsRead'[trie[content[i].key].offset]
      OBVIOUS
    <3>1. /\ content[i].key \in DOMAIN trieRead
          /\ i \in listsRead[trie[content[i].key].offset]
          /\ content[i].key \in DOMAIN trie /\ i \in lists[trie[content[i].key].offset]
      BY DEF IInv, PublishedInv, ListsInv
    <3> QED BY <1>3, <1>4, <1>5, <3>1 DEF kept
  <2> QED BY <1>1, <1>4, <2>1 DEF IInv, PublishedInv
<1> QED BY <1>6, <1>7, <1>8, <1>9, <1>10 DEF IInv

LEMMA ListsMergedPreserves ==
  ASSUME IInv, ListsMerged
  PROVE  IInv'
<1>1. /\ merging = "lists" /\ toMerge = {} /\ merging' \in {"trie", "reassign"}
      /\ UNCHANGED <<content, valid, trie, copied, terminals, reassign, emptyLeaves, lists,
                     toMerge, trieRead, listsRead, sizeRead, dirRead, mergeRequired,
                     published, cache, reader>>
      /\ size' = size /\ dir' = dir
  BY DEF ListsMerged, indexVars, readVars, size, dir
<1>2. Shape'
  <2>1. TypeOK'
    BY <1>1 DEF IInv, Shape, TypeOK, PartialFunction
  <2> QED BY <1>1, <2>1 DEF IInv, Shape
<1>3. ListsInv' /\ IdsInv' /\ ViewsInv' /\ PublishedInv' /\ PendingInv'
  BY <1>1 DEF IInv, ListsInv, IdsInv, ViewsInv, PublishedInv, PendingInv
<1> QED BY <1>2, <1>3 DEF IInv

-----------------------------------------------------------------------------
(* New ids, the trie, and the leaves that go *)

LEMMA ReassignPreserves ==
  ASSUME IInv, ReassignKeywordIds
  PROVE  IInv'
<1>1. /\ merging = "reassign" /\ merging' = "trie" /\ ExclusiveLock /\ reassign' = {}
      /\ UNCHANGED <<valid, copied, terminals, emptyLeaves, lists, toMerge,
                     listsRead, sizeRead, dirRead, mergeRequired, published, cache, reader>>
      /\ dir' = dir
  BY DEF ReassignKeywordIds, dir
<1>2. PICK S \in SUBSET DOMAIN trie, ids \in [DOMAIN trie -> 0 .. MaxId] :
        /\ \A k \in DOMAIN trie \ S : ids[k] = trie[k].id
        /\ trie' = NewIds(trie, S, ids)
        /\ trieRead' = NewIds(trieRead, S \ copied, ids)
        /\ content' = RewriteForwardLists(S, ids)
  BY DEF ReassignKeywordIds
<1>3. /\ content \in [DOMAIN content -> [key : Keyword, id : Nat]]
      /\ \A i \in DOMAIN content : content[i].key \in Keyword /\ content[i].id \in Nat
      /\ valid \subseteq DOMAIN content
      /\ DOMAIN trie \subseteq Keyword /\ trie \in [DOMAIN trie -> Node]
      /\ DOMAIN trieRead \subseteq Keyword /\ trieRead \in [DOMAIN trieRead -> Node]
      /\ DOMAIN trieRead \subseteq DOMAIN trie
      /\ \A k \in DOMAIN trie : ids[k] \in Nat
  BY Typed, SearchViewsAssumption DEF IInv, IdsInv
<1>4. /\ DOMAIN trie' = DOMAIN trie /\ trie' \in [DOMAIN trie -> Node]
      /\ \A k \in DOMAIN trie : trie'[k].offset = trie[k].offset /\ trie'[k].id = ids[k]
  <2>1. trie' = [k \in DOMAIN trie |->
                   IF k \in S THEN [trie[k] EXCEPT !.id = ids[k]] ELSE trie[k]]
    BY <1>2 DEF NewIds
  <2>2. \A k \in DOMAIN trie : /\ [trie[k] EXCEPT !.id = ids[k]] \in Node
                               /\ [trie[k] EXCEPT !.id = ids[k]].offset = trie[k].offset
                               /\ [trie[k] EXCEPT !.id = ids[k]].id = ids[k]
    BY <1>3 DEF Node
  <2> QED BY <1>2, <1>3, <2>1, <2>2
<1>5. /\ DOMAIN trieRead' = DOMAIN trieRead /\ trieRead' \in [DOMAIN trieRead -> Node]
      /\ \A k \in DOMAIN trieRead : trieRead'[k].offset = trieRead[k].offset
  <2>1. trieRead' = [k \in DOMAIN trieRead |->
           IF k \in S \ copied THEN [trieRead[k] EXCEPT !.id = ids[k]] ELSE trieRead[k]]
    BY <1>2 DEF NewIds
  <2>2. \A k \in DOMAIN trieRead :
          /\ [trieRead[k] EXCEPT !.id = ids[k]] \in Node
          /\ [trieRead[k] EXCEPT !.id = ids[k]].offset = trieRead[k].offset
    BY <1>3 DEF Node
  <2> QED BY <1>2, <1>3, <2>1, <2>2
<1>6. toMerge = {}
  BY <1>1 DEF IInv, PendingInv
<1>7. \A i \in valid : /\ content[i].key \in DOMAIN trie
                       /\ i \in listsRead[trie[content[i].key].offset]
                       /\ content[i].id = trie[content[i].key].id
  BY <1>6 DEF IInv, PendingInv, ListsInv, IdsInv
<1>8. /\ DOMAIN content' = DOMAIN content
      /\ content' \in [DOMAIN content -> [key : Keyword, id : Nat]]
      /\ \A i \in DOMAIN content : content'[i].key = content[i].key
      /\ \A i \in valid : content'[i].id = ids[content[i].key]
  <2>1. content' = [i \in DOMAIN content |->
          IF \E k \in S : i \in listsRead[trie[k].offset]
          THEN IF i \in valid THEN [content[i] EXCEPT !.id = ids[content[i].key]] ELSE content[i]
          ELSE content[i]]
    BY <1>2 DEF RewriteForwardLists, ReassignForwardList, ReorderForwardList
  <2>2. \A i \in valid :
          /\ [content[i] EXCEPT !.id = ids[content[i].key]] \in [key : Keyword, id : Nat]
          /\ [content[i] EXCEPT !.id = ids[content[i].key]].key = content[i].key
          /\ [content[i] EXCEPT !.id = ids[content[i].key]].id = ids[content[i].key]
    BY <1>3, <1>7
  <2>3. \A i \in DOMAIN content : content'[i] \in [key : Keyword, id : Nat]
                                  /\ content'[i].key = content[i].key
    BY <1>3, <2>1, <2>2
  <2>4. ASSUME NEW i \in valid PROVE content'[i].id = ids[content[i].key]
    <3>1. CASE content[i].key \in S
      BY <1>3, <1>7, <2>1, <2>2, <3>1
    <3>2. CASE content[i].key \notin S
      <4>1. content[i].id = ids[content[i].key]
        BY <1>2, <1>7, <3>2
      <4> QED BY <1>3, <2>1, <2>2, <4>1
    <3> QED BY <3>1, <3>2
  <2>5. content' = [i \in DOMAIN content |-> content'[i]] /\ DOMAIN content' = DOMAIN content
    BY <2>1
  <2> QED BY <2>3, <2>4, <2>5
<1>9. size' = size
  BY <1>8 DEF size
<1>10. Shape'
  <2>1. TypeOK'
    BY <1>1, <1>4, <1>5, <1>8, <1>9 DEF IInv, Shape, TypeOK, PartialFunction
  <2> QED BY <1>1, <1>8, <1>9, <2>1 DEF IInv, Shape
<1>11. ListsInv'
  <2>1. \A k \in DOMAIN trie : trie'[k].offset = trie[k].offset
    BY <1>4
  <2>2. \A i \in valid : content'[i].key = content[i].key
    BY <1>3, <1>8
  <2>3. \A k \in DOMAIN trie : \A i \in lists[trie'[k].offset] :
          i \in DOMAIN content' /\ content'[i].key = k
    BY <1>8, <2>1 DEF IInv, ListsInv
  <2>4. \A o \in DOMAIN lists : lists[o] = {} \/ \E k \in DOMAIN trie : trie'[k].offset = o
    BY <2>1 DEF IInv, ListsInv
  <2>5. \A i \in valid : /\ content'[i].key \in DOMAIN trie
                         /\ i \in lists[trie'[content'[i].key].offset]
    BY <2>1, <2>2 DEF IInv, ListsInv
  <2>6. /\ \A k \in DOMAIN trie : trie'[k].offset < terminals
        /\ \A j, k \in DOMAIN trie : trie'[j].offset = trie'[k].offset => j = k
        /\ \A o \in DOMAIN lists : listsRead[o] \subseteq lists[o]
    BY <2>1 DEF IInv, ListsInv
  <2>7. DOMAIN trie' = DOMAIN trie
    BY <1>4
  <2> QED BY <1>1, <2>3, <2>4, <2>5, <2>6, <2>7 DEF ListsInv
<1>12. PendingInv'
  BY <1>1, <1>4 DEF IInv, PendingInv
<1>13. IdsInv'
  <2>1. \A k \in DOMAIN trieRead : k \in DOMAIN trie /\ trieRead[k].offset = trie[k].offset
    BY DEF IInv, IdsInv
  <2>2. \A i \in valid : content'[i].key = content[i].key /\ content'[i].id = ids[content[i].key]
    BY <1>3, <1>8
  <2> QED BY <1>1, <1>4, <1>5, <1>7, <2>1, <2>2 DEF IdsInv
<1>14. PublishedInv'
  BY <1>1, <1>3, <1>4, <1>5, <1>7, <1>8, <1>9 DEF IInv, PublishedInv
<1>15. ViewsInv'
  BY <1>1 DEF ViewsInv, ExclusiveLock, Searching, HasTrie
<1> QED BY <1>10, <1>11, <1>12, <1>13, <1>14, <1>15 DEF IInv

LEMMA MergeTriePreserves ==
  ASSUME IInv, MergeTrie
  PROVE  IInv'
<1>1. /\ merging = "trie" /\ merging' = (IF emptyLeaves = {} THEN "idle" ELSE "remove")
      /\ trieRead' = trie /\ copied' = {} /\ published' = DOMAIN content
      /\ mergeRequired' = (emptyLeaves # {})
      /\ UNCHANGED <<content, valid, trie, terminals, reassign, emptyLeaves, lists, toMerge,
                     listsRead, sizeRead, dirRead, cache, reader>>
      /\ size' = size /\ dir' = dir
  BY DEF MergeTrie, size, dir
<1>2. toMerge = {} /\ sizeRead = size /\ dirRead = dir
  BY <1>1 DEF IInv, PendingInv, PublishedInv
<1>3. /\ DOMAIN content \subseteq Record /\ DOMAIN content = 0 .. size - 1 /\ size \in Nat
      /\ terminals \in Nat /\ dir \in Nat /\ terminals <= dir
      /\ \A k \in DOMAIN trie : trie[k].offset \in Nat
      /\ valid \subseteq DOMAIN content
  BY Typed DEF IInv
<1>4. Shape'
  <2>1. TypeOK'
    BY <1>1, <1>3 DEF IInv, Shape, TypeOK, PartialFunction
  <2> QED BY <1>1, <2>1 DEF IInv, Shape
<1>5. ListsInv' /\ IdsInv'
  BY <1>1 DEF IInv, ListsInv, IdsInv
<1>6. PendingInv'
  BY <1>1, <1>2 DEF IInv, PendingInv
<1>7. PublishedInv'
  <2>1. \A i \in valid : /\ content[i].key \in DOMAIN trie
                         /\ i \in listsRead[trie[content[i].key].offset]
    BY <1>2 DEF IInv, PendingInv, ListsInv
  <2>2. \A k \in DOMAIN trie : trie[k].offset < dir
    BY <1>3 DEF IInv, ListsInv
  <2> QED BY <1>1, <1>2, <1>3, <2>1, <2>2 DEF PublishedInv
<1>8. ViewsInv'
  BY <1>1 DEF IInv, ViewsInv
<1> QED BY <1>4, <1>5, <1>6, <1>7, <1>8 DEF IInv

LEMMA RemovePreserves ==
  ASSUME IInv, RemoveDeletedNodes
  PROVE  IInv'
<1>1. /\ merging = "remove" /\ merging' = "idle" /\ ExclusiveLock
      /\ trie' = Without(trie, emptyLeaves) /\ trieRead' = Without(trie, emptyLeaves)
      /\ terminals' = (IF DOMAIN trie \subseteq emptyLeaves THEN 0 ELSE terminals)
      /\ emptyLeaves' = {} /\ cache' = [k \in Keyword |-> None] /\ mergeRequired' = FALSE
      /\ UNCHANGED <<content, valid, copied, reassign, lists, toMerge,
                     listsRead, sizeRead, dirRead, published, reader>>
      /\ size' = size /\ dir' = dir
  BY DEF RemoveDeletedNodes, size, dir
<1>2. toMerge = {} /\ sizeRead = size /\ dirRead = dir
  BY <1>1 DEF IInv, PendingInv, PublishedInv
<1>3. /\ terminals \in Nat /\ dir \in Nat /\ terminals <= dir
      /\ DOMAIN trie \subseteq Keyword /\ trie \in [DOMAIN trie -> Node]
      /\ \A k \in DOMAIN trie : trie[k].offset \in Nat
      /\ valid \subseteq DOMAIN content
  BY Typed DEF IInv
<1>4. /\ DOMAIN trie' = DOMAIN trie \ emptyLeaves /\ trieRead' = trie'
      /\ trie' \in [DOMAIN trie' -> Node]
      /\ \A k \in DOMAIN trie' : trie'[k] = trie[k]
  BY <1>1, <1>3 DEF Without
<1>5. \A k \in emptyLeaves : k \in DOMAIN trie /\ lists[trie[k].offset] = {}
  BY DEF IInv, PendingInv
<1>6. \A i \in valid : /\ content[i].key \in DOMAIN trie'
                       /\ i \in lists[trie[content[i].key].offset]
  <2>1. \A i \in valid : /\ content[i].key \in DOMAIN trie
                         /\ i \in lists[trie[content[i].key].offset]
    BY DEF IInv, ListsInv
  <2> QED BY <1>4, <1>5, <2>1
<1>7. terminals' \in Nat /\ terminals' <= dir
  BY <1>1, <1>3
<1>8. Shape'
  <2>1. TypeOK'
    BY <1>1, <1>3, <1>4, <1>7 DEF IInv, Shape, TypeOK, PartialFunction
  <2> QED BY <1>1, <1>7, <2>1 DEF IInv, Shape
<1>9. ListsInv'
  <2>1. \A k \in DOMAIN trie' : trie'[k].offset < terminals'
    BY <1>1, <1>4 DEF IInv, ListsInv
  <2>2. \A z \in DOMAIN lists : lists[z] = {} \/ \E k \in DOMAIN trie' : trie'[k].offset = z
    BY <1>4, <1>5 DEF IInv, ListsInv
  <2>3. \A i \in valid : /\ content[i].key \in DOMAIN trie'
                         /\ i \in lists[trie'[content[i].key].offset]
    BY <1>4, <1>6
  <2>4. /\ \A j, k \in DOMAIN trie' : trie'[j].offset = trie'[k].offset => j = k
        /\ \A k \in DOMAIN trie' : \A i \in lists[trie'[k].offset] :
             i \in DOMAIN content /\ content[i].key = k
        /\ \A o \in DOMAIN lists : listsRead[o] \subseteq lists[o]
    BY <1>4 DEF IInv, ListsInv
  <2> QED BY <1>1, <2>1, <2>2, <2>3, <2>4 DEF ListsInv
<1>10. PendingInv'
  BY <1>1, <1>2, <1>4 DEF IInv, PendingInv
<1>11. IdsInv'
  BY <1>1, <1>4, <1>6 DEF IInv, IdsInv
<1>12. PublishedInv'
  <2>1. \A i \in valid : i \in listsRead[trie[content[i].key].offset]
    BY <1>2 DEF IInv, PendingInv, ListsInv
  <2>2. \A k \in DOMAIN trie' : trie'[k].offset < dirRead
    BY <1>2, <1>3, <1>4 DEF IInv, ListsInv
  <2> QED BY <1>1, <1>4, <1>6, <2>1, <2>2 DEF IInv, PublishedInv
<1>13. ViewsInv'
  BY <1>1 DEF ViewsInv, ExclusiveLock, Searching, HasTrie
<1> QED BY <1>8, <1>9, <1>10, <1>11, <1>12, <1>13 DEF IInv

-----------------------------------------------------------------------------
(* Searches *)

\* What no step of a search changes.
SearchFrame(r) ==
  /\ reader' \in [Reader -> SearchRecord]
  /\ \A q \in Reader : q # r => reader'[q] = reader[q]
  /\ UNCHANGED <<content, valid, trie, copied, terminals, reassign, emptyLeaves, lists,
                 toMerge, trieRead, listsRead, sizeRead, dirRead, mergeRequired, merging,
                 published>>
  /\ size' = size /\ dir' = dir

Entered(r) ==
  /\ reader'[r].pc = "enter" /\ reader'[r].owed = published \cap valid
  /\ cache' = cache

TookTrie(r) ==
  /\ reader[r].pc = "enter" /\ reader'[r].pc = "trie"
  /\ reader'[r].trie = trieRead /\ reader'[r].owed = reader[r].owed
  /\ cache' = cache

TookForward(r) ==
  /\ reader[r].pc = "trie" /\ reader'[r].pc = "forward"
  /\ reader'[r].size = sizeRead
  /\ reader'[r].trie = reader[r].trie /\ reader'[r].owed = reader[r].owed
  /\ cache' = cache

TookDirectory(r) ==
  /\ reader[r].pc = "forward" /\ reader'[r].pc = "views"
  /\ reader'[r].dir = dirRead
  /\ reader'[r].trie = reader[r].trie /\ reader'[r].owed = reader[r].owed
  /\ reader'[r].size = reader[r].size
  /\ cache' = cache

Answered(r, k) ==
  /\ reader[r].pc = "views" /\ reader'[r].pc = "answer"
  /\ reader'[r].key = k
  /\ reader'[r].trie = reader[r].trie /\ reader'[r].owed = reader[r].owed
  /\ reader'[r].size = reader[r].size
  /\ \/ /\ cache[k] # None
        /\ reader'[r].answer = cache[k] /\ cache' = cache
     \/ /\ cache[k] = None
        /\ reader'[r].answer \in {Scan(r, k), Probe(r, k)}
        /\ cache' = IF CacheResults THEN [cache EXCEPT ![k] = reader'[r].answer] ELSE cache

Left(r) == reader'[r].pc = "out" /\ reader'[r].owed = {} /\ cache' = cache

SearchEffect(r) ==
  \/ Entered(r) \/ TookTrie(r) \/ TookForward(r) \/ TookDirectory(r)
  \/ \E k \in Keyword : Answered(r, k)
  \/ Left(r)

LEMMA FrameLemma ==
  ASSUME Shape, NEW r \in Reader, NEW s \in SearchRecord, reader' = [reader EXCEPT ![r] = s],
         UNCHANGED writersUnchanged
  PROVE  SearchFrame(r) /\ reader'[r] = s
<1>1. reader \in [Reader -> SearchRecord]
  BY DEF Shape
<1>2. /\ UNCHANGED <<content, valid, trie, copied, terminals, reassign, emptyLeaves, lists,
                     toMerge, trieRead, listsRead, sizeRead, dirRead, mergeRequired, merging,
                     published>>
      /\ size' = size /\ dir' = dir
  BY DEF writersUnchanged, indexVars, readVars, mergeVars, size, dir
<1> QED BY <1>1, <1>2 DEF SearchFrame

LEMMA AnswerType ==
  ASSUME Shape, NEW r \in Reader, NEW k \in Keyword
  PROVE  Scan(r, k) \in SUBSET Record /\ Probe(r, k) \in SUBSET Record
<1>1. valid \subseteq Record
  BY Typed
<1>2. Scan(r, k) \subseteq valid
  BY DEF Scan
<1>3. Probe(r, k) \subseteq valid
  BY DEF Probe
<1> QED BY <1>1, <1>2, <1>3

LEMMA SearchLemma ==
  ASSUME Shape, NEW r \in Reader, Search(r)
  PROVE  SearchFrame(r) /\ SearchEffect(r)
<1> DEFINE s == reader[r]
<1>1. reader \in [Reader -> SearchRecord] /\ s \in SearchRecord
  BY DEF Shape
<1>2. /\ published \subseteq Record /\ valid \subseteq Record
      /\ trieRead \in Tries /\ sizeRead \in Nat /\ dirRead \in Nat
      /\ cache \in [Keyword -> {None} \cup SUBSET Record]
  BY Typed, TriesType DEF Shape, TypeOK
<1>3. NoSearch \in SearchRecord
  <2>1. <<>> \in Tries
    BY EmptyFunction, TriesType DEF PartialFunction
  <2> QED BY <2>1 DEF NoSearch, SearchRecord, Pc
<1>4. CASE ReaderPreEnter(r)
  <2> DEFINE e == [NoSearch EXCEPT !.pc = "enter", !.owed = published \cap valid]
  <2>1. e \in SearchRecord /\ e.pc = "enter" /\ e.owed = published \cap valid
    BY <1>2, <1>3 DEF SearchRecord, Pc
  <2>2. reader' = [reader EXCEPT ![r] = e] /\ UNCHANGED writersUnchanged /\ cache' = cache
    BY <1>4 DEF ReaderPreEnter
  <2> HIDE DEF e
  <2> QED BY <2>1, <2>2, FrameLemma DEF SearchEffect, Entered
<1>5. CASE GetTrie(r)
  <2> DEFINE e == [s EXCEPT !.pc = "trie", !.trie = trieRead]
  <2>1. e \in SearchRecord /\ e.pc = "trie" /\ e.trie = trieRead /\ e.owed = s.owed
    BY <1>1, <1>2 DEF SearchRecord, Pc
  <2>2. /\ reader' = [reader EXCEPT ![r] = e] /\ UNCHANGED writersUnchanged /\ cache' = cache
        /\ s.pc = "enter"
    BY <1>5 DEF GetTrie
  <2> HIDE DEF e
  <2> QED BY <2>1, <2>2, FrameLemma DEF SearchEffect, TookTrie
<1>6. CASE GetForward(r)
  <2> DEFINE e == [s EXCEPT !.pc = "forward", !.size = sizeRead]
  <2>1. /\ e \in SearchRecord /\ e.pc = "forward" /\ e.size = sizeRead
        /\ e.trie = s.trie /\ e.owed = s.owed
    BY <1>1, <1>2 DEF SearchRecord, Pc
  <2>2. /\ reader' = [reader EXCEPT ![r] = e] /\ UNCHANGED writersUnchanged /\ cache' = cache
        /\ s.pc = "trie"
    BY <1>6 DEF GetForward
  <2> HIDE DEF e
  <2> QED BY <2>1, <2>2, FrameLemma DEF SearchEffect, TookForward
<1>7. CASE GetDirectory(r)
  <2> DEFINE e == [s EXCEPT !.pc = "views", !.dir = dirRead]
  <2>1. /\ e \in SearchRecord /\ e.pc = "views" /\ e.dir = dirRead
        /\ e.trie = s.trie /\ e.owed = s.owed /\ e.size = s.size
    BY <1>1, <1>2 DEF SearchRecord, Pc
  <2>2. /\ reader' = [reader EXCEPT ![r] = e] /\ UNCHANGED writersUnchanged /\ cache' = cache
        /\ s.pc = "forward"
    BY <1>7 DEF GetDirectory
  <2> HIDE DEF e
  <2> QED BY <2>1, <2>2, FrameLemma DEF SearchEffect, TookDirectory
<1>8. ASSUME NEW k \in Keyword, NEW records \in SUBSET Record, Answer(r, k, records),
             UNCHANGED writersUnchanged
      PROVE  /\ SearchFrame(r) /\ reader'[r].pc = "answer" /\ reader'[r].key = k
             /\ reader'[r].answer = records
             /\ reader'[r].trie = s.trie /\ reader'[r].owed = s.owed /\ reader'[r].size = s.size
  <2> DEFINE e == [s EXCEPT !.pc = "answer", !.key = k, !.answer = records]
  <2>1. /\ e \in SearchRecord /\ e.pc = "answer" /\ e.key = k /\ e.answer = records
        /\ e.trie = s.trie /\ e.owed = s.owed /\ e.size = s.size
    BY <1>1 DEF SearchRecord, Pc
  <2>2. reader' = [reader EXCEPT ![r] = e]
    BY <1>8 DEF Answer
  <2> HIDE DEF e
  <2> QED BY <1>8, <2>1, <2>2, FrameLemma
<1>9. CASE \E k \in Keyword : CacheHit(r, k)
  <2>1. PICK k \in Keyword : CacheHit(r, k)
    BY <1>9
  <2>2. cache[k] \in SUBSET Record /\ cache[k] # None /\ s.pc = "views"
        /\ Answer(r, k, cache[k]) /\ UNCHANGED writersUnchanged /\ cache' = cache
    BY <1>2, <2>1 DEF CacheHit
  <2> QED BY <1>8, <2>2 DEF SearchEffect, Answered
<1>10. CASE \E k \in Keyword : Evaluate(r, k)
  <2>1. PICK k \in Keyword : Evaluate(r, k)
    BY <1>10
  <2>2. PICK records \in {Scan(r, k), Probe(r, k)} :
          /\ Answer(r, k, records)
          /\ cache' = IF CacheResults THEN [cache EXCEPT ![k] = records] ELSE cache
    BY <2>1 DEF Evaluate
  <2>3. s.pc = "views" /\ cache[k] = None /\ UNCHANGED writersUnchanged
    BY <2>1 DEF Evaluate
  <2>4. records \in SUBSET Record
    BY AnswerType
  <2>5. /\ SearchFrame(r) /\ reader'[r].pc = "answer" /\ reader'[r].key = k
        /\ reader'[r].answer = records
        /\ reader'[r].trie = s.trie /\ reader'[r].owed = s.owed /\ reader'[r].size = s.size
    BY <1>8, <2>2, <2>3, <2>4
  <2> QED BY <2>2, <2>3, <2>5 DEF SearchEffect, Answered
<1>11. CASE ReaderPreExit(r)
  <2>1. reader' = [reader EXCEPT ![r] = NoSearch] /\ UNCHANGED writersUnchanged /\ cache' = cache
    BY <1>11 DEF ReaderPreExit
  <2>2. NoSearch.pc = "out" /\ NoSearch.owed = {}
    BY DEF NoSearch
  <2> QED BY <1>3, <2>1, <2>2, FrameLemma DEF SearchEffect, Left
<1> QED BY <1>4, <1>5, <1>6, <1>7, <1>9, <1>10, <1>11 DEF Search

LEMMA SearchPreserves ==
  ASSUME IInv, NEW r \in Reader, Search(r)
  PROVE  IInv'
<1>1. SearchFrame(r) /\ SearchEffect(r) /\ Shape
  BY SearchLemma DEF IInv
<1>2. /\ reader' \in [Reader -> SearchRecord]
      /\ \A q \in Reader : q # r => reader'[q] = reader[q]
      /\ UNCHANGED <<content, valid, trie, copied, terminals, reassign, emptyLeaves, lists,
                     toMerge, trieRead, listsRead, sizeRead, dirRead, mergeRequired, merging,
                     published>>
      /\ size' = size /\ dir' = dir
  BY <1>1 DEF SearchFrame
<1>3. cache' \in [Keyword -> {None} \cup SUBSET Record]
  <2>1. cache \in [Keyword -> {None} \cup SUBSET Record]
    BY <1>1 DEF Shape, TypeOK
  <2>2. CASE cache' = cache
    BY <2>1, <2>2
  <2>3. CASE \E k \in Keyword : Answered(r, k)
    <3>1. reader'[r].answer \in SUBSET Record
      BY <1>2 DEF SearchRecord
    <3> QED BY <2>1, <2>3, <3>1 DEF Answered
  <2> QED
    BY <1>1, <2>2, <2>3 DEF SearchEffect, Entered, TookTrie, TookForward, TookDirectory, Left
<1>4. Shape'
  <2>1. \A q \in Reader : /\ reader'[q].pc \in Pc
                          /\ PartialFunction(reader'[q].trie, Keyword, Node)
                          /\ reader'[q].answer \subseteq Record
    BY <1>2, TriesType DEF SearchRecord
  <2>2. TypeOK'
    BY <1>1, <1>2, <1>3, <2>1 DEF Shape, TypeOK, PartialFunction
  <2> QED BY <1>1, <1>2, <2>2 DEF Shape
<1>5. ListsInv' /\ PendingInv' /\ IdsInv' /\ PublishedInv'
  BY <1>2 DEF IInv, ListsInv, PendingInv, IdsInv, PublishedInv
<1>6. ViewsInv'
  <2>1. reader'[r].pc \in HasTrie =>
          \A k \in DOMAIN reader'[r].trie :
            /\ k \in DOMAIN trie
            /\ reader'[r].trie[k].offset = trie[k].offset
            /\ reader'[r].trie[k].offset < dirRead
            /\ reader'[r].pc = "views" => reader'[r].trie[k].offset < reader'[r].dir
    <3>1. CASE TookTrie(r)
      BY <3>1 DEF TookTrie, IInv, IdsInv, PublishedInv
    <3>2. CASE TookForward(r)
      BY <3>2 DEF TookForward, HasTrie, IInv, ViewsInv
    <3>3. CASE TookDirectory(r)
      BY <3>3 DEF TookDirectory, HasTrie, IInv, ViewsInv
    <3>4. CASE \E k \in Keyword : Answered(r, k)
      BY <3>4 DEF Answered, HasTrie, IInv, ViewsInv
    <3> QED BY <1>1, <3>1, <3>2, <3>3, <3>4 DEF SearchEffect, Entered, Left, HasTrie
  <2> QED BY <1>2, <2>1 DEF IInv, ViewsInv
<1> QED BY <1>4, <1>5, <1>6 DEF IInv

-----------------------------------------------------------------------------
(* The index invariant *)

LEMMA InitInv == Init => IInv
<1> SUFFICES ASSUME Init PROVE IInv
  OBVIOUS
<1>1. /\ content = <<>> /\ valid = {} /\ trie = <<>> /\ trieRead = <<>> /\ copied = {}
      /\ terminals = 0 /\ reassign = {} /\ emptyLeaves = {} /\ lists = <<>>
      /\ listsRead = <<>> /\ toMerge = {} /\ sizeRead = 0 /\ dirRead = 0
      /\ mergeRequired = TRUE /\ merging = "idle" /\ published = {}
      /\ cache = [k \in Keyword |-> None] /\ reader = [r \in Reader |-> NoSearch]
  BY DEF Init
<1>2. /\ DOMAIN content = {} /\ DOMAIN trie = {} /\ DOMAIN trieRead = {} /\ DOMAIN lists = {}
      /\ content \in [{} -> [key : Keyword, id : Nat]] /\ trie \in [{} -> Node]
      /\ trieRead \in [{} -> Node] /\ lists \in [{} -> SUBSET Record]
      /\ listsRead \in [{} -> SUBSET Record]
  BY <1>1, EmptyFunction
<1>3. size = 0 /\ dir = 0
  BY <1>2, IntervalSize, FS_EmptySet DEF size, dir
<1>4. /\ NoSearch \in SearchRecord /\ NoSearch.pc = "out" /\ NoSearch.pc \in Pc
      /\ PartialFunction(NoSearch.trie, Keyword, Node) /\ NoSearch.answer \subseteq Record
  <2>1. PartialFunction(<<>>, Keyword, Node) /\ <<>> \in Tries
    BY EmptyFunction, TriesType DEF PartialFunction
  <2> QED BY <2>1 DEF NoSearch, SearchRecord, Pc
<1>5. reader \in [Reader -> SearchRecord] /\ \A r \in Reader : reader[r] = NoSearch
  BY <1>1, <1>4
<1>6. TypeOK
  BY <1>1, <1>2, <1>3, <1>4, <1>5 DEF TypeOK, PartialFunction
<1>7. Shape
  BY <1>1, <1>2, <1>3, <1>5, <1>6 DEF Shape
<1>8. ListsInv /\ PendingInv /\ IdsInv /\ PublishedInv
  BY <1>1, <1>2 DEF ListsInv, PendingInv, IdsInv, PublishedInv
<1>9. ViewsInv
  BY <1>4, <1>5 DEF ViewsInv, HasTrie
<1> QED BY <1>7, <1>8, <1>9 DEF IInv

LEMMA StutterPreserves == IInv /\ UNCHANGED vars => IInv'
<1> SUFFICES ASSUME IInv, UNCHANGED vars PROVE IInv'
  OBVIOUS
<1>1. /\ UNCHANGED <<content, valid, trie, copied, terminals, reassign, emptyLeaves, lists,
                     toMerge, trieRead, listsRead, sizeRead, dirRead, mergeRequired, merging,
                     published, cache, reader>>
      /\ size' = size /\ dir' = dir
  BY DEF vars, indexVars, readVars, mergeVars, size, dir
<1>2. TypeOK'
  BY <1>1 DEF IInv, Shape, TypeOK, PartialFunction
<1>3. Shape' /\ ListsInv' /\ PendingInv' /\ IdsInv' /\ PublishedInv' /\ ViewsInv'
  BY <1>1, <1>2 DEF IInv, Shape, ListsInv, PendingInv, IdsInv, PublishedInv, ViewsInv
<1> QED BY <1>3 DEF IInv

LEMMA NextInv == IInv /\ [Next]_vars => IInv'
<1> SUFFICES ASSUME IInv, [Next]_vars PROVE IInv'
  OBVIOUS
<1>1. CASE Write
  BY <1>1, AddPreserves, DeletePreserves DEF Write
<1>2. CASE Merge
  BY <1>2, MergeBeginPreserves, MergeForwardPreserves, MergeDirectoryPreserves,
     MergeListPreserves, ListsMergedPreserves, ReassignPreserves, MergeTriePreserves,
     RemovePreserves DEF Merge
<1>3. CASE \E r \in Reader : Search(r)
  BY <1>3, SearchPreserves
<1> QED BY <1>1, <1>2, <1>3, StutterPreserves DEF Next

(* The index and every search keep their types, whatever is added, deleted, *)
(* merged and searched.                                                     *)
THEOREM TypeCorrect == Spec => []TypeOK
<1>1. IInv => TypeOK
  BY DEF IInv, Shape
<1> QED BY <1>1, InitInv, NextInv, PTL DEF Spec

(* The assertion of getInvertedListReadView() holds: the trie a search has  *)
(* taken leads into the directory it takes after it, because the merge      *)
(* publishes the trie last.                                                 *)
THEOREM OffsetsCorrect == Spec => []OffsetsInDirectory
<1>1. IInv => OffsetsInDirectory
  BY DEF IInv, ViewsInv, OffsetsInDirectory, HasTrie
<1> QED BY <1>1, InitInv, NextInv, PTL DEF Spec

LEMMA IdsFromInv == IInv => IdsAgree
BY DEF IInv, IdsInv, PublishedInv, IdsAgree

LEMMA DeadFromInv == IInv => NoDeadEntries
<1> SUFFICES ASSUME IInv, merging = "idle", ~mergeRequired, NEW k \in DOMAIN trieRead
             PROVE  /\ listsRead[trieRead[k].offset] # {}
                    /\ listsRead[trieRead[k].offset] \subseteq valid
  BY DEF NoDeadEntries
<1>1. toMerge = {} /\ emptyLeaves = {}
  BY DEF IInv, PendingInv
<1>2. k \in DOMAIN trie /\ trieRead[k].offset = trie[k].offset
  BY DEF IInv, IdsInv
<1> QED BY <1>1, <1>2 DEF IInv, PendingInv

(* Between merges a published record carries the keyword id by which a      *)
(* search will look for it: reassignKeywordIds() reaches the forward list   *)
(* of every valid record through the inverted lists just merged.            *)
THEOREM IdsAlwaysAgree == Spec => []IdsAgree
<1> QED BY IdsFromInv, InitInv, NextInv, PTL DEF Spec

(* Between merges no search reaches a deleted record or an empty list: the  *)
(* merge visits every list that has changed, and removes the leaves whose   *)
(* lists have become empty.                                                 *)
THEOREM NeverDeadEntries == Spec => []NoDeadEntries
<1> QED BY DeadFromInv, InitInv, NextInv, PTL DEF Spec

-----------------------------------------------------------------------------
(* What the answers of the searches rest on *)

\* What every step of a writer or of the merge keeps for the searches.
WriterEffect ==
  /\ reader' = reader
  /\ \A i \in DOMAIN content : /\ i \in DOMAIN content' /\ content'[i].key = content[i].key
                               /\ i \in valid' => i \in valid
  /\ cache' = cache \/ \A k \in Keyword : cache'[k] = None
  /\ published \subseteq published'

LEMMA WritersKeep ==
  ASSUME IInv, Write \/ Merge \/ UNCHANGED vars
  PROVE  WriterEffect
<1>1. CASE \E k \in Keyword : AddRecord(k)
  <2>1. PICK k \in Keyword : AddRecord(k)
    BY <1>1
  <2>2. AddEffect(k)
    BY <2>1, AddRecordEffect DEF IInv
  <2> QED BY <2>2 DEF AddEffect, WriterEffect
<1>2. CASE \E i \in Record : DeleteRecord(i)
  BY <1>2 DEF DeleteRecord, WriterEffect
<1>3. CASE MergeBegin
  BY <1>3 DEF MergeBegin, indexVars, WriterEffect
<1>4. CASE MergeForward \/ MergeDirectory \/ ListsMerged
  BY <1>4 DEF MergeForward, MergeDirectory, ListsMerged, indexVars, WriterEffect
<1>5. CASE \E o \in DOMAIN lists, k \in Keyword : MergeList(o, k)
  BY <1>5 DEF MergeList, mergeVars, WriterEffect
<1>6. CASE ReassignKeywordIds
  <2>1. /\ reader' = reader /\ valid' = valid /\ cache' = cache /\ published' = published
    BY <1>6 DEF ReassignKeywordIds
  <2>2. PICK S \in SUBSET DOMAIN trie, ids \in [DOMAIN trie -> 0 .. MaxId] :
          content' = RewriteForwardLists(S, ids)
    BY <1>6 DEF ReassignKeywordIds
  <2>3. content' = [i \in DOMAIN content |->
          IF \E k \in S : i \in listsRead[trie[k].offset]
          THEN IF i \in valid THEN [content[i] EXCEPT !.id = ids[content[i].key]] ELSE content[i]
          ELSE content[i]]
    BY <2>2 DEF RewriteForwardLists, ReassignForwardList, ReorderForwardList
  <2>4. content \in [DOMAIN content -> [key : Keyword, id : Nat]]
    BY Typed DEF IInv
  <2>5. \A i \in DOMAIN content : [content[i] EXCEPT !.id = ids[content[i].key]].key = content[i].key
    BY <2>4
  <2> QED BY <2>1, <2>3, <2>5 DEF WriterEffect
<1>7. CASE MergeTrie
  BY <1>7 DEF MergeTrie, WriterEffect, IInv, PublishedInv
<1>8. CASE RemoveDeletedNodes
  BY <1>8 DEF RemoveDeletedNodes, WriterEffect
<1>9. CASE UNCHANGED vars
  BY <1>9 DEF vars, indexVars, mergeVars, WriterEffect
<1> QED
  BY <1>1, <1>2, <1>3, <1>4, <1>5, <1>6, <1>7, <1>8, <1>9 DEF Write, Merge

LEMMA RoomStep ==
  ASSUME IInv, RoomInv, Room, [Next]_vars
  PROVE  RoomInv'
<1>1. /\ reassign = {} /\ merging # "reassign"
      /\ \A k \in DOMAIN trie : trie[k].id = k
      /\ \A k \in DOMAIN trieRead : trieRead[k].id = k
      /\ \A i \in DOMAIN content : content[i].id = content[i].key
      /\ \A r \in Reader : reader[r].pc \in HasTrie =>
           \A k \in DOMAIN reader[r].trie : reader[r].trie[k].id = k
  BY DEF RoomInv
<1>2. CASE \E k \in Keyword : AddRecord(k)
  <2>1. PICK k \in Keyword : AddRecord(k)
    BY <1>2
  <2>2. AddEffect(k)
    BY <2>1, AddRecordEffect DEF IInv
  <2>3. /\ DOMAIN trie' = DOMAIN trie \cup {k}
        /\ \A j \in DOMAIN trie : trie'[j] = trie[j]
        /\ reassign' = reassign /\ (k \notin DOMAIN trie => trie'[k].id = k)
    BY <2>1, AddTrie DEF IInv, AddRecord
  <2>4. \A j \in DOMAIN trie' : trie'[j].id = j
    BY <1>1, <2>3
  <2>5. \A i \in DOMAIN content' : content'[i].id = content'[i].key
    BY <1>1, <2>2, <2>4 DEF AddEffect
  <2>6. UNCHANGED <<merging, trieRead, reader>>
    BY <2>2 DEF AddEffect
  <2> QED BY <1>1, <2>3, <2>4, <2>5, <2>6 DEF RoomInv
<1>3. CASE \E i \in Record : DeleteRecord(i)
  BY <1>1, <1>3 DEF DeleteRecord, readVars, RoomInv
<1>4. CASE MergeBegin \/ MergeForward \/ MergeDirectory \/ ListsMerged
  BY <1>1, <1>4 DEF MergeBegin, MergeForward, MergeDirectory, ListsMerged, indexVars, readVars,
     RoomInv
<1>5. CASE \E o \in DOMAIN lists, k \in Keyword : MergeList(o, k)
  BY <1>1, <1>5 DEF MergeList, mergeVars, RoomInv
<1>6. CASE ReassignKeywordIds
  BY <1>1, <1>6 DEF ReassignKeywordIds
<1>7. CASE MergeTrie
  BY <1>1, <1>7 DEF MergeTrie, RoomInv
<1>8. CASE RemoveDeletedNodes
  BY <1>1, <1>8 DEF RemoveDeletedNodes, Without, RoomInv
<1>9. CASE \E r \in Reader : Search(r)
  <2>1. PICK r \in Reader : Search(r)
    BY <1>9
  <2>2. SearchFrame(r) /\ SearchEffect(r)
    BY <2>1, SearchLemma DEF IInv
  <2>3. reader'[r].pc \in HasTrie =>
          reader'[r].trie = trieRead \/ (reader[r].pc \in HasTrie /\ reader'[r].trie = reader[r].trie)
    BY <2>2 DEF SearchEffect, Entered, TookTrie, TookForward, TookDirectory, Answered, Left, HasTrie
  <2>4. \A q \in Reader : reader'[q].pc \in HasTrie =>
          \A k \in DOMAIN reader'[q].trie : reader'[q].trie[k].id = k
    BY <1>1, <2>2, <2>3 DEF SearchFrame
  <2> QED BY <1>1, <2>2, <2>4 DEF SearchFrame, RoomInv
<1>10. CASE UNCHANGED vars
  BY <1>1, <1>10 DEF vars, indexVars, readVars, mergeVars, RoomInv
<1> QED
  BY <1>2, <1>3, <1>4, <1>5, <1>6, <1>7, <1>8, <1>9, <1>10 DEF Next, Write, Merge

\* Scanning a list, and probing forward lists, finds records with the keyword.
LEMMA AnswersSound ==
  ASSUME IInv, RoomInv, Room, NEW r \in Reader, NEW k \in Keyword, reader[r].pc = "views",
         NEW i \in Scan(r, k) \cup Probe(r, k)
  PROVE  i \in DOMAIN content /\ content[i].key = k
<1>1. k \in DOMAIN reader[r].trie
  BY DEF Scan, Probe
<1>2. /\ k \in DOMAIN trie /\ reader[r].trie[k].offset = trie[k].offset
      /\ reader[r].trie[k].id = k
  BY <1>1 DEF IInv, ViewsInv, RoomInv, HasTrie
<1>3. CASE i \in Scan(r, k)
  <2>1. i \in listsRead[trie[k].offset]
    BY <1>1, <1>2, <1>3 DEF Scan
  <2>2. trie[k].offset \in DOMAIN lists
    BY <1>2, Typed DEF IInv, ListsInv
  <2> QED BY <1>2, <2>1, <2>2 DEF IInv, ListsInv
<1>4. CASE i \in Probe(r, k)
  <2>1. i \in valid /\ k <= content[i].id /\ content[i].id <= k
    BY <1>1, <1>2, <1>4 DEF Probe, HaveWordInRange
  <2>2. i \in DOMAIN content /\ content[i].id = content[i].key /\ content[i].id \in Nat
    BY <2>1, Typed DEF IInv, RoomInv
  <2> QED BY <2>1, <2>2, SearchViewsAssumption
<1> QED BY <1>3, <1>4

\* They find every record the search owes its caller.
LEMMA AnswersComplete ==
  ASSUME IInv, RoomInv, OwedInv, Room, NEW r \in Reader, NEW k \in Keyword,
         reader[r].pc = "views", NEW i \in reader[r].owed \cap valid, content[i].key = k
  PROVE  i \in Scan(r, k) /\ i \in Probe(r, k)
<1>1. /\ k \in DOMAIN reader[r].trie /\ i < reader[r].size /\ i \in published
  BY DEF OwedInv, HasTrie, HasForward
<1>2. /\ reader[r].trie[k].offset = trie[k].offset /\ reader[r].trie[k].id = k
  BY <1>1 DEF IInv, ViewsInv, RoomInv, HasTrie
<1>3. i \in listsRead[trie[k].offset]
  BY <1>1 DEF IInv, PublishedInv
<1>4. i \in DOMAIN content /\ content[i].id = k /\ i \in Nat /\ k \in Nat /\ reader[r].size \in Nat
  <2>1. i \in DOMAIN content /\ i \in Nat
    BY Typed DEF IInv
  <2>2. content[i].id = k
    BY <2>1 DEF RoomInv
  <2> QED BY <2>1, <2>2, SearchViewsAssumption DEF IInv, Shape, SearchRecord
<1>5. i \in Scan(r, k)
  BY <1>1, <1>2, <1>3 DEF Scan
<1>6. i \in 0 .. reader[r].size - 1 /\ HaveWordInRange(content[i], k, k)
  BY <1>1, <1>4 DEF HaveWordInRange
<1>7. i \in Probe(r, k)
  BY <1>1, <1>2, <1>6 DEF Probe
<1> QED BY <1>5, <1>7

-----------------------------------------------------------------------------
(* The answers *)

LEMMA AnswersInit == Init => RoomInv /\ SoundInv /\ OwedInv
<1> SUFFICES ASSUME Init PROVE RoomInv /\ SoundInv /\ OwedInv
  OBVIOUS
<1>1. /\ reassign = {} /\ merging = "idle"
      /\ DOMAIN trie = {} /\ DOMAIN trieRead = {} /\ DOMAIN content = {}
  BY EmptyFunction DEF Init
<1>2. \A k \in Keyword : cache[k] = None
  BY DEF Init
<1>3. \A r \in Reader : reader[r].pc = "out" /\ reader[r].owed = {}
  BY DEF Init, NoSearch
<1> QED
  BY <1>1, <1>2, <1>3 DEF RoomInv, SoundInv, OwedInv, AnswerComplete, HasTrie, HasForward

LEMMA SoundStep ==
  ASSUME IInv, RoomInv, SoundInv, Room, [Next]_vars
  PROVE  SoundInv'
<1>1. CASE Write \/ Merge \/ UNCHANGED vars
  BY <1>1, WritersKeep DEF WriterEffect, SoundInv
<1>2. CASE \E r \in Reader : Search(r)
  <2>1. PICK r \in Reader : Search(r)
    BY <1>2
  <2>2. SearchFrame(r) /\ SearchEffect(r)
    BY <2>1, SearchLemma DEF IInv
  <2>3. content' = content /\ \A q \in Reader : q # r => reader'[q] = reader[q]
    BY <2>2 DEF SearchFrame
  <2>4. CASE \E k \in Keyword : Answered(r, k)
    <3>1. PICK k \in Keyword : Answered(r, k)
      BY <2>4
    <3>2. \A i \in reader'[r].answer : i \in DOMAIN content /\ content[i].key = k
      <4>1. CASE cache[k] # None
        BY <3>1, <4>1 DEF Answered, SoundInv
      <4>2. CASE cache[k] = None
        BY <3>1, <4>2, AnswersSound DEF Answered
      <4> QED BY <4>1, <4>2
    <3>3. \A j \in Keyword : cache'[j] = cache[j] \/ (j = k /\ cache'[j] = reader'[r].answer)
      <4>1. cache \in [Keyword -> {None} \cup SUBSET Record]
        BY DEF IInv, Shape, TypeOK
      <4> QED BY <3>1, <4>1 DEF Answered
    <3>4. reader'[r].key = k
      BY <3>1 DEF Answered
    <3> QED BY <2>3, <3>2, <3>3, <3>4 DEF SoundInv
  <2>5. CASE cache' = cache /\ reader'[r].pc # "answer"
    BY <2>3, <2>5 DEF SoundInv
  <2> QED
    BY <2>2, <2>4, <2>5 DEF SearchEffect, Entered, TookTrie, TookForward, TookDirectory, Left
<1> QED BY <1>1, <1>2 DEF Next

LEMMA OwedStep ==
  ASSUME IInv, RoomInv, OwedInv, Room, ~CacheResults, [Next]_vars
  PROVE  OwedInv'
<1>1. published \subseteq DOMAIN content
  BY DEF IInv, PublishedInv
<1>2. CASE Write \/ Merge \/ UNCHANGED vars
  <2>1. WriterEffect
    BY <1>2, WritersKeep
  <2>2. \A k \in Keyword : cache'[k] = None
    BY <2>1 DEF WriterEffect, OwedInv
  <2>3. \A r \in Reader : \A i \in reader[r].owed \cap valid' :
          i \in reader[r].owed \cap valid /\ content'[i].key = content[i].key
    BY <1>1, <2>1 DEF WriterEffect, OwedInv
  <2>4. reader' = reader /\ published \subseteq published'
    BY <2>1 DEF WriterEffect
  <2> QED BY <2>2, <2>3, <2>4 DEF OwedInv, AnswerComplete
<1>3. CASE \E r \in Reader : Search(r)
  <2>1. PICK r \in Reader : Search(r)
    BY <1>3
  <2>2. SearchFrame(r) /\ SearchEffect(r)
    BY <2>1, SearchLemma DEF IInv
  <2>3. /\ content' = content /\ valid' = valid /\ published' = published
        /\ \A q \in Reader : q # r => reader'[q] = reader[q]
    BY <2>2 DEF SearchFrame
  <2>4. cache' = cache
    BY <2>2 DEF SearchEffect, Entered, TookTrie, TookForward, TookDirectory, Answered, Left
  <2>5. reader'[r].owed \subseteq published
    BY <2>2 DEF SearchEffect, Entered, TookTrie, TookForward, TookDirectory, Answered, Left,
       OwedInv
  <2>6. reader'[r].pc \in HasTrie =>
          \A i \in reader'[r].owed \cap valid : content[i].key \in DOMAIN reader'[r].trie
    <3>1. CASE TookTrie(r)
      BY <3>1 DEF TookTrie, OwedInv, IInv, PublishedInv
    <3>2. CASE TookForward(r) \/ TookDirectory(r) \/ \E k \in Keyword : Answered(r, k)
      BY <3>2 DEF TookForward, TookDirectory, Answered, OwedInv, HasTrie
    <3> QED BY <2>2, <3>1, <3>2 DEF SearchEffect, Entered, Left, HasTrie
  <2>7. reader'[r].pc \in HasForward => \A i \in reader'[r].owed : i < reader'[r].size
    <3>1. CASE TookForward(r)
      BY <3>1 DEF TookForward, OwedInv, IInv, PublishedInv
    <3>2. CASE TookDirectory(r) \/ \E k \in Keyword : Answered(r, k)
      BY <3>2 DEF TookDirectory, Answered, OwedInv, HasForward
    <3> QED BY <2>2, <3>1, <3>2 DEF SearchEffect, Entered, TookTrie, Left, HasForward
  <2>8. reader'[r].pc = "answer" =>
          \A i \in reader'[r].owed \cap valid :
            content[i].key = reader'[r].key => i \in reader'[r].answer
    <3>1. CASE \E k \in Keyword : Answered(r, k)
      <4>1. PICK k \in Keyword : Answered(r, k)
        BY <3>1
      <4>2. /\ reader[r].pc = "views" /\ reader'[r].key = k /\ reader'[r].owed = reader[r].owed
            /\ reader'[r].answer \in {Scan(r, k), Probe(r, k)}
        BY <4>1 DEF Answered, OwedInv
      <4> QED BY <4>2, AnswersComplete
    <3> QED
      BY <2>2, <3>1 DEF SearchEffect, Entered, TookTrie, TookForward, TookDirectory, Left
  <2> QED BY <2>3, <2>4, <2>5, <2>6, <2>7, <2>8 DEF OwedInv, AnswerComplete
<1> QED BY <1>2, <1>3 DEF Next

(* With ids to spare a search returns only records that match its keyword,  *)
(* from the cache or not, although an inverted list of the current read     *)
(* view is scanned under a trie taken earlier and offsets are given again.  *)
THEOREM AnswersAlwaysSound ==
  ASSUME Room PROVE Spec => []AnswerSound
<1>1. Init => IInv /\ RoomInv /\ SoundInv
  BY InitInv, AnswersInit
<1>2. (IInv /\ RoomInv /\ SoundInv) /\ [Next]_vars => (IInv /\ RoomInv /\ SoundInv)'
  BY NextInv, RoomStep, SoundStep
<1>3. SoundInv => AnswerSound
  BY DEF SoundInv, AnswerSound
<1> QED BY <1>1, <1>2, <1>3, PTL DEF Spec

(* With ids to spare and no cache a search misses no record that had been   *)
(* merged when it started and has not been deleted since, whatever writers  *)
(* and merges do between the steps in which it takes its views.             *)
THEOREM AnswersAlwaysComplete ==
  ASSUME Room, ~CacheResults PROVE Spec => []AnswerComplete
<1>1. Init => IInv /\ RoomInv /\ OwedInv
  BY InitInv, AnswersInit
<1>2. (IInv /\ RoomInv /\ OwedInv) /\ [Next]_vars => (IInv /\ RoomInv /\ OwedInv)'
  BY NextInv, RoomStep, OwedStep
<1>3. OwedInv => AnswerComplete
  BY DEF OwedInv
<1> QED BY <1>1, <1>2, <1>3, PTL DEF Spec

-----------------------------------------------------------------------------

=============================================================================
