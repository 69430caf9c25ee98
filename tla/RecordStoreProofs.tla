-------------------------- MODULE RecordStoreProofs --------------------------
(* Proofs about RecordStore, for any number of keys, clients, searches and  *)
(* records.                                                                 *)
EXTENDS RecordStore, FiniteSetTheorems, TLAPS

-----------------------------------------------------------------------------
(* The inductive invariant *)

\* A command that is under way has a key, and an update the id it deleted.
CommandsTyped ==
  \A c \in Client :
    /\ client[c].pc # "idle" => client[c].key \in Key
    /\ client[c].pc \in {"check", "add", "recover"} => client[c].old \in Id

\* push_back() finds a fresh cell.
FreshBeyondSize == \A i \in Id : i >= size => cells[i] = Null

\* What holds of the store whatever the commands do.
StoreTyped ==
  /\ DOMAIN idMap \subseteq Key
  /\ idMap \in [DOMAIN idMap -> Id]
  /\ DOMAIN lists \subseteq Id
  /\ lists \in [DOMAIN lists -> Key]
  /\ gen \in Nat
  /\ dirs \in [0 .. gen -> Directory]
  /\ size \in Nat
  /\ deletedIds \subseteq Id
  /\ docs \in Nat
  /\ FreshBeyondSize
  /\ IsFiniteSet(DOMAIN idMap)
  /\ CountAgrees

TypeInv == TypeOK /\ CommandsTyped /\ StoreTyped

Updating(c) == client[c].pc \in {"check", "add", "recover"}

\* A failed update resumes a record that is still there: deleted, not freed,
\* and the one it deleted itself.  It is what a merge between the steps of
\* the update, or an update of an absent record, breaks.
RecoverSound ==
  \A c \in Client : client[c].pc = "recover" =>
    client[c].old \in deletedIds /\ lists[client[c].old] = client[c].key

\* The writers' structures tell one story.
StoreInv == ListsOwned /\ MapSound /\ DeletedSound

\* What a search needs of its view: the array is one of the vector's, the ids
\* below its size are taken, a valid flag stands for a list, and no two valid
\* records have the same key.
ViewSafe(g, n) ==
  /\ g \in 0 .. gen
  /\ n \in Nat
  /\ n <= size
  /\ \A i \in Id : Shows(g, n, i) => i \in DOMAIN lists
  /\ \A i, j \in Id :
       Shows(g, n, i) /\ Shows(g, n, j) /\ lists[i] = lists[j] => i = j

\* The published view and those in use are safe, and the merge has published
\* the array in which it is about to clear the pointers.
SearchInv ==
  /\ ViewSafe(readGen, readSize)
  /\ \A r \in Reader : reader[r].pc = "in" =>
       /\ ViewSafe(reader[r].gen, reader[r].size)
       /\ reader[r].list # None => reader[r].list \in DOMAIN lists
  /\ ~forwardRequired \/ merging # "idle" => readGen = gen /\ readSize = size

\* Without a merge between their steps and with updates of existing records
\* only, the records that updates may have to resume are all there, and no two
\* updates have deleted the same one.
UpdatesInv ==
  /\ \A c \in Client : Updating(c) =>
       /\ merging = "idle"
       /\ client[c].old \in deletedIds
       /\ lists[client[c].old] = client[c].key
  /\ \A c, d \in Client :
       Updating(c) /\ Updating(d) /\ client[c].old = client[d].old => c = d

\* The clients that are in a command: each may still add one document.
Busy == {c \in Client : client[c].pc # "idle"}

LimitInv == docs + Cardinality(Busy) < DocumentLimit + Cardinality(Client)

-----------------------------------------------------------------------------
(* The operators the model is built from *)

\* What a write through at() does, whether or not it reallocates: the write
\* view shows v at i and what it showed elsewhere, and the arrays it is not on
\* are as they were.
LEMMA WriteCellLemma ==
  ASSUME StoreTyped, NEW i \in Id, NEW v \in Cell, WriteCell(i, v)
  PROVE  /\ gen' \in Nat
         /\ gen <= gen'
         /\ dirs' \in [0 .. gen' -> Directory]
         /\ cells' = [j \in Id |-> IF j = i THEN v ELSE cells[j]]
         /\ \A g \in 0 .. gen : g < gen' => dirs'[g] = dirs[g]
         /\ size' = IF i < size THEN size ELSE i + 1
         /\ size' \in Nat
<1> USE RecordStoreAssumption DEF Id
<1>1. /\ gen \in Nat
      /\ dirs \in [0 .. gen -> Directory]
      /\ dirs[gen] \in Directory
      /\ dirs[gen].capacity \in Nat
      /\ cells \in [Id -> Cell]
      /\ Null \in Cell
      /\ DOMAIN dirs = 0 .. gen
      /\ gen \in 0 .. gen
      /\ gen + 1 \notin 0 .. gen
  BY DEF StoreTyped, Directory, cells, Null, Cell
<1>2. /\ size' = IF i < size THEN size ELSE i + 1
      /\ size' \in Nat
  BY DEF StoreTyped, WriteCell
<1>3. CASE i < dirs[gen].capacity
  <2> DEFINE written == [cells EXCEPT ![i] = v]
             array == [dirs[gen] EXCEPT !.cell = written]
  <2>1. /\ dirs' = [dirs EXCEPT ![gen] = array]
        /\ gen' = gen
    BY <1>3, Zenon DEF WriteCell, cells
  <2>2. written \in [Id -> Cell]
    BY <1>1
  <2> HIDE DEF written
  <2>3. array \in Directory /\ array.cell = written
    BY <2>2, <1>1 DEF Directory
  <2> HIDE DEF array
  <2>4. /\ dirs'[gen] = array
        /\ \A g \in 0 .. gen : g # gen => dirs'[g] = dirs[g]
        /\ DOMAIN dirs' = 0 .. gen
    BY <2>1, <1>1
  <2>5. dirs' \in [0 .. gen' -> Directory]
    BY <2>1, <2>3, <1>1
  <2>6. cells' = [cells EXCEPT ![i] = v]
    BY <2>1, <2>4, <2>3 DEF cells, written
  <2>7. cells' = [j \in Id |-> IF j = i THEN v ELSE cells[j]]
    BY <2>6, <1>1
  <2> QED
    BY <1>1, <1>2, <2>1, <2>4, <2>5, <2>7
<1>4. CASE ~ (i < dirs[gen].capacity)
  <2> DEFINE grown == [j \in Id |-> IF j = i THEN v ELSE IF j < size THEN cells[j] ELSE Null]
  <2>1. PICK d \in GrownCapacity(dirs[gen].capacity, i) :
          dirs' = With(dirs, gen + 1, [capacity |-> d, cell |-> grown])
    BY <1>4 DEF WriteCell
  <2>2. gen' = gen + 1
    BY <1>4 DEF WriteCell
  <2>3. d \in Nat
    BY DEF GrownCapacity
  <2>4. grown \in [Id -> Cell]
    BY <1>1
  <2>5. [capacity |-> d, cell |-> grown] \in Directory
    BY <2>3, <2>4 DEF Directory
  <2> HIDE DEF grown
  <2> DEFINE array == [capacity |-> d, cell |-> grown]
  <2> HIDE DEF array
  <2>6. /\ DOMAIN dirs' = (0 .. gen) \cup {gen + 1}
        /\ dirs'[gen + 1] = array
        /\ \A g \in 0 .. gen : dirs'[g] = dirs[g]
    <3>1. dirs' = With(dirs, gen + 1, array)
      BY <2>1 DEF array
    <3>2. /\ DOMAIN dirs' = DOMAIN dirs \cup {gen + 1}
          /\ dirs'[gen + 1] = array
          /\ \A g \in DOMAIN dirs : g # gen + 1 => dirs'[g] = dirs[g]
      BY <3>1 DEF With
    <3> QED
      BY <3>2, <1>1, Zenon
  <2>7. (0 .. gen) \cup {gen + 1} = 0 .. gen'
    BY <1>1, <2>2
  <2>8. dirs' = [g \in 0 .. gen' |-> dirs'[g]]
    BY <2>1, <2>7, <1>1 DEF With
  <2>9. dirs' \in [0 .. gen' -> Directory]
    BY <2>5, <2>6, <2>7, <2>8, <1>1 DEF array
  <2>10. cells' = grown
    BY <2>2, <2>6 DEF cells, array
  <2>11. cells' = [j \in Id |-> IF j = i THEN v ELSE cells[j]]
    BY <2>10, <1>1 DEF FreshBeyondSize, StoreTyped, grown
  <2> QED
    BY <1>1, <1>2, <2>2, <2>6, <2>9, <2>11
<1> QED
  BY <1>3, <1>4

-----------------------------------------------------------------------------
(* The operations keep the store well-formed *)

\* What a step does to the store: nothing, one of the three operations, which
\* need the lock, or the release of the deleted records.
LEMMA StoreSteps ==
  ASSUME TypeInv, [Next]_vars
  PROVE  \/ UNCHANGED <<storeVars, docs>>
         \/ /\ merging = "idle"
            /\ UNCHANGED <<readGen, readSize, merging, reader>>
            /\ \/ \E k \in Key : AddRecord(k)
               \/ \E k \in Key : DeleteRecord(k)
               \/ \E c \in Client :
                    /\ client[c].pc = "recover"
                    /\ client[c].key \in Key
                    /\ client[c].old \in Id
                    /\ RecoverRecord(client[c].key, client[c].old)
         \/ FreeDeleted
<1> USE DEF operationUnchanged, storeUnchanged, storeVars, viewVars, LockFree
<1>1. CASE FinishBulkLoad \/ MergeForward \/ LockExclusive \/ MergeRest \/ UNCHANGED vars
  BY <1>1 DEF FinishBulkLoad, MergeForward, LockExclusive, MergeRest, vars
<1>2. CASE \E r \in Reader : ReaderStep(r)
  BY <1>2 DEF ReaderStep, ReaderPreEnter, ReaderPreExit, UseRecord, writersUnchanged
<1>3. ASSUME NEW c \in Client, ClientStep(c)
      PROVE  \/ UNCHANGED <<storeVars, docs>>
             \/ /\ merging = "idle"
                /\ UNCHANGED <<readGen, readSize, merging, reader>>
                /\ \/ \E k \in Key : AddRecord(k)
                   \/ \E k \in Key : DeleteRecord(k)
                   \/ /\ client[c].pc = "recover"
                      /\ client[c].key \in Key
                      /\ client[c].old \in Id
                      /\ RecoverRecord(client[c].key, client[c].old)
  <2>1. client[c].pc # "idle" => client[c].key \in Key
    BY DEF TypeInv, CommandsTyped
  <2>2. client[c].pc = "recover" => client[c].old \in Id
    BY DEF TypeInv, CommandsTyped
  <2>3. CASE \E k \in Key : InsertCheck(c, k) \/ UpdateAbsent(c, k)
    BY <2>3 DEF InsertCheck, UpdateAbsent
  <2>4. CASE UpdateCheck(c)
    BY <2>4 DEF UpdateCheck
  <2>5. CASE \E k \in Key : Delete(c, k) \/ UpdateDelete(c, k)
    BY <2>5 DEF Delete, UpdateDelete
  <2>6. CASE InsertAdd(c)
    BY <2>6, <2>1 DEF InsertAdd
  <2>7. CASE UpdateAdd(c)
    BY <2>7, <2>1 DEF UpdateAdd
  <2>8. CASE UpdateRecover(c)
    BY <2>8, <2>1, <2>2 DEF UpdateRecover
  <2> QED
    BY <1>3, <2>3, <2>4, <2>5, <2>6, <2>7, <2>8 DEF ClientStep
<1> QED
  BY <1>1, <1>2, <1>3 DEF Next, Merge

LEMMA AddTyped ==
  ASSUME StoreTyped, NEW k \in Key, AddRecord(k)
  PROVE  StoreTyped'
<1> USE DEF StoreTyped
<1>1. /\ size \in Id
      /\ [first |-> TRUE, second |-> TRUE] \in Cell
      /\ k \notin DOMAIN idMap
  BY RecordStoreAssumption DEF AddRecord, Id, Cell
<1>2. WriteCell(size, [first |-> TRUE, second |-> TRUE])
  BY DEF AddRecord, AddForwardList
<1>3. /\ gen' \in Nat
      /\ dirs' \in [0 .. gen' -> Directory]
      /\ cells' = [j \in Id |-> IF j = size THEN [first |-> TRUE, second |-> TRUE] ELSE cells[j]]
      /\ size' = size + 1
  BY <1>1, <1>2, WriteCellLemma
<1>4. FreshBeyondSize'
  BY <1>1, <1>3, RecordStoreAssumption DEF FreshBeyondSize, Id
<1>5. /\ idMap' = With(idMap, k, size)
      /\ lists' = With(lists, size, k)
  BY DEF AddRecord, AppendToIdMap, AddForwardList
<1>6. /\ DOMAIN idMap' = DOMAIN idMap \cup {k}
      /\ idMap' \in [DOMAIN idMap' -> Id]
      /\ DOMAIN lists' = DOMAIN lists \cup {size}
      /\ lists' \in [DOMAIN lists' -> Key]
  BY <1>1, <1>5 DEF With
<1>7. /\ IsFiniteSet(DOMAIN idMap')
      /\ Cardinality(DOMAIN idMap') = Cardinality(DOMAIN idMap) + 1
  BY <1>1, <1>6, FS_AddElement
<1>8. docs' = docs + 1 /\ deletedIds' = deletedIds
  BY DEF AddRecord
<1> QED
  BY <1>1, <1>3, <1>4, <1>6, <1>7, <1>8 DEF CountAgrees

\* A flag is set or cleared in a cell that keeps its pointer.
LEMMA SetValidLemma ==
  ASSUME StoreTyped, NEW i \in Id, NEW valid \in BOOLEAN, SetValid(i, valid)
  PROVE  /\ gen' \in Nat
         /\ gen <= gen'
         /\ dirs' \in [0 .. gen' -> Directory]
         /\ \A g \in 0 .. gen : g < gen' => dirs'[g] = dirs[g]
         /\ size' = IF i < size THEN size ELSE i + 1
         /\ size' \in Nat
         /\ cells' = [j \in Id |-> IF j = i THEN [first |-> cells[i].first, second |-> valid]
                                   ELSE cells[j]]
         /\ FreshBeyondSize'
<1>1. cells \in [Id -> Cell]
  BY DEF StoreTyped, Directory, cells
<1>2. [cells[i] EXCEPT !.second = valid] = [first |-> cells[i].first, second |-> valid]
  BY <1>1 DEF Cell
<1>3. [first |-> cells[i].first, second |-> valid] \in Cell
  BY <1>1 DEF Cell
<1>4. WriteCell(i, [first |-> cells[i].first, second |-> valid])
  BY <1>2 DEF SetValid
<1>5. /\ gen' \in Nat
      /\ gen <= gen'
      /\ dirs' \in [0 .. gen' -> Directory]
      /\ \A g \in 0 .. gen : g < gen' => dirs'[g] = dirs[g]
      /\ size' = IF i < size THEN size ELSE i + 1
      /\ size' \in Nat
      /\ cells' = [j \in Id |-> IF j = i THEN [first |-> cells[i].first, second |-> valid]
                                ELSE cells[j]]
  BY <1>3, <1>4, WriteCellLemma
<1>6. FreshBeyondSize'
  BY <1>5, RecordStoreAssumption DEF FreshBeyondSize, StoreTyped, Id
<1> QED
  BY <1>5, <1>6

LEMMA DeleteTyped ==
  ASSUME StoreTyped, NEW k \in Key, DeleteRecord(k)
  PROVE  StoreTyped'
<1> USE DEF StoreTyped
<1>1. k \in DOMAIN idMap /\ idMap[k] \in Id
  BY DEF DeleteRecord
<1>2. SetValid(idMap[k], FALSE)
  BY DEF DeleteRecord, DeleteForwardList
<1>3. /\ gen' \in Nat
      /\ dirs' \in [0 .. gen' -> Directory]
      /\ size' \in Nat
      /\ FreshBeyondSize'
  BY <1>1, <1>2, SetValidLemma
<1>4. /\ idMap' = Without(idMap, {k})
      /\ deletedIds' = deletedIds \cup {idMap[k]}
      /\ docs' = docs - 1
      /\ lists' = lists
  BY DEF DeleteRecord, DeleteForwardList
<1>5. /\ DOMAIN idMap' = DOMAIN idMap \ {k}
      /\ idMap' \in [DOMAIN idMap' -> Id]
  BY <1>4 DEF Without
<1>6. /\ IsFiniteSet(DOMAIN idMap')
      /\ Cardinality(DOMAIN idMap') = Cardinality(DOMAIN idMap) - 1
  BY <1>1, <1>5, FS_RemoveElement
<1>7. docs' = Cardinality(DOMAIN idMap') /\ docs' \in Nat
  BY <1>4, <1>6, FS_CardinalityType DEF CountAgrees
<1> QED
  BY <1>1, <1>3, <1>4, <1>5, <1>6, <1>7 DEF CountAgrees

LEMMA RecoverTyped ==
  ASSUME StoreTyped, NEW k \in Key, NEW i \in Id, RecoverRecord(k, i)
  PROVE  StoreTyped'
<1> USE DEF StoreTyped
<1>1. k \notin DOMAIN idMap /\ SetValid(i, TRUE)
  BY DEF RecoverRecord, RecoverForwardList
<1>2. /\ gen' \in Nat
      /\ dirs' \in [0 .. gen' -> Directory]
      /\ size' \in Nat
      /\ FreshBeyondSize'
  BY <1>1, SetValidLemma
<1>3. /\ idMap' = With(idMap, k, i)
      /\ deletedIds' = deletedIds \ {i}
      /\ docs' = docs + 1
      /\ lists' = lists
  BY DEF RecoverRecord, RecoverForwardList
<1>4. /\ DOMAIN idMap' = DOMAIN idMap \cup {k}
      /\ idMap' \in [DOMAIN idMap' -> Id]
  BY <1>3 DEF With
<1>5. /\ IsFiniteSet(DOMAIN idMap')
      /\ Cardinality(DOMAIN idMap') = Cardinality(DOMAIN idMap) + 1
  BY <1>1, <1>4, FS_AddElement
<1> QED
  BY <1>2, <1>3, <1>4, <1>5 DEF CountAgrees

LEMMA CellLemma ==
  ASSUME NEW p \in Cell, NEW b \in BOOLEAN
  PROVE  /\ [p EXCEPT !.first = b] = [first |-> b, second |-> p.second]
         /\ [first |-> b, second |-> p.second] \in Cell
BY DEF Cell

\* The merge clears the pointers of the records it frees and nothing else.
LEMMA FreeLemma ==
  ASSUME StoreTyped, FreeDeleted
  PROVE  /\ dirs' \in [0 .. gen -> Directory]
         /\ gen' = gen
         /\ \A g \in 0 .. gen : g < gen => dirs'[g] = dirs[g]
         /\ cells' = [i \in Id |-> IF i \in deletedIds
                                   THEN [first |-> FALSE, second |-> cells[i].second]
                                   ELSE cells[i]]
         /\ DOMAIN lists' = DOMAIN lists \ deletedIds
         /\ lists' \in [DOMAIN lists' -> Key]
         /\ \A i \in DOMAIN lists' : lists'[i] = lists[i]
<1> USE DEF StoreTyped
<1>1. /\ dirs[gen] \in Directory
      /\ cells \in [Id -> Cell]
      /\ gen \in 0 .. gen
  BY DEF Directory, cells
<1> DEFINE freed == [i \in Id |-> IF i \in deletedIds
                                 THEN [first |-> FALSE, second |-> cells[i].second]
                                 ELSE cells[i]]
<1>2. \A i \in Id :
        /\ [cells[i] EXCEPT !.first = FALSE] = [first |-> FALSE, second |-> cells[i].second]
        /\ [first |-> FALSE, second |-> cells[i].second] \in Cell
  BY <1>1, CellLemma
<1>3. freed = [i \in Id |-> IF i \in deletedIds THEN [cells[i] EXCEPT !.first = FALSE]
                           ELSE cells[i]]
  BY <1>2
<1>4. freed \in [Id -> Cell]
  BY <1>1, <1>2
<1>5. dirs' = [dirs EXCEPT ![gen].cell = freed]
  BY <1>3 DEF FreeDeleted, cells
<1> HIDE DEF freed
<1> DEFINE array == [dirs[gen] EXCEPT !.cell = freed]
<1>6. array \in Directory /\ array.cell = freed
  BY <1>1, <1>4 DEF Directory
<1>7. dirs' = [dirs EXCEPT ![gen] = array]
  BY <1>5
<1> HIDE DEF array
<1>8. /\ dirs'[gen] = array
      /\ \A g \in 0 .. gen : g < gen => dirs'[g] = dirs[g]
      /\ dirs' \in [0 .. gen -> Directory]
  BY <1>1, <1>6, <1>7
<1>9. gen' = gen /\ lists' = Without(lists, deletedIds)
  BY DEF FreeDeleted
<1>10. cells' = freed
  BY <1>6, <1>8, <1>9 DEF cells
<1>11. /\ DOMAIN lists' = DOMAIN lists \ deletedIds
       /\ lists' \in [DOMAIN lists' -> Key]
       /\ \A i \in DOMAIN lists' : lists'[i] = lists[i]
  BY <1>9 DEF Without
<1> QED
  BY <1>8, <1>9, <1>10, <1>11 DEF freed

LEMMA FreeTyped ==
  ASSUME StoreTyped, FreeDeleted
  PROVE  StoreTyped'
<1> USE DEF StoreTyped
<1>1. /\ deletedIds' = {}
      /\ UNCHANGED <<idMap, gen, size, docs>>
  BY DEF FreeDeleted
<1>2. FreshBeyondSize'
  <2> SUFFICES ASSUME NEW i \in Id, i >= size PROVE cells'[i] = Null
    BY <1>1 DEF FreshBeyondSize
  <2>1. cells[i] = [first |-> FALSE, second |-> FALSE]
    BY DEF FreshBeyondSize, Null
  <2>2. cells[i].second = FALSE
    BY <2>1
  <2>3. cells'[i] = IF i \in deletedIds THEN [first |-> FALSE, second |-> cells[i].second]
                    ELSE cells[i]
    BY FreeLemma
  <2> QED
    BY <2>1, <2>2, <2>3 DEF Null
<1> QED
  BY <1>1, <1>2, FreeLemma DEF CountAgrees

-----------------------------------------------------------------------------
(* Types *)

LEMMA TypeInit == Init => TypeInv
<1> SUFFICES ASSUME Init PROVE TypeInv
  OBVIOUS
<1> USE RecordStoreAssumption DEF Init
<1>1. /\ Null \in Cell
      /\ [i \in Id |-> Null] \in [Id -> Cell]
  BY DEF Null, Cell
<1>2. [capacity |-> InitCapacity, cell |-> [i \in Id |-> Null]] \in Directory
  BY <1>1 DEF Directory
<1>3. dirs \in [0 .. gen -> Directory] /\ cells = [i \in Id |-> Null]
  BY <1>2 DEF cells
<1>4. /\ DOMAIN idMap = {}
      /\ IsFiniteSet(DOMAIN idMap)
      /\ Cardinality(DOMAIN idMap) = 0
  BY FS_EmptySet
<1>5. StoreTyped
  BY <1>3, <1>4 DEF StoreTyped, FreshBeyondSize, CountAgrees
<1>6. NoCommand \in Command /\ NoSearch \in Search
  BY DEF NoCommand, Command, NoSearch, Search
<1>7. CommandsTyped
  BY DEF CommandsTyped, NoCommand
<1> QED
  BY <1>5, <1>6, <1>7 DEF TypeInv, TypeOK, StoreTyped

\* The commands stay typed.
LEMMA CommandStep ==
  ASSUME TypeInv, [Next]_vars
  PROVE  client' \in [Client -> Command] /\ CommandsTyped'
<1> USE DEF TypeInv, TypeOK, CommandsTyped
<1>1. CASE UNCHANGED client
  BY <1>1
<1>2. ASSUME NEW c \in Client, NEW m \in Command,
             m.pc # "idle" => m.key \in Key,
             m.pc \in {"check", "add", "recover"} => m.old \in Id,
             client' = [client EXCEPT ![c] = m]
      PROVE  client' \in [Client -> Command] /\ CommandsTyped'
  BY <1>2
<1>3. ASSUME NEW c \in Client, ClientStep(c)
      PROVE  \/ UNCHANGED client
             \/ \E m \in Command :
                  /\ m.pc # "idle" => m.key \in Key
                  /\ m.pc \in {"check", "add", "recover"} => m.old \in Id
                  /\ client' = [client EXCEPT ![c] = m]
  <2>1. client[c] \in Command
    OBVIOUS
  <2>2. ASSUME NEW k \in Key, InsertCheck(c, k)
        PROVE  \E m \in Command :
                  /\ m.pc # "idle" => m.key \in Key
                  /\ m.pc \in {"check", "add", "recover"} => m.old \in Id
                  /\ client' = [client EXCEPT ![c] = m]
    BY <2>2 DEF InsertCheck, NoCommand, Command
  <2>3. ASSUME NEW k \in Key, UpdateDelete(c, k)
        PROVE  \E m \in Command :
                  /\ m.pc # "idle" => m.key \in Key
                  /\ m.pc \in {"check", "add", "recover"} => m.old \in Id
                  /\ client' = [client EXCEPT ![c] = m]
    <3>1. idMap[k] \in Id
      BY <2>3 DEF UpdateDelete, DeleteRecord
    <3> QED
      BY <2>3, <3>1 DEF UpdateDelete, Command
  <2>4. ASSUME NEW k \in Key, UpdateAbsent(c, k)
        PROVE  \E m \in Command :
                  /\ m.pc # "idle" => m.key \in Key
                  /\ m.pc \in {"check", "add", "recover"} => m.old \in Id
                  /\ client' = [client EXCEPT ![c] = m]
    BY <2>4 DEF UpdateAbsent, Command
  <2>5. ASSUME NEW p \in {"add", "recover"}, Goto(c, p), client[c].pc \in {"check", "add"}
        PROVE  \E m \in Command :
                  /\ m.pc # "idle" => m.key \in Key
                  /\ m.pc \in {"check", "add", "recover"} => m.old \in Id
                  /\ client' = [client EXCEPT ![c] = m]
    <3> DEFINE m == [client[c] EXCEPT !.pc = p]
    <3>1. m \in Command /\ m.pc = p /\ m.key = client[c].key /\ m.old = client[c].old
      BY <2>1, <2>5 DEF Command
    <3>2. client' = [client EXCEPT ![c] = m]
      BY <2>5 DEF Goto
    <3>3. client[c].key \in Key /\ client[c].old \in Id
      BY <2>5
    <3> HIDE DEF m
    <3> QED
      BY <3>1, <3>2, <3>3
  <2>6. ASSUME Finish(c)
        PROVE  \E m \in Command :
                  /\ m.pc # "idle" => m.key \in Key
                  /\ m.pc \in {"check", "add", "recover"} => m.old \in Id
                  /\ client' = [client EXCEPT ![c] = m]
    BY <2>6 DEF Finish, NoCommand, Command
  <2>7. CASE UpdateCheck(c)
    BY <2>5, <2>7 DEF UpdateCheck
  <2>8. CASE UpdateAdd(c)
    BY <2>5, <2>6, <2>8 DEF UpdateAdd
  <2>9. CASE InsertAdd(c) \/ UpdateRecover(c)
    BY <2>6, <2>9 DEF InsertAdd, UpdateRecover
  <2>10. CASE \E k \in Key : Delete(c, k)
    BY <2>10 DEF Delete
  <2> QED
    BY <1>3, <2>2, <2>3, <2>4, <2>7, <2>8, <2>9, <2>10 DEF ClientStep
<1>4. CASE \E c \in Client : ClientStep(c)
  BY <1>1, <1>2, <1>3, <1>4
<1>5. CASE FinishBulkLoad \/ Merge \/ (\E r \in Reader : ReaderStep(r)) \/ UNCHANGED vars
  BY <1>1, <1>5 DEF FinishBulkLoad, Merge, MergeForward, LockExclusive, FreeDeleted, MergeRest,
     ReaderStep, ReaderPreEnter, ReaderPreExit, UseRecord, writersUnchanged, vars
<1> QED
  BY <1>4, <1>5 DEF Next

\* So does the store.
LEMMA StoreStep ==
  ASSUME TypeInv, [Next]_vars
  PROVE  StoreTyped' /\ gen <= gen'
<1> USE DEF TypeInv
<1>1. CASE UNCHANGED <<storeVars, docs>>
  BY <1>1 DEF StoreTyped, storeVars, FreshBeyondSize, cells, CountAgrees
<1>2. ASSUME NEW k \in Key, AddRecord(k) PROVE StoreTyped' /\ gen <= gen'
  <2>1. size \in Id /\ [first |-> TRUE, second |-> TRUE] \in Cell
    BY <1>2, RecordStoreAssumption DEF AddRecord, StoreTyped, Id, Cell
  <2>2. WriteCell(size, [first |-> TRUE, second |-> TRUE])
    BY <1>2 DEF AddRecord, AddForwardList
  <2> QED
    BY <1>2, <2>1, <2>2, AddTyped, WriteCellLemma
<1>3. ASSUME NEW k \in Key, DeleteRecord(k) PROVE StoreTyped' /\ gen <= gen'
  <2>1. idMap[k] \in Id /\ SetValid(idMap[k], FALSE)
    BY <1>3 DEF DeleteRecord, DeleteForwardList, StoreTyped
  <2> QED
    BY <1>3, <2>1, DeleteTyped, SetValidLemma
<1>4. ASSUME NEW k \in Key, NEW i \in Id, RecoverRecord(k, i) PROVE StoreTyped' /\ gen <= gen'
  <2>1. SetValid(i, TRUE)
    BY <1>4 DEF RecoverRecord, RecoverForwardList
  <2> QED
    BY <1>4, <2>1, RecoverTyped, SetValidLemma
<1>5. CASE FreeDeleted
  BY <1>5, FreeTyped, FreeLemma DEF StoreTyped
<1> QED
  BY <1>1, <1>2, <1>3, <1>4, <1>5, StoreSteps

\* TypeInv is inductive.
LEMMA TypeStep ==
  ASSUME TypeInv, [Next]_vars
  PROVE  TypeInv'
<1>1. StoreTyped' /\ gen <= gen' /\ client' \in [Client -> Command] /\ CommandsTyped'
  BY StoreStep, CommandStep
<1>2. gen \in 0 .. gen' /\ readGen \in 0 .. gen' /\ size \in Nat
  BY <1>1 DEF TypeInv, TypeOK, StoreTyped
<1>3. /\ readGen' \in 0 .. gen' /\ readSize' \in Nat
      /\ mergeRequired' \in BOOLEAN /\ forwardRequired' \in BOOLEAN
      /\ bulkLoadDone' \in BOOLEAN
      /\ merging' \in {"idle", "free", "exclusive", "rest"}
      /\ reader' \in [Reader -> Search]
  <2> USE <1>2 DEF TypeInv, TypeOK, storeVars, viewVars, flagVars
  <2>1. CASE FinishBulkLoad
    BY <2>1 DEF FinishBulkLoad
  <2>2. CASE Merge
    BY <2>2 DEF Merge, MergeForward, PublishForward, LockExclusive, FreeDeleted, MergeRest
  <2>3. ASSUME NEW c \in Client, ClientStep(c)
        PROVE  /\ UNCHANGED <<readGen, readSize, bulkLoadDone, merging, reader>>
               /\ mergeRequired' \in BOOLEAN /\ forwardRequired' \in BOOLEAN
    <3> USE DEF operationUnchanged, storeUnchanged
    <3>1. CASE \E k \in Key : InsertCheck(c, k) \/ UpdateAbsent(c, k)
      BY <3>1 DEF InsertCheck, UpdateAbsent
    <3>2. CASE UpdateCheck(c)
      BY <3>2 DEF UpdateCheck
    <3>3. CASE \E k \in Key : Delete(c, k) \/ UpdateDelete(c, k)
      BY <3>3 DEF Delete, UpdateDelete, DeleteRecord, DeleteForwardList
    <3>4. CASE InsertAdd(c)
      BY <3>4 DEF InsertAdd, AddRecord, AddForwardList
    <3>5. CASE UpdateAdd(c)
      BY <3>5 DEF UpdateAdd, AddRecord, AddForwardList
    <3>6. CASE UpdateRecover(c)
      BY <3>6 DEF UpdateRecover, RecoverRecord, RecoverForwardList
    <3> QED
      BY <2>3, <3>1, <3>2, <3>3, <3>4, <3>5, <3>6 DEF ClientStep
  <2>4. CASE \E c \in Client : ClientStep(c)
    BY <2>3, <2>4
  <2>5. ASSUME NEW r \in Reader, ReaderStep(r)
        PROVE  reader' \in [Reader -> Search]
    <3>1. CASE ReaderPreEnter(r)
      <4>1. [pc |-> "in", gen |-> readGen, size |-> readSize, list |-> None] \in Search
        BY DEF Search
      <4> QED
        BY <3>1, <4>1 DEF ReaderPreEnter
    <3>2. CASE ReaderPreExit(r)
      <4>1. NoSearch \in Search
        BY DEF Search, NoSearch
      <4> QED
        BY <3>2, <4>1 DEF ReaderPreExit
    <3>3. ASSUME NEW i \in Id, UseRecord(r, i) PROVE reader' \in [Reader -> Search]
      BY <3>3 DEF UseRecord, Search
    <3> QED
      BY <2>5, <3>1, <3>2, <3>3 DEF ReaderStep
  <2>6. CASE \E r \in Reader : ReaderStep(r)
    BY <2>5, <2>6 DEF ReaderStep, ReaderPreEnter, ReaderPreExit, UseRecord, writersUnchanged
  <2>7. CASE UNCHANGED vars
    BY <2>7 DEF vars
  <2> QED
    BY <2>1, <2>2, <2>4, <2>6, <2>7 DEF Next
<1> QED
  BY <1>1, <1>3 DEF TypeInv, TypeOK, StoreTyped

\* The variables keep their types in every behaviour: the internal ids stay
\* below the bound and the document counter never goes below zero.
THEOREM TypeCorrect == Spec => []TypeOK
<1>1. TypeInv => TypeOK
  BY DEF TypeInv
<1> QED
  BY <1>1, TypeInit, TypeStep, PTL DEF Spec

\* The document counter that the commands compare with the limit is the number
\* of keys, whatever fails and however commands and merges interleave.
THEOREM CounterCorrect == Spec => []CountAgrees
<1>1. TypeInv => CountAgrees
  BY DEF TypeInv, StoreTyped
<1> QED
  BY <1>1, TypeInit, TypeStep, PTL DEF Spec

-----------------------------------------------------------------------------
(* Lists, flags and maps *)

\* The three operations as their callers see them.
LEMMA AddEffect ==
  ASSUME StoreTyped, NEW k \in Key, AddRecord(k)
  PROVE  /\ size \in Id
         /\ k \notin DOMAIN idMap
         /\ size' = size + 1
         /\ cells'[size] = [first |-> TRUE, second |-> TRUE]
         /\ \A j \in Id \ {size} : cells'[j] = cells[j]
         /\ DOMAIN idMap' = DOMAIN idMap \cup {k}
         /\ idMap'[k] = size
         /\ \A m \in DOMAIN idMap : idMap'[m] = idMap[m]
         /\ DOMAIN lists' = DOMAIN lists \cup {size}
         /\ lists'[size] = k
         /\ \A i \in DOMAIN lists : i # size => lists'[i] = lists[i]
         /\ deletedIds' = deletedIds
         /\ forwardRequired' = TRUE
         /\ \A g \in 0 .. gen : g < gen' => dirs'[g] = dirs[g]
<1>1. /\ size \in Id
      /\ [first |-> TRUE, second |-> TRUE] \in Cell
      /\ k \notin DOMAIN idMap
  BY RecordStoreAssumption DEF StoreTyped, AddRecord, Id, Cell
<1>2. WriteCell(size, [first |-> TRUE, second |-> TRUE])
  BY DEF AddRecord, AddForwardList
<1>3. /\ size' = size + 1
      /\ cells'[size] = [first |-> TRUE, second |-> TRUE]
      /\ \A j \in Id \ {size} : cells'[j] = cells[j]
      /\ \A g \in 0 .. gen : g < gen' => dirs'[g] = dirs[g]
  BY <1>1, <1>2, WriteCellLemma DEF StoreTyped
<1>4. /\ idMap' = With(idMap, k, size)
      /\ lists' = With(lists, size, k)
      /\ deletedIds' = deletedIds
      /\ forwardRequired' = TRUE
  BY DEF AddRecord, AppendToIdMap, AddForwardList
<1>5. /\ DOMAIN idMap' = DOMAIN idMap \cup {k}
      /\ idMap'[k] = size
      /\ \A m \in DOMAIN idMap : idMap'[m] = idMap[m]
  BY <1>1, <1>4 DEF With
<1>6. /\ DOMAIN lists' = DOMAIN lists \cup {size}
      /\ lists'[size] = k
      /\ \A i \in DOMAIN lists : i # size => lists'[i] = lists[i]
  BY <1>4 DEF With
<1> QED
  BY <1>1, <1>3, <1>4, <1>5, <1>6

LEMMA DeleteEffect ==
  ASSUME StoreTyped, NEW k \in Key, DeleteRecord(k)
  PROVE  /\ k \in DOMAIN idMap
         /\ idMap[k] \in Id
         /\ size' = IF idMap[k] < size THEN size ELSE idMap[k] + 1
         /\ cells'[idMap[k]] = [first |-> cells[idMap[k]].first, second |-> FALSE]
         /\ \A j \in Id \ {idMap[k]} : cells'[j] = cells[j]
         /\ DOMAIN idMap' = DOMAIN idMap \ {k}
         /\ \A m \in DOMAIN idMap' : idMap'[m] = idMap[m]
         /\ lists' = lists
         /\ deletedIds' = deletedIds \cup {idMap[k]}
         /\ forwardRequired' = TRUE
         /\ \A g \in 0 .. gen : g < gen' => dirs'[g] = dirs[g]
<1>1. k \in DOMAIN idMap /\ idMap[k] \in Id
  BY DEF DeleteRecord, StoreTyped
<1>2. SetValid(idMap[k], FALSE)
  BY DEF DeleteRecord, DeleteForwardList
<1>3. /\ size' = IF idMap[k] < size THEN size ELSE idMap[k] + 1
      /\ cells'[idMap[k]] = [first |-> cells[idMap[k]].first, second |-> FALSE]
      /\ \A j \in Id \ {idMap[k]} : cells'[j] = cells[j]
      /\ \A g \in 0 .. gen : g < gen' => dirs'[g] = dirs[g]
  BY <1>1, <1>2, SetValidLemma
<1>4. /\ idMap' = Without(idMap, {k})
      /\ deletedIds' = deletedIds \cup {idMap[k]}
      /\ lists' = lists
      /\ forwardRequired' = TRUE
  BY DEF DeleteRecord, DeleteForwardList
<1>5. /\ DOMAIN idMap' = DOMAIN idMap \ {k}
      /\ \A m \in DOMAIN idMap' : idMap'[m] = idMap[m]
  BY <1>4 DEF Without
<1> QED
  BY <1>1, <1>3, <1>4, <1>5

LEMMA RecoverEffect ==
  ASSUME StoreTyped, NEW k \in Key, NEW i \in Id, RecoverRecord(k, i)
  PROVE  /\ k \notin DOMAIN idMap
         /\ size' = IF i < size THEN size ELSE i + 1
         /\ cells'[i] = [first |-> cells[i].first, second |-> TRUE]
         /\ \A j \in Id \ {i} : cells'[j] = cells[j]
         /\ DOMAIN idMap' = DOMAIN idMap \cup {k}
         /\ idMap'[k] = i
         /\ \A m \in DOMAIN idMap : idMap'[m] = idMap[m]
         /\ lists' = lists
         /\ deletedIds' = deletedIds \ {i}
         /\ forwardRequired' = TRUE
         /\ \A g \in 0 .. gen : g < gen' => dirs'[g] = dirs[g]
<1>1. k \notin DOMAIN idMap /\ SetValid(i, TRUE)
  BY DEF RecoverRecord, RecoverForwardList
<1>2. /\ size' = IF i < size THEN size ELSE i + 1
      /\ cells'[i] = [first |-> cells[i].first, second |-> TRUE]
      /\ \A j \in Id \ {i} : cells'[j] = cells[j]
      /\ \A g \in 0 .. gen : g < gen' => dirs'[g] = dirs[g]
  BY <1>1, SetValidLemma
<1>3. /\ idMap' = With(idMap, k, i)
      /\ deletedIds' = deletedIds \ {i}
      /\ lists' = lists
      /\ forwardRequired' = TRUE
  BY DEF RecoverRecord, RecoverForwardList
<1>4. /\ DOMAIN idMap' = DOMAIN idMap \cup {k}
      /\ idMap'[k] = i
      /\ \A m \in DOMAIN idMap : idMap'[m] = idMap[m]
  BY <1>1, <1>3 DEF With
<1> QED
  BY <1>1, <1>2, <1>3, <1>4

LEMMA ListsOwnedInit == Init => ListsOwned
<1> SUFFICES ASSUME Init PROVE ListsOwned
  OBVIOUS
<1>1. DOMAIN lists = {} /\ size = 0
  BY DEF Init
<1>2. \A i \in Id : ~ (i < size)
  BY <1>1, RecordStoreAssumption DEF Id
<1> QED
  BY <1>1, <1>2 DEF ListsOwned

LEMMA ListsOwnedStep ==
  ASSUME TypeInv, ListsOwned, [Next]_vars
  PROVE  ListsOwned'
<1>1. StoreTyped
  BY DEF TypeInv
<1>2. /\ size \in Nat
      /\ \A i \in Id : i >= size => ~ cells[i].first
      /\ Id \subseteq Nat
      /\ \A i \in Id : i \in DOMAIN lists <=> i < size /\ cells[i].first
  BY RecordStoreAssumption DEF TypeInv, StoreTyped, FreshBeyondSize, Null, ListsOwned, Id
<1>3. DOMAIN lists' \subseteq Id
  BY TypeStep DEF TypeInv, StoreTyped
<1> SUFFICES ASSUME NEW j \in Id
             PROVE  j \in DOMAIN lists' <=> j < size' /\ cells'[j].first
  BY <1>3 DEF ListsOwned
<1>4. CASE UNCHANGED <<storeVars, docs>>
  BY <1>2, <1>4 DEF storeVars, cells
<1>5. ASSUME NEW k \in Key, AddRecord(k)
      PROVE  j \in DOMAIN lists' <=> j < size' /\ cells'[j].first
  <2>1. /\ size' = size + 1
        /\ DOMAIN lists' = DOMAIN lists \cup {size}
        /\ j # size => cells'[j] = cells[j]
        /\ cells'[size] = [first |-> TRUE, second |-> TRUE]
    BY <1>1, <1>5, AddEffect
  <2>2. cells'[size].first
    BY <2>1
  <2> QED
    BY <1>2, <2>1, <2>2
<1>6. ASSUME NEW k \in Key, DeleteRecord(k)
      PROVE  j \in DOMAIN lists' <=> j < size' /\ cells'[j].first
  <2> DEFINE i == idMap[k]
  <2>1. /\ i \in Id
        /\ size' = IF i < size THEN size ELSE i + 1
        /\ lists' = lists
        /\ j # i => cells'[j] = cells[j]
        /\ cells'[i] = [first |-> cells[i].first, second |-> FALSE]
    BY <1>1, <1>6, DeleteEffect
  <2> HIDE DEF i
  <2>2. cells'[j].first <=> cells[j].first
    BY <2>1
  <2> QED
    BY <1>2, <2>1, <2>2
<1>7. ASSUME NEW k \in Key, NEW i \in Id, RecoverRecord(k, i)
      PROVE  j \in DOMAIN lists' <=> j < size' /\ cells'[j].first
  <2>1. /\ size' = IF i < size THEN size ELSE i + 1
        /\ lists' = lists
        /\ \A m \in Id \ {i} : cells'[m] = cells[m]
        /\ cells'[i] = [first |-> cells[i].first, second |-> TRUE]
    BY <1>1, <1>7, RecoverEffect, Zenon
  <2>2. cells'[j].first <=> cells[j].first
    BY <2>1
  <2> QED
    BY <1>2, <2>1, <2>2
<1>8. CASE FreeDeleted
  <2>1. /\ size' = size
        /\ DOMAIN lists' = DOMAIN lists \ deletedIds
        /\ cells'[j] = IF j \in deletedIds THEN [first |-> FALSE, second |-> cells[j].second]
                       ELSE cells[j]
    BY <1>1, <1>8, FreeLemma DEF FreeDeleted
  <2> QED
    BY <1>2, <2>1
<1> QED
  BY <1>4, <1>5, <1>6, <1>7, <1>8, StoreSteps

\* A pointer of the directory that is set points to a list that exists, and no
\* list is lost: also when an update resumes a record that has been freed.
THEOREM ListsAlwaysOwned == Spec => []ListsOwned
BY TypeInit, TypeStep, ListsOwnedInit, ListsOwnedStep, PTL DEF Spec

\* MapSound and DeletedSound for one record, where every list is owned.
MapPoint(k) ==
  /\ idMap[k] \in Id
  /\ cells[idMap[k]].second
  /\ idMap[k] \in DOMAIN lists
  /\ lists[idMap[k]] = k

IdPoint(i) ==
  /\ cells[i].second =>
       /\ i \in DOMAIN lists
       /\ lists[i] \in DOMAIN idMap
       /\ idMap[lists[i]] = i
  /\ i \in deletedIds <=> i \in DOMAIN lists /\ ~ cells[i].second

PointSound ==
  /\ \A k \in DOMAIN idMap : MapPoint(k)
  /\ \A i \in Id : IdPoint(i)

LEMMA PointWise == StoreTyped /\ ListsOwned => (MapSound /\ DeletedSound <=> PointSound)
<1> SUFFICES ASSUME StoreTyped, ListsOwned PROVE MapSound /\ DeletedSound <=> PointSound
  OBVIOUS
<1>1. /\ cells \in [Id -> Cell]
      /\ size \in Nat
      /\ Id \subseteq Nat
      /\ \A i \in Id : i >= size => ~ cells[i].second
      /\ \A k \in DOMAIN idMap : idMap[k] \in Id
      /\ DOMAIN lists \subseteq Id
      /\ deletedIds \subseteq Id
      /\ \A i \in Id : i \in DOMAIN lists <=> i < size /\ cells[i].first
  BY RecordStoreAssumption
     DEF StoreTyped, FreshBeyondSize, Null, Directory, cells, Id, ListsOwned
<1>2. \A i \in Id : cells[i] = [first |-> TRUE, second |-> TRUE]
                      <=> cells[i].first /\ cells[i].second
  BY <1>1 DEF Cell
<1>3. \A k \in DOMAIN idMap :
        MapPoint(k) <=> /\ idMap[k] < size
                        /\ cells[idMap[k]] = [first |-> TRUE, second |-> TRUE]
                        /\ idMap[k] \in DOMAIN lists
                        /\ lists[idMap[k]] = k
  BY <1>1, <1>2 DEF MapPoint
<1>4. DeletedSound <=> \A i \in Id : i \in deletedIds <=> i \in DOMAIN lists /\ ~ cells[i].second
  BY <1>1 DEF DeletedSound
<1> QED
  BY <1>1, <1>3, <1>4 DEF MapSound, IdPoint, PointSound

LEMMA AddSound ==
  ASSUME StoreTyped, StoreInv, NEW k \in Key, AddRecord(k)
  PROVE  PointSound'
<1>1. /\ size \in Id
      /\ size' = size + 1
      /\ k \notin DOMAIN idMap
      /\ cells'[size] = [first |-> TRUE, second |-> TRUE]
      /\ \A j \in Id \ {size} : cells'[j] = cells[j]
      /\ DOMAIN idMap' = DOMAIN idMap \cup {k}
      /\ idMap'[k] = size
      /\ \A m \in DOMAIN idMap : idMap'[m] = idMap[m]
      /\ DOMAIN lists' = DOMAIN lists \cup {size}
      /\ lists'[size] = k
      /\ \A i \in DOMAIN lists : i # size => lists'[i] = lists[i]
      /\ deletedIds' = deletedIds
  BY AddEffect, Zenon
<1>2. size \notin DOMAIN lists /\ DOMAIN lists \subseteq Id
  BY RecordStoreAssumption DEF StoreInv, ListsOwned, StoreTyped, Id
<1>3. /\ \A m \in DOMAIN idMap : MapPoint(m)
      /\ \A i \in Id : IdPoint(i)
  BY PointWise DEF StoreInv, PointSound
<1>4. cells'[size].second
  BY <1>1
<1>5. ASSUME NEW m \in DOMAIN idMap' PROVE MapPoint(m)'
  BY <1>1, <1>2, <1>3, <1>4 DEF MapPoint
<1>6. ASSUME NEW i \in Id PROVE IdPoint(i)'
  <2>1. CASE i = size
    BY <1>1, <1>2, <1>3, <1>4, <2>1 DEF IdPoint
  <2>2. CASE i # size
    BY <1>1, <1>2, <1>3, <2>2 DEF IdPoint
  <2> QED
    BY <2>1, <2>2
<1> QED
  BY <1>5, <1>6 DEF PointSound

LEMMA DeleteSound ==
  ASSUME StoreTyped, StoreInv, NEW k \in Key, DeleteRecord(k)
  PROVE  PointSound'
<1> DEFINE d == idMap[k]
<1>1. /\ k \in DOMAIN idMap
      /\ d \in Id
      /\ cells'[d] = [first |-> cells[d].first, second |-> FALSE]
      /\ \A j \in Id \ {d} : cells'[j] = cells[j]
      /\ DOMAIN idMap' = DOMAIN idMap \ {k}
      /\ \A m \in DOMAIN idMap' : idMap'[m] = idMap[m]
      /\ lists' = lists
      /\ deletedIds' = deletedIds \cup {d}
  BY DeleteEffect, Zenon
<1>2. DOMAIN lists \subseteq Id
  BY DEF StoreTyped
<1>3. /\ \A m \in DOMAIN idMap : MapPoint(m)
      /\ \A i \in Id : IdPoint(i)
  BY PointWise DEF StoreInv, PointSound
<1>4. ~ cells'[d].second
  BY <1>1
<1>5. d \in DOMAIN lists /\ lists[d] = k
  BY <1>1, <1>3 DEF MapPoint
<1> HIDE DEF d
<1>6. ASSUME NEW m \in DOMAIN idMap' PROVE MapPoint(m)'
  BY <1>1, <1>3, <1>5 DEF MapPoint
<1>7. ASSUME NEW i \in Id PROVE IdPoint(i)'
  <2>1. CASE i = d
    BY <1>1, <1>4, <1>5, <2>1 DEF IdPoint
  <2>2. CASE i # d
    <3>1. k \in DOMAIN idMap /\ idMap[k] = d
      BY <1>1 DEF d
    <3> QED
      BY <1>1, <1>3, <2>2, <3>1 DEF IdPoint
  <2> QED
    BY <2>1, <2>2
<1> QED
  BY <1>6, <1>7 DEF PointSound

LEMMA RecoveredSound ==
  ASSUME StoreTyped, StoreInv, NEW k \in Key, NEW d \in Id, RecoverRecord(k, d),
         d \in deletedIds, lists[d] = k
  PROVE  PointSound'
<1>1. /\ k \notin DOMAIN idMap
      /\ cells'[d] = [first |-> cells[d].first, second |-> TRUE]
      /\ \A j \in Id \ {d} : cells'[j] = cells[j]
      /\ DOMAIN idMap' = DOMAIN idMap \cup {k}
      /\ idMap'[k] = d
      /\ \A m \in DOMAIN idMap : idMap'[m] = idMap[m]
      /\ lists' = lists
      /\ deletedIds' = deletedIds \ {d}
  BY RecoverEffect, Zenon
<1>2. /\ \A m \in DOMAIN idMap : MapPoint(m)
      /\ \A i \in Id : IdPoint(i)
  BY PointWise DEF StoreInv, PointSound
<1>3. cells'[d].second /\ d \in DOMAIN lists /\ ~ cells[d].second
  BY <1>1, <1>2 DEF IdPoint
<1>4. ASSUME NEW m \in DOMAIN idMap' PROVE MapPoint(m)'
  BY <1>1, <1>2, <1>3 DEF MapPoint
<1>5. ASSUME NEW i \in Id PROVE IdPoint(i)'
  <2>1. CASE i = d
    BY <1>1, <1>3, <2>1 DEF IdPoint
  <2>2. CASE i # d
    BY <1>1, <1>2, <2>2 DEF IdPoint
  <2> QED
    BY <2>1, <2>2
<1> QED
  BY <1>4, <1>5 DEF PointSound

LEMMA FreeSound ==
  ASSUME StoreTyped, StoreInv, FreeDeleted
  PROVE  PointSound'
<1>1. /\ \A i \in Id : cells'[i] = IF i \in deletedIds
                                   THEN [first |-> FALSE, second |-> cells[i].second]
                                   ELSE cells[i]
      /\ DOMAIN lists' = DOMAIN lists \ deletedIds
      /\ \A i \in DOMAIN lists' : lists'[i] = lists[i]
      /\ deletedIds' = {}
      /\ idMap' = idMap
  BY FreeLemma DEF FreeDeleted
<1>2. /\ \A m \in DOMAIN idMap : MapPoint(m)
      /\ \A i \in Id : IdPoint(i)
  BY PointWise DEF StoreInv, PointSound
<1>3. \A i \in Id : cells'[i].second = cells[i].second
  <2> TAKE i \in Id
  <2>1. CASE i \in deletedIds
    <3>1. cells'[i] = [first |-> FALSE, second |-> cells[i].second]
      BY <1>1, <2>1
    <3> QED
      BY <3>1
  <2>2. CASE i \notin deletedIds
    BY <1>1, <2>2
  <2> QED
    BY <2>1, <2>2
<1>4. ASSUME NEW m \in DOMAIN idMap' PROVE MapPoint(m)'
  BY <1>1, <1>2, <1>3 DEF MapPoint, IdPoint
<1>5. ASSUME NEW i \in Id PROVE IdPoint(i)'
  BY <1>1, <1>2, <1>3 DEF IdPoint
<1> QED
  BY <1>4, <1>5 DEF PointSound

LEMMA StoreInvInit == Init => StoreInv
<1> SUFFICES ASSUME Init PROVE StoreInv
  OBVIOUS
<1>1. /\ DOMAIN lists = {} /\ DOMAIN idMap = {} /\ size = 0 /\ deletedIds = {}
      /\ \A i \in Id : ~ (i < size)
  BY RecordStoreAssumption DEF Init, Id
<1> QED
  BY <1>1, ListsOwnedInit DEF StoreInv, MapSound, DeletedSound

\* The map, the flags, the lists and the deleted ids stay in step as long as
\* the record that a failed update is about to resume is still there.
LEMMA StoreInvStep ==
  ASSUME TypeInv, StoreInv, RecoverSound, [Next]_vars
  PROVE  StoreInv'
<1>1. StoreTyped /\ StoreTyped' /\ ListsOwned'
  BY TypeStep, ListsOwnedStep DEF TypeInv, StoreInv
<1>2. CASE UNCHANGED <<storeVars, docs>>
  BY <1>2 DEF storeVars, cells, StoreInv, ListsOwned, MapSound, DeletedSound
<1>3. CASE ~ UNCHANGED <<storeVars, docs>>
  <2>1. PointSound'
    BY <1>1, <1>3, StoreSteps, AddSound, DeleteSound, RecoveredSound, FreeSound DEF RecoverSound
  <2>2. (StoreTyped /\ ListsOwned => (MapSound /\ DeletedSound <=> PointSound))'
    BY PointWise, PTL
  <2> QED
    BY <1>1, <2>1, <2>2 DEF StoreInv
<1> QED
  BY <1>2, <1>3

-----------------------------------------------------------------------------
(* Searches *)

\* A view on the array of the write view is safe.
CurrentViewsSafe == \A n \in Nat : n <= size => ViewSafe(gen, n)

LEMMA CurrentSafe == StoreTyped /\ StoreInv => CurrentViewsSafe
<1> SUFFICES ASSUME StoreTyped, StoreInv, NEW n \in Nat, n <= size PROVE ViewSafe(gen, n)
  BY DEF CurrentViewsSafe
<1>1. gen \in 0 .. gen /\ size \in Nat /\ Id \subseteq Nat
  BY RecordStoreAssumption DEF StoreTyped, Id
<1>2. \A i \in Id : Shows(gen, n, i) => i < size /\ cells[i].second
  BY <1>1 DEF Shows, cells
<1>3. \A i \in Id : Shows(gen, n, i) => /\ i \in DOMAIN lists
                                        /\ idMap[lists[i]] = i
  BY <1>2 DEF StoreInv, MapSound
<1> QED
  BY <1>1, <1>3 DEF ViewSafe

\* But for the release of the deleted records, a step leaves the lists that
\* exist and the arrays that are not the write view's as they were.
LEMMA OldArrays ==
  ASSUME TypeInv, StoreInv, RecoverSound, [Next]_vars, ~ FreeDeleted
  PROVE  /\ size <= size'
         /\ \A i \in DOMAIN lists : i \in DOMAIN lists' /\ lists'[i] = lists[i]
         /\ \A g \in 0 .. gen : g < gen' => dirs'[g] = dirs[g]
<1>1. StoreTyped /\ size \in Nat
  BY DEF TypeInv, StoreTyped
<1>2. CASE UNCHANGED <<storeVars, docs>>
  BY <1>1, <1>2 DEF storeVars
<1>3. ASSUME NEW k \in Key, AddRecord(k)
      PROVE  /\ size <= size'
             /\ \A i \in DOMAIN lists : i \in DOMAIN lists' /\ lists'[i] = lists[i]
             /\ \A g \in 0 .. gen : g < gen' => dirs'[g] = dirs[g]
  <2>1. /\ size' = size + 1
        /\ DOMAIN lists' = DOMAIN lists \cup {size}
        /\ \A i \in DOMAIN lists : i # size => lists'[i] = lists[i]
        /\ \A g \in 0 .. gen : g < gen' => dirs'[g] = dirs[g]
    BY <1>1, <1>3, AddEffect, Zenon
  <2>2. size \notin DOMAIN lists
    BY <1>1 DEF StoreInv, ListsOwned
  <2> QED
    BY <1>1, <2>1, <2>2
<1>4. ASSUME NEW k \in Key, DeleteRecord(k)
      PROVE  /\ size <= size'
             /\ lists' = lists
             /\ \A g \in 0 .. gen : g < gen' => dirs'[g] = dirs[g]
  <2>1. /\ idMap[k] \in Id
        /\ size' = IF idMap[k] < size THEN size ELSE idMap[k] + 1
        /\ lists' = lists
        /\ \A g \in 0 .. gen : g < gen' => dirs'[g] = dirs[g]
    BY <1>1, <1>4, DeleteEffect, Zenon
  <2> QED
    BY <1>1, <2>1, RecordStoreAssumption DEF Id
<1>5. ASSUME NEW k \in Key, NEW i \in Id, RecoverRecord(k, i)
      PROVE  /\ size <= size'
             /\ lists' = lists
             /\ \A g \in 0 .. gen : g < gen' => dirs'[g] = dirs[g]
  <2>1. /\ size' = IF i < size THEN size ELSE i + 1
        /\ lists' = lists
        /\ \A g \in 0 .. gen : g < gen' => dirs'[g] = dirs[g]
    BY <1>1, <1>5, RecoverEffect, Zenon
  <2> QED
    BY <1>1, <2>1, RecordStoreAssumption DEF Id
<1> QED
  BY <1>2, <1>3, <1>4, <1>5, StoreSteps

\* So a view that was safe stays safe: on the array of the write view because
\* the store stays sound, on an older one because nothing it shows changes.
LEMMA ViewStep ==
  ASSUME TypeInv, StoreInv, RecoverSound, [Next]_vars, ~ FreeDeleted,
         NEW g, NEW n, ViewSafe(g, n)
  PROVE  ViewSafe(g, n)'
<1>1. /\ size <= size'
      /\ \A i \in DOMAIN lists : i \in DOMAIN lists' /\ lists'[i] = lists[i]
      /\ \A h \in 0 .. gen : h < gen' => dirs'[h] = dirs[h]
  BY OldArrays
<1>2. /\ StoreTyped' /\ StoreInv' /\ gen <= gen'
      /\ gen \in Nat /\ gen' \in Nat /\ size \in Nat /\ size' \in Nat
  BY TypeStep, StoreInvStep, StoreStep DEF TypeInv, StoreTyped
<1>3. g \in 0 .. gen /\ g \in 0 .. gen' /\ n \in Nat /\ n <= size'
  BY <1>1, <1>2 DEF ViewSafe
<1>4. CASE g = gen'
  <2>1. (StoreTyped /\ StoreInv => CurrentViewsSafe)'
    BY CurrentSafe, PTL
  <2>2. CurrentViewsSafe'
    BY <1>2, <2>1
  <2>3. ViewSafe(gen, n)'
    BY <1>3, <2>2 DEF CurrentViewsSafe
  <2> QED
    BY <1>4, <2>3 DEF ViewSafe, Shows
<1>5. CASE g # gen'
  <2>1. dirs'[g] = dirs[g]
    BY <1>1, <1>2, <1>3, <1>5
  <2>2. \A i \in Id : Shows(g, n, i)' <=> Shows(g, n, i)
    BY <2>1 DEF Shows
  <2>3. \A i \in Id : Shows(g, n, i) => i \in DOMAIN lists /\ lists'[i] = lists[i]
    BY <1>1 DEF ViewSafe
  <2> QED
    BY <1>1, <1>3, <2>2, <2>3 DEF ViewSafe
<1> QED
  BY <1>4, <1>5

\* What a step does to the published view and to the flags that guard it.
LEMMA ViewSteps ==
  ASSUME TypeInv, SearchInv, [Next]_vars, ~ FreeDeleted
  PROVE  /\ \/ UNCHANGED <<readGen, readSize>>
            \/ readGen' = gen /\ readSize' = size
         /\ ~ forwardRequired' \/ merging' # "idle" => readGen' = gen' /\ readSize' = size'
<1> USE DEF SearchInv
<1>1. CASE FinishBulkLoad
  BY <1>1 DEF FinishBulkLoad, storeVars
<1>2. CASE MergeForward
  BY <1>2 DEF MergeForward, PublishForward, storeVars
<1>3. CASE LockExclusive \/ MergeRest
  BY <1>3 DEF LockExclusive, MergeRest, storeVars, viewVars, flagVars
<1>4. ASSUME NEW c \in Client, ClientStep(c)
      PROVE  /\ UNCHANGED <<readGen, readSize, merging>>
             /\ \/ merging = "idle" /\ forwardRequired'
                \/ UNCHANGED <<gen, size, forwardRequired>>
  <2> USE DEF operationUnchanged, storeUnchanged, storeVars, viewVars, flagVars, LockFree
  <2>1. CASE \E k \in Key : InsertCheck(c, k) \/ UpdateAbsent(c, k)
    BY <2>1 DEF InsertCheck, UpdateAbsent
  <2>2. CASE UpdateCheck(c)
    BY <2>2 DEF UpdateCheck
  <2>3. CASE \E k \in Key : Delete(c, k) \/ UpdateDelete(c, k)
    BY <2>3 DEF Delete, UpdateDelete, DeleteRecord, DeleteForwardList
  <2>4. CASE InsertAdd(c)
    BY <2>4 DEF InsertAdd, AddRecord, AddForwardList
  <2>5. CASE UpdateAdd(c)
    BY <2>5 DEF UpdateAdd, AddRecord, AddForwardList
  <2>6. CASE UpdateRecover(c)
    BY <2>6 DEF UpdateRecover, RecoverRecord, RecoverForwardList
  <2> QED
    BY <1>4, <2>1, <2>2, <2>3, <2>4, <2>5, <2>6 DEF ClientStep
<1>5. CASE \E r \in Reader : ReaderStep(r)
  BY <1>5 DEF ReaderStep, ReaderPreEnter, ReaderPreExit, UseRecord, writersUnchanged,
     storeVars, viewVars, flagVars
<1>6. CASE UNCHANGED vars
  BY <1>6 DEF vars, storeVars, viewVars, flagVars
<1> QED
  BY <1>1, <1>2, <1>3, <1>4, <1>5, <1>6 DEF Next, Merge

\* What a step does to the searches: one enters on the published view, takes up
\* a record that its view shows, or leaves.
LEMMA ReaderSteps ==
  ASSUME TypeInv, [Next]_vars, NEW r \in Reader, reader'[r].pc = "in"
  PROVE  \/ reader'[r] = reader[r]
         \/ /\ reader'[r].gen = readGen
            /\ reader'[r].size = readSize
            /\ reader'[r].list = None
         \/ \E i \in Id :
              /\ reader[r].pc = "in"
              /\ reader'[r].gen = reader[r].gen
              /\ reader'[r].size = reader[r].size
              /\ reader'[r].list = i
              /\ Shows(reader[r].gen, reader[r].size, i)
              /\ UNCHANGED lists
<1> USE DEF TypeInv, TypeOK
<1>1. CASE UNCHANGED reader
  BY <1>1
<1>2. ASSUME NEW s \in Reader, ReaderPreEnter(s)
      PROVE  \/ reader'[r] = reader[r]
             \/ /\ reader'[r].gen = readGen
                /\ reader'[r].size = readSize
                /\ reader'[r].list = None
  BY <1>2 DEF ReaderPreEnter
<1>3. ASSUME NEW s \in Reader, ReaderPreExit(s) PROVE reader'[r] = reader[r]
  BY <1>3 DEF ReaderPreExit, NoSearch
<1>4. ASSUME NEW s \in Reader, NEW i \in Id, UseRecord(s, i)
      PROVE  \/ reader'[r] = reader[r]
             \/ /\ reader[r].pc = "in"
                /\ reader'[r].gen = reader[r].gen
                /\ reader'[r].size = reader[r].size
                /\ reader'[r].list = i
                /\ Shows(reader[r].gen, reader[r].size, i)
                /\ UNCHANGED lists
  <2>1. /\ reader' = [reader EXCEPT ![s].list = i]
        /\ reader[s].pc = "in"
        /\ Shows(reader[s].gen, reader[s].size, i)
        /\ UNCHANGED lists
    BY <1>4 DEF UseRecord, writersUnchanged, storeVars
  <2>2. CASE s = r
    <3>1. reader[r] \in Search /\ reader'[r] = [reader[r] EXCEPT !.list = i]
      BY <2>1, <2>2
    <3> QED
      BY <2>1, <2>2, <3>1 DEF Search
  <2>3. CASE s # r
    BY <2>1, <2>3
  <2> QED
    BY <2>2, <2>3
<1>5. CASE \E s \in Reader : ReaderStep(s)
  BY <1>2, <1>3, <1>4, <1>5 DEF ReaderStep
<1>6. CASE UNCHANGED vars \/ FinishBulkLoad \/ Merge
  BY <1>1, <1>6 DEF vars, FinishBulkLoad, Merge, MergeForward, LockExclusive, FreeDeleted, MergeRest
<1>7. CASE \E c \in Client : ClientStep(c)
  <2>1. UNCHANGED reader
    BY <1>7 DEF ClientStep, InsertCheck, Delete, UpdateDelete, UpdateAbsent, InsertAdd, UpdateCheck,
       UpdateAdd, UpdateRecover, operationUnchanged
  <2> QED
    BY <1>1, <2>1
<1> QED
  BY <1>5, <1>6, <1>7 DEF Next

LEMMA SearchInvInit == Init => SearchInv
<1> SUFFICES ASSUME Init PROVE SearchInv
  OBVIOUS
<1>1. \A i \in Id : ~ (i < 0)
  BY RecordStoreAssumption DEF Id
<1>2. ViewSafe(readGen, readSize)
  BY <1>1 DEF Init, ViewSafe, Shows
<1>3. \A r \in Reader : reader[r].pc # "in"
  BY DEF Init, NoSearch
<1> QED
  BY <1>2, <1>3 DEF Init, SearchInv

LEMMA SearchInvStep ==
  ASSUME TypeInv, StoreInv, RecoverSound, SearchInv, [Next]_vars
  PROVE  SearchInv'
<1>1. CASE FreeDeleted
  <2>1. /\ readGen' = gen' /\ readSize' = size'
        /\ \A r \in Reader : reader'[r].pc # "in"
    BY <1>1 DEF FreeDeleted, SearchInv, viewVars
  <2>2. StoreTyped' /\ StoreInv' /\ size' \in Nat
    BY TypeStep, StoreInvStep DEF TypeInv, StoreTyped
  <2>3. (StoreTyped /\ StoreInv => CurrentViewsSafe)'
    BY CurrentSafe, PTL
  <2>4. ViewSafe(gen, size)'
    BY <2>2, <2>3 DEF CurrentViewsSafe
  <2>5. ViewSafe(readGen, readSize)'
    BY <2>1, <2>4 DEF ViewSafe, Shows
  <2> QED
    BY <2>1, <2>5 DEF SearchInv
<1>2. CASE ~ FreeDeleted
  <2>1. \A g, n : ViewSafe(g, n) => ViewSafe(g, n)'
    BY <1>2, ViewStep
  <2>2. ViewSafe(gen, size)
    BY CurrentSafe DEF CurrentViewsSafe, TypeInv, StoreTyped
  <2>3. ViewSafe(readGen, readSize)
    BY DEF SearchInv
  <2>4. ViewSafe(readGen, readSize)'
    <3>1. PICK g, n : ViewSafe(g, n) /\ readGen' = g /\ readSize' = n
      BY <1>2, <2>2, <2>3, ViewSteps
    <3>2. ViewSafe(g, n)'
      BY <2>1, <3>1
    <3> QED
      BY <3>1, <3>2 DEF ViewSafe, Shows
  <2>5. ASSUME NEW r \in Reader, reader'[r].pc = "in"
        PROVE  /\ ViewSafe(reader[r].gen, reader[r].size)'
               /\ reader'[r].list # None => reader'[r].list \in DOMAIN lists'
    <3>1. PICK g, n : /\ ViewSafe(g, n)
                      /\ reader'[r].gen = g
                      /\ reader'[r].size = n
                      /\ reader'[r].list # None => reader'[r].list \in DOMAIN lists
      <4>1. reader[r].pc = "in" =>
               /\ ViewSafe(reader[r].gen, reader[r].size)
               /\ reader[r].list # None => reader[r].list \in DOMAIN lists
        BY DEF SearchInv
      <4>2. CASE reader'[r] = reader[r]
        BY <2>5, <4>1, <4>2
      <4>3. CASE /\ reader'[r].gen = readGen
                 /\ reader'[r].size = readSize
                 /\ reader'[r].list = None
        BY <2>3, <4>3
      <4>4. ASSUME NEW i \in Id,
                   reader[r].pc = "in",
                   reader'[r].gen = reader[r].gen,
                   reader'[r].size = reader[r].size,
                   reader'[r].list = i,
                   Shows(reader[r].gen, reader[r].size, i)
            PROVE  /\ ViewSafe(reader[r].gen, reader[r].size)
                   /\ reader'[r].list \in DOMAIN lists
        BY <4>1, <4>4 DEF ViewSafe
      <4> QED
        BY <2>5, <4>2, <4>3, <4>4, ReaderSteps
    <3>2. ViewSafe(g, n)'
      BY <2>1, <3>1
    <3>3. ViewSafe(reader[r].gen, reader[r].size)'
      BY <3>1, <3>2 DEF ViewSafe, Shows
    <3>4. \A i \in DOMAIN lists : i \in DOMAIN lists'
      BY <1>2, OldArrays
    <3> QED
      BY <3>1, <3>3, <3>4
  <2>6. ~ forwardRequired' \/ merging' # "idle" => readGen' = gen' /\ readSize' = size'
    BY <1>2, ViewSteps
  <2> QED
    BY <2>4, <2>5, <2>6 DEF SearchInv
<1> QED
  BY <1>1, <1>2

-----------------------------------------------------------------------------
(* Failed updates *)

\* A step after which every update that is under way was under way before, with
\* its old record untouched, keeps UpdatesInv.
LEMMA UpdatesKept ==
  ASSUME UpdatesInv,
         \A d \in Client : Updating(d)' =>
           /\ Updating(d)
           /\ merging' = "idle"
           /\ client'[d].old = client[d].old
           /\ client'[d].key = client[d].key
           /\ client[d].old \in deletedIds'
           /\ lists'[client[d].old] = lists[client[d].old]
  PROVE  UpdatesInv'
BY DEF UpdatesInv

\* The commands' part of a step, for one client.
LEMMA ClientSteps ==
  ASSUME TypeInv, NEW c \in Client, ClientStep(c), NEW d \in Client, Updating(d)'
  PROVE  \/ /\ Updating(d)
            /\ client'[d].old = client[d].old
            /\ client'[d].key = client[d].key
         \/ /\ d = c
            /\ \E k \in Key : UpdateDelete(c, k) \/ UpdateAbsent(c, k)
<1> USE DEF TypeInv, TypeOK, Updating
<1>1. client[c] \in Command /\ client[d] \in Command
  OBVIOUS
<1>2. CASE d # c
  <2>1. client'[d] = client[d]
    BY <1>2 DEF ClientStep, InsertCheck, Delete, UpdateDelete, UpdateAbsent, InsertAdd, UpdateCheck,
       UpdateAdd, UpdateRecover, Goto, Finish
  <2> QED
    BY <2>1
<1>3. CASE d = c
  <2>1. ASSUME NEW k \in Key, InsertCheck(c, k) PROVE FALSE
    <3>1. client'[c] = [NoCommand EXCEPT !.pc = "insert", !.key = k]
      BY <2>1 DEF InsertCheck
    <3> QED
      BY <1>3, <3>1 DEF NoCommand
  <2>2. ASSUME NEW k \in Key, Delete(c, k)
        PROVE  client' = client
    BY <2>2 DEF Delete
  <2>3. ASSUME Finish(c) PROVE FALSE
    BY <1>3, <2>3 DEF Finish, NoCommand
  <2>4. ASSUME NEW p \in {"add", "recover"}, Goto(c, p), client[c].pc \in {"check", "add"}
        PROVE  /\ Updating(d)
               /\ client'[d].old = client[d].old
               /\ client'[d].key = client[d].key
    BY <1>1, <1>3, <2>4 DEF Goto, Command
  <2>5. CASE UpdateCheck(c)
    BY <2>4, <2>5 DEF UpdateCheck
  <2>6. CASE UpdateAdd(c)
    BY <2>3, <2>4, <2>6 DEF UpdateAdd
  <2>7. CASE InsertAdd(c) \/ UpdateRecover(c)
    BY <2>3, <2>7 DEF InsertAdd, UpdateRecover
  <2> QED
    BY <1>3, <2>1, <2>2, <2>5, <2>6, <2>7 DEF ClientStep
<1> QED
  BY <1>2, <1>3

LEMMA UpdatesInvInit == Init => UpdatesInv
BY DEF Init, UpdatesInv, Updating, NoCommand

LEMMA UpdatesInvStep ==
  ASSUME ~ Overlap, ~ Upsert, TypeInv, StoreInv, UpdatesInv, [Next]_vars
  PROVE  UpdatesInv'
<1> USE DEF UpdatesInv
<1>1. CASE FinishBulkLoad \/ (\E r \in Reader : ReaderStep(r)) \/ UNCHANGED vars
  <2>1. UNCHANGED <<client, deletedIds, lists, merging>>
    BY <1>1 DEF FinishBulkLoad, ReaderStep, ReaderPreEnter, ReaderPreExit, UseRecord,
       writersUnchanged, vars, storeVars
  <2> QED
    BY <2>1, UpdatesKept DEF Updating
<1>2. CASE Merge
  <2>1. client' = client /\ \A c \in Client : ~ Updating(c)
    BY <1>2 DEF Merge, MergeForward, LockExclusive, FreeDeleted, MergeRest, Updating
  <2> QED
    BY <2>1 DEF Updating
<1>3. ASSUME NEW c \in Client, ClientStep(c) PROVE UpdatesInv'
  <2>1. StoreTyped /\ DOMAIN lists \subseteq Id /\ deletedIds \subseteq DOMAIN lists
    BY DEF TypeInv, StoreTyped, StoreInv, DeletedSound
  <2>2. merging' = merging
    BY <1>3 DEF ClientStep, InsertCheck, Delete, UpdateDelete, UpdateAbsent, InsertAdd, UpdateCheck,
       UpdateAdd, UpdateRecover, operationUnchanged
  <2>3. ASSUME NEW k \in Key, UpdateDelete(c, k) PROVE UpdatesInv'
    <3>1. /\ merging = "idle"
          /\ DeleteRecord(k)
          /\ client' = [client EXCEPT ![c] = [pc |-> "check", key |-> k, old |-> idMap[k]]]
      BY <2>3 DEF UpdateDelete, LockFree
    <3>2. /\ k \in DOMAIN idMap
          /\ lists' = lists
          /\ deletedIds' = deletedIds \cup {idMap[k]}
      BY <2>1, <3>1, DeleteEffect, Zenon
    <3>3. lists[idMap[k]] = k /\ idMap[k] \notin deletedIds
      BY <3>2 DEF StoreInv, MapSound, DeletedSound
    <3>4. client \in [Client -> Command]
      BY DEF TypeInv, TypeOK
    <3>5. /\ client'[c].old = idMap[k] /\ client'[c].key = k
          /\ \A d \in Client : d # c => client'[d] = client[d]
      BY <3>1, <3>4
    <3>6. \A d \in Client : d # c /\ Updating(d)' =>
            /\ Updating(d)
            /\ client'[d].old \in deletedIds
            /\ client'[d].old # client'[c].old
            /\ lists[client'[d].old] = client'[d].key
      BY <3>3, <3>5 DEF Updating
    <3>7. \A d, e \in Client :
            Updating(d)' /\ Updating(e)' /\ client'[d].old = client'[e].old => d = e
      BY <3>5, <3>6 DEF Updating
    <3>8. \A d \in Client : Updating(d)' =>
            /\ merging' = "idle"
            /\ client'[d].old \in deletedIds'
            /\ lists'[client'[d].old] = client'[d].key
      BY <2>2, <3>1, <3>2, <3>3, <3>5, <3>6
    <3> QED
      BY <3>7, <3>8
  <2>4. CASE \A k \in Key : ~ UpdateDelete(c, k)
    <3>1. \A k \in Key : ~ UpdateAbsent(c, k)
      BY DEF UpdateAbsent
    <3>2. \A d \in Client : Updating(d)' => /\ Updating(d)
                                            /\ client'[d].old = client[d].old
                                            /\ client'[d].key = client[d].key
      BY <1>3, <2>4, <3>1, ClientSteps
    <3>3. ASSUME NEW d \in Client, Updating(d)'
          PROVE  /\ client[d].old \in deletedIds'
                 /\ lists'[client[d].old] = lists[client[d].old]
      <4> DEFINE i == client[d].old
      <4>1. i \in deletedIds /\ i \in DOMAIN lists
        BY <2>1, <3>2, <3>3
      <4>2. ASSUME NEW k \in Key, AddRecord(k) PROVE i \in deletedIds' /\ lists'[i] = lists[i]
        <5>1. /\ \A j \in DOMAIN lists : j # size => lists'[j] = lists[j]
              /\ deletedIds' = deletedIds
          BY <2>1, <4>2, AddEffect, Zenon
        <5>2. i # size
          BY <4>1, RecordStoreAssumption DEF StoreInv, ListsOwned, TypeInv, TypeOK, Id
        <5> QED
          BY <4>1, <5>1, <5>2
      <4>3. ASSUME NEW k \in Key, DeleteRecord(k) PROVE i \in deletedIds' /\ lists'[i] = lists[i]
        BY <4>1, <4>3 DEF DeleteRecord, DeleteForwardList
      <4>4. CASE UNCHANGED storeUnchanged
        BY <4>1, <4>4 DEF storeUnchanged, storeVars
      <4>5. CASE UpdateRecover(c)
        <5>1. d # c
          BY <4>5, <3>3 DEF UpdateRecover, Finish, Updating, NoCommand, TypeInv, TypeOK
        <5>2. client[c].old # i
          BY <5>1, <3>2, <3>3, <4>5 DEF UpdateRecover, Updating
        <5>3. CASE RecoverRecord(client[c].key, client[c].old)
          BY <4>1, <5>2, <5>3 DEF RecoverRecord, RecoverForwardList
        <5> QED
          BY <4>4, <4>5, <5>3 DEF UpdateRecover
      <4>6. CASE InsertAdd(c) \/ UpdateAdd(c)
        <5>1. client[c].key \in Key
          BY <4>6 DEF InsertAdd, UpdateAdd, TypeInv, CommandsTyped
        <5> QED
          BY <4>2, <4>4, <4>6, <5>1 DEF InsertAdd, UpdateAdd
      <4>7. CASE UpdateCheck(c) \/ \E k \in Key : InsertCheck(c, k)
        BY <4>4, <4>7 DEF UpdateCheck, InsertCheck
      <4>8. CASE \E k \in Key : Delete(c, k)
        BY <4>3, <4>8 DEF Delete
      <4> QED
        BY <1>3, <2>4, <3>1, <4>5, <4>6, <4>7, <4>8 DEF ClientStep
    <3>4. \A d \in Client : Updating(d)' => merging' = "idle"
      BY <2>2, <3>2
    <3> QED
      BY <3>2, <3>3, <3>4, UpdatesKept
  <2> QED
    BY <2>3, <2>4
<1> QED
  BY <1>1, <1>2, <1>3 DEF Next

-----------------------------------------------------------------------------
(* The limit *)

\* Which clients are in a command after a step, and what it did to the counter.
LEMMA BusySteps ==
  ASSUME ~ Upsert, TypeInv, [Next]_vars
  PROVE  \/ Busy' = Busy /\ docs' <= docs
         \/ \E c \in Client \ Busy : /\ Busy' = Busy \cup {c}
                                     /\ \/ docs' = docs /\ docs < DocumentLimit
                                        \/ docs' = docs - 1
         \/ \E c \in Busy : Busy' = Busy \ {c} /\ docs' <= docs + 1
<1> USE DEF TypeInv, TypeOK, Busy
<1>1. CASE FinishBulkLoad \/ Merge \/ (\E r \in Reader : ReaderStep(r)) \/ UNCHANGED vars
  <2>1. UNCHANGED <<client, docs>>
    BY <1>1 DEF FinishBulkLoad, Merge, MergeForward, LockExclusive, FreeDeleted, MergeRest,
       ReaderStep, ReaderPreEnter, ReaderPreExit, UseRecord, writersUnchanged, vars
  <2> QED
    BY <2>1
<1>2. ASSUME NEW c \in Client, ClientStep(c)
      PROVE  \/ Busy' = Busy /\ docs' <= docs
             \/ /\ c \notin Busy
                /\ Busy' = Busy \cup {c}
                /\ \/ docs' = docs /\ docs < DocumentLimit
                   \/ docs' = docs - 1
             \/ /\ c \in Busy
                /\ Busy' = Busy \ {c} /\ docs' <= docs + 1
  <2>1. client \in [Client -> Command] /\ client[c] \in Command /\ docs \in Nat
    OBVIOUS
  <2>2. ASSUME NEW m, m.pc # "idle", client' = [client EXCEPT ![c] = m]
        PROVE  Busy' = Busy \cup {c}
    BY <2>1, <2>2
  <2>3. ASSUME Finish(c) PROVE Busy' = Busy \ {c}
    BY <2>1, <2>3 DEF Finish, NoCommand
  <2>4. ASSUME NEW p \in {"add", "recover"}, Goto(c, p), client[c].pc # "idle"
        PROVE  Busy' = Busy
    BY <2>1, <2>4 DEF Goto, Command
  <2>5. ASSUME NEW k \in Key, InsertCheck(c, k)
        PROVE  /\ c \notin Busy
               /\ Busy' = Busy \cup {c}
               /\ docs' = docs /\ docs < DocumentLimit
    <3>1. [NoCommand EXCEPT !.pc = "insert", !.key = k].pc # "idle"
      BY DEF NoCommand
    <3> QED
      BY <2>2, <2>5, <3>1 DEF InsertCheck, storeUnchanged
  <2>6. ASSUME NEW k \in Key, Delete(c, k)
        PROVE  Busy' = Busy /\ docs' <= docs
    <3>1. client' = client /\ docs' = docs - 1
      BY <2>6 DEF Delete, DeleteRecord
    <3> QED
      BY <2>1, <3>1
  <2>7. ASSUME NEW k \in Key, UpdateDelete(c, k)
        PROVE  /\ c \notin Busy
               /\ Busy' = Busy \cup {c}
               /\ docs' = docs - 1
    <3>1. [pc |-> "check", key |-> k, old |-> idMap[k]].pc # "idle"
      OBVIOUS
    <3> QED
      BY <2>2, <2>7, <3>1 DEF UpdateDelete, DeleteRecord
  <2>8. ASSUME NEW k \in Key, UpdateAbsent(c, k) PROVE FALSE
    BY <2>8 DEF UpdateAbsent
  <2>9. CASE UpdateCheck(c)
    <3>1. Busy' = Busy /\ docs' = docs
      BY <2>4, <2>9 DEF UpdateCheck, storeUnchanged
    <3> QED
      BY <2>1, <3>1
  <2>10. CASE InsertAdd(c)
    <3>1. c \in Busy /\ Busy' = Busy \ {c} /\ (docs' = docs + 1 \/ docs' = docs)
      BY <2>3, <2>10 DEF InsertAdd, AddRecord, storeUnchanged
    <3> QED
      BY <2>1, <3>1
  <2>11. CASE UpdateAdd(c)
    <3>1. \/ c \in Busy /\ Busy' = Busy \ {c} /\ docs' = docs + 1
          \/ Busy' = Busy /\ docs' = docs
      BY <2>3, <2>4, <2>11 DEF UpdateAdd, AddRecord, storeUnchanged
    <3> QED
      BY <2>1, <3>1
  <2>12. CASE UpdateRecover(c)
    <3>1. c \in Busy /\ Busy' = Busy \ {c} /\ (docs' = docs + 1 \/ docs' = docs)
      BY <2>3, <2>12 DEF UpdateRecover, RecoverRecord, storeUnchanged
    <3> QED
      BY <2>1, <3>1
  <2> QED
    BY <1>2, <2>5, <2>6, <2>7, <2>8, <2>9, <2>10, <2>11, <2>12 DEF ClientStep
<1>3. CASE \E c \in Client : ClientStep(c)
  BY <1>2, <1>3
<1> QED
  BY <1>1, <1>3 DEF Next

LEMMA BusyFinite ==
  IsFiniteSet(Client) => /\ IsFiniteSet(Busy)
                         /\ Cardinality(Busy) \in Nat
                         /\ Cardinality(Client) \in Nat
                         /\ Cardinality(Busy) <= Cardinality(Client)
BY FS_Subset, FS_CardinalityType DEF Busy

LEMMA LimitInvStep ==
  ASSUME ~ Upsert, IsFiniteSet(Client), TypeInv, LimitInv, [Next]_vars
  PROVE  LimitInv'
<1>1. docs \in Nat /\ docs' \in Nat /\ DocumentLimit \in Nat
  BY TypeStep, RecordStoreAssumption DEF TypeInv, TypeOK
<1>2. /\ IsFiniteSet(Busy)
      /\ Cardinality(Busy) \in Nat /\ Cardinality(Client) \in Nat
      /\ Cardinality(Busy) <= Cardinality(Client)
  BY BusyFinite
<1>3. (IsFiniteSet(Client) => /\ IsFiniteSet(Busy)
                              /\ Cardinality(Busy) \in Nat
                              /\ Cardinality(Client) \in Nat
                              /\ Cardinality(Busy) <= Cardinality(Client))'
  BY BusyFinite, PTL
<1>4. Cardinality(Busy') \in Nat /\ Cardinality(Busy') <= Cardinality(Client)
  BY <1>3
<1>5. CASE Busy' = Busy /\ docs' <= docs
  BY <1>1, <1>2, <1>5 DEF LimitInv
<1>6. ASSUME NEW c \in Client \ Busy, Busy' = Busy \cup {c},
             (docs' = docs /\ docs < DocumentLimit) \/ docs' = docs - 1
      PROVE  LimitInv'
  <2>1. Cardinality(Busy') = Cardinality(Busy) + 1
    BY <1>2, <1>6, FS_AddElement
  <2> QED
    BY <1>1, <1>2, <1>4, <1>6, <2>1 DEF LimitInv
<1>7. ASSUME NEW c \in Busy, Busy' = Busy \ {c}, docs' <= docs + 1
      PROVE  LimitInv'
  <2>1. Cardinality(Busy') = Cardinality(Busy) - 1
    BY <1>2, <1>7, FS_RemoveElement
  <2> QED
    BY <1>1, <1>2, <1>7, <2>1 DEF LimitInv
<1> QED
  BY <1>5, <1>6, <1>7, BusySteps

LEMMA LimitInvInit ==
  ASSUME IsFiniteSet(Client), Client # {}, Init
  PROVE  LimitInv
<1>1. Busy = {} /\ docs = 0
  BY DEF Init, Busy, NoCommand
<1>2. Cardinality(Busy) = 0
  BY <1>1, FS_EmptySet
<1>3. Cardinality(Client) \in Nat /\ Cardinality(Client) # 0
  BY FS_CardinalityType, FS_EmptySet
<1> QED
  BY <1>1, <1>2, <1>3, RecordStoreAssumption DEF LimitInv

LEMMA LimitInvLimit ==
  ASSUME IsFiniteSet(Client), TypeInv, LimitInv
  PROVE  WithinLimit
BY BusyFinite, RecordStoreAssumption DEF LimitInv, WithinLimit, TypeInv, TypeOK

\* However many clients pass the check of the limit together, the index never
\* holds as many documents above the limit as there are clients, provided that
\* only existing records are updated.
THEOREM LimitKept ==
  ASSUME ~ Upsert, IsFiniteSet(Client), Client # {}
  PROVE  Spec => []WithinLimit
<1>1. Init => LimitInv
  BY LimitInvInit
<1>2. TypeInv /\ LimitInv /\ [Next]_vars => LimitInv'
  BY LimitInvStep
<1>3. TypeInv /\ LimitInv => WithinLimit
  BY LimitInvLimit
<1> QED
  BY <1>1, <1>2, <1>3, TypeInit, TypeStep, PTL DEF Spec

-----------------------------------------------------------------------------
(* What the commands and the searches may rely on *)

LEMMA SafeViews == TypeInv /\ SearchInv => SearchSafe /\ OneRecordPerKey
<1> SUFFICES ASSUME TypeInv, SearchInv PROVE SearchSafe /\ OneRecordPerKey
  OBVIOUS
<1>1. DOMAIN lists \subseteq Id
  BY DEF TypeInv, StoreTyped
<1>2. SearchSafe
  BY DEF SearchInv, ViewSafe, SearchSafe
<1>3. OneRecordPerKey
  BY <1>1 DEF SearchInv, ViewSafe, OneRecordPerKey
<1> QED
  BY <1>2, <1>3

\* As long as no update resumes a record that is gone, a search meets no freed
\* forward list, however commands, merges and searches interleave.
THEOREM SearchesSafe == Spec /\ []RecoverSound => []SearchSafe
BY TypeInit, TypeStep, StoreInvInit, StoreInvStep, SearchInvInit, SearchInvStep, SafeViews, PTL
   DEF Spec

\* Nor does it find two records with one key.
THEOREM SearchesDistinct == Spec /\ []RecoverSound => []OneRecordPerKey
BY TypeInit, TypeStep, StoreInvInit, StoreInvStep, SearchInvInit, SearchInvStep, SafeViews, PTL
   DEF Spec

LEMMA UpdatesRecoverable == UpdatesInv => RecoverSound
BY DEF UpdatesInv, RecoverSound, Updating

\* Where merges wait for the commands and only existing records are updated,
\* no update resumes a record that is gone ...
THEOREM RecoveriesSound ==
  ASSUME ~ Overlap, ~ Upsert
  PROVE  Spec => []RecoverSound
<1>1. TypeInv /\ StoreInv /\ UpdatesInv /\ [Next]_vars => UpdatesInv'
  BY UpdatesInvStep
<1> QED
  BY <1>1, TypeInit, TypeStep, StoreInvInit, StoreInvStep, UpdatesInvInit, UpdatesRecoverable, PTL
     DEF Spec

\* ... so the id map, the delete flags and the lists tell one story ...
THEOREM MapAlwaysSound ==
  ASSUME ~ Overlap, ~ Upsert
  PROVE  Spec => []MapSound
<1>1. Spec => []RecoverSound
  BY RecoveriesSound
<1>2. StoreInv => MapSound
  BY DEF StoreInv
<1> QED
  BY <1>1, <1>2, TypeInit, TypeStep, StoreInvInit, StoreInvStep, PTL DEF Spec

\* ... and the merge frees the deleted records, all of them and no other.
THEOREM DeletedAlwaysSound ==
  ASSUME ~ Overlap, ~ Upsert
  PROVE  Spec => []DeletedSound
<1>1. Spec => []RecoverSound
  BY RecoveriesSound
<1>2. StoreInv => DeletedSound
  BY DEF StoreInv
<1> QED
  BY <1>1, <1>2, TypeInit, TypeStep, StoreInvInit, StoreInvStep, PTL DEF Spec

-----------------------------------------------------------------------------
(* A single client below the limit *)

\* No update fails: its key is free when it comes to insert the new record.
NoFailedUpdate ==
  \A c \in Client : /\ client[c].pc # "recover"
                    /\ client[c].pc \in {"check", "add"} => client[c].key \notin DOMAIN idMap

LEMMA NoFailedUpdateInit == Init => NoFailedUpdate
BY DEF Init, NoFailedUpdate, NoCommand

LEMMA NoFailedUpdateStep ==
  ASSUME IsFiniteSet(Key), Cardinality(Key) < DocumentLimit, NEW a \in Client, Client = {a},
         TypeInv, NoFailedUpdate, [Next]_vars
  PROVE  NoFailedUpdate'
<1> USE DEF NoFailedUpdate
<1>1. docs < DocumentLimit
  <2>1. /\ docs = Cardinality(DOMAIN idMap)
        /\ DOMAIN idMap \subseteq Key
    BY DEF TypeInv, StoreTyped, CountAgrees
  <2>2. Cardinality(DOMAIN idMap) <= Cardinality(Key) /\ IsFiniteSet(DOMAIN idMap)
    BY <2>1, FS_Subset
  <2>3. Cardinality(DOMAIN idMap) \in Nat /\ Cardinality(Key) \in Nat
    BY <2>2, FS_CardinalityType
  <2> QED
    BY <2>1, <2>2, <2>3, RecordStoreAssumption
<1>2. CASE FinishBulkLoad \/ Merge \/ (\E r \in Reader : ReaderStep(r)) \/ UNCHANGED vars
  <2>1. UNCHANGED <<client, idMap>>
    BY <1>2 DEF FinishBulkLoad, Merge, MergeForward, LockExclusive, FreeDeleted, MergeRest,
       ReaderStep, ReaderPreEnter, ReaderPreExit, UseRecord, writersUnchanged, vars, storeVars
  <2> QED
    BY <2>1
<1>3. CASE ClientStep(a)
  <2>1. client \in [Client -> Command] /\ client[a] \in Command
    BY DEF TypeInv, TypeOK
  <2> SUFFICES /\ client'[a].pc # "recover"
               /\ client'[a].pc \in {"check", "add"} => client'[a].key \notin DOMAIN idMap'
    OBVIOUS
  <2>2. ASSUME NEW k \in Key, InsertCheck(a, k) PROVE client'[a].pc = "insert"
    BY <2>1, <2>2 DEF InsertCheck, NoCommand
  <2>3. ASSUME NEW k \in Key, Delete(a, k)
        PROVE  client'[a].pc = "idle"
    BY <2>3 DEF Delete
  <2>4. ASSUME NEW k \in Key, UpdateDelete(a, k)
        PROVE  client'[a].pc = "check" /\ client'[a].key \notin DOMAIN idMap'
    <3>1. DOMAIN idMap' = DOMAIN idMap \ {k}
      BY <2>4 DEF UpdateDelete, DeleteRecord, DeleteForwardList, Without
    <3> QED
      BY <2>1, <2>4, <3>1 DEF UpdateDelete
  <2>5. ASSUME NEW k \in Key, UpdateAbsent(a, k)
        PROVE  client'[a].pc = "check" /\ client'[a].key \notin DOMAIN idMap'
    BY <2>1, <2>5 DEF UpdateAbsent, storeUnchanged, storeVars
  <2>6. CASE UpdateCheck(a)
    <3>1. client' = [client EXCEPT ![a].pc = "add"] /\ idMap' = idMap
      BY <1>1, <2>6 DEF UpdateCheck, Goto, storeUnchanged, storeVars
    <3>2. client'[a].pc = "add" /\ client'[a].key = client[a].key
      BY <2>1, <3>1 DEF Command
    <3> QED
      BY <2>6, <3>1, <3>2 DEF UpdateCheck
  <2>7. CASE InsertAdd(a) \/ UpdateAdd(a) \/ UpdateRecover(a)
    <3>1. Finish(a)
      BY <2>7 DEF InsertAdd, UpdateAdd, UpdateRecover
    <3> QED
      BY <2>1, <3>1 DEF Finish, NoCommand
  <2> QED
    BY <1>3, <2>2, <2>3, <2>4, <2>5, <2>6, <2>7 DEF ClientStep
<1> QED
  BY <1>2, <1>3 DEF Next

LEMMA NoFailedUpdateRecovers == NoFailedUpdate => RecoverSound
BY DEF NoFailedUpdate, RecoverSound

-----------------------------------------------------------------------------

=============================================================================
