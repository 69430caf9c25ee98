----------------------------- MODULE RecordStore -----------------------------
(***************************************************************************)
(* The records of one core: the forward index with its delete flags, the   *)
(* map from primary keys to internal record ids, and the insert, delete    *)
(* and update commands of the HTTP clients, run against the merge and      *)
(* against searches.                                                       *)
(*                                                                         *)
(*   ForwardIndex.cpp     directory of forward lists, delete flags         *)
(*   IndexData.cpp        _addRecord, _deleteRecord, _recoverRecord,       *)
(*                        finishBulkLoad, _merge                           *)
(*   IndexerInternal.cpp  the same operations under lockForWriters         *)
(*   IndexWriteUtil.cpp   the commands, each of one or several operations  *)
(*                                                                         *)
(* The directory is a cowvector of pairs (forward list, valid).  Module    *)
(* CowVector shows that its arrays are reclaimed safely, so here an array  *)
(* is just a generation number and stays.  What matters is which array a   *)
(* view shows: delete flags are written in place, into the array the       *)
(* current read view shares unless the directory has been reallocated.     *)
(*                                                                         *)
(* lockForWriters makes every operation of IndexReaderWriter atomic but    *)
(* the merge, which keeps it (merging # "idle") while searches go on.      *)
(***************************************************************************)
EXTENDS Integers, FiniteSets

CONSTANTS
  Key,            \* primary keys
  Client,         \* threads that serve write requests
  Reader,         \* threads that serve searches
  None,           \* no key, no record
  InitCapacity,   \* capacity of the directory
  MaxId,          \* bound: internal record ids stay below MaxId
  DocumentLimit,  \* the license's limit on the number of documents
  Upsert,         \* TRUE: updates of absent records are requested too
  Overlap         \* TRUE: a merge may start while a command is under way

ASSUME RecordStoreAssumption ==
  /\ None \notin Key
  /\ None \notin Int
  /\ InitCapacity \in Nat
  /\ MaxId \in Nat
  /\ DocumentLimit \in Nat
  /\ Upsert \in BOOLEAN
  /\ Overlap \in BOOLEAN

Id == 0 .. MaxId - 1

VARIABLES
  idMap,              \* externalToInternalRecordIdMap
  lists,              \* the ForwardList objects that exist: primary key by id
  dirs,               \* the arrays of forwardListDirectory, by generation
  gen,                \* generation the write view is on
  size,               \* size of the write view
  readGen,            \* generation the read view is on, since the last merge
  readSize,           \* size of the read view
  deletedIds,         \* deletedRecordInternalIds
  mergeRequired,      \* IndexData::mergeRequired
  forwardRequired,    \* ForwardIndex::mergeRequired
  docs,               \* WriteCounter::numberOfDocumentsIndexed
  bulkLoadDone,       \* flagBulkLoadDone
  merging,            \* where the merge is; it holds lockForWriters
  client,             \* client[c]: the command c serves
  reader              \* reader[r]: the search r serves

storeVars == <<idMap, lists, dirs, gen, size, deletedIds>>
viewVars == <<readGen, readSize>>
flagVars == <<mergeRequired, forwardRequired>>
vars == <<storeVars, viewVars, flagVars, docs, bulkLoadDone, merging, client, reader>>

\* ForwardListPtr: first says whether the pointer is set (to the list of that
\* id), second is the valid flag.
Cell == [first : BOOLEAN, second : BOOLEAN]
Null == [first |-> FALSE, second |-> FALSE]

Directory == [capacity : Nat, cell : [Id -> Cell]]

Command == [pc : {"idle", "insert", "check", "add", "recover"},
            key : Key \cup {None}, old : Id \cup {None}]
NoCommand == [pc |-> "idle", key |-> None, old |-> None]

Search == [pc : {"out", "in"}, gen : Nat, size : Nat,
           list : Id \cup {None}]
NoSearch == [pc |-> "out", gen |-> 0, size |-> 0, list |-> None]

TypeOK ==
  /\ DOMAIN idMap \subseteq Key
  /\ idMap \in [DOMAIN idMap -> Id]
  /\ DOMAIN lists \subseteq Id
  /\ lists \in [DOMAIN lists -> Key]
  /\ gen \in Nat
  /\ dirs \in [0 .. gen -> Directory]
  /\ size \in Nat
  /\ readGen \in 0 .. gen
  /\ readSize \in Nat
  /\ deletedIds \subseteq Id
  /\ mergeRequired \in BOOLEAN
  /\ forwardRequired \in BOOLEAN
  /\ docs \in Nat
  /\ bulkLoadDone \in BOOLEAN
  /\ merging \in {"idle", "free", "exclusive", "rest"}
  /\ client \in [Client -> Command]
  /\ reader \in [Reader -> Search]

Init ==
  /\ idMap = [k \in {} |-> 0]
  /\ lists = [i \in {} |-> None]
  /\ gen = 0
  /\ dirs = [g \in {0} |-> [capacity |-> InitCapacity, cell |-> [i \in Id |-> Null]]]
  /\ size = 0
  /\ readGen = 0
  /\ readSize = 0
  /\ deletedIds = {}
  /\ mergeRequired = TRUE
  /\ forwardRequired = TRUE
  /\ docs = 0
  /\ bulkLoadDone = FALSE
  /\ merging = "idle"
  /\ client = [c \in Client |-> NoCommand]
  /\ reader = [r \in Reader |-> NoSearch]

-----------------------------------------------------------------------------
(* The forward index *)

Without(f, S) == [x \in DOMAIN f \ S |-> f[x]]
With(f, x, y) == [z \in DOMAIN f \cup {x} |-> IF z = x THEN y ELSE f[z]]

cells == dirs[gen].cell

\* The capacity at() settles on (a set of one number), as in CowVector.
GrownCapacity(c, i) ==
  {d \in i + 1 .. 2 * i + 1 : \E n \in 1 .. MaxId + 1 : d + 1 = (c + 1) * 2^n}

\* getWriteView()->at(i) = v: reallocates beyond the capacity; a fresh array
\* holds (NULL, false) pairs, and push_back() is at(size).
WriteCell(i, v) ==
  /\ IF i < dirs[gen].capacity
     THEN /\ dirs' = [dirs EXCEPT ![gen].cell[i] = v]
          /\ gen' = gen
     ELSE /\ \E d \in GrownCapacity(dirs[gen].capacity, i) :
               dirs' = With(dirs, gen + 1,
                         [capacity |-> d,
                          cell |-> [j \in Id |-> IF j = i THEN v
                                                 ELSE IF j < size THEN cells[j]
                                                 ELSE Null]])
          /\ gen' = gen + 1
  /\ size' = IF i < size THEN size ELSE i + 1

\* setDeleteFlag, resetDeleteFlag.
SetValid(i, valid) == WriteCell(i, [cells[i] EXCEPT !.second = valid])

LockFree == merging = "idle"

\* Bulk loading works on one view, which is the read view too.
ViewGen == IF bulkLoadDone THEN readGen ELSE gen
ViewSize == IF bulkLoadDone THEN readSize ELSE size

\* getForwardList(): the valid flag as a view shows it.
Shows(g, n, i) == i < n /\ dirs[g].cell[i].second

-----------------------------------------------------------------------------
(* The operations of IndexReaderWriter, under lockForWriters *)

\* ForwardIndex::appendExternalRecordIdToIdMap: the next internal id.
AppendToIdMap(k) == idMap' = With(idMap, k, size)

\* ForwardIndex::addRecord: a new list at the end of the directory.
AddForwardList(k) ==
  /\ lists' = With(lists, size, k)
  /\ WriteCell(size, [first |-> TRUE, second |-> TRUE])
  /\ forwardRequired' = TRUE

\* Mutant: the flag is not cleared.
DeleteKeepingFlag(k) ==
  /\ idMap' = Without(idMap, {k})
  /\ deletedIds' = deletedIds \cup {idMap[k]}
  /\ forwardRequired' = TRUE
  /\ UNCHANGED <<dirs, gen, size>>

\* ForwardIndex::deleteRecordGetInternalId: the flag is cleared in place, the
\* list stays until the merge frees it.
DeleteForwardList(k) ==
  /\ SetValid(idMap[k], FALSE)
  /\ idMap' = Without(idMap, {k})
  /\ deletedIds' = deletedIds \cup {idMap[k]}
  /\ forwardRequired' = TRUE

\* Mutant: the id stays among those the merge will free.
RecoverStillDeleted(k, i) ==
  /\ SetValid(i, TRUE)
  /\ idMap' = With(idMap, k, i)
  /\ forwardRequired' = TRUE
  /\ UNCHANGED deletedIds

\* ForwardIndex::recoverRecord: sets the flag of id i again, whatever list is
\* there.
RecoverForwardList(k, i) ==
  /\ SetValid(i, TRUE)
  /\ idMap' = With(idMap, k, i)
  /\ deletedIds' = deletedIds \ {i}
  /\ forwardRequired' = TRUE

\* Mutant: the record is not counted.
AddUncounted(k) ==
  /\ k \notin DOMAIN idMap
  /\ size < MaxId
  /\ AppendToIdMap(k)
  /\ AddForwardList(k)
  /\ mergeRequired' = TRUE
  /\ UNCHANGED <<deletedIds, docs>>

\* addRecord: the primary key is new.
AddRecord(k) ==
  /\ k \notin DOMAIN idMap
  /\ size < MaxId
  /\ docs' = docs + 1
  /\ AppendToIdMap(k)
  /\ AddForwardList(k)
  /\ mergeRequired' = TRUE
  /\ UNCHANGED deletedIds

\* Mutant: the merge is not asked for.
DeleteQuietly(k) ==
  /\ k \in DOMAIN idMap
  /\ DeleteForwardList(k)
  /\ docs' = docs - 1
  /\ UNCHANGED <<lists, mergeRequired>>

\* deleteRecordGetInternalId.
DeleteRecord(k) ==
  /\ k \in DOMAIN idMap
  /\ DeleteForwardList(k)
  /\ docs' = docs - 1
  /\ mergeRequired' = TRUE
  /\ UNCHANGED lists

\* recoverRecord, which refuses a key that is in the map.
RecoverRecord(k, i) ==
  /\ k \notin DOMAIN idMap
  /\ RecoverForwardList(k, i)
  /\ docs' = docs + 1
  /\ mergeRequired' = TRUE
  /\ UNCHANGED lists

-----------------------------------------------------------------------------
(* Bulk load and merge *)

\* commit() of a new index: finishBulkLoad() publishes the first read view.
FinishBulkLoad ==
  /\ LockFree /\ ~bulkLoadDone
  /\ bulkLoadDone' = TRUE
  /\ readGen' = gen
  /\ readSize' = size
  /\ forwardRequired' = FALSE
  /\ UNCHANGED <<storeVars, mergeRequired, docs, merging, client, reader>>

\* ForwardIndex::merge.
PublishForward ==
  /\ readGen' = (IF forwardRequired THEN gen ELSE readGen)
  /\ readSize' = (IF forwardRequired THEN size ELSE readSize)
  /\ forwardRequired' = FALSE

\* merge() takes lockForWriters and publishes the directory.  Without Overlap
\* it never falls between the operations of one command.
MergeForward ==
  /\ LockFree /\ bulkLoadDone /\ mergeRequired
  /\ Overlap \/ \A c \in Client : client[c].pc = "idle"
  /\ PublishForward
  /\ merging' = (IF deletedIds # {} THEN "free" ELSE "rest")
  /\ UNCHANGED <<storeVars, mergeRequired, docs, bulkLoadDone, client, reader>>

\* The merge asks for the exclusive globalRwMutex; from now on the mutex, a
\* boost::shared_mutex, lets no further search in.
LockExclusive ==
  /\ merging = "free"
  /\ merging' = "exclusive"
  /\ UNCHANGED <<storeVars, viewVars, flagVars, docs, bulkLoadDone, client, reader>>

\* Mutant: freeing does not wait for the searches to leave.
FreeBlindly ==
  /\ merging = "exclusive"
  /\ lists' = Without(lists, deletedIds)
  /\ dirs' = [dirs EXCEPT ![gen].cell =
                [i \in Id |-> IF i \in deletedIds THEN [@[i] EXCEPT !.first = FALSE]
                              ELSE @[i]]]
  /\ deletedIds' = {}
  /\ merging' = "rest"
  /\ UNCHANGED <<idMap, gen, size, viewVars, flagVars, docs, bulkLoadDone, client, reader>>

\* Mutant: the pointers are kept.
FreeDangling ==
  /\ merging = "exclusive"
  /\ \A r \in Reader : reader[r].pc # "in"
  /\ lists' = Without(lists, deletedIds)
  /\ deletedIds' = {}
  /\ merging' = "rest"
  /\ UNCHANGED <<idMap, dirs, gen, size, viewVars, flagVars, docs, bulkLoadDone, client, reader>>

\* freeSpaceOfDeletedRecords(), once the searches have left.
FreeDeleted ==
  /\ merging = "exclusive"
  /\ \A r \in Reader : reader[r].pc # "in"
  /\ lists' = Without(lists, deletedIds)
  /\ dirs' = [dirs EXCEPT ![gen].cell =
                [i \in Id |-> IF i \in deletedIds THEN [@[i] EXCEPT !.first = FALSE]
                              ELSE @[i]]]
  /\ deletedIds' = {}
  /\ merging' = "rest"
  /\ UNCHANGED <<idMap, gen, size, viewVars, flagVars, docs, bulkLoadDone, client, reader>>

\* The other indexes are merged (module SearchViews); the lock is released.
MergeRest ==
  /\ merging = "rest"
  /\ mergeRequired' = FALSE
  /\ merging' = "idle"
  /\ UNCHANGED <<storeVars, viewVars, forwardRequired, docs, bulkLoadDone, client, reader>>

-----------------------------------------------------------------------------
(* The commands *)

Goto(c, pc) == client' = [client EXCEPT ![c].pc = pc]
Finish(c) == client' = [client EXCEPT ![c] = NoCommand]

operationUnchanged == <<viewVars, bulkLoadDone, merging, reader>>
storeUnchanged == <<storeVars, flagVars, docs>>

\* Mutant: one document too many.
InsertCheckOffByOne(c, k) ==
  /\ client[c].pc = "idle"
  /\ docs <= DocumentLimit
  /\ client' = [client EXCEPT ![c] = [NoCommand EXCEPT !.pc = "insert", !.key = k]]
  /\ UNCHANGED <<storeUnchanged, operationUnchanged>>

\* _insertCommand compares the counter with the limit before it takes the lock.
InsertCheck(c, k) ==
  /\ client[c].pc = "idle"
  /\ docs < DocumentLimit
  /\ client' = [client EXCEPT ![c] = [NoCommand EXCEPT !.pc = "insert", !.key = k]]
  /\ UNCHANGED <<storeUnchanged, operationUnchanged>>

\* ... and adds the record, or answers that the key exists.
InsertAdd(c) ==
  /\ client[c].pc = "insert" /\ LockFree
  /\ \/ AddRecord(client[c].key)
     \/ client[c].key \in DOMAIN idMap /\ UNCHANGED storeUnchanged
  /\ Finish(c)
  /\ UNCHANGED operationUnchanged

\* _deleteCommand.
Delete(c, k) ==
  /\ client[c].pc = "idle" /\ LockFree
  /\ DeleteRecord(k)
  /\ UNCHANGED <<client, operationUnchanged>>

\* _updateCommand, step 1: delete the old record.
UpdateDelete(c, k) ==
  /\ client[c].pc = "idle" /\ LockFree
  /\ DeleteRecord(k)
  /\ client' = [client EXCEPT ![c] = [pc |-> "check", key |-> k, old |-> idMap[k]]]
  /\ UNCHANGED operationUnchanged

\* ... or find none; deletedInternalRecordId is then uninitialized.
UpdateAbsent(c, k) ==
  /\ client[c].pc = "idle" /\ LockFree
  /\ Upsert /\ k \notin DOMAIN idMap
  /\ \E i \in Id :
       client' = [client EXCEPT ![c] = [pc |-> "check", key |-> k, old |-> i]]
  /\ UNCHANGED <<storeUnchanged, operationUnchanged>>

\* Step 2: insert the new one, if the limit allows (read without the lock).
UpdateCheck(c) ==
  /\ client[c].pc = "check"
  /\ Goto(c, IF docs < DocumentLimit THEN "add" ELSE "recover")
  /\ UNCHANGED <<storeUnchanged, operationUnchanged>>

UpdateAdd(c) ==
  /\ client[c].pc = "add" /\ LockFree
  /\ \/ AddRecord(client[c].key) /\ Finish(c)
     \/ client[c].key \in DOMAIN idMap /\ Goto(c, "recover") /\ UNCHANGED storeUnchanged
  /\ UNCHANGED operationUnchanged

\* The insertion failed: resume the old record.
UpdateRecover(c) ==
  /\ client[c].pc = "recover" /\ LockFree
  /\ \/ RecoverRecord(client[c].key, client[c].old)
     \/ client[c].key \in DOMAIN idMap /\ UNCHANGED storeUnchanged
  /\ Finish(c)
  /\ UNCHANGED operationUnchanged

-----------------------------------------------------------------------------
(* The searches *)

writersUnchanged ==
  <<storeVars, viewVars, flagVars, docs, bulkLoadDone, merging, client>>

\* readerPreEnter: the shared globalRwMutex, then the read view.
ReaderPreEnter(r) ==
  /\ reader[r].pc = "out" /\ bulkLoadDone
  /\ merging # "exclusive"
  /\ reader' = [reader EXCEPT ![r] =
                  [pc |-> "in", gen |-> readGen, size |-> readSize, list |-> None]]
  /\ UNCHANGED writersUnchanged

\* The search meets record i and works on its forward list if it is valid.
UseRecord(r, i) ==
  /\ reader[r].pc = "in"
  /\ Shows(reader[r].gen, reader[r].size, i)
  /\ reader' = [reader EXCEPT ![r].list = i]
  /\ UNCHANGED writersUnchanged

\* readerPreExit.
ReaderPreExit(r) ==
  /\ reader[r].pc = "in"
  /\ reader' = [reader EXCEPT ![r] = NoSearch]
  /\ UNCHANGED writersUnchanged

-----------------------------------------------------------------------------

Merge == MergeForward \/ LockExclusive \/ FreeDeleted \/ MergeRest

ClientStep(c) ==
  \/ \E k \in Key : InsertCheck(c, k) \/ Delete(c, k) \/ UpdateDelete(c, k) \/ UpdateAbsent(c, k)
  \/ InsertAdd(c) \/ UpdateCheck(c) \/ UpdateAdd(c) \/ UpdateRecover(c)

ReaderStep(r) ==
  ReaderPreEnter(r) \/ ReaderPreExit(r) \/ \E i \in Id : UseRecord(r, i)

Next ==
  \/ FinishBulkLoad
  \/ Merge
  \/ \E c \in Client : ClientStep(c)
  \/ \E r \in Reader : ReaderStep(r)

Spec == Init /\ [][Next]_vars

\* Searches end, and the merge thread, which wakes at least every
\* mergeEveryNSeconds, merges and finishes what it started.
FairSpec ==
  /\ Spec
  /\ WF_vars(Merge)
  /\ \A r \in Reader : WF_vars(ReaderPreExit(r))

-----------------------------------------------------------------------------
(* Properties *)

\* The id map and the delete flags agree: a key is mapped to a record that
\* exists, is valid and carries that key, and every valid record of the write
\* view is the one its key is mapped to.  Insert, delete, recover and the
\* merge each update the two structures separately.
MapSound ==
  /\ \A k \in DOMAIN idMap :
       /\ idMap[k] < size
       /\ cells[idMap[k]] = [first |-> TRUE, second |-> TRUE]
       /\ idMap[k] \in DOMAIN lists
       /\ lists[idMap[k]] = k
  /\ \A i \in Id : i < size /\ cells[i].second =>
       /\ i \in DOMAIN lists
       /\ lists[i] \in DOMAIN idMap
       /\ idMap[lists[i]] = i

\* The assertions of freeSpaceOfDeletedRecords(), and that it misses no list:
\* the ids to free are the deleted records whose list still exists.
DeletedSound ==
  deletedIds = {i \in DOMAIN lists : i < size /\ cells[i].first /\ ~cells[i].second}

\* A directory pointer that is set points to a list that exists, and every
\* list is pointed to: nothing is freed twice and nothing is lost, although
\* flags, pointers and the set of deleted ids change in different operations.
ListsOwned == DOMAIN lists = {i \in Id : i < size /\ cells[i].first}

\* A search never works on a forward list that has been freed, nor can it meet
\* one: neither on the shared array nor on one it alone still uses.
SearchSafe ==
  \A r \in Reader : reader[r].pc = "in" =>
    /\ reader[r].list # None => reader[r].list \in DOMAIN lists
    /\ \A i \in Id : Shows(reader[r].gen, reader[r].size, i) => i \in DOMAIN lists

\* A search never finds two records with the same key, although an update puts
\* the new record beside the old one.
OneRecordPerKey ==
  \A r \in Reader : reader[r].pc = "in" =>
    \A i, j \in DOMAIN lists :
      /\ Shows(reader[r].gen, reader[r].size, i)
      /\ Shows(reader[r].gen, reader[r].size, j)
      /\ lists[i] = lists[j]
      => i = j

\* The document counter, which the commands compare with the limit, counts the
\* keys of the map.
CountAgrees == docs = Cardinality(DOMAIN idMap)

\* What a deleted record occupies is released: by a merge, unless the record
\* is recovered first.
Released ==
  \A i \in Id : (bulkLoadDone /\ i \in deletedIds) ~> (i \notin deletedIds)

\* The limit is checked before the lock is taken, so concurrent commands can
\* pass it together: by at most one document for each further client.
WithinLimit == docs < DocumentLimit + Cardinality(Client)

\* No valid record lacks its forward list: _recoverRecord(), searches and the
\* inverted lists' merge dereference the list of a valid record unchecked.
ValidHasList == \A i \in Id : cells[i].second => cells[i].first

=============================================================================
