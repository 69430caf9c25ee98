----------------------------- MODULE SearchViews -----------------------------
(***************************************************************************)
(* Searches against the merge of the three indexes of one core.  A search  *)
(* takes its read views one after the other (IndexData::getReadView: trie, *)
(* forward index, inverted index), while IndexData::_merge publishes them  *)
(* one after the other (forward index, directory of inverted lists, each   *)
(* list, trie), reassigns keyword ids and removes the leaves of keywords   *)
(* that have no records left.                                              *)
(*                                                                         *)
(* A record has one keyword.  Keywords are numbers in alphabetical order.  *)
(* A terminal trie node carries the offset of its inverted list and its    *)
(* keyword id, and the forward list of a record the id of its keyword.     *)
(* Which ids the trie gives is the subject of module KeywordIds, and record*)
(* memory that of module RecordStore: here ids are any that keep the order,*)
(* and the delete flags are one set.                                       *)
(*                                                                         *)
(* lockForWriters is held by the merge from its first to its last step.    *)
(***************************************************************************)
EXTENDS Integers, FiniteSets

CONSTANTS
  Keyword,      \* keywords, numbers in alphabetical order
  Reader,       \* threads that serve searches
  None,         \* no keyword, no cache entry
  MaxRecords,   \* bound: records ever added
  MaxId,        \* MAX_ALLOCATED_KEYWORD_ID
  Room,         \* TRUE: a new keyword always finds an id between its neighbours
  CacheResults  \* TRUE: the query results cache is on

ASSUME SearchViewsAssumption ==
  /\ Keyword \subseteq Nat /\ None \notin Keyword
  /\ MaxRecords \in Nat
  /\ MaxId \in Nat /\ Room \in BOOLEAN
  /\ Room => \A k \in Keyword : k <= MaxId
  /\ CacheResults \in BOOLEAN

Record == 0 .. MaxRecords - 1

VARIABLES
  content,      \* content[i]: [key, id], the forward list of record i
  valid,        \* records whose delete flag is not set
  trie,         \* root_writeview: terminal nodes by keyword
  trieRead,     \* root_readview
  copied,       \* keywords whose path was copied since the last trie merge
  terminals,    \* numberOfTerminalNodes
  reassign,     \* trieNodesToReassign
  emptyLeaves,  \* emptyLeafNodeIds
  lists,        \* inverted lists, write views: a set of records by offset
  listsRead,    \* inverted lists, read views
  toMerge,      \* invertedListKeywordSetToMerge: pairs offset, keyword
  sizeRead,     \* size of the forward index read view
  dirRead,      \* size of the read view of the inverted list directory
  mergeRequired,
  merging,      \* where the merge is; it holds lockForWriters
  published,    \* history: the records whose merge has been completed
  cache,        \* the query results cache
  reader        \* reader[r]: the search r serves

indexVars == <<content, valid, trie, copied, terminals, reassign, emptyLeaves, lists, toMerge>>
readVars == <<trieRead, listsRead, sizeRead, dirRead>>
mergeVars == <<mergeRequired, merging, published>>
vars == <<indexVars, readVars, mergeVars, cache, reader>>

Node == [offset : Nat, id : Nat]
Pc == {"out", "enter", "trie", "forward", "views", "answer"}
NoSearch == [pc |-> "out", trie |-> <<>>, size |-> 0, dir |-> 0,
             owed |-> {}, key |-> None, answer |-> {}]

size == Cardinality(DOMAIN content)
dir == Cardinality(DOMAIN lists)

PartialFunction(f, S, T) == DOMAIN f \subseteq S /\ f \in [DOMAIN f -> T]

TypeOK ==
  /\ PartialFunction(content, Record, [key : Keyword, id : Nat])
  /\ valid \subseteq DOMAIN content
  /\ PartialFunction(trie, Keyword, Node)
  /\ PartialFunction(trieRead, Keyword, Node)
  /\ copied \subseteq Keyword
  /\ terminals \in Nat
  /\ reassign \subseteq Keyword
  /\ emptyLeaves \subseteq Keyword
  /\ PartialFunction(lists, Nat, SUBSET Record)
  /\ listsRead \in [DOMAIN lists -> SUBSET Record]
  /\ toMerge \subseteq (DOMAIN lists) \X Keyword
  /\ sizeRead \in 0 .. size
  /\ dirRead \in 0 .. dir
  /\ mergeRequired \in BOOLEAN
  /\ merging \in {"idle", "forward", "directory", "lists", "reassign", "trie", "remove"}
  /\ published \subseteq Record
  /\ cache \in [Keyword -> {None} \cup SUBSET Record]
  /\ \A r \in Reader :
       /\ reader[r].pc \in Pc
       /\ PartialFunction(reader[r].trie, Keyword, Node)
       /\ reader[r].answer \subseteq Record

\* An index just committed without records.
Init ==
  /\ content = <<>> /\ valid = {}
  /\ trie = <<>> /\ trieRead = <<>> /\ copied = {}
  /\ terminals = 0 /\ reassign = {} /\ emptyLeaves = {}
  /\ lists = <<>> /\ listsRead = <<>> /\ toMerge = {}
  /\ sizeRead = 0 /\ dirRead = 0
  /\ mergeRequired = TRUE /\ merging = "idle" /\ published = {}
  /\ cache = [k \in Keyword |-> None]
  /\ reader = [r \in Reader |-> NoSearch]

-----------------------------------------------------------------------------
(* Writers *)

Without(f, S) == [x \in DOMAIN f \ S |-> f[x]]
With(f, x, y) == [z \in DOMAIN f \cup {x} |-> IF z = x THEN y ELSE f[z]]

LockFree == merging = "idle"

\* Trie::addKeyword_ThreadSafe copies the path to the node.  A new keyword takes
\* the next offset, and an id between those of its neighbours or else, as the
\* first or the last keyword does, a temporary one above every other.
AddKeyword(k) ==
  /\ copied' = copied \cup {k}
  /\ \/ /\ k \in DOMAIN trie
        /\ UNCHANGED <<trie, terminals, reassign>>
     \/ /\ k \notin DOMAIN trie
        /\ terminals' = terminals + 1
        /\ \/ /\ Room
              /\ trie' = With(trie, k, [offset |-> terminals, id |-> k])
              /\ UNCHANGED reassign
           \/ /\ ~Room
              /\ trie' = With(trie, k, [offset |-> terminals, id |-> MaxId + 1 + terminals])
              /\ reassign' = reassign \cup {k}

\* incrementHitCount: a new offset gets an empty list.
HitList(f, o) == IF o \in DOMAIN f THEN f[o] ELSE {}

\* InvertedIndex::addRecord: to the write view of the keyword's list, which the
\* next merge will sort and publish.
AddToInvertedIndex(o, k, i) ==
  /\ lists' = With(lists, o, HitList(lists, o) \cup {i})
  /\ listsRead' = With(listsRead, o, HitList(listsRead, o))
  /\ toMerge' = toMerge \cup {<<o, k>>}

\* ForwardIndex::addRecord.
AddForwardList(k, id) ==
  /\ content' = With(content, size, [key |-> k, id |-> id])
  /\ valid' = valid \cup {size}

\* _addRecord.
AddRecord(k) ==
  /\ LockFree
  /\ size < MaxRecords
  /\ AddKeyword(k)
  /\ AddForwardList(k, trie'[k].id)
  /\ AddToInvertedIndex(trie'[k].offset, k, size)
  /\ mergeRequired' = TRUE
  /\ UNCHANGED <<emptyLeaves, trieRead, sizeRead, dirRead, merging, published, cache, reader>>

\* Mutant: the lists of the record are not merged.
DeleteUnlisted(i) ==
  /\ LockFree
  /\ i \in valid /\ reassign = {}
  /\ valid' = valid \ {i}
  /\ mergeRequired' = TRUE
  /\ UNCHANGED <<content, trie, copied, terminals, reassign, emptyLeaves, lists, toMerge,
                 readVars, merging, published, cache, reader>>

\* deleteRecord; if ids wait to be reassigned it merges first.
DeleteRecord(i) ==
  /\ LockFree
  /\ i \in valid /\ reassign = {}
  /\ valid' = valid \ {i}
  /\ toMerge' = toMerge \cup {<<trie[content[i].key].offset, content[i].key>>}
  /\ mergeRequired' = TRUE
  /\ UNCHANGED <<content, trie, copied, terminals, reassign, emptyLeaves, lists,
                 readVars, merging, published, cache, reader>>

-----------------------------------------------------------------------------
(* The merge *)

Searching(r) == reader[r].pc # "out"
ExclusiveLock == \A r \in Reader : ~Searching(r)

\* IndexReaderWriter::merge clears the cache and calls _merge.
MergeBegin ==
  /\ LockFree /\ mergeRequired
  /\ cache' = [k \in Keyword |-> None]
  /\ merging' = "forward"
  /\ UNCHANGED <<indexVars, readVars, mergeRequired, published, reader>>

MergeForward ==
  /\ merging = "forward"
  /\ sizeRead' = size
  /\ merging' = "directory"
  /\ UNCHANGED <<indexVars, trieRead, listsRead, dirRead, mergeRequired, published, cache, reader>>

\* Mutant: one list too many.
DirectoryOffByOne ==
  /\ merging = "directory"
  /\ dirRead' = dir + 1
  /\ merging' = "lists"
  /\ UNCHANGED <<indexVars, trieRead, listsRead, sizeRead, mergeRequired, published, cache, reader>>

\* Mutant: the trie is merged in place of the directory.
DirectoryAndTrie ==
  /\ merging = "directory"
  /\ trieRead' = trie
  /\ merging' = "lists"
  /\ UNCHANGED <<indexVars, listsRead, sizeRead, dirRead, mergeRequired, published, cache, reader>>

\* InvertedIndex::merge: the directory, then the lists one by one.
MergeDirectory ==
  /\ merging = "directory"
  /\ dirRead' = dir
  /\ merging' = "lists"
  /\ UNCHANGED <<indexVars, trieRead, listsRead, sizeRead, mergeRequired, published, cache, reader>>

\* Mutant: the write view is sorted, and not merged.
MergeListUnpublished(o, k) ==
  /\ merging = "lists"
  /\ <<o, k>> \in toMerge
  /\ lists' = [lists EXCEPT ![o] = @ \cap valid]
  /\ emptyLeaves' = IF lists[o] \cap valid = {} THEN emptyLeaves \cup {k} ELSE emptyLeaves
  /\ toMerge' = toMerge \ {<<o, k>>}
  /\ UNCHANGED <<content, valid, trie, copied, terminals, reassign,
                 readVars, mergeVars, cache, reader>>

\* sortAndMerge keeps the valid records; a leaf whose list gets empty will go.
MergeList(o, k) ==
  /\ merging = "lists"
  /\ <<o, k>> \in toMerge
  /\ lists' = [lists EXCEPT ![o] = @ \cap valid]
  /\ listsRead' = [listsRead EXCEPT ![o] = lists[o] \cap valid]
  /\ emptyLeaves' = IF lists[o] \cap valid = {} THEN emptyLeaves \cup {k} ELSE emptyLeaves
  /\ toMerge' = toMerge \ {<<o, k>>}
  /\ UNCHANGED <<content, valid, trie, copied, terminals, reassign,
                 trieRead, sizeRead, dirRead, mergeVars, cache, reader>>

ListsMerged ==
  /\ merging = "lists" /\ toMerge = {}
  /\ merging' = IF reassign = {} THEN "trie" ELSE "reassign"
  /\ UNCHANGED <<indexVars, readVars, mergeRequired, published, cache, reader>>

NewIds(t, S, ids) == [k \in DOMAIN t |-> IF k \in S THEN [t[k] EXCEPT !.id = ids[k]] ELSE t[k]]

\* ForwardIndex::reorderForwardList.
ReorderForwardList(list, ids) == [list EXCEPT !.id = ids[list.key]]

\* ForwardIndex::reassignKeywordIds leaves deleted records alone.
ReassignForwardList(i, ids) ==
  IF i \in valid THEN ReorderForwardList(content[i], ids) ELSE content[i]

\* Mutant: the forward lists of the neighbours keep their ids.
RewriteWaiting(S, ids) ==
  [i \in DOMAIN content |->
     IF content[i].key \in reassign THEN ReassignForwardList(i, ids) ELSE content[i]]

\* changeKeywordIdsOnForwardLists follows the inverted lists of these keywords.
RewriteForwardLists(S, ids) ==
  [i \in DOMAIN content |->
     IF \E k \in S : i \in listsRead[trie[k].offset]
     THEN ReassignForwardList(i, ids) ELSE content[i]]

\* reassignKeywordIds gives new ids, which keep the order, to the keywords that
\* wait for one and to the neighbours it pushes aside.  A trie node that was not
\* copied is the read view's node too.
ReassignKeywordIds ==
  /\ merging = "reassign"
  /\ ExclusiveLock
  /\ \E S \in SUBSET DOMAIN trie, ids \in [DOMAIN trie -> 0 .. MaxId] :
       /\ reassign \subseteq S
       /\ \A k \in DOMAIN trie \ S : ids[k] = trie[k].id
       /\ \A j, k \in DOMAIN trie : j < k => ids[j] < ids[k]
       /\ trie' = NewIds(trie, S, ids)
       /\ trieRead' = NewIds(trieRead, S \ copied, ids)
       /\ content' = RewriteForwardLists(S, ids)
  /\ reassign' = {}
  /\ merging' = "trie"
  /\ UNCHANGED <<valid, copied, terminals, emptyLeaves, lists, toMerge,
                 listsRead, sizeRead, dirRead, mergeRequired, published, cache, reader>>

MergeTrie ==
  /\ merging = "trie"
  /\ trieRead' = trie
  /\ copied' = {}
  /\ published' = DOMAIN content
  /\ merging' = IF emptyLeaves = {} THEN "idle" ELSE "remove"
  /\ mergeRequired' = (emptyLeaves # {})
  /\ UNCHANGED <<content, valid, trie, terminals, reassign, emptyLeaves, lists, toMerge,
                 listsRead, sizeRead, dirRead, cache, reader>>

\* Mutant: the leaves go while searches are under way.
RemoveBlindly ==
  /\ merging = "remove"
  /\ trie' = Without(trie, emptyLeaves)
  /\ trieRead' = Without(trie, emptyLeaves)
  /\ terminals' = IF DOMAIN trie \subseteq emptyLeaves THEN 0 ELSE terminals
  /\ emptyLeaves' = {}
  /\ cache' = [k \in Keyword |-> None]
  /\ merging' = "idle"
  /\ mergeRequired' = FALSE
  /\ UNCHANGED <<content, valid, copied, reassign, lists, toMerge,
                 listsRead, sizeRead, dirRead, published, reader>>

\* Trie::removeDeletedNodes and the second clearing of the cache.  When no
\* keyword is left the offsets start again from 0.
RemoveDeletedNodes ==
  /\ merging = "remove"
  /\ ExclusiveLock
  /\ trie' = Without(trie, emptyLeaves)
  /\ trieRead' = Without(trie, emptyLeaves)
  /\ terminals' = IF DOMAIN trie \subseteq emptyLeaves THEN 0 ELSE terminals
  /\ emptyLeaves' = {}
  /\ cache' = [k \in Keyword |-> None]
  /\ merging' = "idle"
  /\ mergeRequired' = FALSE
  /\ UNCHANGED <<content, valid, copied, reassign, lists, toMerge,
                 listsRead, sizeRead, dirRead, published, reader>>

-----------------------------------------------------------------------------
(* Searches *)

writersUnchanged == <<indexVars, readVars, mergeVars>>

ReaderPreEnter(r) ==
  /\ reader[r].pc = "out"
  /\ reader' = [reader EXCEPT ![r] = [NoSearch EXCEPT !.pc = "enter", !.owed = published \cap valid]]
  /\ UNCHANGED <<writersUnchanged, cache>>

\* IndexData::getReadView, in its order.
GetTrie(r) ==
  /\ reader[r].pc = "enter"
  /\ reader' = [reader EXCEPT ![r] = [@ EXCEPT !.pc = "trie", !.trie = trieRead]]
  /\ UNCHANGED <<writersUnchanged, cache>>

GetForward(r) ==
  /\ reader[r].pc = "trie"
  /\ reader' = [reader EXCEPT ![r] = [@ EXCEPT !.pc = "forward", !.size = sizeRead]]
  /\ UNCHANGED <<writersUnchanged, cache>>

GetDirectory(r) ==
  /\ reader[r].pc = "forward"
  /\ reader' = [reader EXCEPT ![r] = [@ EXCEPT !.pc = "views", !.dir = dirRead]]
  /\ UNCHANGED <<writersUnchanged, cache>>

\* The records of the keyword's inverted list (its current read view) that the
\* forward view shows as valid.
Scan(r, k) ==
  IF k \notin DOMAIN reader[r].trie THEN {}
  ELSE {i \in listsRead[reader[r].trie[k].offset] : i < reader[r].size /\ i \in valid}

\* ForwardList::haveWordInRange.
HaveWordInRange(list, minId, maxId) == minId <= list.id /\ list.id <= maxId

\* Where another list is scanned: the valid records whose forward list holds
\* the keyword id the trie gave.
Probe(r, k) ==
  IF k \notin DOMAIN reader[r].trie THEN {}
  ELSE LET id == reader[r].trie[k].id
       IN  {i \in 0 .. reader[r].size - 1 : i \in valid /\ HaveWordInRange(content[i], id, id)}

Answer(r, k, records) ==
  reader' = [reader EXCEPT ![r] = [@ EXCEPT !.pc = "answer", !.key = k, !.answer = records]]

\* search(): a cached answer is returned as it is ...
CacheHit(r, k) ==
  /\ reader[r].pc = "views"
  /\ cache[k] # None
  /\ Answer(r, k, cache[k])
  /\ UNCHANGED <<writersUnchanged, cache>>

\* ... and one that was evaluated is put into the cache.
Evaluate(r, k) ==
  /\ reader[r].pc = "views"
  /\ cache[k] = None
  /\ \E records \in {Scan(r, k), Probe(r, k)} :
       /\ Answer(r, k, records)
       /\ cache' = IF CacheResults THEN [cache EXCEPT ![k] = records] ELSE cache
  /\ UNCHANGED writersUnchanged

ReaderPreExit(r) ==
  /\ reader[r].pc = "answer"
  /\ reader' = [reader EXCEPT ![r] = NoSearch]
  /\ UNCHANGED <<writersUnchanged, cache>>

-----------------------------------------------------------------------------

Write == (\E k \in Keyword : AddRecord(k)) \/ (\E i \in Record : DeleteRecord(i))

Merge ==
  \/ MergeBegin \/ MergeForward \/ MergeDirectory
  \/ \E o \in DOMAIN lists, k \in Keyword : MergeList(o, k)
  \/ ListsMerged \/ ReassignKeywordIds \/ MergeTrie \/ RemoveDeletedNodes

Search(r) ==
  \/ ReaderPreEnter(r) \/ GetTrie(r) \/ GetForward(r) \/ GetDirectory(r)
  \/ \E k \in Keyword : CacheHit(r, k) \/ Evaluate(r, k)
  \/ ReaderPreExit(r)

Next == Write \/ Merge \/ \E r \in Reader : Search(r)

Spec == Init /\ [][Next]_vars

-----------------------------------------------------------------------------
(* Properties *)

\* A keyword of the trie a search works with has its inverted list in the
\* directory it works with: the trie is merged last and taken first.  (The
\* assertion of InvertedIndex::getInvertedListReadView.)
OffsetsInDirectory ==
  \A r \in Reader : reader[r].pc = "views" =>
    \A k \in DOMAIN reader[r].trie : reader[r].trie[k].offset < reader[r].dir

\* A search misses no record that had been merged when it started and has not
\* been deleted since.
AnswerComplete ==
  \A r \in Reader : reader[r].pc = "answer" =>
    \A i \in reader[r].owed \cap valid :
      content[i].key = reader[r].key => i \in reader[r].answer

\* A search finds only records with its keyword, although offsets of inverted
\* lists are used again once the trie has run empty.
AnswerSound ==
  \A r \in Reader : reader[r].pc = "answer" =>
    \A i \in reader[r].answer : content[i].key = reader[r].key

\* Between merges the forward list of every record the last merge published
\* carries the id by which a search will look for its keyword, although a
\* reassignment has changed the ids in place.
IdsAgree ==
  merging = "idle" => \A i \in published \cap valid :
    /\ content[i].key \in DOMAIN trieRead
    /\ content[i].id = trieRead[content[i].key].id

\* Between merges no inverted list a search can reach names a deleted record
\* whose deletion has been merged, and none is reached that is empty.
NoDeadEntries ==
  merging = "idle" /\ ~mergeRequired =>
    \A k \in DOMAIN trieRead :
      /\ listsRead[trieRead[k].offset] # {}
      /\ listsRead[trieRead[k].offset] \subseteq valid

=============================================================================
