# SRCH2 engine: a TLA+ verification project

TLA+ models of the SRCH2 search engine, the TLC configurations that check them
on small instances, and TLAPS proofs of the properties that matter most, for
every value of the constants. `PROJECT.json` holds the machine-readable side:
which lines each definition models, the runs, the mutants (a plausible bug for
every property, which TLC must find), findings, hazards and theorems.

Paths below are relative to the repository.

## 1. The system

SRCH2 keeps a full-text index in memory. HTTP threads search it and change it
at the same time; a merge thread per core makes the changes visible. Every
index structure has a **write view**, which one writer at a time changes, and a
**read view**, which searches hold. Sharing arrays and tree nodes between the
two is what makes the engine fast and hard to get right.

| component | state | operations | correct if |
|---|---|---|---|
| copy-on-write vector, `src/core/util/cowvector/cowvector.h` | read view, write view, arrays with owner flags, generations of old views | at, push_back, forceCreateCopy, commit, merge, getReadView, load | no array is freed under a reader, twice or never; a reader sees a snapshot |
| forward index, `src/core/index/ForwardIndex.cpp` | directory (list, valid flag) by record id, map from primary keys to ids, ids to free | addRecord, deleteRecord, recoverRecord, merge, freeSpaceOfDeletedRecords, reassignKeywordIds | map, flags and lists agree; nothing a search can meet is freed |
| inverted index, `src/core/index/InvertedIndex.cpp` | directory of lists, lists to merge | addRecord, incrementHitCount, sortAndMerge, merge | a merged list names exactly the valid records of its keyword |
| trie, `src/core/index/Trie.cpp` | two roots, ids and list offsets at terminal nodes, nodes waiting for ids, empty leaves | addKeyword, reassignKeywordIds, merge, removeDeletedNodes | ids are in alphabetical order, so that a prefix is a range of ids |
| index data, `src/core/operation/IndexData.cpp` | the indexes, mergeRequired, a read-write lock against searches | _addRecord, _deleteRecord, _recoverRecord, finishBulkLoad, _merge, _save, getReadView | the views a search takes one by one fit together |
| reader-writer, `src/core/operation/IndexerInternal.*` | lockForWriters, write counter, save flags, merge thread and its condition variable | the same under the lock, commit, save, export, merge loop, destructor | no wake-up and no change is lost |
| write commands, `src/server/IndexWriteUtil.cpp` | none of their own | insert, delete, update, ACL | a command that fails leaves the old record |
| search, `src/core/operation/QueryEvaluatorInternal.cpp`, `CacheManager.*` | views of one search, query results cache | search, fill, clear | a search misses nothing that was merged when it began |
| cache container, `src/core/operation/CacheBase.h` | hash buckets, linked list by age, byte budget | put, get, clear | the least recently used entry goes first; map, list and bytes agree |
| user feedback, `src/core/index/FeedbackIndex.cpp` | query trie, list of queries by age, feedback lists, flags | addFeedback, retrieve, merge, save, load | the oldest query gives up its slot; a search gets the feedback on its own query; flags reflect unsaved feedback |
| query plans, `src/core/operation/physical_plan/`, `QueryOptimizer.cpp`, `HistogramManager.cpp` | iterators over views | open, getNext, close of some 25 operators | every plan answers the query, the best records first |
| fuzzy search, `src/core/operation/ActiveNode.*` | active nodes of the characters typed | compute incrementally, iterate over keywords | the keywords within the edit distance, at their distance |
| geo index, `src/core/geo/QuadTree*` | two roots, free lists of the read views, queue of old views | insert, remove, commit, merge, read view | no view reaches a deleted node; no element is lost |
| server, `src/server/srch2SearchServer.cpp`, `Srch2Server.cpp` | cores, HTTP threads | start, bulk load, kill, graceful exit | all is saved at exit |
| connectors, `src/adapter/`, `db_connectors/` | position in the database's log, in memory and in a file | copy of the table, poll or tail, save | the index follows the database |
| access control, analyzers, ranking, highlighter, parsers, configuration, serialization, Java and Android bindings | | | |

**How they interact.** An HTTP write runs through `IndexWriteUtil`, takes
`lockForWriters` once per operation (an update takes it up to three times), and
changes the write views. It signals the merge thread when enough writes have
gathered. The merge thread, or whoever commits, saves, exports or deletes at
the wrong moment, merges under the same lock: forward index, inverted
directory, inverted lists, keyword ids, trie, in this order. Searches do not
take that lock. They take a shared lock that the merge claims exclusively for
three things only: freeing forward lists, reassigning ids, removing leaves.
They take their views in the order trie, forward index, inverted directory, and
may fill the query cache, which the merge clears. A database connector is one
more writer, a thread of its own that the exit of the server does not stop.

**What is hard.** Readers overlap merges and the writers' in-place changes
(delete flags, keyword ids); views are taken and published piece by piece;
commands consist of several locked operations; ids have to keep an order in a
bounded space; flags and counters under different locks decide whether work is
done at all; the program ends while threads work. `PROJECT.json` lists the
hazards at their lines.

## 2. Modules and how they correspond to the code

A definition keeps the name of the function it models where it can; the
operators marked "Mutant" are the plausible bugs of the mutant checks and are
not part of the models. MC modules name sets and symmetries. Parts that share no
state, or instances of one module, are put side by side in one MC module, where
a variable says which of them runs; the others keep still, so that the states
add up and do not multiply. Their properties are those of the modules, guarded
by that variable.

### CowVector, SnapshotVector

State: `views` (array, size, owner flag, write flag) and `arrays` (capacity,
cells) that exist, `readView`, `writeView`, `held[r]` for each reader, the
manager's generations `current` and `past`, and `pc`, which splits `merge` into
publishing under the spin lock and forking, and `cleanReadViews` into one step
per generation, so that readers interleave. Actions: `WriteAt`, bulk load and
`Commit`, the steps of `merge`, `GetReadView`, `ReleaseReadView`, `Load`,
`SortAndMerge` (the in-place change of a list), destruction.

`Usage` says how the owner merges: "managed" with a `ReadViewManager` (the
directories), "copied" without one but after `forceCreateCopy` (inverted and
feedback lists), "bare" with neither (`FeedbackIndex.cpp:363`). `MaxStored`
bounds the generations kept, because a finite pool of views would otherwise
block the merge; it limits readers, never the writer. `SnapshotVector` is what
the class promises: a reader sees the contents of one merge until it lets go.

### RecordStore

State: id map, forward lists, the directory's arrays by generation, both views'
generation and size, ids to free, counters and flags, the merge's place, one
command per client, one search per reader. A command is as many steps as it
takes locks. `Overlap` lets merges fall between the steps of a command,
`Upsert` lets clients update absent records, where the id to recover is
uninitialised (any id). Arrays stay: `CowVector` has shown that their
reclamation is safe. Not here: roles, read and write counters, the quadtree.

### SearchViews

One keyword per record. State: forward lists with the keyword's id, valid
records, both tries, both sides of the inverted lists, what is to merge, the
sizes of the published directories, the merge's place, the cache, one search
per reader. The merge and `getReadView` are split where the code publishes or
takes one view. A trie node that was not copied since the last merge is shared
by both roots, so a new id shows in both (`copied`). A search either scans the
keyword's list (`Scan`) or probes forward lists with its id (`Probe`);
`published` is a history variable. `Room` decides whether new keywords find ids,
`CacheResults` whether the cache is filled. Not here: the cowvector of keyword
ids, scores, prefixes (a prefix is the union of its keywords).

### KeywordIds

The arithmetic of keyword ids: the spread at commit, the weighted centroid of a
new keyword with the insert counters of its neighbours, temporary ids, and the
whole of `reassignKeywordIds` (extending a range left, then right, then to
everything; even spacing), as operators on the ordered keywords. Keywords are
leaves, and a merge may remove any of them that has an id. Differences of ids
are unsigned (`Distance`). Two history variables: `shrunk`, a keyword has left;
`cramped`, a range had its ends out of order (the assertion `Trie.cpp:1190`) or
fewer ids than keywords. Beyond a cramped reassignment the ids are not followed:
they collide. The 16-bit wrap of the insert counters is out of reach of the bound
`MaxWeight` on them.

### MergeThread

The life of one `IndexReaderWriter`: load or bulk load, commit, start of the
thread, requests, saves, end by graceful exit or destructor. Operations under
`lockForWriters` are one step; `save` is three, since `addFeedback` takes
another lock. A condition wait is "waiting", then "woken", and still needs the
lock. What the indexes contain is abstracted to counts and flags (`pending`,
`dirty`, `feedbackDirty`). Assumed: files can be written, no thread is
cancelled while it holds the lock, the server commits or loads before it starts
the thread.

### ConnectorSync

One core, its connector and the database, for the five libraries in
`db_connectors/` (`kind`). The database changes rows and renames keys; its log is
a table filled by triggers (SQLite), change tables (Oracle, SQL Server, which
hands out the net change of a key), the oplog (MongoDB) or the binlog (MySQL).
The connector copies the table row by row (`ScanRow`), takes a position, polls
or tails the log, and applies a row in one or two steps (an update is a deletion
and an insertion under two locks). The engine has a document limit, chosen at each
start: `insertRecord` refuses a row there, and an update that finds the limit
reached between its halves has the old row recovered (`updateRecord`) or is left
without one (MySQL's `tableUpdate`). The engine saves on command, exits (positions
of all cores are saved at the first core's turn, `StampEarly`, and again after
the own index), crashes, starts again, or is rebuilt. Database errors interrupt a
copy or a batch. Two history variables keep the account of the windows the code
leaves open (section 3 lists them): `missed` are the keys that have fallen into
one in the running engine, `lost` those that an engine started from the saved
index and position would miss. A key enters them at one of these events only: a row
given up or refused, a change that it needs and that a position has passed, an index
saved before the copy ends; it leaves `missed` when it is put right. `Needed` and `Passed` say what a position leaves
behind: the changes a row needs to become the row of the table, and the keys for
which one of them is not to come. That a recovered record is whole is assumed here;
the run record_overlap shows when it is not. What a
database does is modelled from how the connectors use it. SQL Server's query
names no order; its rows are one for each key, so the model hands them out in the
order of the changes.

### LruCache, RecencyList

`CacheBase.h` with its hash collisions (keys `c` and `d` share a hash): `put`
replaces, refuses what is larger than the budget, evicts until the entry fits;
`get` compares the key and moves the entry to the new end; `clear`. Each is one
action, for each takes the lock. `RecencyList` is what least-recently-used
replacement promises; the linked list is its order.

### FeedbackIndex

The trie of queries with its two views, the slots of the list vector, the
doubly linked list of slots by age, the feedback lists with their unmerged part,
and one lookup per searcher. `addFeedback` finds, evicts or opens a slot; the
merge is split where it publishes lists, vector and trie and where it removes
leaves. A node that was not copied since the last merge is shared by both roots.
The ids by which the code knows the queries are those of `KeywordIds`.

### SearchPlans

A query of And- or Or-connected terms, from the choice of a plan to the list of
results: `MergeTopKOperator` (round robin, early stop), `MergeByShortestList`,
`MergeSortedByID`, `UnionSortedByID`, `SortByScore`, under the two passes of
`KeywordSearchOperator`. The index is any assignment of static scores. The
optimizer's choice is left open; every plan it may build is tried. Scores are
small integers made of the same factors as in `Ranker.cpp`.

### ActiveNodes

`PrefixActiveNodeSet`, one character typed at a time, with or without swaps, and
the iterators for prefix and complete terms. A trie node is its path. The
reference is the edit distance, defined over the two words.

### QuadTree

Nodes by address with their copy flags, the two roots, the free lists of each
read view, the queue of old views, and for each search its view, the children it
has yet to read and the leaves it has found. A location is the way
down to it; geometry is left out. What a copy replaces goes to the read view's
free list and is deleted with that view, the oldest first. An insertion copies the
root and one child; the leaf it splits below them is split in place, in steps
(`Opened`, `Reinsert`, `GoOn`), while searches walk through the same nodes (`Enter`,
`Visit`, `Exit`). Races within one vector (a search that meets `isLeaf` put down
before the children are there, an iteration over elements while one is appended)
are left out.

### Composition

The modules share their boundary: `RecordStore` uses what `CowVector` proves
(arrays stay while they are held), `SearchViews` what `RecordStore` checks (a
valid record has its list) and `KeywordIds` checks (new ids keep the order),
and `MergeThread` says when the merges of both happen. `QuadTree` and
`FeedbackIndex` are merged by the same calls. `SearchPlans` takes the keywords
that `ActiveNodes` finds and the lists that `SearchViews` shows to be complete.
`ConnectorSync` composes a connector, the save at exit of `MergeThread` (as one
flag) and the server's life cycle with a database.

## 3. Runs

| run | instance | states | shows |
|---|---|---|---|
| cow | three uses of the vector; 2 readers, 5 views, 3 arrays, length 4 or 2 | 121 k | no array is freed under a reader, twice or never; sizes stay within capacities; append-only and sorted vectors implement `SnapshotVector` |
| records | "search": 1 client, 2 readers, 2 keys, 3 ids; "recover": 2 clients, 3 keys, limit 1 | 415 k | searches meet no freed list and no key twice; deleted records are freed; map, flags, ids to free and counter agree through failed updates |
| record_overlap | 2 clients, 2 keys | violation | a merge inside a failed update |
| views | "room": 2 readers, 2 keywords, 2 records; "tight": reassignment, cache, 3 records; "plan": 3 records, 2 terms of 2 words, k = 2, And and Or, every plan; "cache": 4 keys, two with the same hash, budget 4 | 4.4 M | a search misses nothing merged and finds nothing wrong; offsets lie in the directory; after a merge trie, forward and inverted lists agree; a query is answered with the records that match, each once, the best first, exact before fuzzy, and no plan gets stuck; in the cache container `checkCacheConsistency`, which the code has commented out, holds, and `RecencyList` is implemented |
| views_cache | 2 readers, with cache | violation | a stale answer survives the merge |
| merge_thread | threshold 2, up to 4 writes; a vector with 2 readers, 5 views | 304 k | no missed signal, exact counter, everything saved, shown and joined; what a vector replaces is freed in the end |
| merge_feedback | threshold 2, 2 writes | violation | feedback added during a save is lost at exit |
| connectors | five libraries, 2 keys, 2 changes, 2 seconds, 2 starts, 1 error, document limit 1 or 2 | 2.9 M | no change is lost outside the known windows; a quiet database is caught up with |
| structures | see below | 1.5 M | ids, feedback, fuzzy search, geo index |
| feedback_retrieve | 4 queries, 2 slots | violation | a prefix of a query gets the feedback of another one |
| fuzzy_swaps | words of up to 3 characters, two at a time | violation | a second keyword hides one within the threshold |
| geo_views | 3 records, leaves of 1 | violation | an insertion changes what a search is reading |

`structures` runs five parts one after the other: keyword ids (4 keywords over
21 ids, any of which may leave: they keep the order until a range has no room, and
a range without room takes a removal); feedback
(4 queries, 2 slots, 6 additions: the linked list is in the order of the last
feedback); fuzzy search (all words of up to 3 characters of an alphabet of 3, one or two at a
time, queries of up to 3 characters, thresholds 0 to 2: exactly the keywords
within the distance, without swaps); the geo index twice, with leaves of one and
of two elements (3 records; 4 levels below the root and 9 nodes with leaves of one,
so that a split in place is followed by another; 2 levels and 7 nodes with leaves of
two: no view and no search on its way reaches a deleted node or element, nothing is
freed twice, the write view loses no element).

**Bounds.** Two readers are needed because one may hold an old view while the
other takes the current one; five views, because with fewer a merge can find
none free while readers hold on, and liveness would fail for want of a name.
Three record ids make a directory of capacity 1 reallocate twice and let a key
have an old and a new record. Two keywords and two records suffice for answers
of the wrong keyword and for a list taken over after the trie ran empty. Four
keywords over 21 ids fill gaps, use up the room at both ends, push
neighbours, and after removals are left at one end. Threshold 2 with 4 writes lets the counter pass the threshold while
the thread is away. Two changes, two seconds and two starts let a change share a
second with the position, fall between copy, position, save and exit, and be
handed out again after a restart. A document limit of 1 is reached by the two
keys and one of 2 is not; a start that follows with the lower one finds the index
already above it. Deadlock is checked where the system goes on for ever; the runs with
`CHECK_DEADLOCK FALSE` end by destruction, by exit, with an answer or at a bound.

**Fairness.** `CowVector`: merges go on and readers let go of their views
(every request ends). `RecordStore`: the same, the merge thread wakes at least
every `mergeEveryNSeconds`. `MergeThread`: the main thread goes on with its
start and its join, a save ends, the timed wait times out, and a woken thread
gets a lock that stays free. `ConnectorSync`: the connector thread goes on, and
an exit that has saved the index saves the position. Nobody is assumed to write,
to search, to change the database, to stop or to crash.

**Known windows of the connectors.** `OnlyKnownLosses` says that a change is
lost only in these, each a step of the model that adds to `missed` or `lost`: a change
during the copy of a row already read, or later in the second of the position
(`sqliteconnector.cpp:235`, `:572`); a change handled between the save of the
index and that of the position, or covered by a position another core's exit
saved first (`srch2SearchServer.cpp:601-605`); an exit or a save during the
copy, or between the halves of an update; an exit before a position is known; an
index saved while MongoDB's log is read again from before the saved position;
a binlog purged, or data.bin missing, at the restart; an update the engine
refuses because the old key is absent; net changes of SQL Server that say
"insert" for a row the engine has; a row of the copy or of the log whose insertion
is refused at the document limit (`IndexWriteUtil.cpp:74`), and an update that meets
the limit after its deletion: the old row is recovered and the new one dropped
(`ServerInterfaceInternal.cpp:154-176`), or, with MySQL, both are gone. In the last
two no error reaches the connector's position, which moves on. The documentation
(`connectors.mkd:18-21`) promises that changes are retrieved and applied
without these exceptions.

**Where the code disagrees with what it says.** The six violations are listed
under findings. Met while modelling, and kept as hazards without a run: the
merge of `feedbackListIndexVector` with neither manager nor copy; the
uninitialised id in an update of an absent record; `IndexData.h:48-49` says that
a search keeps one consistent view, but delete flags show through;
`HTTPRequestHandler.cpp:235` reads records after the search has left;
`IndexData.cpp:741` lets searches with the old trie in while forward lists carry
new ids; the assertion `Trie.cpp:1190` fails, and two keywords get one id, when the
keywords left by removals are at one end of the ids: keyword 1 is loaded, 2 comes
and gets `MAX_ALLOCATED_KEYWORD_ID` at the merge, 1 leaves, 3 comes, and both ends of
its range are `MAX_ALLOCATED_KEYWORD_ID` (in the same way at id 0, or with pace 0 if
there are too few ids between those left); TLC reaches all of these as `cramped`, and
`RoomUntilRemoval` says that it takes a removal; `Trie.cpp:558` runs out of temporary ids, because only
the feedback index resets their counter; `FeedbackIndex.cpp:165` with room for
one query; scores of random access depend on the plan, and with a boost and an
edit distance of 2 can exceed the bound by which `MergeTopKOperator` stops
(`PhysicalOperatorsHelper.cpp:78`, see section 4); complete terms with swaps are found at too
small a distance (`ActiveNode.cpp:160`); a connector that failed is called
after it was destroyed (`DataConnectorThread.cpp:74`); the Or of random accesses
aggregates scores of children that did not match
(`PhysicalOperatorsHelper.cpp:154`); a `return` is missing where a phrase meets a
deleted record (`PhraseSearchOperator.cpp:148`); `split()` clears a vector of elements that a search
has taken the address of (`QuadTreeNode.cpp:260`, `:307`), so that a search may miss
elements its view had, which is why `ViewsIntact` does not promise them; a point on the upper edge of the
area gives a child beyond the last (`QuadTreeNode.cpp:333`).

## 4. Proofs

Each proof module holds for every value of the constants. The MC modules that
put two or three instances side by side have a proof module of their own
(`CowScenariosProofs`, `RecordScenariosProofs`, `SearchScenariosProofs`): it
instantiates the component's proofs once for each scenario, shows that the
instance of the run is the instance of the theorems, and states the run's own
properties. `SearchScenariosProofs` also holds the proofs about `SearchPlans` and
`LruCache`.

**CowVector** (`CowVectorProofs`), for any numbers of readers, views and arrays,
any capacity and length, and `Usage` "managed" or "copied": `TypeCorrect`,
`MemorySafe` (no use after free), `FreedOnce`, `NothingLost`, `InBounds`. None
of these is inductive. `IInv` adds what is reachable exists; who is who (the
write view is nobody else's, when it is the read view itself); that a write view
with the owner flag has its array alone; and where the owner of a superseded
array is, for each usage: in a generation of the manager that has readers or is
current, or with the view that was superseded. The central step is
`cleanReadViews`: a generation without readers is destroyed, and the array its
owner frees is in no other generation and not in the current views.

`Refinement`: without in-place writes the vector implements `SnapshotVector`.
The mapping shows a reader the cells its view covers. Beyond `IInv` it needs
`SharedPrefix`: a view on the writer's array is no longer than the writer's view,
so that `at()` on the shared array writes beyond what any reader covers, or else
on an array of its own. Each action is shown to be one step of `SnapshotVector`
or to keep the contents of every view that somebody holds.
`SnapshotsImplemented` is the same for the mapping the run uses.

**MergeThread** (`MergeThreadProofs`), for every threshold and every bound on
the writes: `TypeCorrect`, `NoSignalLost`, `CountsPending`, `SavedBeforeExit`.
The invariant adds that the counter is 0 from the commit until the loop waits
for the first time (a thread that starts late sleeps on no full counter), that
`mergeRequired` is up whenever something is pending (a `_merge` that declines
forgets nothing), and that `needToSaveIndexes` is up whenever the files are old.

**RecordStore** (`RecordStoreProofs`), for any keys, clients, searches and ids.
Four facts need nothing of the constants: `TypeCorrect`, `CounterCorrect` (the
counter is the number of keys in the map), `ListsAlwaysOwned`, and, without
`Upsert`, `LimitKept`, whose invariant counts the clients inside a command.
The others rest on `RecoverSound`: a failed update resumes the record it deleted
itself, which has not been freed. This is exactly what a merge inside a command
or an update of an absent record breaks (run record_overlap), so it is stated
as a predicate: `RecoveriesSound` proves it without overlap and upsert, through
`UpdatesInv` (the records that updates have deleted are all still waiting to be
freed, and no two updates have the same one); in the run's "search" scenario it
holds because no update fails (`SearchAssumption`: one client, fewer keys than
documents allowed). From it follow `MapAlwaysSound`, `DeletedAlwaysSound`,
`SearchesSafe` and `SearchesDistinct`. Their invariant `SearchInv` says of the
view that is published and of every view a search holds that what it shows as
valid has its list and that no two such records have one key, and that the merge
publishes the array before it clears the pointers in it.

**SearchViews** (`SearchViewsProofs`), for any keywords, records and searches,
with and without room for ids, with and without cache: `TypeCorrect`,
`OffsetsCorrect`, `IdsAlwaysAgree`, `NeverDeadEntries`. `IInv` has six parts:
ids and offsets without gaps (`Shape`); a keyword's list is its own and holds
all its valid records, and a list no keyword leads to is empty, which is why an
offset can be given again (`ListsInv`); a list the merge does not know of is
published and clean (`PendingInv`); the two tries agree save between the
reassignment and the merge of the trie (`IdsInv`); what was published stays so
(`PublishedInv`); while a search is in, no leaf goes and its trie leads into the
directory (`ViewsInv`). With `Room` the id of a keyword is the same in every trie
and forward list (`RoomInv`); `SoundInv` adds what is cached and answered, and
gives `AnswersAlwaysSound`; `OwedInv` adds that what a search owes its caller is
within the views it has taken so far, and gives `AnswersAlwaysComplete`, which
is about searches without cache: with it the answer may be stale (run
views_cache).

**SearchPlans** (`SearchScenariosProofs`), for any finite set of records, any
number of terms, any words, scores, similarities and boosts, and any k:
`QueryAlwaysAnswered`, `ExactAlwaysFirst` and, with one hypothesis,
`BestAlwaysFirst`. The first two rest on `PlanIInv`, which says for each plan
where a record that matches is as long as it has not been returned: with a child
that has not returned it, read ahead, among the candidates or in hand
(`ChildrenInv`, `TopInv`, `ShortestInv`, `ByIdInv`, `UnionInv`), or, once the list
is sorted, among the sorted ones (`SortedInv`). So a plan that returns nothing
more has returned everything (`TopRunsOut` and the steps named `...End`).
`ByIdInv` is the least obvious: of the record `MergeSortedByID` looks for, each
child it has not asked still has the item, and of every greater one all have.
`ResultsInv` and `ExactInv` carry this across the two passes.

`BestAlwaysFirst` needs `OrderInv`: what a child has read ahead scores at least
as much as what it has left; the sum of what is ahead bounds every record that
no child has shown, and every result of the pass reached that bound
(`BoundInv`); no candidate scores more than a result (`CandidatesInv`) or less
than the least score a plan may give it. The bound falls with every turn
(`BoundFalls`), and the record of a turn is below it (`AndScoreBelow`). This last
fact needs `MildBoosts`: no term has both a boost other than 1 and a keyword at
an edit distance above 1. A list multiplies the score by the boost, but random
access raises the boost to the power of the distance
(`PhysicalOperatorsHelper.cpp:78`, `Ranker.cpp:68`), which at distance 2 exceeds
what the lists promise: with boost 3 and distance 2 TLC finds a result of
`MergeTopKOperator` with 18 before one with 30. At distances 0 and 1, and for
terms without a boost, the theorem needs nothing else.

The sums, powers, minima and maxima in the scores are recursive. Their lemmas
(`SumStep`, `SumMonotone`, `PowerIs`, `LeastNumber`, `GreatestNumber`,
`BestExists`) come from two induction principles about sets, `NumberInduction`
and `SetInduction`, which follow from the well-foundedness of the numbers
(`WFMin`): a property is given as the set of the numbers, or of the subsets, that
have it, so no operator is a parameter.

**LruCache** (`SearchScenariosProofs`), for any keys, any hash function, any sizes
and any budget: `CacheAlwaysConsistent` and `CacheKeepsRecency`, the refinement of
`RecencyList`. The invariant `CacheIInv` says that there is a list of hashes, none
twice, of which the state is the image (`Holds`): `first`, `final`, `next` and
`previous` are its ends and neighbours (`Linked`), the map has its elements, and
the bytes used are the sum of their sizes. Each operation on the links is then one
on the list: `RemoveOldestLinks` (all but the first), `AddElementLinks` (one more),
`MoveToLastLinks` (one moved to the end, in the three cases of the code).
`MakeRoomHolds` follows the loop of `put()`: after each round there is room, or
nothing is left, or one more has gone, so it ends with room, which is why the code
needs no check for an empty cache there. `ChainIs` shows that following the links
gives the list, which is the order `RecencyList` speaks of.

**ConnectorSync** (`ConnectorSyncProofs`), for any finite set of keys, any first
table, any of the five libraries, any document limits and any bounds: `TypeCorrect` and
`LossesKnown`, that is `OnlyKnownLosses`. The invariant speaks of rows as the log
names them. `Good(v, k, A)` says that a listener that is still given the changes
`A` brings row `v` of key `k` to that of the table: `v` is the row of the table,
or there is no row and a change of the key is in `A`, or every change of the key
after `v` is. `EngineInv` says this of the index in memory with `A` = `Left(k)`,
what the connector holds or will be given, which is where the five libraries
differ; `CopyInv` and `DiskInv` say it of a copy, a loaded index and the saved one
with `A` = `Resume`, what an engine that starts from data.bin will be given.
`DatabaseInv` is the other half: times do not go back, the table holds the newest
version of every row, and what is inserted or renamed to was absent, so that a
change handed out a second time does no harm. `RowsInv` says what the rows of each
library's batch are, `PositionInv` and `ListenInv` that no position is ahead of
the clock or behind data.bin, `SqliteInv` what follows a row whose stamp has moved
already. The steps that take most are those of a row that is applied
(`HandledKeeps`: what is left shrinks by that change), of data.bin being written
(`StampGood`: what the saved position promises, the saved index needs) and of a
change (`ChangeKeeps`: it is ahead of every position it is not born behind).
The account has two variables because a key that the running engine has put right
is not put right on disk: only an engine that starts from there will need it.
Two parts came with the document limit. `LimitInv` says that the row kept for a
recovery is a version of the row that the update deleted, so that what comes back is
one that the changes to come can still bring to the table's. `CopiedInv` says that a
row older than the log is in the index once the table has been copied, unless its
key is in the account: the log holds no change that could bring it, so that an engine
without it has lost it, and only a refusal during the copy, or a save or an exit
before its end, does that. Since the account grows at those events alone, `LossesKnown` says
that no other event loses a change.

**Assumptions.** Those of the modules (`ParamAssumption`,
`MergeThreadAssumption`, `RecordStoreAssumption`, `SearchViewsAssumption`,
`PlansAssumption`, `LruAssumption`, `KeyAssumption`, `TablesAssumption`, `LimitsAssumption`, `BoundsAssumption`, `KindsAssumption`) say
that bounds are numbers, sets of keys finite and null values not members, and,
for the plans, that terms are numbered without gaps, boosts are positive and
words come by rising edit distance; those of the MC modules
(`ScenarioAssumption`, `SearchAssumption`, `RecoverAssumption`) fix which
scenario is which: modes, one client or finitely many, a limit the keys do not
reach. TLC evaluates all of them.

**Only model-checked.** Liveness (`Reclaimed`, `DeletedReleased`, `Published`,
`Joined`, `CatchesUp`), which the prover does not support under fairness. The
parts of the run `structures`: reassignment of ids, the walks along the lists of
`FeedbackIndex`, the walks of `QuadTree` and edit distances are
folds, recursive functions and walks, and have not been proved about.
`RoomUntilRemoval` also needs enough ids for the keywords there are, as the run and
the code's four billion have. That a plan is never stuck is the deadlock check of the run views (`ENABLED` is out of
the prover's reach).

## 5. Not modelled

- Of modelled components: nested And and Or, Not, phrase, geo and facet
  operators, filters, sorting by attributes, the cost model; suggestions; the
  geometry of geo queries and `QuadTree::update_ThreadSafe`, which nothing calls;
  the cut of a query for all results whose estimate is large
  (`KeywordSearchOperator.cpp:213-216`) and a search without a fuzzy pass (`:142`), whose
  results are those of the first pass; in `MergeThread`, writers that are still
  active at the kill (a connector's thread is, and `ConnectorSync` has it);
  loading of saved files; the handling of read errors.
- Access control: the permission map, which relates roles to records, is
  maintained only by deletion and recovery; the rest is compiled out
  (`#if 0`, `IndexData.cpp:272`, `:285`, `:295`, `:430`). There is nothing to
  check it against before that code is enabled. What the commands do to the
  save flag is in `MergeThread`.
- Dead code: the cache of physical operators always misses
  (`CacheManager.cpp:48-56`), the cache of active nodes is never asked
  (`QueryEvaluatorInternal.cpp:488`), the parallel merge is disabled.
- Analyzers, ranking formulas, highlighting: functions on text and floating
  point without shared state. HTTP, JSON and query parsing, configuration,
  licences, serialization formats: parsing and I/O. Java bindings and the
  Android SDK call the same operations.
- Vendored code inside the source tree: pugixml, `sqlite3.h`, exprtk, half,
  utf8, `thirdparty`.

Of some 100,000 implementation lines a quarter is vendored, and most of the rest
is text processing, parsing, configuration, formatting and byte layouts, whose
state a model checker has no use for. The modules cover the lines that keep
shared, persistent or ordered state; a map of the rest would name lines that no
definition translates.

## 6. Plan

Done: all modules and runs; proofs of CowVector with its refinement, MergeThread,
RecordStore, SearchViews, SearchPlans, LruCache with its refinement and
ConnectorSync, and of every safety property of their runs. Next:

1. `KeywordIds`: that the centroid and the spread keep the order, as lemmas on
   the operators; the fold over the waiting keywords is out of reach.
