---------------------------- MODULE ConnectorSync ----------------------------
(* The database connectors and the engine they feed.

   A connector is a shared library run by a thread of its own.  It copies the
   table into the engine when there is no index yet (createNewIndexes), then
   follows a log of changes for ever (runListener).  The position it has reached
   in the log is kept in memory and written to data.bin only when the engine
   stops, after the index has been saved; both the thread and the database go on
   meanwhile.

   The five libraries differ in how a position is expressed and moved:
     sqlite     polls a log table filled by triggers, stamp in seconds, "after"
     oracle     polls a change table, stamp is a version, moves once per batch
     sqlserver  the same, but is given only the net change of each key
     mongo      tails the oplog from its beginning, skips what is older
     mysql      tails the binlog from a position, skips what is older

   A row is named by the number of the change that wrote it; 0 is "no row" and
   Old a row that is older than the log. *)
EXTENDS Integers, Sequences, FiniteSets, SequencesExt

CONSTANTS
  Key,            \* primary keys
  Tables,         \* the sets of keys the table may hold at first
  Kinds,          \* the connector libraries under study
  Limits,         \* the document limits a configuration may set
  MaxChanges,     \* bound: changes made in the database
  MaxTime,        \* bound: the clock, in seconds
  MaxStarts,      \* bound: starts of the engine
  MaxErrors,      \* bound: database errors met by the connector
  Stops           \* whether the engine may stop, crash or be rebuilt

ASSUME KeyAssumption == IsFiniteSet(Key)

ASSUME TablesAssumption == Tables \subseteq SUBSET Key

ASSUME LimitsAssumption == Limits \subseteq Nat \ {0}

ASSUME BoundsAssumption == MaxChanges \in Nat /\ MaxTime \in Nat

ASSUME KindsAssumption ==
  Kinds \subseteq {"sqlite", "oracle", "sqlserver", "mongo", "mysql"}

VARIABLES
  kind,           \* the library this core uses
  table,          \* key -> its row
  born,           \* the keys that have a row older than the log
  log,            \* every change made: [op, old, key, time]
  purged,         \* how many of the oldest changes the log no longer holds
  clock,          \* time(NULL) and the time of the database, where stamps are times
  limit,          \* documentLimit of the engine that runs
  pc,             \* where the connector thread is
  engine,         \* key -> the row the engine answers with
  dirty,          \* needToSaveIndexes
  last,           \* lastAccessedLogRecordTime / RSID / ChangeVersion
  pos,            \* tailing: how many changes the cursor has passed
  rows,           \* rows read from the table or the log and not handled yet
  kept,           \* the row an update has deleted, to be recovered if it fails
  high,           \* maxRSID, maxChangeVersion of the batch
  seen,           \* opLogTime
  exit,           \* how far graceful_exit() has come
  disk,           \* saved index and data.bin
  starts, errors,
  missed,         \* history: keys that fell into one of the known windows
  lost            \* history: keys that an engine started from disk would miss

db == <<table, log, clock>>
vars == <<kind, table, born, log, purged, clock, limit, pc, engine, dirty, last, pos, rows,
          kept, high, seen, exit, disk, starts, errors, missed, lost>>

Old == -1
Unset == -1
Empty == [k \in Key |-> 0]

Timed == kind \in {"sqlite", "mongo", "mysql"}
Tails == kind \in {"mongo", "mysql"}

-----------------------------------------------------------------------------
(* The log of changes. *)

Stamp(i) == IF Timed THEN log[i].time ELSE i

\* SELECT MAX(RSID$).  With no change recorded yet MAX is NULL: the buffer it
\* should have been fetched into was never written, and strtol() reads whatever it
\* holds.
MaxRSID == IF log = <<>> THEN {0, MaxChanges} ELSE {Len(log)}

\* SELECT MAX(SYS_CHANGE_VERSION), fetched the same way.
MaxChangeVersion == MaxRSID

\* SQLite and MongoDB: time(NULL).
TimeAfterCopy == {clock}

\* The position after a copy of the table; MySQL's is left to
\* loadLastAccessedLogRecordTime().
StampAfterCopy ==
  CASE kind = "mysql"     -> {last}
    [] kind = "oracle"    -> MaxRSID
    [] kind = "sqlserver" -> MaxChangeVersion
    [] OTHER              -> TimeAfterCopy

Concerns(i, k) == k \in {log[i].old, log[i].key}

Visible == purged + 1 .. Len(log)

\* Whether a listener at position (p, l) will still be given change i.
Ahead(i, p, l) ==
  CASE kind = "sqlite" -> l # Unset /\ Stamp(i) > l
    [] Tails           -> i > p /\ Stamp(i) >= l
    [] OTHER           -> Stamp(i) > l

ToCome(p, l) == {i \in Visible : Ahead(i, p, l)}

\* The row of k after the first n changes.
RowAt(k, n) ==
  LET mine == {i \in 1 .. n : Concerns(i, k)}
      i == CHOOSE j \in mine : \A m \in mine : m <= j
  IN  IF mine = {} THEN IF k \in born THEN Old ELSE 0
      ELSE IF log[i].op # "d" /\ log[i].key = k THEN i ELSE 0

-----------------------------------------------------------------------------
(* What ServerInterfaceInternal does to the index. *)

\* getNumberOfDocumentsInIndex() has reached the document limit.
Full(e) == Cardinality({k \in Key : e[k] # 0}) >= limit

\* insertRecord(): a key that is there already is refused, and at the document
\* limit any key.
InsertRecord(e, k, v) == IF e[k] = 0 /\ ~Full(e) THEN [e EXCEPT ![k] = v] ELSE e

\* A key is refused for the document limit only: its row is dropped.
NoPlace(e, k) == e[k] = 0 /\ Full(e)

DeleteRecord(e, k) == [e EXCEPT ![k] = 0]

\* parseOpLogObject() first looks the record up in the collection and gives up
\* when it is gone.
LookUpFails(r) == kind = "mongo" /\ table[r.key] = 0

\* updateRecord() gives up when the old key is not there; tableUpdate() deletes
\* and inserts whatever is there.
UpdateRefused(e, r) == LookUpFails(r) \/ (kind # "mysql" /\ e[r.old] = 0)

\* The second half of an update.  At the document limit updateRecord() has the
\* deleted row recovered, and tableUpdate() has not.
Reinsert(e, r) ==
  IF ~Full(e) THEN InsertRecord(e, r.key, r.val)
  ELSE IF kind = "mysql" THEN e ELSE [e EXCEPT ![r.old] = kept]

\* What an update writes: MongoDB's log names the record only.
UpdateValue(r) == IF kind = "mongo" THEN table[r.key] ELSE r.val

\* Every call of the server interface that changes the index marks it unsaved.
Write(e) == engine' = e /\ dirty' = (dirty \/ e # engine)

-----------------------------------------------------------------------------
(* The database. *)

\* Whether the next change falls behind position l: SQLite is asked for what is
\* later than a second, and a change made in that same second is not; a position
\* read from an unwritten buffer may lie ahead of all changes.
BornBehind(l) ==
  LET at == IF Timed THEN clock ELSE Len(log) + 1
  IN  ~Tails /\ l # Unset /\ at <= l

\* A change and the trigger or log writer that records it.
Change(op, old, k) ==
  /\ starts > 0 /\ Len(log) < MaxChanges
  /\ log' = Append(log, [op |-> op, old |-> old, key |-> k, time |-> clock])
  /\ table' = [x \in Key |-> IF x = k /\ op # "d" THEN Len(log) + 1
                             ELSE IF x \in {old, k} THEN 0 ELSE table[x]]
  /\ missed' = IF BornBehind(last) \/ BornBehind(disk.last) THEN missed \cup {old, k}
               ELSE missed
  /\ lost' = IF BornBehind(disk.last) THEN lost \cup {old, k} ELSE lost
  /\ UNCHANGED <<kind, born, purged, clock, limit, pc, engine, dirty, last, pos, rows, kept,
                 high, seen, exit, disk, starts, errors>>

Insert(k) == table[k] = 0 /\ Change("i", k, k)
Delete(k) == table[k] # 0 /\ Change("d", k, k)
Update(k) == table[k] # 0 /\ Change("u", k, k)

\* The primary key of a row changes (MongoDB forbids it, SQL Server reports it
\* as two changes).
Rename(k, l) ==
  /\ kind \in {"sqlite", "mysql", "oracle"}
  /\ table[k] # 0 /\ table[l] = 0
  /\ Change("u", k, l)

Tick ==
  /\ Timed /\ starts > 0 /\ clock < MaxTime
  /\ clock' = clock + 1
  /\ UNCHANGED <<kind, table, born, log, purged, limit, pc, engine, dirty, last, pos, rows,
                 kept, high, seen, exit, disk, starts, errors, missed, lost>>

-----------------------------------------------------------------------------
(* The connector thread. *)

\* The changes of the log that bring row v of key k to the row of the table.
Needed(v, k) ==
  IF v = table[k] THEN {}
  ELSE IF v = 0 THEN {table[k]} \ {Old}
  ELSE {i \in 1 .. Len(log) : i > v /\ Concerns(i, k)}

\* The keys of an index with a change that it needs and that a listener at
\* position (p, l) has passed.
Passed(index, p, l) == {k \in Key : ~(Needed(index[k], k) \subseteq ToCome(p, l))}

\* Every file of the index is there.
IndexExists == disk.found

\* A new process: the index is loaded or created empty, the thread connects and
\* copies the table only if no index was found.
Start ==
  /\ pc = "off" /\ starts < MaxStarts
  /\ starts' = starts + 1
  /\ engine' = disk.index
  /\ limit' \in Limits
  /\ pc' = IF IndexExists THEN "load" ELSE "connect"
  /\ missed' = IF IndexExists THEN lost ELSE {}
  /\ UNCHANGED <<kind, table, born, log, purged, clock, dirty, last, pos, rows, kept,
                 high, seen, exit, disk, errors, lost>>

\* SELECT * FROM table.
ScanBegin ==
  LET held == SetToSeq({k \in Key : table[k] # 0})
      row(k) == [op |-> "i", old |-> k, key |-> k, val |-> table[k], at |-> Unset]
  IN
  /\ pc = "connect"
  /\ rows' = [n \in 1 .. Len(held) |-> row(held[n])]
  /\ pc' = "scan"
  /\ UNCHANGED <<kind, table, born, log, purged, clock, limit, engine, dirty, last, pos, kept,
                 high, seen, exit, disk, starts, errors, missed, lost>>

\* One row of the table goes into the index, if there is a place.
ScanRow ==
  /\ pc = "scan" /\ rows # <<>>
  /\ Write(InsertRecord(engine, Head(rows).key, Head(rows).val))
  /\ rows' = Tail(rows)
  /\ missed' = IF NoPlace(engine, Head(rows).key) THEN missed \cup {Head(rows).key} ELSE missed
  /\ UNCHANGED <<kind, table, born, log, purged, clock, limit, pc, last, pos, kept, high, seen,
                 exit, disk, starts, errors, lost>>

\* An error sends the copy back to its beginning; what was inserted stays.
ScanError ==
  /\ pc = "scan" /\ errors < MaxErrors
  /\ errors' = errors + 1
  /\ pc' = "connect" /\ rows' = <<>>
  /\ UNCHANGED <<kind, table, born, log, purged, clock, limit, engine, dirty, last, pos, kept,
                 high, seen, exit, disk, starts, missed, lost>>

\* After the copy the position is set to the present, which is later than what
\* the copy read.
ScanEnd ==
  /\ pc = "scan" /\ rows = <<>>
  /\ last' \in StampAfterCopy
  /\ pc' = "load"
  /\ UNCHANGED <<kind, table, born, log, purged, clock, limit, engine, dirty, pos, rows, kept,
                 high, seen, exit, disk, starts, errors, missed, lost>>

\* loadLastAccessedLogRecordTime(): the position of data.bin; without that file
\* the one of the copy, and without a copy the present ("The data may be
\* inconsistent.  Please rebuild").
LoadElse(present) ==
  IF disk.file THEN {disk.last} ELSE IF last = Unset THEN present ELSE {last}

\* A data.bin that SQLite wrote before any position was known is empty, and
\* nothing is read from it.
EmptyFile == kind = "sqlite" /\ disk.file /\ disk.last = Unset

LoadSQLite == IF EmptyFile THEN {last} ELSE LoadElse({clock})

LoadMongo == LoadElse({clock})

LoadOracle == LoadElse(MaxRSID)

LoadSQLServer == LoadElse(MaxChangeVersion)

\* A file written before any position was known names no binlog; the first one
\* is asked for, for ever if it has been purged.
Blank == kind = "mysql" /\ disk.file /\ disk.last = Unset

\* A binlog that no longer reaches back to the saved position is entered at the
\* present.
LoadMySQL ==
  IF disk.file /\ (Blank \/ disk.pos >= purged)
  THEN [known |-> TRUE, pos |-> disk.pos, last |-> {disk.last}]
  ELSE [known |-> FALSE, pos |-> purged, last |-> {clock}]

LoadPosition ==
  LET from == CASE kind = "mysql" -> LoadMySQL.last
                [] kind = "mongo" -> LoadMongo
                [] kind = "oracle" -> LoadOracle
                [] kind = "sqlserver" -> LoadSQLServer
                [] OTHER -> LoadSQLite
      p == IF kind = "mysql" THEN LoadMySQL.pos ELSE 0
      known == IF kind = "mysql" THEN LoadMySQL.known ELSE disk.file /\ ~EmptyFile
  IN  /\ pc = "load"
      /\ pos' = p
      /\ \E l \in from :
           /\ last' = l
           /\ missed' = {k \in missed : engine[k] # table[k]}
                          \cup IF known THEN {} ELSE Passed(engine, p, l)
      /\ pc' = IF Blank /\ purged > 0 THEN "stuck" ELSE "listen"
      /\ UNCHANGED <<kind, table, born, log, purged, clock, limit, engine, dirty, rows, kept,
                     high, seen, exit, disk, starts, errors, lost>>

LogRow(i) == [op |-> log[i].op, old |-> log[i].old, key |-> log[i].key, val |-> i, at |-> Stamp(i)]

\* The numbers of S, smallest first.
InOrder(S) ==
  CHOOSE q \in [1 .. Cardinality(S) -> S] :
    \A m, n \in 1 .. Cardinality(S) : m < n => q[m] < q[n]

\* The rows of one poll, oldest first.
LogRows(S) == [n \in 1 .. Cardinality(S) |-> LogRow(InOrder(S)[n])]

\* CHANGETABLE(CHANGES t, l) joined with t: one row for each key changed, with
\* what became of it since l and with its present values.  A key deleted and
\* inserted again is given as reborn says.  The query names no order, and the
\* rows are of different keys: the order of the changes stands for any.
NetRow(S, i, reborn) ==
  LET k == log[i].key
      op == IF table[k] = 0 THEN "d"
            ELSE IF \A j \in S : log[j].key = k => log[j].op # "i" THEN "u"
            ELSE IF RowAt(k, IF last = Unset THEN 0 ELSE last) = 0 THEN "i" ELSE reborn
  IN  [op |-> op, old |-> k, key |-> k, val |-> table[k], at |-> i]

NetRows(S, reborn) ==
  LET newest == {i \in S : \A j \in S : log[j].key = log[i].key => j <= i}
  IN  [n \in 1 .. Cardinality(newest) |-> NetRow(S, InOrder(newest)[n], reborn)]

\* The prepared statement is executed.
Poll ==
  /\ pc = "listen" /\ ~Tails /\ rows = <<>>
  /\ ToCome(pos, last) # {}
  /\ \/ kind = "sqlserver" /\ \E o \in {"i", "u"} : rows' = NetRows(ToCome(pos, last), o)
     \/ kind # "sqlserver" /\ rows' = LogRows(ToCome(pos, last))
  /\ high' = Unset
  /\ UNCHANGED <<kind, table, born, log, purged, clock, limit, pc, engine, dirty, last, pos,
                 kept, seen, exit, disk, starts, errors, missed, lost>>

\* The tail cursor hands out the next change; one that is older than the
\* position is passed over.
SkippedEqual(i) == log[i].time <= last

Skipped(i) == log[i].time < last

TailRow ==
  LET i == pos + 1 IN
  /\ pc = "listen" /\ Tails /\ i <= Len(log)
  /\ seen' = IF kind = "mongo" THEN log[i].time ELSE seen
  /\ \/ /\ ~Skipped(i)
        /\ rows' = <<LogRow(i)>> /\ pc' = "apply"
        /\ UNCHANGED pos
     \/ /\ Skipped(i)
        /\ pos' = i
        /\ UNCHANGED <<rows, pc>>
  /\ UNCHANGED <<kind, table, born, log, purged, clock, limit, engine, dirty, last, kept, high,
                 exit, disk, starts, errors, missed, lost>>

\* A polled row is taken.  SQLite's stamp moves here, before the row is handled,
\* past what was added to that second after the poll; the others remember the
\* largest of the batch.
TakeRow ==
  LET r == Head(rows)
      passed == {i \in ToCome(pos, last) :
                   Stamp(i) <= r.at /\ \A n \in 1 .. Len(rows) : rows[n].val # i}
  IN
  /\ pc = "listen" /\ ~Tails /\ rows # <<>>
  /\ pc' = "apply"
  /\ last' = IF kind = "sqlite" THEN r.at ELSE last
  /\ high' = IF kind # "sqlite" /\ r.at > high THEN r.at ELSE high
  /\ missed' = IF kind = "sqlite" THEN missed \cup {k \in Key : \E i \in passed : Concerns(i, k)}
               ELSE missed
  /\ UNCHANGED <<kind, table, born, log, purged, clock, limit, engine, dirty, pos, rows, kept,
                 seen, exit, disk, starts, errors, lost>>

\* A row that does not fit the index and is given up: an update of a key it has
\* not, which is what a log handed out a second time may hold, a net insertion of
\* a key it has, or an insertion at the document limit.
GivenUp(e, r) ==
  \/ (r.op = "u" \/ (kind = "sqlserver" /\ r.op = "i")) /\ e[r.key] # r.val
  \/ r.op = "i" /\ NoPlace(e, r.key)

\* Where the thread goes once a row is handled: at the end of a batch, and after
\* each row of a tailed log, the position follows.
RowDone ==
  /\ pc' = IF Tails \/ Len(rows) = 1 THEN "advance" ELSE "listen"
  /\ rows' = IF Tails THEN rows ELSE Tail(rows)

\* The account of losses: a key whose row is given up enters it; one that is put
\* right leaves, unless more of the same batch concerns it.
Account(e, r, given) ==
  LET mine == {r.old, r.key}
      later(k) == \E n \in 2 .. Len(rows) : k \in {rows[n].old, rows[n].key}
  IN  missed' = IF given THEN missed \cup mine
                ELSE missed \ {k \in mine : e[k] = table[k] /\ ~later(k)}

\* The row goes to the server interface.
ApplyRow ==
  LET r == Head(rows)
      e == CASE r.op = "i" -> InsertRecord(engine, r.key, r.val)
             [] r.op = "d" -> DeleteRecord(engine, r.old)
             [] OTHER      -> engine
  IN
  /\ pc = "apply"
  /\ r.op = "u" => UpdateRefused(engine, r)
  /\ Write(e)
  /\ Account(e, r, GivenUp(e, r))
  /\ RowDone
  /\ UNCHANGED <<kind, table, born, log, purged, clock, limit, last, pos, kept, high, seen,
                 exit, disk, starts, errors, lost>>

\* An update is a deletion ...
UpdateDelete ==
  LET r == Head(rows) IN
  /\ pc = "apply" /\ r.op = "u" /\ ~UpdateRefused(engine, r)
  /\ Write(DeleteRecord(engine, r.old))
  /\ rows' = <<[r EXCEPT !.val = UpdateValue(r)]>> \o Tail(rows)
  /\ kept' = engine[r.old]
  /\ pc' = "reinsert"
  /\ UNCHANGED <<kind, table, born, log, purged, clock, limit, last, pos, high, seen,
                 exit, disk, starts, errors, missed, lost>>

\* ... and an insertion, not under one lock.
UpdateInsert ==
  LET r == Head(rows)
      e == Reinsert(engine, r)
  IN
  /\ pc = "reinsert"
  /\ Write(e)
  /\ Account(e, r, Full(engine))
  /\ kept' = 0
  /\ RowDone
  /\ UNCHANGED <<kind, table, born, log, purged, clock, limit, last, pos, high, seen,
                 exit, disk, starts, errors, lost>>

AdvanceTwice ==
  /\ pc = "advance"
  /\ pc' = "listen"
  /\ rows' = <<>>
  /\ last' = IF Tails THEN Head(rows).at ELSE IF kind = "sqlite" THEN last ELSE high
  /\ pos' = IF Tails THEN pos + 2 ELSE pos
  /\ UNCHANGED <<kind, table, born, log, purged, clock, limit, engine, dirty, kept, high, seen,
                 exit, disk, starts, errors, missed, lost>>

Advance ==
  /\ pc = "advance"
  /\ pc' = "listen"
  /\ rows' = <<>>
  /\ last' = IF Tails THEN Head(rows).at ELSE IF kind = "sqlite" THEN last ELSE high
  /\ pos' = IF Tails THEN pos + 1 ELSE pos
  /\ UNCHANGED <<kind, table, born, log, purged, clock, limit, engine, dirty, kept, high, seen,
                 exit, disk, starts, errors, missed, lost>>

\* What a position taken now leaves behind: SQLite's is that of a row whose
\* handling has only begun, or of the rest of its second; one taken before
\* runListener() is later than what the copy read.
NotHandled ==
  IF pc = "load" THEN Passed(engine, pos, last)
  ELSE {k \in Key : \E n \in 1 .. Len(rows) :
          /\ kind = "sqlite" /\ pc # "scan" /\ rows[n].at <= last
          /\ k \in {rows[n].old, rows[n].key}}

\* An error in the middle of a batch drops the rest of it, which is then polled
\* again; SQLite does not get back the rows of the second it had begun.
\* MongoDB's handler returns to the last change its cursor saw.
FetchError ==
  /\ errors < MaxErrors
  /\ \/ pc = "listen" /\ kind # "mysql"
     \/ pc = "apply" /\ kind = "mongo"
  /\ errors' = errors + 1
  /\ pc' = "listen" /\ rows' = <<>>
  /\ last' = IF kind = "mongo" THEN seen ELSE last
  /\ pos' = IF kind = "mongo" THEN 0 ELSE pos
  /\ seen' = 0
  /\ missed' = missed \cup NotHandled
  /\ UNCHANGED <<kind, table, born, log, purged, clock, limit, engine, dirty, kept, high, exit,
                 disk, starts, lost>>

-----------------------------------------------------------------------------
(* The engine around it. *)

\* saveLastAccessedLogRecordTime() of this core's connector.
Stamped(d) == [d EXCEPT !.file = TRUE, !.last = last, !.pos = IF kind = "mysql" THEN pos ELSE 0]

DeleteWholeLog == purged' = IF kind = "sqlite" THEN Len(log) ELSE purged

\* SQLite deletes the rows of the log that lie behind the position, all of them
\* when there is no position: a number is less than the empty text.
DeleteProcessedLog ==
  purged' = IF kind # "sqlite" THEN purged
            ELSE IF last = Unset THEN Len(log)
            ELSE Cardinality({i \in 1 .. Len(log) : Stamp(i) <= last})

\* What an index saved now lacks for good: one saved while the table is being
\* copied is taken for a complete one; one saved while MongoDB's log is read again
\* from an earlier time is older than the position of data.bin.
LostByIndex ==
  IF pc \in {"connect", "scan"} THEN Key
  ELSE IF kind = "mongo" /\ pc # "load" /\ last < disk.last THEN missed \cup Passed(engine, 0, disk.last)
  ELSE missed

\* What a position saved now loses for the index saved before: what was handled
\* since.
LostByStamp ==
  IF pc \in {"connect", "scan"} THEN lost
  ELSE lost \cup missed \cup NotHandled \cup Passed(disk.index, Stamped(disk).pos, last)

\* The save command: the index is written, the position is not.
SaveCommand ==
  /\ Stops /\ pc # "off" /\ exit = "no" /\ dirty
  /\ disk' = [disk EXCEPT !.found = TRUE, !.index = engine]
  /\ dirty' = FALSE
  /\ lost' = LostByIndex
  /\ UNCHANGED <<kind, table, born, log, purged, clock, limit, pc, engine, last, pos, rows,
                 kept, high, seen, exit, starts, errors, missed>>

\* graceful_exit() at a core that comes earlier in the map: the positions of all
\* cores are written, this one's too, before its index is.
StampEarly ==
  /\ Stops /\ pc # "off" /\ exit = "no"
  /\ disk' = Stamped(disk)
  /\ DeleteProcessedLog
  /\ exit' = "early"
  /\ missed' = missed \cup NotHandled
  /\ lost' = LostByStamp
  /\ UNCHANGED <<kind, table, born, log, clock, limit, pc, engine, dirty, last, pos, rows,
                 kept, high, seen, starts, errors>>

\* graceful_exit() at this core: first IndexReaderWriter::save(), which returns at
\* once when nothing has changed since the last save.
SaveIndex ==
  /\ Stops /\ pc # "off" /\ exit \in {"no", "early"}
  /\ disk' = [disk EXCEPT !.found = @ \/ dirty, !.index = engine]
  /\ dirty' = FALSE
  /\ exit' = "saved"
  /\ lost' = LostByIndex
  /\ UNCHANGED <<kind, table, born, log, purged, clock, limit, pc, engine, last, pos, rows,
                 kept, high, seen, starts, errors, missed>>

\* The process is gone, and what it held in memory.
Gone ==
  /\ pc' = "off" /\ exit' = "no" /\ engine' = Empty /\ dirty' = FALSE
  /\ last' = Unset /\ pos' = 0 /\ rows' = <<>> /\ high' = Unset /\ seen' = 0
  /\ limit' = 0 /\ kept' = 0 /\ missed' = {}

\* Then the position, and the process ends.
SaveTimestamp ==
  /\ exit = "saved"
  /\ disk' = Stamped(disk)
  /\ DeleteProcessedLog
  /\ lost' = LostByStamp
  /\ Gone
  /\ UNCHANGED <<kind, table, born, log, clock, starts, errors>>

\* The process dies.  Dying between the two halves of an exit leaves a position
\* that is ahead of the index.
Crash ==
  /\ Stops /\ pc # "off"
  /\ Gone
  /\ UNCHANGED <<kind, table, born, log, purged, clock, disk, starts, errors, lost>>

\* "remove all the index files and run the engine again": data.bin stays.
RemoveIndex ==
  /\ Stops /\ pc = "off" /\ disk.found
  /\ disk' = [disk EXCEPT !.found = FALSE, !.index = Empty]
  /\ UNCHANGED <<kind, table, born, log, purged, clock, limit, pc, engine, dirty, last, pos,
                 rows, kept, high, seen, exit, starts, errors, missed, lost>>

\* MySQL drops its oldest binlog.
PurgeBinlog ==
  /\ kind = "mysql" /\ pc = "off" /\ purged < Len(log)
  /\ purged' = purged + 1
  /\ UNCHANGED <<kind, table, born, log, clock, limit, pc, engine, dirty, last, pos, rows,
                 kept, high, seen, exit, disk, starts, errors, missed, lost>>

-----------------------------------------------------------------------------
Init ==
  /\ kind \in Kinds
  /\ born \in Tables
  /\ table = [k \in Key |-> IF k \in born THEN Old ELSE 0]
  /\ log = <<>> /\ purged = 0 /\ clock = 1
  /\ limit = 0 /\ pc = "off" /\ engine = Empty /\ dirty = FALSE
  /\ last = Unset /\ pos = 0 /\ rows = <<>> /\ kept = 0 /\ high = Unset /\ seen = 0
  /\ exit = "no" /\ starts = 0 /\ errors = 0 /\ missed = {} /\ lost = {}
  /\ disk = [found |-> FALSE, index |-> Empty, file |-> FALSE, last |-> Unset, pos |-> 0]

Connector ==
  \/ ScanBegin \/ ScanRow \/ ScanEnd \/ LoadPosition
  \/ Poll \/ TailRow \/ TakeRow \/ ApplyRow \/ UpdateDelete \/ UpdateInsert \/ Advance

Database ==
  \/ \E k \in Key : Insert(k) \/ Delete(k) \/ Update(k)
  \/ \E k, l \in Key : Rename(k, l)
  \/ Tick

Next ==
  \/ Database
  \/ Start
  \/ Connector \/ ScanError \/ FetchError
  \/ SaveCommand \/ StampEarly \/ SaveIndex \/ SaveTimestamp \/ Crash
  \/ RemoveIndex \/ PurgeBinlog

Spec == Init /\ [][Next]_vars

\* The thread keeps running (its loops sleep and try again), and an engine that
\* began to stop stops.
FairSpec == Spec /\ WF_vars(Connector) /\ WF_vars(SaveTimestamp)

-----------------------------------------------------------------------------
(* Properties. *)

TypeOK ==
  /\ kind \in Kinds
  /\ table \in [Key -> Old .. Len(log)] /\ engine \in [Key -> Old .. Len(log)]
  /\ purged \in 0 .. Len(log) /\ pos \in 0 .. Len(log)
  /\ pc \in {"off", "connect", "scan", "load", "listen", "apply", "reinsert", "advance", "stuck"}
  /\ limit \in Limits \cup {0} /\ kept \in Old .. Len(log)
  /\ last \in Int /\ high \in Int /\ dirty \in BOOLEAN
  /\ exit \in {"no", "early", "saved"}
  /\ disk.index \in [Key -> Old .. Len(log)]
  /\ missed \subseteq Key /\ lost \subseteq Key

\* SQLite without a position is given nothing any more (see LoadPosition).
Blind == kind = "sqlite" /\ last = Unset

\* Whether a row the connector holds, or has still to come, concerns k.
Pending(k) ==
  \/ \E i \in 1 .. Len(rows) : k \in {rows[i].old, rows[i].key}
  \/ \E i \in ToCome(pos, last) : Concerns(i, k)

\* While the connector listens, a key on which the engine and the table differ is
\* one whose change is on its way, unless it fell into a window this model names:
\* nothing else loses a change, whatever the order of errors, saves, exits,
\* crashes and restarts.
OnlyKnownLosses ==
  pc \in {"listen", "apply", "reinsert", "advance"} /\ ~Blind =>
    \A k \in Key : engine[k] = table[k] \/ Pending(k) \/ k \in missed

\* An engine that stays up catches up with the database once that is quiet, and
\* stays so, whatever errors, exits and restarts came before.
CatchesUp ==
  LET settled == \A k \in Key : engine[k] = table[k] \/ k \in missed
  IN  <>[](pc # "off") => <>[](Blind \/ pc = "stuck" \/ settled)
=============================================================================
