------------------------ MODULE ConnectorSyncProofs ------------------------
(* ConnectorSync: type correctness, and that a change is lost only in the windows
   the model names. *)
EXTENDS ConnectorSync, FiniteSetTheorems, SequenceTheorems, WellFoundedInduction, TLAPS

-----------------------------------------------------------------------------
(* Numbers and sets. *)

\* A non-empty set of numbers up to n has a largest one.
LEMMA MaxExists ==
  ASSUME NEW n \in Nat, NEW S, S \subseteq 1 .. n, S # {}
  PROVE  \E m \in S : \A x \in S : x <= m
<1> DEFINE T == {n - x : x \in S}
           R == {ss \in Nat \X Nat : ss[1] < ss[2]}
<1>1. T \subseteq Nat /\ T # {}
  <2>1. \A x \in S : n - x \in Nat
    OBVIOUS
  <2>2. PICK x \in S : TRUE
    OBVIOUS
  <2>3. n - x \in T
    BY <2>2
  <2> QED BY <2>1, <2>3
<1>2. IsWellFoundedOn(R, Nat)
  BY NatLessThanWellFounded DEF OpToRel
<1>3. PICK t \in T : \A y \in T : ~(<<y, t>> \in R)
  <2> HIDE DEF T, R
  <2> QED BY <1>1, <1>2, WFMin
<1>4. PICK m \in S : t = n - m
  OBVIOUS
<1>5. ASSUME NEW x \in S PROVE x <= m
  <2>1. n - x \in T /\ n - x \in Nat /\ t \in Nat
    BY <1>1
  <2>2. ~(<<n - x, t>> \in R)
    BY <1>3, <2>1
  <2>3. ~(n - x < t)
    BY <2>1, <2>2
  <2> QED BY <1>4, <2>3
<1> QED BY <1>5

\* A set of numbers without gaps from 1 on is counted by its size.
LEMMA CountedBySize ==
  ASSUME NEW n \in Nat, NEW S, S \subseteq 1 .. n,
         \A x \in S : \A y \in 1 .. n : y <= x => y \in S
  PROVE  /\ Cardinality(S) \in 0 .. n
         /\ \A i \in 1 .. n : i \in S <=> i <= Cardinality(S)
<1>1. CASE S = {}
  BY <1>1, FS_EmptySet
<1>2. CASE S # {}
  <2>1. PICK m \in S : \A x \in S : x <= m
    BY <1>2, MaxExists
  <2>2. m \in 1 .. n /\ S = 1 .. m
    <3>1. m \in 1 .. n
      OBVIOUS
    <3>2. ASSUME NEW x \in S PROVE x \in 1 .. m
      <4>1. x \in 1 .. n /\ x <= m
        BY <2>1
      <4> QED BY <3>1, <4>1
    <3>3. ASSUME NEW x \in 1 .. m PROVE x \in S
      <4>1. x \in 1 .. n /\ x <= m
        BY <3>1
      <4> QED BY <4>1
    <3> QED BY <3>1, <3>2, <3>3
  <2>3. Cardinality(S) = m
    BY <2>1, <2>2, FS_Interval
  <2> QED BY <2>1, <2>2, <2>3
<1> QED BY <1>1, <1>2

\* What SetToSeq() makes of a finite set.
LEMMA SetToSeqLists ==
  ASSUME NEW S, IsFiniteSet(S)
  PROVE  /\ Cardinality(S) \in Nat
         /\ SetToSeq(S) \in [1 .. Cardinality(S) -> S]
         /\ \A x \in S : \E n \in 1 .. Cardinality(S) : SetToSeq(S)[n] = x
<1> DEFINE N == Cardinality(S)
<1>1. N \in Nat /\ ExistsBijection(1 .. N, S)
  BY FS_CardinalityType
<1>2. PICK f \in Bijection(1 .. N, S) : TRUE
  BY <1>1 DEF ExistsBijection
<1>3. f \in [1 .. N -> S] /\ IsInjective(f)
  BY <1>2 DEF Bijection, Injection
<1>4. SetToSeq(S) \in [1 .. N -> S] /\ IsInjective(SetToSeq(S))
  BY <1>3 DEF SetToSeq
<1>5. SetToSeq(S) \in Injection(1 .. N, S)
  BY <1>4 DEF Injection
<1>6. Cardinality(1 .. N) = N
  BY <1>1, FS_Interval
<1>7. SetToSeq(S) \in Surjection(1 .. N, S)
  BY <1>5, <1>6, FS_Injection
<1> QED BY <1>1, <1>4, <1>7 DEF Surjection

\* InOrder() lists a set of numbers, all of it, the smallest first.
LEMMA InOrderLists ==
  ASSUME NEW n \in Nat, NEW S, S \subseteq 1 .. n
  PROVE  /\ Cardinality(S) \in Nat
         /\ S = {} <=> Cardinality(S) = 0
         /\ InOrder(S) \in [1 .. Cardinality(S) -> S]
         /\ \A a, b \in 1 .. Cardinality(S) : a < b => InOrder(S)[a] < InOrder(S)[b]
         /\ \A x \in S : \E a \in 1 .. Cardinality(S) : InOrder(S)[a] = x
<1> DEFINE N == Cardinality(S)
           Upto(x) == {y \in S : y <= x}
           R == [x \in S |-> Cardinality(Upto(x))]
           q == [a \in 1 .. N |-> CHOOSE x \in S : R[x] = a]
<1>0. \A x \in S : x \in Int
  OBVIOUS
<1>1. IsFiniteSet(S) /\ N \in Nat /\ (S = {} <=> N = 0)
  <2>1. IsFiniteSet(1 .. n)
    BY FS_Interval
  <2>2. IsFiniteSet(S)
    BY <2>1, FS_Subset
  <2> QED BY <2>2, FS_CardinalityType, FS_EmptySet
<1>2. ASSUME NEW x \in S
      PROVE  IsFiniteSet(Upto(x)) /\ Cardinality(Upto(x)) \in 1 .. N
  <2>1. Upto(x) \in SUBSET S /\ x \in Upto(x)
    OBVIOUS
  <2>2. IsFiniteSet(Upto(x)) /\ Cardinality(Upto(x)) <= N
    BY <1>1, <2>1, FS_Subset
  <2>3. Cardinality(Upto(x)) \in Nat /\ Cardinality(Upto(x)) # 0
    BY <2>1, <2>2, FS_CardinalityType, FS_EmptySet
  <2> QED BY <1>1, <2>2, <2>3
<1>3. ASSUME NEW x \in S, NEW y \in S, x < y
      PROVE  Cardinality(Upto(x)) < Cardinality(Upto(y))
  <2>1. Upto(x) \in SUBSET Upto(y) /\ y \in Upto(y) /\ y \notin Upto(x)
    <3>1. x \in Int /\ y \in Int
      BY <1>0
    <3>2. ASSUME NEW z \in Upto(x) PROVE z \in Upto(y)
      <4>1. z \in S /\ z \in Int /\ z <= x
        BY <1>0
      <4> QED BY <1>3, <3>1, <4>1
    <3>3. y \in Upto(y)
      BY <3>1
    <3>4. y \notin Upto(x)
      BY <1>3, <3>1
    <3> QED BY <3>2, <3>3, <3>4
  <2> HIDE DEF Upto
  <2>2. IsFiniteSet(Upto(y))
    BY <1>2
  <2>3. Cardinality(Upto(x)) <= Cardinality(Upto(y)) /\ Cardinality(Upto(x)) # Cardinality(Upto(y))
    BY <2>1, <2>2, FS_Subset
  <2> QED BY <1>2, <2>3
<1>4. R \in [S -> 1 .. N] /\ \A x, y \in S : x < y => R[x] < R[y]
  BY <1>2, <1>3
<1> HIDE DEF R
<1>5. R \in Surjection(S, 1 .. N)
  <2>1. \A x, y \in S : R[x] = R[y] => x = y
    <3> SUFFICES ASSUME NEW x \in S, NEW y \in S, x # y PROVE R[x] # R[y]
      OBVIOUS
    <3>1. x \in Int /\ y \in Int /\ R[x] \in Int /\ R[y] \in Int
      BY <1>4
    <3>2. CASE x < y
      BY <1>4, <3>1, <3>2
    <3>3. CASE y < x
      BY <1>4, <3>1, <3>3
    <3> QED BY <3>1, <3>2, <3>3
  <2>2. R \in Injection(S, 1 .. N)
    BY <1>4, <2>1 DEF Injection, IsInjective
  <2>3. IsFiniteSet(1 .. N) /\ Cardinality(1 .. N) = N
    BY <1>1, FS_Interval
  <2> QED BY <2>2, <2>3, FS_Injection
<1>6. \A a \in 1 .. N : q[a] \in S /\ R[q[a]] = a
  BY <1>5 DEF Surjection
<1> HIDE DEF q
<1>7. \A a, b \in 1 .. N : a < b => q[a] < q[b]
  <2> SUFFICES ASSUME NEW a \in 1 .. N, NEW b \in 1 .. N, a < b PROVE q[a] < q[b]
    OBVIOUS
  <2>1. q[a] \in Int /\ q[b] \in Int
    BY <1>0, <1>6
  <2>2. CASE q[b] < q[a]
    <3>1. R[q[b]] < R[q[a]]
      BY <1>4, <1>6, <2>2
    <3>2. R[q[b]] = b /\ R[q[a]] = a
      BY <1>6
    <3> QED BY <3>1, <3>2
  <2>3. CASE q[b] = q[a]
    <3>1. R[q[b]] = b /\ R[q[a]] = a
      BY <1>6
    <3> QED BY <2>3, <3>1
  <2> QED BY <2>1, <2>2, <2>3
<1>8. q \in [1 .. N -> S]
  BY <1>6 DEF q
<1>9. /\ InOrder(S) \in [1 .. N -> S]
      /\ \A a, b \in 1 .. N : a < b => InOrder(S)[a] < InOrder(S)[b]
  BY <1>7, <1>8 DEF InOrder
<1>10. \A x \in S : \E a \in 1 .. N : InOrder(S)[a] = x
  <2>1. \A a, b \in 1 .. N : InOrder(S)[a] = InOrder(S)[b] => a = b
    <3> SUFFICES ASSUME NEW a \in 1 .. N, NEW b \in 1 .. N, a # b PROVE InOrder(S)[a] # InOrder(S)[b]
      OBVIOUS
    <3>1. InOrder(S)[a] \in Int /\ InOrder(S)[b] \in Int
      BY <1>0, <1>9
    <3>2. CASE a < b
      BY <1>9, <3>1, <3>2
    <3>3. CASE b < a
      BY <1>9, <3>1, <3>3
    <3> QED BY <1>1, <3>2, <3>3
  <2>2. InOrder(S) \in Injection(1 .. N, S)
    BY <1>9, <2>1 DEF Injection, IsInjective
  <2>3. Cardinality(1 .. N) = N
    BY <1>1, FS_Interval
  <2>4. InOrder(S) \in Surjection(1 .. N, S)
    BY <1>1, <2>2, <2>3, FS_Injection
  <2> QED BY <2>4 DEF Surjection
<1> QED BY <1>1, <1>9, <1>10

-----------------------------------------------------------------------------
(* The inductive invariant. *)

ChangeRec == [op : {"i", "u", "d"}, old : Key, key : Key, time : Nat]
RowRec == [op : {"i", "u", "d"}, old : Key, key : Key, val : Int, at : Int]
DiskRec == [found : BOOLEAN, index : [Key -> Int], file : BOOLEAN, last : Int, pos : Nat]

Copying == pc \in {"connect", "scan"}
Listening == pc \in {"listen", "apply", "reinsert", "advance"}
Handling == pc \in {"apply", "reinsert"}

\* The types of the variables, save those of the document limit.
Types ==
  /\ kind \in Kinds
  /\ table \in [Key -> Old .. Len(log)] /\ engine \in [Key -> Old .. Len(log)]
  /\ purged \in 0 .. Len(log) /\ pos \in 0 .. Len(log)
  /\ pc \in {"off", "connect", "scan", "load", "listen", "apply", "reinsert", "advance", "stuck"}
  /\ last \in Int /\ high \in Int /\ dirty \in BOOLEAN
  /\ exit \in {"no", "early", "saved"}
  /\ disk.index \in [Key -> Old .. Len(log)]
  /\ missed \subseteq Key /\ lost \subseteq Key

Typed ==
  /\ Types
  /\ born \subseteq Key /\ log \in Seq(ChangeRec)
  /\ clock \in Nat /\ seen \in Nat
  /\ rows \in Seq(RowRec)
  /\ \A n \in 1 .. Len(rows) : rows[n].val \in Old .. Len(log)
  /\ disk \in DiskRec /\ disk.pos <= Len(log)

\* Row v of key k was written, and once held.
Version(v, k) ==
  \/ v = Old /\ k \in born
  \/ v \in 1 .. Len(log) /\ log[v].op # "d" /\ log[v].key = k

Later(v, k) == {i \in 1 .. Len(log) : i > v /\ Concerns(i, k)}

\* The database: times do not go back, the table holds the newest version of every
\* row, and a key that is inserted or renamed to was absent.
DatabaseInv ==
  /\ clock >= 1
  /\ \A i \in 1 .. Len(log) : log[i].time \in 1 .. clock
  /\ \A i, j \in 1 .. Len(log) : i <= j => log[i].time <= log[j].time
  /\ \A k \in Key : table[k] # 0 => Version(table[k], k) /\ Later(table[k], k) = {}
  /\ \A k \in Key : \A v \in Old .. Len(log) :
       v # 0 /\ Version(v, k) /\ Later(v, k) = {} => table[k] = v
  /\ \A i \in 1 .. Len(log) : log[i].op = "i" \/ log[i].old # log[i].key =>
       \A v \in Old .. i - 1 : v # 0 /\ Version(v, log[i].key) =>
         \E j \in Later(v, log[i].key) : j < i
  /\ \A i \in 1 .. Len(log) : log[i].old # log[i].key => log[i].op = "u"
  /\ \A i \in 1 .. Len(log) : kind \in {"mongo", "sqlserver"} => log[i].old = log[i].key

\* The index holds only rows that were written.
ValuesInv ==
  \A k \in Key : /\ engine[k] = 0 \/ Version(engine[k], k)
                 /\ disk.index[k] = 0 \/ Version(disk.index[k], k)

\* A listener that is still given the changes in A brings v to the row of the table.
Good(v, k, A) ==
  \/ v = table[k]
  \/ v = 0 /\ \E i \in A : Concerns(i, k)
  \/ v # 0 /\ \A i \in Later(v, k) : i \in A

Held == {rows[n].val : n \in 1 .. Len(rows)}

\* The changes concerning k that are still to be handled.
Left(k) ==
  CASE Tails -> {i \in ToCome(pos, last) : pc = "advance" => i > pos + 1}
    [] kind = "sqlite" -> ToCome(pos, last) \cup Held
    [] kind = "oracle" ->
         {i \in 1 .. Len(log) : IF rows # <<>> THEN i >= rows[1].val
                                ELSE IF pc = "advance" THEN i > high ELSE i > last}
    [] OTHER ->
         {i \in 1 .. Len(log) :
            IF \E n \in 1 .. Len(rows) : rows[n].key = k THEN i > last
            ELSE IF rows # <<>> THEN i > rows[Len(rows)].at
            ELSE IF pc = "advance" THEN i > high ELSE i > last}

\* The position of data.bin can be used: it is not blank, and the log reaches back
\* to it.
Usable ==
  disk.file => /\ kind = "sqlite" => disk.last # Unset
               /\ kind = "mysql" => disk.pos >= purged

\* The changes an engine that starts from disk will be given.
Resume == IF disk.file THEN ToCome(disk.pos, disk.last) ELSE 1 .. Len(log)

\* Positions are not ahead of the clock, and only SQLite and MySQL drop changes.
PositionInv ==
  /\ Timed => last <= clock /\ disk.last <= clock
  /\ seen <= clock
  /\ last >= Unset /\ disk.last >= Unset
  /\ kind \notin {"sqlite", "mysql"} => purged = 0
  /\ kind # "mysql" => disk.pos = 0
  /\ ~Tails => pos = 0
  /\ kind = "sqlite" /\ disk.file /\ disk.last # Unset =>
       \A i \in 1 .. purged : log[i].time <= disk.last
  /\ kind = "sqlite" /\ ~disk.file => purged = 0
  /\ pc \in {"off", "connect", "scan", "load", "stuck"} => pos = 0 /\ seen = 0
  /\ pc \in {"off", "connect", "scan"} => last = Unset
  /\ ~disk.file => disk.last = Unset
  /\ disk.last = Unset => disk.pos = 0
  /\ kind = "mysql" /\ last = Unset => pos = 0
  /\ pc = "stuck" => /\ kind = "mysql" /\ purged > 0
                     /\ disk.file /\ disk.last = Unset /\ last = Unset
  /\ pc = "off" => exit = "no"

\* While it listens, the connector is not behind data.bin, save where MongoDB reads
\* its log again.
ListenInv ==
  Listening =>
    /\ kind = "mysql" => pos >= purged /\ disk.pos <= pos
    /\ kind # "mongo" => disk.last <= last
    /\ kind = "mongo" => \A i \in 1 .. Len(log) : i > pos => seen <= log[i].time
    /\ kind = "sqlite" /\ last = Unset => disk.file /\ rows = <<>> /\ pc = "listen"
    /\ kind = "sqlite" /\ disk.file => (last = Unset => disk.last = Unset)

\* The rows of a copy.
RowsCopied ==
  /\ pc \in {"off", "connect", "load", "stuck"} => rows = <<>>
  /\ pc = "scan" => \A n \in 1 .. Len(rows) :
       rows[n].old = rows[n].key /\ rows[n].val # 0 /\ Version(rows[n].val, rows[n].key)

\* The row of a tailed log is that of the change under the cursor.
RowsTailed ==
  Listening /\ Tails =>
    IF pc = "listen" THEN rows = <<>>
    ELSE /\ Len(rows) = 1 /\ pos + 1 <= Len(log)
         /\ rows[1].op = log[pos + 1].op
         /\ rows[1].old = log[pos + 1].old /\ rows[1].key = log[pos + 1].key
         /\ rows[1].at = log[pos + 1].time /\ last <= rows[1].at
         /\ pc = "apply" => rows[1].val = pos + 1
         /\ pc = "reinsert" => rows[1].val >= pos + 1 /\ Version(rows[1].val, rows[1].key)

\* The rows of a batch are ahead of the position, oldest first.
RowsPolled ==
  Listening /\ ~Tails =>
    /\ Handling => rows # <<>>
    /\ pc = "advance" => rows = <<>>
    /\ \A m, n \in 1 .. Len(rows) : m < n => rows[m].at <= rows[n].at
    /\ \A n \in 1 .. Len(rows) : rows[n].at >= last
    /\ kind = "sqlite" /\ Handling => last = rows[1].at
    /\ kind # "sqlite" =>
         /\ Handling \/ pc = "advance" => high >= last
         /\ Handling => high = rows[1].at
         /\ pc = "advance" => high <= Len(log)
         /\ pc = "listen" /\ rows # <<>> => high < rows[1].at
         /\ \A n \in 1 .. Len(rows) : rows[n].at > last

\* SQLite and Oracle: each row is a change, and Oracle's batch has no gaps.
RowsLogged ==
  Listening /\ kind \in {"sqlite", "oracle"} =>
    /\ \A n \in 1 .. Len(rows) :
         /\ rows[n].val \in 1 .. Len(log)
         /\ rows[n].op = log[rows[n].val].op
         /\ rows[n].old = log[rows[n].val].old /\ rows[n].key = log[rows[n].val].key
         /\ kind = "sqlite" => rows[n].at = log[rows[n].val].time
         /\ kind = "oracle" => rows[n].at = rows[n].val
    /\ \A m, n \in 1 .. Len(rows) : m < n => rows[m].val < rows[n].val
    /\ kind = "oracle" /\ rows # <<>> =>
         \A i \in 1 .. Len(log) : rows[1].val <= i /\ i <= rows[Len(rows)].val => i \in Held

\* SQL Server: each row is the newest of a key, as it was when the batch was read.
RowsNet ==
  Listening /\ kind = "sqlserver" =>
    /\ \A n \in 1 .. Len(rows) :
         /\ rows[n].at \in 1 .. Len(log) /\ log[rows[n].at].key = rows[n].key
         /\ rows[n].old = rows[n].key
         /\ rows[n].op = "d" <=> rows[n].val = 0
         /\ rows[n].val = 0 \/ Version(rows[n].val, rows[n].key)
         /\ Good(rows[n].val, rows[n].key, {i \in 1 .. Len(log) : i > rows[Len(rows)].at})
    /\ \A m, n \in 1 .. Len(rows) : m # n => rows[m].key # rows[n].key

\* Between the halves of an update the old row is gone.
RowsHalf == pc = "reinsert" => rows[1].op = "u" /\ engine[rows[1].old] = 0

RowsInv == RowsCopied /\ RowsTailed /\ RowsPolled /\ RowsLogged /\ RowsNet /\ RowsHalf

\* SQLite: a row that is held is followed by all later ones, and is neither behind the
\* position of data.bin nor deleted from the log, unless its keys are missed.
SqliteInv ==
  kind = "sqlite" /\ Listening =>
    \A k \in Key \ missed : \A n \in 1 .. Len(rows) : k \in {rows[n].old, rows[n].key} =>
      /\ \A j \in Later(rows[n].val, k) : j \in Left(k)
      /\ disk.file => rows[n].at > disk.last
      /\ rows[n].val > purged

\* The index in memory, while the connector listens.
EngineInv ==
  Listening /\ ~Blind => \A k \in Key \ missed : Good(engine[k], k, Left(k))

\* The index before that: what was copied, or loaded, needs what data.bin promises.
CopyInv ==
  Usable =>
    /\ Copying => \A k \in Key \ missed : engine[k] = 0 \/ Good(engine[k], k, Resume)
    /\ pc = "scan" => \A k \in Key \ missed :
         \/ Good(engine[k], k, Resume)
         \/ \E n \in 1 .. Len(rows) : rows[n].key = k
    /\ pc = "scan" => \A n \in 1 .. Len(rows) :
         rows[n].key \in missed \/ Good(rows[n].val, rows[n].key, Resume)
    /\ pc = "load" => \A k \in Key \ missed : Good(engine[k], k, Resume)

\* The saved index.
DiskInv ==
  /\ disk.found /\ Usable => \A k \in Key \ lost : Good(disk.index[k], k, Resume)
  /\ ~disk.found => disk.index = Empty
  /\ pc # "off" /\ ~dirty => engine = disk.index
  /\ Copying /\ disk.found => lost = Key

\* The row that an update may have to recover.
LimitInv ==
  /\ limit \in Limits \cup {0} /\ kept \in Old .. Len(log)
  /\ pc = "reinsert" => kept = 0 \/ Version(kept, rows[1].old)

\* A row older than the log is in the index, once the table has been copied.
Copied(v, k) == v = 0 => table[k] # Old

CopiedInv ==
  /\ pc \notin {"off", "connect", "scan"} => \A k \in Key \ missed : Copied(engine[k], k)
  /\ pc = "scan" => \A k \in Key \ missed :
       Copied(engine[k], k) \/ \E n \in 1 .. Len(rows) : rows[n].key = k
  /\ disk.found => \A k \in Key \ lost : Copied(disk.index[k], k)

CoreInv ==
  /\ Typed /\ DatabaseInv /\ ValuesInv /\ PositionInv /\ ListenInv /\ RowsInv
  /\ SqliteInv /\ EngineInv /\ CopyInv /\ DiskInv

IInv == CoreInv /\ LimitInv /\ CopiedInv

-----------------------------------------------------------------------------
(* What brings a row of the index to the row of the table. *)

\* More changes to come do no harm.
LEMMA GoodMono ==
  ASSUME NEW v, NEW k, NEW A, NEW B, Good(v, k, A),
         \A i \in A : Concerns(i, k) => i \in B
  PROVE  Good(v, k, B)
BY DEF Good, Later

\* A row written by change c or later, when all changes after c are to come.
LEMMA GoodInserted ==
  ASSUME NEW k, NEW c \in 1 .. Len(log), NEW w \in Int, NEW B,
         Len(log) \in Nat, w >= c, \A j \in Later(c, k) : j \in B
  PROVE  Good(w, k, B)
BY DEF Good, Later

\* No row, after a change c that took it away.
LEMMA GoodRemoved ==
  ASSUME Typed, DatabaseInv, NEW k \in Key, NEW c \in 1 .. Len(log), NEW B,
         Concerns(c, k), ~Version(c, k), \A j \in Later(c, k) : j \in B
  PROVE  Good(0, k, B)
<1>1. CASE \E j \in Later(c, k) : TRUE
  BY <1>1 DEF Good, Later
<1>2. CASE Later(c, k) = {}
  <2>1. SUFFICES ASSUME table[k] # 0 PROVE FALSE
    BY DEF Good
  <2>2. Version(table[k], k) /\ Later(table[k], k) = {} /\ table[k] \in Old .. Len(log)
    BY <2>1 DEF DatabaseInv, Typed, Types
  <2>3. Len(log) \in Nat
    BY DEF Typed
  <2>4. table[k] >= c
    BY <2>2, <2>3 DEF Later, Old
  <2>5. table[k] \in 1 .. Len(log) /\ Concerns(table[k], k)
    BY <2>2, <2>3, <2>4 DEF Version, Concerns, Old
  <2>6. table[k] = c
    BY <1>2, <2>3, <2>4, <2>5 DEF Later
  <2> QED BY <2>2, <2>6
<1> QED BY <1>1, <1>2

\* A row that an insertion does not replace.
LEMMA GoodKept ==
  ASSUME Typed, DatabaseInv, NEW k \in Key, NEW c \in 1 .. Len(log), NEW v \in Old .. Len(log),
         NEW A, NEW B, v # 0, Version(v, k), Good(v, k, A), log[c].key = k,
         log[c].op = "i" \/ log[c].old # log[c].key,
         \A i \in A : Concerns(i, k) => i >= c,
         \A i \in A : Concerns(i, k) /\ i # c => i \in B
  PROVE  Good(v, k, B)
<1>1. CASE v = table[k]
  BY <1>1 DEF Good
<1>2. CASE v # table[k]
  <2>1. \A i \in Later(v, k) : i \in A /\ i \in 1 .. Len(log) /\ i > v /\ Concerns(i, k)
    BY <1>2 DEF Good, Later
  <2>2. Len(log) \in Nat
    BY DEF Typed
  <2>3. v >= c
    <3>1. SUFFICES ASSUME v < c PROVE FALSE
      BY <2>2 DEF Old
    <3>2. v \in Old .. c - 1
      BY <2>2, <3>1 DEF Old
    <3>3. PICK j \in Later(v, k) : j < c
      BY <3>2 DEF DatabaseInv
    <3> QED BY <2>1, <3>3
  <2>4. \A i \in Later(v, k) : i # c
    BY <2>1, <2>2, <2>3 DEF Old
  <2> QED BY <2>1, <2>4 DEF Good
<1> QED BY <1>1, <1>2

\* What is good and is not the row of the table has a change to come.
LEMMA GoodPending ==
  ASSUME Typed, DatabaseInv, NEW k \in Key, NEW v \in Old .. Len(log), NEW A,
         v = 0 \/ Version(v, k), Good(v, k, A), v # table[k]
  PROVE  \E i \in A : Concerns(i, k)
BY DEF Good, DatabaseInv, Later

-----------------------------------------------------------------------------
(* Steps that leave the database alone. *)

DbSame == kind' = kind /\ table' = table /\ born' = born /\ log' = log

\* What is said of the log stays.
LEMMA DbFrame ==
  ASSUME DbSame
  PROVE  /\ \A v, k : Version(v, k)' <=> Version(v, k)
         /\ \A v, k : Later(v, k)' = Later(v, k)
         /\ \A i, k : Concerns(i, k)' <=> Concerns(i, k)
         /\ \A v, k, A : Good(v, k, A)' <=> Good(v, k, A)
         /\ \A i : Stamp(i)' = Stamp(i)
         /\ purged' = purged => \A p, l : ToCome(p, l)' = ToCome(p, l)
         /\ Tails' = Tails /\ Timed' = Timed
<1>1. \A v, k : Version(v, k)' <=> Version(v, k)
  BY DEF DbSame, Version
<1>2. \A i, k : Concerns(i, k)' <=> Concerns(i, k)
  BY DEF DbSame, Concerns
<1>3. \A v, k : Later(v, k)' = Later(v, k)
  BY <1>2 DEF DbSame, Later
<1>4. \A v, k, A : Good(v, k, A)' <=> Good(v, k, A)
  BY <1>2, <1>3 DEF DbSame, Good
<1>5. Tails' = Tails /\ Timed' = Timed
  BY DEF DbSame, Tails, Timed
<1>6. \A i : Stamp(i)' = Stamp(i)
  BY <1>5 DEF DbSame, Stamp
<1>7. ASSUME purged' = purged PROVE \A p, l : ToCome(p, l)' = ToCome(p, l)
  <2>1. \A i, p, l : Ahead(i, p, l)' <=> Ahead(i, p, l)
    BY <1>5, <1>6 DEF DbSame, Ahead
  <2> QED BY <1>7, <2>1 DEF DbSame, ToCome, Visible
<1> QED BY <1>1, <1>2, <1>3, <1>4, <1>5, <1>6, <1>7

\* The database stays as it should be when only time passes.
LEMMA DatabaseFrame ==
  ASSUME Typed, DatabaseInv, DbSame, clock' \in Nat, clock' >= clock
  PROVE  DatabaseInv'
<1>1. \A i \in 1 .. Len(log) : log[i].time \in 1 .. clock'
  BY DEF DatabaseInv, Typed
<1>2. clock' >= 1
  BY DEF DatabaseInv, Typed
<1> QED BY <1>1, <1>2 DEF DatabaseInv, DbSame, Version, Later, Concerns

-----------------------------------------------------------------------------
(* What is to come, and what is left, for each library. *)

\* Ahead(), library by library.
LEMMA ToComeCases ==
  /\ \A i, p, l : i \in ToCome(p, l) <=>
       /\ i \in purged + 1 .. Len(log)
       /\ kind = "sqlite" => l # Unset /\ log[i].time > l
       /\ kind \in {"mongo", "mysql"} => i > p /\ log[i].time >= l
       /\ kind \notin {"sqlite", "mongo", "mysql"} => i > l
  /\ \A i, p, l : i \in ToCome(p, l)' <=>
       /\ i \in purged' + 1 .. Len(log')
       /\ kind' = "sqlite" => l # Unset /\ log'[i].time > l
       /\ kind' \in {"mongo", "mysql"} => i > p /\ log'[i].time >= l
       /\ kind' \notin {"sqlite", "mongo", "mysql"} => i > l
BY DEF ToCome, Visible, Ahead, Stamp, Tails, Timed

\* What comes after a change to come is to come.
LEMMA ToComeUp ==
  ASSUME Typed, DatabaseInv, NEW p \in Int, NEW l \in Int
  PROVE  /\ ToCome(p, l) \subseteq 1 .. Len(log)
         /\ \A i \in ToCome(p, l) : \A j \in 1 .. Len(log) : i <= j => j \in ToCome(p, l)
<1>1. Len(log) \in Nat /\ purged \in Nat
  BY DEF Typed, Types
<1>2. ToCome(p, l) \subseteq 1 .. Len(log)
  BY <1>1, ToComeCases
<1>3. ASSUME NEW i \in ToCome(p, l), NEW j \in 1 .. Len(log), i <= j
      PROVE  j \in ToCome(p, l)
  <2>1. i \in 1 .. Len(log)
    BY <1>2
  <2>2. log[i].time <= log[j].time /\ log[i].time \in Int /\ log[j].time \in Int
    BY <1>3, <2>1 DEF DatabaseInv, Typed, ChangeRec
  <2>3. /\ i \in purged + 1 .. Len(log)
        /\ kind = "sqlite" => l # Unset /\ log[i].time > l
        /\ kind \in {"mongo", "mysql"} => i > p /\ log[i].time >= l
        /\ kind \notin {"sqlite", "mongo", "mysql"} => i > l
    BY ToComeCases
  <2>4. /\ j \in purged + 1 .. Len(log)
        /\ kind = "sqlite" => l # Unset /\ log[j].time > l
        /\ kind \in {"mongo", "mysql"} => j > p /\ log[j].time >= l
        /\ kind \notin {"sqlite", "mongo", "mysql"} => j > l
    BY <1>1, <1>3, <2>1, <2>2, <2>3
  <2> QED BY <2>4, ToComeCases
<1> QED BY <1>2, <1>3

\* What is left of a tailed log: what the cursor has still to pass.
LEMMA LeftTails ==
  /\ Tails => \A k : Left(k) = {i \in ToCome(pos, last) : pc = "advance" => i > pos + 1}
  /\ Tails' => \A k : Left(k)' = {i \in ToCome(pos, last)' : pc' = "advance" => i > pos' + 1}
BY DEF Left, Tails

\* What is left of SQLite's log: what is to come, and the rows held.
LEMMA LeftSqlite ==
  /\ kind = "sqlite" => \A k : Left(k) = ToCome(pos, last) \cup Held
  /\ kind' = "sqlite" => \A k : Left(k)' = ToCome(pos, last)' \cup Held'
BY DEF Left, Tails

\* What is left of Oracle's log: all from the first row held, or past the position.
LEMMA LeftOracle ==
  /\ kind = "oracle" => \A k, i : i \in Left(k) <=>
       /\ i \in 1 .. Len(log)
       /\ rows # <<>> => i >= rows[1].val
       /\ rows = <<>> /\ pc = "advance" => i > high
       /\ rows = <<>> /\ pc # "advance" => i > last
  /\ kind' = "oracle" => \A k, i : i \in Left(k)' <=>
       /\ i \in 1 .. Len(log')
       /\ rows' # <<>> => i >= rows'[1].val
       /\ rows' = <<>> /\ pc' = "advance" => i > high'
       /\ rows' = <<>> /\ pc' # "advance" => i > last'
BY DEF Left, Tails

HasRow(k) == \E n \in 1 .. Len(rows) : rows[n].key = k

\* What is left for SQL Server: a key without a row in the batch is past all of it.
LEMMA LeftSQLServer ==
  /\ kind = "sqlserver" => \A k, i : i \in Left(k) <=>
       /\ i \in 1 .. Len(log)
       /\ HasRow(k) => i > last
       /\ ~HasRow(k) /\ rows # <<>> => i > rows[Len(rows)].at
       /\ ~HasRow(k) /\ rows = <<>> /\ pc = "advance" => i > high
       /\ ~HasRow(k) /\ rows = <<>> /\ pc # "advance" => i > last
  /\ kind' = "sqlserver" => \A k, i : i \in Left(k)' <=>
       /\ i \in 1 .. Len(log')
       /\ HasRow(k)' => i > last'
       /\ ~HasRow(k)' /\ rows' # <<>> => i > rows'[Len(rows')].at
       /\ ~HasRow(k)' /\ rows' = <<>> /\ pc' = "advance" => i > high'
       /\ ~HasRow(k)' /\ rows' = <<>> /\ pc' # "advance" => i > last'
BY DEF Left, Tails, HasRow

\* The rows of a poll are the changes it asked for, oldest first.
LEMMA LogRowsFacts ==
  ASSUME Typed, NEW S, S \subseteq 1 .. Len(log)
  PROVE  /\ LogRows(S) \in Seq(RowRec) /\ (S # {} => LogRows(S) # <<>>)
         /\ \A n \in 1 .. Len(LogRows(S)) :
              /\ LogRows(S)[n].val \in S
              /\ LogRows(S)[n] = LogRow(LogRows(S)[n].val)
         /\ \A m, n \in 1 .. Len(LogRows(S)) : m < n => LogRows(S)[m].val < LogRows(S)[n].val
         /\ \A i \in S : \E n \in 1 .. Len(LogRows(S)) : LogRows(S)[n].val = i
<1> DEFINE N == Cardinality(S)
           q == InOrder(S)
<1>1. Len(log) \in Nat
  BY DEF Typed
<1>2. /\ N \in Nat /\ (S = {} <=> N = 0) /\ q \in [1 .. N -> S]
      /\ \A a, b \in 1 .. N : a < b => q[a] < q[b]
      /\ \A x \in S : \E a \in 1 .. N : q[a] = x
  BY <1>1, InOrderLists
<1>3. \A i \in S : LogRow(i) \in RowRec /\ LogRow(i).val = i
  <2> SUFFICES ASSUME NEW i \in S PROVE LogRow(i) \in RowRec /\ LogRow(i).val = i
    OBVIOUS
  <2>1. i \in 1 .. Len(log) /\ log[i] \in ChangeRec
    BY DEF Typed
  <2>2. Stamp(i) \in Int
    BY <2>1 DEF Stamp, ChangeRec
  <2> QED BY <2>1, <2>2 DEF LogRow, RowRec, ChangeRec
<1>4. LogRows(S) = [n \in 1 .. N |-> LogRow(q[n])]
  BY DEF LogRows
<1> HIDE DEF N, q
<1>5. LogRows(S) \in [1 .. N -> RowRec] /\ \A n \in 1 .. N : LogRows(S)[n] = LogRow(q[n])
  BY <1>2, <1>3, <1>4
<1>6. LogRows(S) \in Seq(RowRec) /\ Len(LogRows(S)) = N
  BY <1>2, <1>5
<1>7. \A n \in 1 .. N : LogRows(S)[n].val = q[n] /\ q[n] \in S
  BY <1>2, <1>3, <1>5
<1>8. S # {} => LogRows(S) # <<>>
  BY <1>2, <1>6
<1>9. \A n \in 1 .. N : LogRows(S)[n].val \in S /\ LogRows(S)[n] = LogRow(LogRows(S)[n].val)
  BY <1>5, <1>7
<1> QED BY <1>2, <1>6, <1>7, <1>8, <1>9

\* The net rows are one for each key, each with the newest change of it.
NetOf(R, S) ==
  /\ R \in Seq(RowRec) /\ (S # {} => R # <<>>)
  /\ \A n \in 1 .. Len(R) :
       /\ R[n].at \in S /\ log[R[n].at].key = R[n].key /\ R[n].old = R[n].key
       /\ R[n].val = table[R[n].key] /\ (R[n].op = "d" <=> R[n].val = 0)
  /\ \A m, n \in 1 .. Len(R) : m < n => R[m].at < R[n].at
  /\ \A m, n \in 1 .. Len(R) : m # n => R[m].key # R[n].key
  /\ \A i \in S : \E n \in 1 .. Len(R) : R[n].key = log[i].key

\* NetRows() has these properties.
LEMMA NetRowsFacts ==
  ASSUME Typed, NEW S, S \subseteq 1 .. Len(log), NEW o \in {"i", "u"}
  PROVE  NetOf(NetRows(S, o), S)
<1> DEFINE newest == {i \in S : \A j \in S : log[j].key = log[i].key => j <= i}
           N == Cardinality(newest)
           q == InOrder(newest)
<1>1. Len(log) \in Nat
  BY DEF Typed
<1>2. newest \subseteq 1 .. Len(log) /\ newest \subseteq S
  OBVIOUS
<1>3. ASSUME NEW i \in S PROVE \E j \in newest : log[j].key = log[i].key
  <2> DEFINE T == {j \in S : log[j].key = log[i].key}
  <2>1. T \subseteq 1 .. Len(log) /\ T # {}
    OBVIOUS
  <2>2. PICK m \in T : \A x \in T : x <= m
    <3> HIDE DEF T
    <3> QED BY <1>1, <2>1, MaxExists
  <2> QED BY <2>2
<1>4. \A i, j \in newest : log[i].key = log[j].key => i = j
  <2> SUFFICES ASSUME NEW i \in newest, NEW j \in newest, log[i].key = log[j].key PROVE i = j
    OBVIOUS
  <2>1. i \in Int /\ j \in Int
    BY <1>2
  <2>2. i <= j /\ j <= i
    OBVIOUS
  <2> QED BY <2>1, <2>2
<1>5. NetRows(S, o) = [n \in 1 .. N |-> NetRow(S, q[n], o)]
  BY DEF NetRows
<1> HIDE DEF newest
<1>6. /\ N \in Nat /\ (newest = {} <=> N = 0) /\ q \in [1 .. N -> newest]
      /\ \A a, b \in 1 .. N : a < b => q[a] < q[b]
      /\ \A x \in newest : \E a \in 1 .. N : q[a] = x
  BY <1>1, <1>2, InOrderLists
<1>7. ASSUME NEW i \in newest
      PROVE  LET r == NetRow(S, i, o) IN
             /\ r \in RowRec /\ r.at = i /\ r.key = log[i].key /\ r.old = r.key
             /\ r.val = table[r.key] /\ (r.op = "d" <=> r.val = 0)
  <2>1. i \in 1 .. Len(log) /\ log[i] \in ChangeRec /\ i \in Int
    BY <1>2 DEF Typed
  <2>2. log[i].key \in Key /\ table[log[i].key] \in Int
    <3>1. log[i].key \in Key
      BY <2>1 DEF ChangeRec
    <3>2. table[log[i].key] \in Old .. Len(log)
      BY <3>1 DEF Typed, Types
    <3> QED BY <1>1, <3>1, <3>2 DEF Old
  <2> DEFINE k == log[i].key
             op == IF table[k] = 0 THEN "d"
                   ELSE IF \A j \in S : log[j].key = k => log[j].op # "i" THEN "u"
                   ELSE IF RowAt(k, IF last = Unset THEN 0 ELSE last) = 0 THEN "i" ELSE o
  <2>3. NetRow(S, i, o) = [op |-> op, old |-> k, key |-> k, val |-> table[k], at |-> i]
    BY DEF NetRow
  <2>4. op \in {"i", "u", "d"} /\ (op = "d" <=> table[k] = 0)
    OBVIOUS
  <2> HIDE DEF op
  <2> QED BY <2>1, <2>2, <2>3, <2>4 DEF RowRec
<1> HIDE DEF N, q
<1>8. /\ NetRows(S, o) \in [1 .. N -> RowRec]
      /\ \A n \in 1 .. N : NetRows(S, o)[n] = NetRow(S, q[n], o) /\ q[n] \in newest
  BY <1>5, <1>6, <1>7
<1>9. NetRows(S, o) \in Seq(RowRec) /\ Len(NetRows(S, o)) = N
  BY <1>6, <1>8
<1>10. S # {} => NetRows(S, o) # <<>>
  <2>1. S # {} => N # 0
    BY <1>3, <1>6
  <2> QED BY <1>9, <2>1
<1>11. ASSUME NEW n \in 1 .. N
       PROVE  LET r == NetRows(S, o)[n] IN
              /\ r.at = q[n] /\ r.at \in S /\ log[r.at].key = r.key /\ r.old = r.key
              /\ r.val = table[r.key] /\ (r.op = "d" <=> r.val = 0)
  <2>1. q[n] \in newest /\ NetRows(S, o)[n] = NetRow(S, q[n], o)
    BY <1>8
  <2> DEFINE r == NetRow(S, q[n], o)
  <2>2. /\ r.at = q[n] /\ r.key = log[q[n]].key /\ r.old = r.key
        /\ r.val = table[r.key] /\ (r.op = "d" <=> r.val = 0)
    BY ONLY <1>7, <2>1
  <2>3. q[n] \in S
    BY ONLY <1>2, <2>1
  <2>4. NetRows(S, o)[n] = r
    BY ONLY <2>1
  <2> HIDE DEF r
  <2> QED BY ONLY <2>2, <2>3, <2>4
<1>12. \A m, n \in 1 .. N : m < n => NetRows(S, o)[m].at < NetRows(S, o)[n].at
  BY <1>6, <1>11
<1>13. ASSUME NEW m \in 1 .. N, NEW n \in 1 .. N, m # n
       PROVE  NetRows(S, o)[m].key # NetRows(S, o)[n].key
  <2>1. q[m] # q[n]
    <3>1. q[m] \in Int /\ q[n] \in Int
      <4>1. q[m] \in 1 .. Len(log) /\ q[n] \in 1 .. Len(log)
        BY <1>2, <1>8
      <4> QED BY <1>1, <4>1
    <3>2. CASE m < n
      BY <1>6, <3>1, <3>2
    <3>3. CASE n < m
      BY <1>6, <3>1, <3>3
    <3> QED BY <1>6, <1>13, <3>2, <3>3
  <2> QED BY <1>4, <1>8, <1>11, <2>1
<1>14. ASSUME NEW i \in S PROVE \E n \in 1 .. N : NetRows(S, o)[n].key = log[i].key
  <2>1. PICK j \in newest : log[j].key = log[i].key
    BY <1>3
  <2>2. PICK n \in 1 .. N : q[n] = j
    BY <1>6
  <2> QED BY <1>11, <2>1, <2>2
<1> QED BY <1>9, <1>10, <1>11, <1>12, <1>13, <1>14 DEF NetOf

-----------------------------------------------------------------------------
(* Frames: what most steps leave alone. *)

\* The types, in the form the provers use.
LEMMA Basics ==
  ASSUME Typed
  PROVE  /\ Len(log) \in Nat /\ Len(rows) \in Nat
         /\ purged \in 0 .. Len(log) /\ pos \in 0 .. Len(log)
         /\ last \in Int /\ high \in Int /\ clock \in Nat /\ seen \in Nat
         /\ \A i \in 1 .. Len(log) :
              /\ log[i].op \in {"i", "u", "d"} /\ log[i].old \in Key /\ log[i].key \in Key
              /\ log[i].time \in Nat
         /\ \A n \in 1 .. Len(rows) :
              /\ rows[n].op \in {"i", "u", "d"} /\ rows[n].old \in Key /\ rows[n].key \in Key
              /\ rows[n].val \in Old .. Len(log) /\ rows[n].at \in Int
         /\ \A k \in Key : /\ table[k] \in Old .. Len(log) /\ engine[k] \in Old .. Len(log)
                           /\ disk.index[k] \in Old .. Len(log)
         /\ disk.last \in Int /\ disk.pos \in 0 .. Len(log)
         /\ disk.found \in BOOLEAN /\ disk.file \in BOOLEAN
<1>1. Len(log) \in Nat /\ Len(rows) \in Nat
  BY DEF Typed
<1>2. \A i \in 1 .. Len(log) : log[i] \in ChangeRec
  BY DEF Typed
<1>3. \A n \in 1 .. Len(rows) : rows[n] \in RowRec
  BY DEF Typed
<1>4. /\ disk.last \in Int /\ disk.pos \in 0 .. Len(log)
      /\ disk.found \in BOOLEAN /\ disk.file \in BOOLEAN
  BY <1>1 DEF Typed, DiskRec
<1> QED BY <1>1, <1>2, <1>3, <1>4 DEF Typed, Types, ChangeRec, RowRec

\* The values of the rows at hand are numbers, to be compared with positions of the log.
LEMMA RowValues ==
  ASSUME Typed
  PROVE  Len(log) \in Nat /\ \A n \in 1 .. Len(rows) : rows[n].val \in Int
<1>1. Len(log) \in Nat /\ \A n \in 1 .. Len(rows) : rows[n].val \in Old .. Len(log)
  BY Basics
<1>2. \A v \in Old .. Len(log) : v \in Int
  BY DEF Old
<1> QED BY <1>1, <1>2

\* The position of data.bin, and what it promises, stay.
LEMMA ResumeFrame ==
  ASSUME DbSame, purged' = purged, disk'.file = disk.file, disk'.last = disk.last,
         disk'.pos = disk.pos
  PROVE  Resume' = Resume /\ (Usable' <=> Usable)
<1>1. \A p, l : ToCome(p, l)' = ToCome(p, l)
  BY DbFrame
<1>2. ToCome(disk.pos, disk.last)' = ToCome(disk.pos, disk.last)
  BY <1>1, ToComeCases DEF DbSame
<1> QED BY <1>2 DEF DbSame, Resume, Usable

\* Steps of the connector keep the account of the saved index.
LEMMA DiskFrame ==
  ASSUME IInv, DbSame, purged' = purged, disk' = disk, lost' = lost, pc # "off",
         ~dirty' => ~dirty /\ engine' = engine, Copying' => Copying
  PROVE  DiskInv'
<1>1. Resume' = Resume /\ (Usable' <=> Usable)
  BY ResumeFrame
<1>2. ASSUME disk.found, Usable, NEW k \in Key \ lost PROVE Good(disk.index[k], k, Resume)'
  <2>1. Good(disk.index[k], k, Resume)
    BY <1>2 DEF IInv, CoreInv, DiskInv
  <2> QED BY <1>1, <2>1 DEF DbSame, Good, Later, Concerns
<1> QED BY <1>1, <1>2 DEF IInv, CoreInv, DiskInv

\* While it listens, the connector touches neither the database nor the disk.
LEMMA ListenFrame ==
  ASSUME IInv, DbSame, purged' = purged, clock' = clock, disk' = disk, lost' = lost,
         Listening, Listening', ~dirty' => ~dirty /\ engine' = engine
  PROVE  DatabaseInv' /\ DiskInv' /\ CopyInv' /\ Timed' = Timed /\ Tails' = Tails
<1>1. Typed /\ DatabaseInv /\ clock \in Nat
  BY Basics DEF IInv, CoreInv
<1>2. DatabaseInv'
  BY <1>1, DatabaseFrame
<1>3. DiskInv'
  BY DiskFrame DEF Listening, Copying
<1>4. CopyInv'
  BY DEF CopyInv, Copying, Listening
<1> QED BY <1>2, <1>3, <1>4, DbFrame

-----------------------------------------------------------------------------
(* The connector listens. *)

\* A statement that is executed hands out what is to come.
LEMMA PollKeeps ==
  ASSUME IInv, Poll
  PROVE  CoreInv'
<1> DEFINE S == ToCome(pos, last)
<1>1. /\ DbSame /\ purged' = purged /\ clock' = clock /\ disk' = disk /\ lost' = lost
      /\ missed' = missed /\ engine' = engine /\ dirty' = dirty /\ pc' = pc /\ pc = "listen"
      /\ last' = last /\ pos' = pos /\ seen' = seen /\ exit' = exit /\ high' = Unset
      /\ rows = <<>> /\ ~Tails /\ S # {}
  BY DEF Poll, DbSame
<1>2. Typed /\ DatabaseInv /\ PositionInv /\ ListenInv /\ RowsInv
  BY DEF IInv, CoreInv
<1>3. /\ Len(log) \in Nat /\ last \in Int /\ pos \in Int /\ purged \in Nat /\ clock \in Nat
      /\ \A i \in 1 .. Len(log) : log[i].time \in Nat
  BY <1>2, Basics
<1>4. S \subseteq 1 .. Len(log) /\ \A i \in S : \A j \in 1 .. Len(log) : i <= j => j \in S
  BY <1>2, <1>3, ToComeUp
<1>5. \A i \in S : kind = "sqlite" => last # Unset /\ log[i].time > last
  BY ToComeCases
<1>6. kind # "sqlite" => \A i \in 1 .. Len(log) : i \in S <=> i > last
  BY <1>1, <1>2, <1>3, ToComeCases DEF PositionInv, Tails
<1> HIDE DEF S
<1>7. \/ kind = "sqlserver" /\ \E o \in {"i", "u"} : rows' = NetRows(S, o)
      \/ kind # "sqlserver" /\ rows' = LogRows(S)
  BY DEF Poll, S
<1>8. DatabaseInv'
  BY <1>1, <1>2, <1>3, DatabaseFrame
<1>9. DiskInv'
  BY <1>1, DiskFrame DEF Copying
<1>10. CopyInv'
  BY <1>1 DEF CopyInv, Copying
<1>11. ValuesInv'
  BY <1>1 DEF IInv, CoreInv, ValuesInv, Version, DbSame
<1>12. PositionInv' /\ Timed' = Timed /\ Tails' = Tails
  <2>1. Timed' = Timed /\ Tails' = Tails
    BY <1>1, DbFrame
  <2> QED BY <1>1, <1>2, <2>1 DEF PositionInv, DbSame
<1>13. kind = "sqlite" => last # Unset
  BY <1>1, <1>5
<1>14. ListenInv'
  BY <1>1, <1>2, <1>13 DEF ListenInv, Listening, DbSame
<1>15. CASE kind = "sqlserver"
  <2>1. PICK o \in {"i", "u"} : rows' = NetRows(S, o)
    BY <1>7, <1>15
  <2>2. /\ rows' \in Seq(RowRec) /\ rows' # <<>>
        /\ \A n \in 1 .. Len(rows') :
              /\ rows'[n].at \in S /\ log[rows'[n].at].key = rows'[n].key
              /\ rows'[n].old = rows'[n].key
              /\ rows'[n].val = table[rows'[n].key] /\ (rows'[n].op = "d" <=> rows'[n].val = 0)
        /\ \A m, n \in 1 .. Len(rows') : m < n => rows'[m].at < rows'[n].at
        /\ \A m, n \in 1 .. Len(rows') : m # n => rows'[m].key # rows'[n].key
        /\ \A i \in S : \E n \in 1 .. Len(rows') : rows'[n].key = log[i].key
    <3>1. NetOf(NetRows(S, o), S)
      BY <1>2, <1>4, NetRowsFacts
    <3> QED BY <1>1, <2>1, <3>1 DEF NetOf
  <2>3. Len(rows') \in Nat /\ Len(rows') >= 1
    BY <2>2
  <2>4. \A n \in 1 .. Len(rows') : rows'[n].key \in Key /\ rows'[n].at \in Int
    <3>1. \A n \in 1 .. Len(rows') : rows'[n] \in RowRec
      BY <2>2
    <3> QED BY <3>1 DEF RowRec
  <2>5. Typed'
    <3>1. \A n \in 1 .. Len(rows') : rows'[n].val \in Old .. Len(log)
      BY <1>2, <2>2, <2>4, Basics
    <3> QED BY <1>1, <1>2, <2>2, <3>1 DEF Typed, Types, DbSame, Unset
  <2>6. RowsInv'
    <3>1. \A n \in 1 .. Len(rows') :
            /\ rows'[n].at \in 1 .. Len(log) /\ Concerns(rows'[n].at, rows'[n].key)
            /\ rows'[n].at > last /\ rows'[n].at >= last
            /\ rows'[n].val = 0 \/ Version(rows'[n].val, rows'[n].key)
            /\ \A A : Good(rows'[n].val, rows'[n].key, A)
      <4> SUFFICES ASSUME NEW n \in 1 .. Len(rows')
                   PROVE  /\ rows'[n].at \in 1 .. Len(log) /\ Concerns(rows'[n].at, rows'[n].key)
                          /\ rows'[n].at > last /\ rows'[n].at >= last
                          /\ rows'[n].val = 0 \/ Version(rows'[n].val, rows'[n].key)
                          /\ \A A : Good(rows'[n].val, rows'[n].key, A)
        OBVIOUS
      <4>1. rows'[n].at \in S /\ log[rows'[n].at].key = rows'[n].key
        BY <2>2
      <4>2. rows'[n].at \in 1 .. Len(log)
        BY <1>4, <4>1
      <4>3. rows'[n].at > last /\ rows'[n].at >= last
        BY <1>3, <1>6, <1>15, <4>1, <4>2
      <4>4. rows'[n].val = table[rows'[n].key] /\ rows'[n].key \in Key
        BY <2>2, <2>4
      <4> QED BY <1>2, <4>1, <4>2, <4>3, <4>4 DEF Concerns, DatabaseInv, Good
    <3>2. \A m, n \in 1 .. Len(rows') : m < n => rows'[m].at <= rows'[n].at
      BY <2>2, <2>4
    <3>3. rows'[1].at >= 1
      BY <1>3, <2>3, <3>1
    <3>4. RowsPolled'
      <4>1. /\ pc' = "listen" /\ high' = Unset /\ last' = last /\ kind' = "sqlserver"
        BY <1>1, <1>15, <2>2 DEF DbSame
      <4>2. \A n \in 1 .. Len(rows') : rows'[n].at >= last' /\ rows'[n].at > last'
        BY <3>1, <4>1
      <4>3. 1 \in 1 .. Len(rows') /\ Unset < rows'[1].at
        BY <2>3, <2>4, <3>3 DEF Unset
      <4> QED BY <3>2, <4>1, <4>2, <4>3 DEF RowsPolled, Handling
    <3>5. RowsNet'
      BY <1>1, <2>2, <3>1 DEF RowsNet, DbSame, Version, Good, Later, Concerns
    <3> QED BY <1>1, <1>12, <1>15, <3>4, <3>5
            DEF RowsInv, RowsCopied, RowsTailed, RowsLogged, RowsHalf, DbSame
  <2>7. SqliteInv'
    BY <1>1, <1>15 DEF SqliteInv, DbSame
  <2>8. ASSUME NEW k \in Key \ missed PROVE Good(engine[k], k, Left(k))'
    <3>1. Good(engine[k], k, Left(k))
      BY <1>1, <1>15, <2>8 DEF IInv, CoreInv, EngineInv, Listening, Blind
    <3>2. \A i \in Left(k) : Concerns(i, k) => i \in Left(k)'
      <4>1. SUFFICES ASSUME NEW i \in Left(k), Concerns(i, k) PROVE i \in Left(k)'
        OBVIOUS
      <4>2. ~HasRow(k)
        BY <1>1 DEF HasRow
      <4>3. i \in 1 .. Len(log) /\ i > last
        BY <1>1, <1>15, <4>1, <4>2, LeftSQLServer
      <4>4. i \in S /\ log[i].key = k
        BY <1>2, <1>6, <1>15, <4>1, <4>3 DEF DatabaseInv, Concerns
      <4>5. HasRow(k)'
        BY <2>2, <4>4 DEF HasRow
      <4> QED BY <1>1, <1>15, <4>3, <4>5, LeftSQLServer DEF DbSame
    <3>3. Good(engine[k], k, Left(k)')
      BY <3>1, <3>2, GoodMono
    <3> QED BY <1>1, <3>3 DEF DbSame, Good, Later, Concerns
  <2>9. EngineInv'
    BY <1>1, <2>8 DEF EngineInv
  <2> QED BY <1>8, <1>9, <1>10, <1>11, <1>12, <1>14, <2>5, <2>6, <2>7, <2>9 DEF IInv, CoreInv
<1>16. CASE kind # "sqlserver"
  <2>1. /\ rows' \in Seq(RowRec) /\ rows' # <<>>
        /\ \A n \in 1 .. Len(rows') : rows'[n].val \in S /\ rows'[n] = LogRow(rows'[n].val)
        /\ \A m, n \in 1 .. Len(rows') : m < n => rows'[m].val < rows'[n].val
        /\ \A i \in S : \E n \in 1 .. Len(rows') : rows'[n].val = i
    BY <1>1, <1>2, <1>4, <1>7, <1>16, LogRowsFacts
  <2>2. Len(rows') \in Nat /\ Len(rows') >= 1
    BY <2>1
  <2>3. kind \in {"sqlite", "oracle"}
    BY <1>1, <1>2, <1>16, KindsAssumption DEF Tails, Typed, Types
  <2>4. \A n \in 1 .. Len(rows') :
          LET i == rows'[n].val IN
          /\ i \in S /\ i \in 1 .. Len(log) /\ rows'[n].at = Stamp(i)
          /\ rows'[n].op = log[i].op /\ rows'[n].old = log[i].old /\ rows'[n].key = log[i].key
          /\ rows'[n].at \in Int /\ rows'[n].old \in Key /\ rows'[n].key \in Key
    <3> SUFFICES ASSUME NEW n \in 1 .. Len(rows')
                 PROVE  LET i == rows'[n].val IN
                        /\ i \in S /\ i \in 1 .. Len(log) /\ rows'[n].at = Stamp(i)
                        /\ rows'[n].op = log[i].op /\ rows'[n].old = log[i].old
                        /\ rows'[n].key = log[i].key
                        /\ rows'[n].at \in Int /\ rows'[n].old \in Key /\ rows'[n].key \in Key
      OBVIOUS
    <3>1. rows'[n] \in RowRec /\ rows'[n].val \in S /\ rows'[n].val \in 1 .. Len(log)
      <4>1. rows'[n].val \in S
        BY <2>1
      <4>2. rows'[n] \in RowRec
        <5>1. rows' \in Seq(RowRec)
          BY <2>1
        <5> QED BY <5>1
      <4>3. rows'[n].val \in 1 .. Len(log)
        BY <1>4, <4>1
      <4> QED BY <4>1, <4>2, <4>3
    <3> DEFINE i == rows'[n].val
    <3>2. rows'[n] = LogRow(i)
      BY <2>1
    <3> HIDE DEF i
    <3>3. /\ rows'[n].at = Stamp(i) /\ rows'[n].op = log[i].op /\ rows'[n].old = log[i].old
          /\ rows'[n].key = log[i].key
      BY <3>2 DEF LogRow
    <3> QED BY <3>1, <3>3 DEF RowRec, i
  <2>5. Typed'
    <3>1. \A n \in 1 .. Len(rows') : rows'[n].val \in Old .. Len(log)
      BY <1>3, <2>4 DEF Old
    <3> QED BY <1>1, <1>2, <2>1, <3>1 DEF Typed, Types, DbSame, Unset
  <2>6. \A m, n \in 1 .. Len(rows') : m < n => rows'[m].at <= rows'[n].at
    <3> SUFFICES ASSUME NEW m \in 1 .. Len(rows'), NEW n \in 1 .. Len(rows'), m < n
                 PROVE  rows'[m].at <= rows'[n].at
      OBVIOUS
    <3>1. rows'[m].val < rows'[n].val /\ rows'[m].val \in 1 .. Len(log) /\ rows'[n].val \in 1 .. Len(log)
      BY <2>1, <2>4
    <3>2. rows'[m].val <= rows'[n].val
      BY <1>3, <3>1
    <3>3. log[rows'[m].val].time <= log[rows'[n].val].time
      BY <1>2, <3>1, <3>2 DEF DatabaseInv
    <3>4. rows'[m].at = Stamp(rows'[m].val) /\ rows'[n].at = Stamp(rows'[n].val)
      BY <2>4
    <3> QED BY <3>2, <3>3, <3>4 DEF Stamp
  <2>7. \A i \in 1 .. Len(log) : i \in Held' <=> i \in S
    BY <2>1 DEF Held
  <2>8. kind = "oracle" => \A i \in 1 .. Len(log) : i \in S => i >= rows'[1].val
    <3> SUFFICES ASSUME NEW i \in S PROVE i >= rows'[1].val
      OBVIOUS
    <3>1. PICK n \in 1 .. Len(rows') : rows'[n].val = i
      BY <2>1
    <3>2. rows'[1].val \in Int /\ i \in Int
      BY <1>3, <1>4, <2>2, <2>4
    <3>3. n = 1 \/ rows'[1].val < rows'[n].val
      BY <2>1, <2>2
    <3> QED BY <3>1, <3>2, <3>3
  <2>9. RowsInv'
    <3>1. \A n \in 1 .. Len(rows') :
            /\ kind = "sqlite" => rows'[n].at = log[rows'[n].val].time
            /\ kind = "oracle" => rows'[n].at = rows'[n].val /\ rows'[n].at > last /\ rows'[n].at >= 1
      BY <1>3, <1>6, <2>4 DEF Stamp, Timed
    <3>2. kind = "oracle" => \A i \in 1 .. Len(log) :
            rows'[1].val <= i /\ i <= rows'[Len(rows')].val => i \in Held'
      BY <1>4, <2>2, <2>4, <2>7
    <3>3. RowsPolled'
      <4>1. rows'[1].at >= 1 \/ kind = "sqlite"
        BY <2>2, <2>3, <3>1
      <4>2. \A n \in 1 .. Len(rows') : kind # "sqlite" => rows'[n].at > last
        BY <2>3, <3>1
      <4>3. rows'[1].at \in Int
        BY <2>2, <2>4
      <4>4. \A n \in 1 .. Len(rows') : kind = "sqlite" => rows'[n].at > last
        BY <1>5, <2>4, <3>1
      <4>5. \A n \in 1 .. Len(rows') : rows'[n].at >= last
        BY <1>3, <2>4, <4>2, <4>4
      <4> QED BY <1>1, <2>1, <2>6, <4>1, <4>2, <4>3, <4>5
              DEF RowsPolled, Handling, DbSame, Unset
    <3>4. RowsLogged'
      BY <1>1, <2>1, <2>4, <3>1, <3>2 DEF RowsLogged, DbSame
    <3> QED BY <1>1, <1>12, <2>3, <3>3, <3>4
            DEF RowsInv, RowsCopied, RowsTailed, RowsNet, RowsHalf, DbSame
  <2>10. SqliteInv'
    <3> SUFFICES ASSUME kind = "sqlite", NEW k \in Key \ missed, NEW n \in 1 .. Len(rows')
                 PROVE  /\ \A j \in Later(rows[n].val, k)' : j \in Left(k)'
                        /\ disk.file => rows'[n].at > disk.last
                        /\ rows'[n].val > purged
      BY <1>1 DEF SqliteInv, DbSame
    <3>1. ASSUME NEW j \in Later(rows[n].val, k)' PROVE j \in Left(k)'
      <4>1. j \in 1 .. Len(log) /\ j > rows'[n].val
        BY <1>1, <3>1 DEF Later, DbSame
      <4>2. j \in S
        BY <1>3, <1>4, <2>4, <4>1
      <4> QED BY <1>1, <2>7, <4>1, <4>2, LeftSqlite DEF DbSame
    <3>2. rows'[n].at > last
      BY <1>5, <2>4 DEF Stamp, Timed
    <3>3. last >= disk.last /\ disk.last \in Int
      BY <1>1, <1>2, Basics DEF ListenInv, Listening
    <3>4. rows'[n].val > purged
      <4>1. rows'[n].val \in ToCome(pos, last)
        BY <2>4 DEF S
      <4>2. rows'[n].val \in purged + 1 .. Len(log)
        BY <4>1, ToComeCases
      <4>3. purged \in Nat /\ Len(log) \in Nat
        BY <1>2, Basics
      <4> QED BY <4>2, <4>3
    <3> QED BY <1>3, <2>4, <3>1, <3>2, <3>3, <3>4
  <2>11. ASSUME NEW k \in Key \ missed PROVE Good(engine[k], k, Left(k))'
    <3>1. Good(engine[k], k, Left(k))
      BY <1>1, <1>13, <2>11 DEF IInv, CoreInv, EngineInv, Listening, Blind
    <3>2. \A i \in Left(k) : i \in Left(k)'
      <4>1. SUFFICES ASSUME NEW i \in Left(k) PROVE i \in Left(k)'
        OBVIOUS
      <4>2. CASE kind = "sqlite"
        <5>1. i \in S
          BY <1>1, <4>2, LeftSqlite DEF S, Held
        <5> QED BY <1>1, <1>4, <2>7, <4>2, <5>1, LeftSqlite DEF DbSame
      <4>3. CASE kind = "oracle"
        <5>1. i \in 1 .. Len(log) /\ i > last
          BY <1>1, <4>1, <4>3, LeftOracle
        <5>2. i >= rows'[1].val
          BY <1>6, <2>8, <4>3, <5>1
        <5> QED BY <1>1, <2>1, <4>3, <5>1, <5>2, LeftOracle DEF DbSame
      <4> QED BY <2>3, <4>2, <4>3
    <3>3. Good(engine[k], k, Left(k)')
      BY <3>1, <3>2, GoodMono
    <3> QED BY <1>1, <3>3 DEF DbSame, Good, Later, Concerns
  <2>12. EngineInv'
    BY <1>1, <2>11 DEF EngineInv
  <2> QED BY <1>8, <1>9, <1>10, <1>11, <1>12, <1>14, <2>5, <2>9, <2>10, <2>12 DEF IInv, CoreInv
<1> QED BY <1>15, <1>16

\* A tailed change is handed out, or passed over because it is behind the position.
LEMMA TailRowKeeps ==
  ASSUME IInv, TailRow
  PROVE  CoreInv'
<1> DEFINE c == pos + 1
<1>1. /\ DbSame /\ purged' = purged /\ clock' = clock /\ disk' = disk /\ lost' = lost
      /\ missed' = missed /\ engine' = engine /\ dirty' = dirty /\ pc = "listen"
      /\ last' = last /\ exit' = exit /\ high' = high /\ Tails /\ c <= Len(log)
      /\ seen' = IF kind = "mongo" THEN log[c].time ELSE seen
  BY DEF TailRow, DbSame
<1>2. \/ ~(log[c].time < last) /\ rows' = <<LogRow(c)>> /\ pc' = "apply" /\ pos' = pos
      \/ log[c].time < last /\ pos' = c /\ rows' = rows /\ pc' = pc
  BY DEF TailRow, Skipped
<1>3. Typed /\ DatabaseInv /\ PositionInv /\ ListenInv /\ RowsInv
  BY DEF IInv, CoreInv
<1>4. /\ Len(log) \in Nat /\ last \in Int /\ pos \in Nat /\ purged \in Nat /\ clock \in Nat
      /\ c \in 1 .. Len(log) /\ seen \in Nat
      /\ \A i \in 1 .. Len(log) : log[i].time \in Nat
  BY <1>1, <1>3, Basics
<1>5. Listening /\ Listening'
  BY <1>1, <1>2 DEF Listening
<1>6. DatabaseInv' /\ DiskInv' /\ CopyInv' /\ Timed' = Timed /\ Tails' = Tails
  BY <1>1, <1>5, ListenFrame
<1>7. ValuesInv'
  BY <1>1 DEF IInv, CoreInv, ValuesInv, Version, DbSame
<1>8. LogRow(c) \in RowRec /\ LogRow(c).val = c
  <2>1. log[c] \in ChangeRec
    BY <1>3, <1>4 DEF Typed
  <2> QED BY <1>4, <2>1 DEF LogRow, RowRec, ChangeRec, Stamp
<1>9. LogRow(c).op = log[c].op /\ LogRow(c).old = log[c].old /\ LogRow(c).key = log[c].key
      /\ LogRow(c).at = log[c].time
  BY <1>1 DEF LogRow, Stamp, Timed, Tails
<1> HIDE DEF c
<1>10. Typed'
  <2>1. rows' \in Seq(RowRec) /\ \A n \in 1 .. Len(rows') : rows'[n].val \in Old .. Len(log)
    <3>1. CASE rows' = rows
      BY <1>3, <3>1 DEF Typed
    <3>2. CASE rows' = <<LogRow(c)>>
      BY <1>4, <1>8, <3>2 DEF Old
    <3> QED BY <1>2, <3>1, <3>2
  <2>2. pos' \in 0 .. Len(log) /\ seen' \in Nat
    BY <1>1, <1>2, <1>4, <1>3, Basics DEF c
  <2>3. pc' \in {"off", "connect", "scan", "load", "listen", "apply", "reinsert", "advance", "stuck"}
    BY <1>1, <1>2
  <2> QED BY <1>1, <1>3, <2>1, <2>2, <2>3 DEF Typed, Types, DbSame
<1>11. PositionInv'
  <2>1. log[c].time <= clock
    BY <1>3, <1>4 DEF DatabaseInv
  <2>2. log[c].time < last => last # Unset
    BY <1>4 DEF Unset
  <2> QED BY <1>1, <1>2, <1>3, <1>6, <2>1, <2>2 DEF PositionInv, DbSame
<1>12. ListenInv'
  <2>1. kind = "mysql" => pos' >= purged /\ disk.pos <= pos'
    BY <1>1, <1>2, <1>3, <1>4, <1>5, Basics DEF ListenInv, c
  <2>2. ASSUME kind = "mongo", NEW i \in 1 .. Len(log), i > pos' PROVE seen' <= log[i].time
    <3>1. c <= i
      BY <1>2, <1>4, <2>2 DEF c
    <3> QED BY <1>1, <1>3, <1>4, <2>2, <3>1 DEF DatabaseInv
  <2> QED BY <1>1, <1>3, <1>5, <2>1, <2>2 DEF ListenInv, DbSame, Tails
<1>13. RowsInv'
  <2>1. rows = <<>>
    BY <1>1, <1>3, <1>5 DEF RowsInv, RowsTailed
  <2>2. RowsTailed'
    <3>1. CASE rows' = <<LogRow(c)>> /\ pc' = "apply" /\ pos' = pos /\ ~(log[c].time < last)
      <4>1. Len(rows') = 1 /\ rows'[1] = LogRow(c)
        BY <3>1
      <4>2. last <= log[c].time
        BY <1>4, <3>1
      <4> QED BY <1>1, <1>4, <1>8, <1>9, <3>1, <4>1, <4>2 DEF RowsTailed, DbSame, c
    <3>2. CASE rows' = rows /\ pc' = pc
      BY <1>1, <2>1, <3>2 DEF RowsTailed
    <3> QED BY <1>2, <3>1, <3>2
  <2> QED BY <1>1, <1>2, <1>6, <2>1, <2>2
          DEF RowsInv, RowsCopied, RowsPolled, RowsLogged, RowsNet, RowsHalf, DbSame, Tails
<1>14. SqliteInv'
  BY <1>1, <1>6 DEF SqliteInv, Tails, DbSame
<1>15. ASSUME NEW k \in Key \ missed PROVE Good(engine[k], k, Left(k))'
  <2>1. Good(engine[k], k, Left(k))
    BY <1>1, <1>5, <1>15 DEF IInv, CoreInv, EngineInv, Blind, Tails
  <2>2. ASSUME NEW i \in Left(k) PROVE i \in Left(k)'
    <3>1. i \in ToCome(pos, last)
      BY <1>1, LeftTails
    <3>2. /\ i \in purged + 1 .. Len(log) /\ i > pos /\ log[i].time >= last
      BY <1>1, <3>1, ToComeCases DEF Tails
    <3>3. i > pos'
      BY <1>2, <1>4, <3>2 DEF c
    <3>4. i \in ToCome(pos, last)'
      BY <1>1, <3>2, <3>3, ToComeCases DEF DbSame, Tails
    <3> QED BY <1>1, <1>2, <1>6, <3>4, LeftTails
  <2>3. Good(engine[k], k, Left(k)')
    BY <2>1, <2>2, GoodMono
  <2> QED BY <1>1, <2>3 DEF DbSame, Good, Later, Concerns
<1>16. EngineInv'
  BY <1>1, <1>15 DEF EngineInv
<1> QED BY <1>6, <1>7, <1>10, <1>11, <1>12, <1>13, <1>14, <1>16 DEF IInv, CoreInv

\* A polled row is taken: what SQLite's stamp passes over is accounted for.
LEMMA TakeRowKeeps ==
  ASSUME IInv, TakeRow
  PROVE  CoreInv'
<1>1. /\ DbSame /\ purged' = purged /\ clock' = clock /\ disk' = disk /\ lost' = lost
      /\ engine' = engine /\ dirty' = dirty /\ pc = "listen" /\ pc' = "apply"
      /\ pos' = pos /\ seen' = seen /\ exit' = exit /\ rows' = rows /\ rows # <<>> /\ ~Tails
      /\ last' = IF kind = "sqlite" THEN rows[1].at ELSE last
      /\ high' = IF kind # "sqlite" /\ rows[1].at > high THEN rows[1].at ELSE high
  BY DEF TakeRow, DbSame
<1>2. Typed /\ DatabaseInv /\ PositionInv /\ ListenInv /\ RowsInv /\ SqliteInv
  BY DEF IInv, CoreInv
<1>3. /\ Len(log) \in Nat /\ Len(rows) \in Nat /\ Len(rows) >= 1 /\ last \in Int /\ high \in Int
      /\ clock \in Nat /\ disk.last \in Int
      /\ \A n \in 1 .. Len(rows) : rows[n].at \in Int
      /\ \A i \in 1 .. Len(log) : log[i].time \in Nat
  <2>1. rows \in Seq(RowRec)
    BY <1>2 DEF Typed
  <2>2. Len(rows) # 0
    BY <1>1, <2>1
  <2> QED BY <1>2, <2>2, Basics
<1>4. Listening /\ Listening'
  BY <1>1 DEF Listening
<1>5. DatabaseInv' /\ DiskInv' /\ CopyInv' /\ Timed' = Timed /\ Tails' = Tails
  BY <1>1, <1>4, ListenFrame
<1>6. ValuesInv'
  BY <1>1 DEF IInv, CoreInv, ValuesInv, Version, DbSame
<1>7. missed \subseteq missed' /\ missed' \subseteq Key
  BY <1>2 DEF TakeRow, Typed, Types
<1>8. /\ kind # "sqlite" => high' = rows[1].at /\ high' > last
      /\ \A n \in 1 .. Len(rows) : rows[n].at >= rows[1].at /\ rows[n].at >= last
  BY <1>1, <1>2, <1>3, <1>4 DEF RowsInv, RowsPolled
<1>9. kind = "sqlite" => rows[1].at \in 1 .. clock /\ rows[1].at >= last /\ last # Unset
  <2>1. SUFFICES ASSUME kind = "sqlite"
                 PROVE  rows[1].at \in 1 .. clock /\ rows[1].at >= last /\ last # Unset
    OBVIOUS
  <2>2. rows[1].val \in 1 .. Len(log) /\ rows[1].at = log[rows[1].val].time
    BY <1>2, <1>3, <1>4, <2>1 DEF RowsInv, RowsLogged
  <2>3. log[rows[1].val].time \in 1 .. clock
    BY <1>2, <2>2 DEF DatabaseInv
  <2>4. last # Unset
    BY <1>1, <1>2, <1>4, <2>1 DEF ListenInv
  <2> QED BY <1>3, <1>8, <2>2, <2>3, <2>4
<1>10. last' \in Int /\ high' \in Int /\ last' >= last /\ \A n \in 1 .. Len(rows) : rows[n].at >= last'
  BY <1>1, <1>3, <1>8, <1>9
<1>11. Typed'
  BY <1>1, <1>2, <1>7, <1>10 DEF Typed, Types, DbSame
<1>12. PositionInv'
  <2>1. Timed => last' <= clock
    BY <1>1, <1>2, <1>3, <1>9 DEF PositionInv
  <2>2. last' >= Unset
    BY <1>2, <1>3, <1>10 DEF PositionInv, Unset
  <2> QED BY <1>1, <1>2, <1>5, <2>1, <2>2 DEF PositionInv, DbSame
<1>13. ListenInv'
  <2>1. kind # "mongo" => disk.last <= last'
    BY <1>2, <1>3, <1>4, <1>10 DEF ListenInv
  <2>2. kind = "sqlite" => last' # Unset
    BY <1>1, <1>2, <1>4, <1>9 DEF ListenInv, Unset
  <2>3. kind \notin {"mongo", "mysql"}
    BY <1>1 DEF Tails
  <2> QED BY <1>1, <2>1, <2>2, <2>3 DEF ListenInv, DbSame
<1>14. RowsInv'
  <2>1. RowsPolled'
    <3>1. kind # "sqlite" => \A n \in 1 .. Len(rows) : rows[n].at > last
      BY <1>1, <1>2, <1>4 DEF RowsInv, RowsPolled
    <3>2. \A m, n \in 1 .. Len(rows) : m < n => rows[m].at <= rows[n].at
      BY <1>1, <1>2, <1>4 DEF RowsInv, RowsPolled
    <3>3. kind # "sqlite" => high' >= last
      BY <1>3, <1>8
    <3> QED BY <1>1, <1>8, <1>10, <3>1, <3>2, <3>3 DEF RowsPolled, DbSame
  <2>2. RowsLogged'
    BY <1>1, <1>2, <1>4 DEF RowsInv, RowsLogged, DbSame, Held
  <2>3. RowsNet'
    BY <1>1, <1>2, <1>4, SMTT(30) DEF RowsInv, RowsNet, DbSame, Version, Good, Later, Concerns
  <2> QED BY <1>1, <1>5, <2>1, <2>2, <2>3 DEF RowsInv, RowsCopied, RowsTailed, RowsHalf
<1>15. ASSUME NEW k \in Key \ missed', NEW i \in Left(k), Concerns(i, k) PROVE i \in Left(k)'
  <2>1. CASE kind = "sqlite"
    <3>1. i \in ToCome(pos, last) \/ i \in Held
      BY <2>1, LeftSqlite
    <3>2. CASE i \in Held
      BY <1>1, <2>1, <3>2, LeftSqlite DEF Held, DbSame
    <3>3. CASE i \in ToCome(pos, last) /\ i \notin Held
      <4>1. i \in purged + 1 .. Len(log)
        BY <3>3, ToComeCases
      <4>2. i \in 1 .. Len(log)
        BY <1>2, <4>1, Basics
      <4>3. ~(Stamp(i) <= rows[1].at)
        BY <1>15, <2>1, <3>3 DEF TakeRow, Held
      <4>4. log[i].time > rows[1].at
        BY <1>3, <2>1, <4>2, <4>3 DEF Stamp, Timed
      <4>5. i \in ToCome(pos, last)'
        BY <1>1, <1>9, <2>1, <4>1, <4>4, ToComeCases DEF DbSame, Unset
      <4> QED BY <1>1, <2>1, <4>5, LeftSqlite DEF DbSame
    <3> QED BY <3>1, <3>2, <3>3
  <2>2. CASE kind = "oracle"
    BY <1>1, <1>15, <2>2, LeftOracle DEF DbSame
  <2>3. CASE kind = "sqlserver"
    <3>1. HasRow(k)' <=> HasRow(k)
      BY <1>1 DEF HasRow
    <3> QED BY <1>1, <1>15, <2>3, <3>1, LeftSQLServer DEF DbSame
  <2> QED BY <1>1, <1>2, <2>1, <2>2, <2>3, KindsAssumption DEF Tails, Typed, Types
<1>16. SqliteInv'
  <2> SUFFICES ASSUME kind = "sqlite", NEW k \in Key \ missed', NEW n \in 1 .. Len(rows),
                      k \in {rows[n].old, rows[n].key}
               PROVE  /\ \A j \in Later(rows[n].val, k)' : j \in Left(k)'
                      /\ disk.file => rows[n].at > disk.last
                      /\ rows[n].val > purged
    BY <1>1 DEF SqliteInv, DbSame
  <2>1. k \in Key \ missed
    BY <1>7
  <2>2. ASSUME NEW j \in Later(rows[n].val, k)' PROVE j \in Left(k)'
    <3>1. j \in Later(rows[n].val, k) /\ Concerns(j, k)
      BY <1>1, <2>2 DEF Later, Concerns, DbSame
    <3>2. j \in Left(k)
      BY <1>2, <1>4, <2>1, <3>1 DEF SqliteInv
    <3> QED BY <1>15, <3>1, <3>2
  <2> QED BY <1>2, <1>4, <2>1, <2>2 DEF SqliteInv
<1>17. ASSUME NEW k \in Key \ missed' PROVE Good(engine[k], k, Left(k))'
  <2>1. Good(engine[k], k, Left(k))
    BY <1>4, <1>7, <1>9 DEF IInv, CoreInv, EngineInv, Blind
  <2>2. Good(engine[k], k, Left(k)')
    BY <1>15, <2>1, GoodMono
  <2> QED BY <1>1, <2>2 DEF DbSame, Good, Later, Concerns
<1>18. EngineInv'
  BY <1>17 DEF EngineInv
<1> QED BY <1>5, <1>6, <1>11, <1>12, <1>13, <1>14, <1>16, <1>18 DEF IInv, CoreInv

\* At the end of a batch, and after each tailed row, the position follows.
LEMMA AdvanceKeeps ==
  ASSUME IInv, Advance
  PROVE  CoreInv'
<1>1. /\ DbSame /\ purged' = purged /\ clock' = clock /\ disk' = disk /\ lost' = lost
      /\ missed' = missed /\ engine' = engine /\ dirty' = dirty /\ pc = "advance" /\ pc' = "listen"
      /\ seen' = seen /\ exit' = exit /\ high' = high /\ rows' = <<>>
      /\ last' = IF Tails THEN rows[1].at ELSE IF kind = "sqlite" THEN last ELSE high
      /\ pos' = IF Tails THEN pos + 1 ELSE pos
  BY DEF Advance, DbSame
<1>2. Typed /\ DatabaseInv /\ PositionInv /\ ListenInv /\ RowsInv
  BY DEF IInv, CoreInv
<1>3. /\ Len(log) \in Nat /\ last \in Int /\ pos \in Nat /\ purged \in Nat /\ clock \in Nat
      /\ high \in Int /\ disk.last \in Int /\ disk.pos \in Nat /\ seen \in Nat
      /\ \A i \in 1 .. Len(log) : log[i].time \in Nat
  BY <1>2, Basics
<1>4. Listening /\ Listening'
  BY <1>1 DEF Listening
<1>5. DatabaseInv' /\ DiskInv' /\ CopyInv' /\ Timed' = Timed /\ Tails' = Tails
  BY <1>1, <1>4, ListenFrame
<1>6. ValuesInv'
  BY <1>1 DEF IInv, CoreInv, ValuesInv, Version, DbSame
<1>7. Tails => /\ pos + 1 \in 1 .. Len(log) /\ rows[1].at = log[pos + 1].time
               /\ last' = log[pos + 1].time /\ last <= last'
  BY <1>1, <1>2, <1>3, <1>4 DEF RowsInv, RowsTailed
<1>8. ~Tails => rows = <<>> /\ (kind # "sqlite" => last' = high /\ last <= last')
  BY <1>1, <1>2, <1>4 DEF RowsInv, RowsPolled
<1>9. last' \in Int /\ last <= last' /\ (Timed => last' <= clock)
  <2>1. CASE Tails
    BY <1>2, <1>3, <1>7, <2>1 DEF DatabaseInv
  <2>2. CASE ~Tails
    BY <1>1, <1>2, <1>3, <1>8, <2>2 DEF PositionInv, Timed, Tails
  <2> QED BY <2>1, <2>2
<1>10. Typed'
  BY <1>1, <1>2, <1>3, <1>7, <1>9 DEF Typed, Types, DbSame
<1>11. PositionInv'
  <2>1. kind = "mysql" => last' # Unset
    BY <1>3, <1>7 DEF Tails, Unset
  <2> QED BY <1>1, <1>2, <1>3, <1>5, <1>9, <2>1 DEF PositionInv, DbSame, Unset
<1>12. ListenInv'
  <2>1. kind = "mysql" => pos' >= purged /\ disk.pos <= pos'
    BY <1>1, <1>2, <1>3, <1>4 DEF ListenInv, Tails
  <2>2. kind # "mongo" => disk.last <= last'
    BY <1>2, <1>3, <1>4, <1>9 DEF ListenInv
  <2>3. ASSUME kind = "mongo", NEW i \in 1 .. Len(log), i > pos' PROVE seen <= log[i].time
    BY <1>1, <1>2, <1>3, <1>4, <2>3 DEF ListenInv, Tails
  <2>4. kind = "sqlite" => last' = last /\ last # Unset
    BY <1>1, <1>2, <1>4 DEF ListenInv, Tails
  <2> QED BY <1>1, <1>2, <1>4, <2>1, <2>2, <2>3, <2>4 DEF ListenInv, DbSame
<1>13. RowsInv'
  BY <1>1 DEF RowsInv, RowsCopied, RowsTailed, RowsPolled, RowsLogged, RowsNet, RowsHalf, Handling
<1>14. SqliteInv'
  BY <1>1 DEF SqliteInv
<1>15. ASSUME NEW k \in Key \ missed, ~Blind' PROVE Good(engine[k], k, Left(k))'
  <2>1. Good(engine[k], k, Left(k))
    BY <1>1, <1>4, <1>15 DEF IInv, CoreInv, EngineInv, Blind, Tails, DbSame
  <2>2. ASSUME NEW i \in Left(k) PROVE i \in Left(k)'
    <3>1. CASE Tails
      <4>1. i \in ToCome(pos, last) /\ i > pos + 1
        BY <1>1, <3>1, LeftTails
      <4>2. i \in purged + 1 .. Len(log)
        BY <4>1, ToComeCases
      <4>3. log[i].time >= last' /\ i > pos'
        BY <1>1, <1>2, <1>3, <1>7, <3>1, <4>1, <4>2, SMTT(30) DEF DatabaseInv
      <4>4. i \in ToCome(pos, last)'
        BY <1>1, <3>1, <4>2, <4>3, ToComeCases DEF DbSame, Tails
      <4> QED BY <1>1, <1>5, <3>1, <4>4, LeftTails
    <3>2. CASE kind = "sqlite"
      <4>1. i \in ToCome(pos, last)
        BY <1>8, <3>2, LeftSqlite DEF Held, Tails
      <4>2. i \in ToCome(pos, last)'
        BY <1>1, <3>2, <4>1, ToComeCases DEF DbSame, Tails
      <4> QED BY <1>1, <3>2, <4>2, LeftSqlite DEF DbSame
    <3>3. CASE kind = "oracle"
      BY <1>1, <1>8, <3>3, LeftOracle DEF DbSame, Tails
    <3>4. CASE kind = "sqlserver"
      <4>1. ~HasRow(k) /\ ~HasRow(k)'
        BY <1>1, <1>8, <3>4 DEF HasRow, Tails
      <4> QED BY <1>1, <1>8, <3>4, <4>1, LeftSQLServer DEF DbSame, Tails
    <3> QED BY <1>2, <3>1, <3>2, <3>3, <3>4, KindsAssumption DEF Tails, Typed, Types
  <2>3. Good(engine[k], k, Left(k)')
    BY <2>1, <2>2, GoodMono
  <2> QED BY <1>1, <2>3 DEF DbSame, Good, Later, Concerns
<1>16. EngineInv'
  BY <1>1, <1>15 DEF EngineInv
<1> QED BY <1>5, <1>6, <1>10, <1>11, <1>12, <1>13, <1>14, <1>16 DEF IInv, CoreInv

\* An error drops the rest of a batch: it is read again, or accounted for.
LEMMA FetchErrorKeeps ==
  ASSUME IInv, FetchError
  PROVE  CoreInv'
<1>1. /\ DbSame /\ purged' = purged /\ clock' = clock /\ disk' = disk /\ lost' = lost
      /\ engine' = engine /\ dirty' = dirty /\ pc' = "listen"
      /\ seen' = 0 /\ exit' = exit /\ high' = high /\ rows' = <<>>
      /\ last' = IF kind = "mongo" THEN seen ELSE last
      /\ pos' = IF kind = "mongo" THEN 0 ELSE pos
      /\ (pc = "listen" /\ kind # "mysql") \/ (pc = "apply" /\ kind = "mongo")
  BY DEF FetchError, DbSame
<1>2. Typed /\ DatabaseInv /\ PositionInv /\ ListenInv /\ RowsInv /\ SqliteInv
  BY DEF IInv, CoreInv
<1>3. /\ Len(log) \in Nat /\ Len(rows) \in Nat /\ last \in Int /\ pos \in Nat /\ purged \in Nat
      /\ clock \in Nat /\ disk.last \in Int /\ seen \in Nat
      /\ \A i \in 1 .. Len(log) : log[i].time \in Nat
      /\ \A n \in 1 .. Len(rows) : rows[n].at \in Int /\ rows[n].val \in Int
  BY <1>2, Basics DEF Old
<1>4. Listening /\ Listening'
  BY <1>1 DEF Listening
<1>5. DatabaseInv' /\ DiskInv' /\ CopyInv' /\ Timed' = Timed /\ Tails' = Tails
  BY <1>1, <1>4, ListenFrame
<1>6. ValuesInv'
  BY <1>1 DEF IInv, CoreInv, ValuesInv, Version, DbSame
<1>7. /\ missed \subseteq missed' /\ missed' \subseteq Key
      /\ \A k \in Key : \A n \in 1 .. Len(rows) :
           kind = "sqlite" /\ rows[n].at <= last /\ k \in {rows[n].old, rows[n].key} => k \in missed'
  <2>1. missed' = missed \cup {k \in Key : \E n \in 1 .. Len(rows) :
          /\ kind = "sqlite" /\ pc # "scan" /\ rows[n].at <= last
          /\ k \in {rows[n].old, rows[n].key}}
    BY <1>1 DEF FetchError, NotHandled
  <2> QED BY <1>1, <1>2, <2>1 DEF Typed, Types
<1>8. Typed'
  BY <1>1, <1>2, <1>3, <1>7 DEF Typed, Types, DbSame
<1>9. PositionInv'
  BY <1>1, <1>2, <1>3, <1>5 DEF PositionInv, DbSame, Unset, Tails
<1>10. ListenInv'
  BY <1>1, <1>2, <1>3, <1>4 DEF ListenInv, DbSame
<1>11. RowsInv'
  BY <1>1 DEF RowsInv, RowsCopied, RowsTailed, RowsPolled, RowsLogged, RowsNet, RowsHalf, Handling
<1>12. SqliteInv'
  BY <1>1 DEF SqliteInv
<1>13. ASSUME NEW k \in Key \ missed', ~Blind' PROVE Good(engine[k], k, Left(k))'
  <2>1. Good(engine[k], k, Left(k))
    BY <1>1, <1>4, <1>7, <1>13 DEF IInv, CoreInv, EngineInv, Blind, DbSame
  <2>2. ASSUME NEW i \in Left(k), Concerns(i, k) PROVE i \in Left(k)'
    <3>1. CASE kind = "mongo"
      <4>1. i \in purged + 1 .. Len(log) /\ i > pos
        BY <3>1, LeftTails, ToComeCases DEF Tails
      <4>2. i \in 1 .. Len(log) /\ log[i].time >= seen
        BY <1>2, <1>3, <1>4, <3>1, <4>1 DEF ListenInv
      <4>3. i \in ToCome(pos, last)'
        BY <1>1, <3>1, <4>1, <4>2, ToComeCases DEF DbSame
      <4> QED BY <1>1, <1>5, <3>1, <4>3, LeftTails DEF Tails
    <3>2. CASE kind = "sqlite"
      <4>1. CASE i \in ToCome(pos, last)
        <5>1. i \in ToCome(pos, last)'
          BY <1>1, <3>2, <4>1, ToComeCases DEF DbSame
        <5> QED BY <1>1, <3>2, <5>1, LeftSqlite DEF DbSame
      <4>2. CASE i \in Held
        <5>1. PICK n \in 1 .. Len(rows) : rows[n].val = i
          BY <4>2 DEF Held
        <5>2. /\ i \in 1 .. Len(log) /\ rows[n].old = log[i].old /\ rows[n].key = log[i].key
              /\ rows[n].at = log[i].time
          BY <1>2, <1>4, <3>2, <5>1 DEF RowsInv, RowsLogged
        <5>3. k \in {rows[n].old, rows[n].key} /\ k \notin missed
          BY <1>7, <2>2, <5>2 DEF Concerns
        <5>4. rows[n].at > last
          BY <1>3, <1>7, <3>2, <5>3
        <5>5. rows[n].val > purged
          BY <1>2, <1>4, <3>2, <5>3 DEF SqliteInv
        <5>6. last # Unset
          <6>1. rows # <<>>
            BY <1>3, <5>1
          <6> QED BY <1>2, <1>4, <3>2, <6>1 DEF ListenInv
        <5>8. i \in purged + 1 .. Len(log)
          BY <1>3, <5>1, <5>2, <5>5
        <5>9. i \in ToCome(pos, last)'
          BY <1>1, <3>2, <5>2, <5>4, <5>6, <5>8, ToComeCases DEF DbSame
        <5> QED BY <1>1, <3>2, <5>9, LeftSqlite DEF DbSame
      <4> QED BY <3>2, <4>1, <4>2, LeftSqlite
    <3>3. CASE kind = "oracle"
      <4>1. rows # <<>> => Len(rows) >= 1 /\ rows[1].val > last /\ rows[1].val \in Int
        <5>1. rows # <<>> => Len(rows) >= 1
          BY <1>2, <1>3 DEF Typed
        <5> QED BY <1>2, <1>3, <1>4, <3>3, <5>1 DEF RowsInv, RowsPolled, RowsLogged, Tails
      <4>2. i \in 1 .. Len(log) /\ i > last
        BY <1>1, <1>3, <2>2, <3>3, <4>1, LeftOracle
      <4> QED BY <1>1, <3>3, <4>2, LeftOracle DEF DbSame
    <3>4. CASE kind = "sqlserver"
      <4>1. rows # <<>> => Len(rows) >= 1 /\ rows[Len(rows)].at > last
        <5>1. rows # <<>> => Len(rows) >= 1
          BY <1>2, <1>3 DEF Typed
        <5> QED BY <1>2, <1>3, <1>4, <3>4, <5>1 DEF RowsInv, RowsPolled, Tails
      <4>2. i \in 1 .. Len(log) /\ i > last
        BY <1>1, <1>3, <2>2, <3>4, <4>1, LeftSQLServer
      <4>3. ~HasRow(k)'
        BY <1>1 DEF HasRow
      <4> QED BY <1>1, <3>4, <4>2, <4>3, LeftSQLServer DEF DbSame
    <3> QED BY <1>1, <1>2, <3>1, <3>2, <3>3, <3>4, KindsAssumption DEF Typed, Types
  <2>3. Good(engine[k], k, Left(k)')
    BY <2>1, <2>2, GoodMono
  <2> QED BY <1>1, <2>3 DEF DbSame, Good, Later, Concerns
<1>14. EngineInv'
  BY <1>13 DEF EngineInv
<1> QED BY <1>5, <1>6, <1>8, <1>9, <1>10, <1>11, <1>12, <1>14 DEF IInv, CoreInv

-----------------------------------------------------------------------------
(* A row is handled. *)

\* The change the row at hand was read from.
Cur == IF Tails THEN pos + 1 ELSE rows[1].val

\* It is the oldest one left.
LEMMA CurrentChange ==
  ASSUME IInv, Handling, kind # "sqlserver"
  PROVE  /\ Cur \in 1 .. Len(log) /\ Len(rows) >= 1
         /\ rows[1].op = log[Cur].op /\ rows[1].old = log[Cur].old /\ rows[1].key = log[Cur].key
         /\ pc = "apply" => rows[1].val = Cur
         /\ rows[1].val >= Cur
         /\ \A k \in Key : \A i \in Left(k) : i >= Cur
         /\ \A k \in Key \ missed : Concerns(Cur, k) =>
              Cur \in Left(k) /\ \A j \in Later(Cur, k) : j \in Left(k)
<1>1. Typed /\ DatabaseInv /\ PositionInv /\ ListenInv /\ RowsInv /\ SqliteInv
  BY DEF IInv, CoreInv
<1>2. /\ Len(log) \in Nat /\ Len(rows) \in Nat /\ last \in Int /\ pos \in Nat /\ purged \in Nat
      /\ \A i \in 1 .. Len(log) : log[i].time \in Nat /\ log[i].old \in Key /\ log[i].key \in Key
      /\ \A n \in 1 .. Len(rows) : rows[n].at \in Int /\ rows[n].val \in Int
  BY <1>1, Basics DEF Old
<1>3. Listening /\ pc # "advance" /\ pc # "listen"
  BY DEF Handling, Listening
<1>4. CASE Tails
  <2>1. /\ Cur = pos + 1 /\ Len(rows) = 1 /\ Cur \in 1 .. Len(log)
        /\ rows[1].op = log[Cur].op /\ rows[1].old = log[Cur].old /\ rows[1].key = log[Cur].key
        /\ rows[1].at = log[Cur].time /\ last <= rows[1].at
        /\ pc = "apply" => rows[1].val = Cur
        /\ pc = "reinsert" => rows[1].val >= Cur
    BY <1>1, <1>2, <1>3, <1>4 DEF RowsInv, RowsTailed, Cur
  <2>2. rows[1].val >= Cur
    BY <1>2, <2>1 DEF Handling
  <2>3. \A k \in Key : \A i \in Left(k) : i >= Cur
    <3> SUFFICES ASSUME NEW k \in Key, NEW i \in Left(k) PROVE i >= Cur
      OBVIOUS
    <3>1. i \in purged + 1 .. Len(log) /\ i > pos
      BY <1>4, LeftTails, ToComeCases DEF Tails
    <3> QED BY <1>2, <2>1, <3>1
  <2>4. ASSUME NEW j \in 1 .. Len(log), j >= Cur, NEW k \in Key PROVE j \in Left(k)
    <3>1. log[j].time >= last
      BY <1>1, <1>2, <2>1, <2>4 DEF DatabaseInv
    <3>2. j \in purged + 1 .. Len(log) /\ j > pos
      BY <1>1, <1>2, <1>3, <1>4, <2>1, <2>4 DEF Tails, ListenInv, PositionInv
    <3>3. j \in ToCome(pos, last)
      BY <1>4, <3>1, <3>2, ToComeCases DEF Tails
    <3> QED BY <1>3, <1>4, <3>3, LeftTails
  <2> QED BY <1>2, <2>1, <2>2, <2>3, <2>4 DEF Later
<1>5. CASE kind = "sqlite"
  <2>1. /\ Cur = rows[1].val /\ rows # <<>>
        /\ last = rows[1].at /\ last # Unset
    BY <1>1, <1>3, <1>5 DEF RowsInv, RowsPolled, Cur, Tails, ListenInv
  <2>2. Len(rows) >= 1
    BY <1>1, <1>2, <2>1 DEF Typed
  <2>3. /\ Cur \in 1 .. Len(log) /\ rows[1].at = log[Cur].time
        /\ rows[1].op = log[Cur].op /\ rows[1].old = log[Cur].old /\ rows[1].key = log[Cur].key
    BY <1>1, <1>2, <1>3, <1>5, <2>1, <2>2 DEF RowsInv, RowsLogged
  <2>4. \A k \in Key : \A i \in Left(k) : i >= Cur
    <3> SUFFICES ASSUME NEW k \in Key, NEW i \in Left(k) PROVE i >= Cur
      OBVIOUS
    <3>1. CASE i \in ToCome(pos, last)
      <4>1. i \in purged + 1 .. Len(log) /\ log[i].time > last
        BY <1>5, <3>1, ToComeCases
      <4>2. i \in 1 .. Len(log)
        BY <1>2, <4>1
      <4> QED BY <1>1, <1>2, <2>1, <2>3, <4>1, <4>2 DEF DatabaseInv
    <3>2. CASE i \in Held
      <4>1. PICK n \in 1 .. Len(rows) : rows[n].val = i
        BY <3>2 DEF Held
      <4>2. n = 1 \/ rows[1].val < rows[n].val
        BY <1>1, <1>2, <1>3, <1>5, <2>2 DEF RowsInv, RowsLogged
      <4> QED BY <1>2, <2>1, <2>2, <4>1, <4>2
    <3> QED BY <1>5, <3>1, <3>2, LeftSqlite
  <2>5. ASSUME NEW k \in Key \ missed, Concerns(Cur, k)
        PROVE  Cur \in Left(k) /\ \A j \in Later(Cur, k) : j \in Left(k)
    <3>1. k \in {rows[1].old, rows[1].key}
      BY <2>3, <2>5 DEF Concerns
    <3>2. Cur \in Held
      BY <1>2, <2>1, <2>2 DEF Held
    <3> QED BY <1>1, <1>2, <1>3, <1>5, <2>1, <2>2, <3>1, <3>2, LeftSqlite DEF SqliteInv
  <2> QED BY <1>2, <2>1, <2>2, <2>3, <2>4, <2>5
<1>6. CASE kind = "oracle"
  <2>1. Cur = rows[1].val /\ rows # <<>>
    BY <1>1, <1>3, <1>6 DEF RowsInv, RowsPolled, Cur, Tails
  <2>2. Len(rows) >= 1
    BY <1>1, <1>2, <2>1 DEF Typed
  <2>3. /\ Cur \in 1 .. Len(log)
        /\ rows[1].op = log[Cur].op /\ rows[1].old = log[Cur].old /\ rows[1].key = log[Cur].key
    BY <1>1, <1>2, <1>3, <1>6, <2>1, <2>2 DEF RowsInv, RowsLogged
  <2>4. \A k, i : i \in Left(k) <=> i \in 1 .. Len(log) /\ i >= Cur
    BY <1>6, <2>1, LeftOracle
  <2> QED BY <1>2, <2>1, <2>2, <2>3, <2>4 DEF Later
<1> QED BY <1>1, <1>4, <1>5, <1>6, KindsAssumption DEF Tails, Typed, Types

\* What RowDone leaves alone.
Handled ==
  /\ DbSame /\ purged' = purged /\ clock' = clock /\ disk' = disk /\ lost' = lost
  /\ last' = last /\ pos' = pos /\ high' = high /\ seen' = seen /\ exit' = exit
  /\ RowDone

\* The rows after RowDone.
LEMMA RowsAfter ==
  ASSUME IInv, Handling, Handled
  PROVE  /\ Len(rows) \in Nat /\ Len(rows) >= 1
         /\ Tails => Len(rows) = 1 /\ rows' = rows /\ pc' = "advance"
         /\ ~Tails => /\ Len(rows') = Len(rows) - 1
                      /\ \A n \in 1 .. Len(rows') : n + 1 \in 2 .. Len(rows) /\ rows'[n] = rows[n + 1]
                      /\ pc' = IF Len(rows) = 1 THEN "advance" ELSE "listen"
                      /\ rows' = <<>> <=> Len(rows) = 1
         /\ rows' \in Seq(RowRec)
<1>1. Typed /\ RowsInv /\ Listening /\ pc # "listen"
  BY DEF IInv, CoreInv, Handling, Listening
<1>2. rows \in Seq(RowRec) /\ Len(rows) \in Nat
  BY <1>1 DEF Typed
<1>3. Tails => Len(rows) = 1
  BY <1>1 DEF RowsInv, RowsTailed
<1>4. ~Tails => rows # <<>>
  BY <1>1 DEF RowsInv, RowsPolled
<1>5. Len(rows) >= 1 /\ rows # <<>>
  BY <1>2, <1>3, <1>4
<1>6. CASE Tails
  BY <1>2, <1>3, <1>5, <1>6 DEF Handled, RowDone
<1>7. CASE ~Tails
  <2>1. rows' = Tail(rows) /\ pc' = IF Len(rows) = 1 THEN "advance" ELSE "listen"
    BY <1>7 DEF Handled, RowDone
  <2>2. rows' \in Seq(RowRec) /\ Len(rows') = Len(rows) - 1
    BY <1>2, <1>5, <2>1
  <2>3. \A n \in 1 .. Len(rows') : n + 1 \in 2 .. Len(rows) /\ rows'[n] = rows[n + 1]
    BY <1>2, <1>5, <2>1, <2>2
  <2>4. rows' = <<>> <=> Len(rows') = 0
    BY <2>2, EmptySeq
  <2>5. rows' = <<>> <=> Len(rows) = 1
    BY <1>2, <2>2, <2>4
  <2> QED BY <1>2, <1>5, <1>7, <2>1, <2>2, <2>3, <2>5
<1> QED BY <1>6, <1>7

\* Only the change at hand is no longer left.
LEMMA LeftAfter ==
  ASSUME IInv, Handling, Handled, kind # "sqlserver", NEW k \in Key, NEW i \in Left(k), i # Cur
  PROVE  i \in Left(k)'
<1>1. Typed /\ DatabaseInv /\ PositionInv /\ ListenInv /\ RowsInv
  BY DEF IInv, CoreInv
<1>2. /\ Len(log) \in Nat /\ pos \in Nat /\ purged \in Nat
      /\ \A n \in 1 .. Len(rows) : rows[n].val \in Int
  BY <1>1, Basics DEF Old
<1>3. /\ Len(rows) \in Nat /\ Len(rows) >= 1
      /\ Tails => rows' = rows /\ pc' = "advance"
      /\ ~Tails => /\ Len(rows') = Len(rows) - 1
                   /\ \A n \in 1 .. Len(rows') : n + 1 \in 2 .. Len(rows) /\ rows'[n] = rows[n + 1]
                   /\ pc' = IF Len(rows) = 1 THEN "advance" ELSE "listen"
                   /\ rows' = <<>> <=> Len(rows) = 1
  BY RowsAfter
<1>4. /\ DbSame /\ purged' = purged /\ last' = last /\ pos' = pos /\ high' = high
      /\ Tails' = Tails /\ Listening /\ pc # "advance"
  BY DbFrame DEF Handled, Handling, Listening
<1>5. CASE Tails
  <2>1. i \in ToCome(pos, last) /\ i \in purged + 1 .. Len(log) /\ i > pos
    BY <1>5, LeftTails, ToComeCases DEF Tails
  <2>2. i \in ToCome(pos, last)'
    BY <1>4, <1>5, <2>1, ToComeCases DEF DbSame, Tails
  <2>3. i > pos' + 1
    BY <1>2, <1>4, <1>5, <2>1 DEF Cur
  <2> QED BY <1>4, <1>5, <2>2, <2>3, LeftTails
<1>6. CASE kind = "sqlite"
  <2>1. CASE i \in ToCome(pos, last)
    <3>1. i \in ToCome(pos, last)'
      BY <1>4, <1>6, <2>1, ToComeCases DEF DbSame
    <3> QED BY <1>4, <1>6, <3>1, LeftSqlite DEF DbSame
  <2>2. CASE i \in Held
    <3>1. PICK n \in 1 .. Len(rows) : rows[n].val = i
      BY <2>2 DEF Held
    <3>2. n # 1
      BY <1>6, <3>1 DEF Cur, Tails
    <3>3. n - 1 \in 1 .. Len(rows') /\ rows'[n - 1] = rows[n]
      <4>1. n - 1 \in 1 .. Len(rows')
        BY <1>3, <1>6, <3>2 DEF Tails
      <4>2. rows'[n - 1] = rows[(n - 1) + 1]
        BY <1>3, <1>6, <4>1 DEF Tails
      <4> QED BY <1>3, <4>1, <4>2
    <3>4. i \in Held'
      BY <3>1, <3>3 DEF Held
    <3> QED BY <1>4, <1>6, <3>4, LeftSqlite DEF DbSame
  <2> QED BY <1>6, <2>1, <2>2, LeftSqlite
<1>7. CASE kind = "oracle"
  <2>1. ~Tails /\ rows # <<>> /\ Cur = rows[1].val /\ rows[1].at = rows[1].val /\ high = rows[1].at
    BY <1>1, <1>3, <1>4, <1>7 DEF RowsInv, RowsPolled, RowsLogged, Cur, Tails
  <2>2. i \in 1 .. Len(log) /\ i > rows[1].val
    <3>1. i \in 1 .. Len(log) /\ i >= rows[1].val
      BY <1>7, <2>1, LeftOracle
    <3> QED BY <1>2, <1>3, <2>1, <3>1
  <2>3. CASE Len(rows) = 1
    BY <1>3, <1>4, <1>7, <2>1, <2>2, <2>3, LeftOracle DEF DbSame
  <2>4. CASE Len(rows) >= 2
    <3>1. rows' # <<>> /\ 2 \in 1 .. Len(rows) /\ rows'[1] = rows[2]
      <4>1. rows' # <<>> /\ 1 \in 1 .. Len(rows')
        BY <1>3, <2>1, <2>4
      <4>2. rows'[1] = rows[1 + 1] /\ 1 + 1 = 2
        BY <1>3, <2>1, <4>1
      <4>3. Len(rows) \in Nat /\ Len(rows) >= 1
        BY <1>3
      <4>4. 2 \in 1 .. Len(rows)
        BY <2>4, <4>3
      <4> QED BY <4>1, <4>2, <4>4
    <3>2. i >= rows[2].val
      <4>1. SUFFICES ASSUME i < rows[2].val PROVE FALSE
        BY <1>2, <2>2, <3>1
      <4>2. rows[2].val <= rows[Len(rows)].val
        <5>1. \A m, n \in 1 .. Len(rows) : m < n => rows[m].val < rows[n].val
          BY <1>1, <1>4, <1>7 DEF RowsInv, RowsLogged
        <5>2. Len(rows) \in 1 .. Len(rows) /\ (2 = Len(rows) \/ 2 < Len(rows))
          <6>1. PICK N \in Nat : N = Len(rows)
            BY <1>3
          <6>2. N \in 1 .. N /\ (2 = N \/ 2 < N)
            BY <2>4, <6>1
          <6> QED BY <6>1, <6>2
        <5>3. 2 = Len(rows) \/ rows[2].val < rows[Len(rows)].val
          BY <3>1, <5>1, <5>2
        <5> QED BY <1>2, <3>1, <5>2, <5>3
      <4>3. i <= rows[Len(rows)].val /\ rows[1].val <= i
        BY <1>2, <1>3, <2>2, <3>1, <4>1, <4>2
      <4>4. i \in Held
        BY <1>1, <1>4, <1>7, <2>1, <2>2, <4>3 DEF RowsInv, RowsLogged
      <4>5. PICK n \in 1 .. Len(rows) : rows[n].val = i
        BY <4>4 DEF Held
      <4>6. n # 1
        BY <2>1, <4>5
      <4>7. n = 2 \/ rows[2].val < rows[n].val
        BY <1>1, <1>3, <1>4, <1>7, <3>1, <4>6 DEF RowsInv, RowsLogged
      <4> QED BY <1>2, <3>1, <4>1, <4>5, <4>7
    <3> QED BY <1>4, <1>7, <2>2, <3>1, <3>2, LeftOracle DEF DbSame
  <2> QED BY <1>3, <2>3, <2>4
<1> QED BY <1>1, <1>5, <1>6, <1>7, KindsAssumption DEF Tails, Typed, Types

\* The net rows that are left are those of the other keys.
LEMMA LeftAfterNet ==
  ASSUME IInv, Handling, Handled, kind = "sqlserver", NEW k \in Key
  PROVE  /\ k # rows[1].key => Left(k)' = Left(k)
         /\ k = rows[1].key => \A i \in 1 .. Len(log) : i > rows[Len(rows)].at => i \in Left(k)'
<1>1. Typed /\ RowsInv
  BY DEF IInv, CoreInv
<1>2. DbSame /\ last' = last /\ high' = high /\ ~Tails /\ Listening /\ pc # "advance"
  BY DEF Handled, Handling, Listening, Tails
<1>3. /\ Len(rows) \in Nat /\ Len(rows) >= 1
      /\ Len(rows') = Len(rows) - 1
      /\ \A n \in 1 .. Len(rows') : n + 1 \in 2 .. Len(rows) /\ rows'[n] = rows[n + 1]
      /\ pc' = IF Len(rows) = 1 THEN "advance" ELSE "listen"
      /\ rows' = <<>> <=> Len(rows) = 1
  BY <1>2, RowsAfter
<1>4. /\ rows # <<>> /\ high = rows[1].at
      /\ \A m, n \in 1 .. Len(rows) : m # n => rows[m].key # rows[n].key
  BY <1>1, <1>2, <1>3 DEF RowsInv, RowsPolled, RowsNet
<1>5. rows' # <<>> => rows'[Len(rows')].at = rows[Len(rows)].at
  <2>1. rows' # <<>> => Len(rows') \in 1 .. Len(rows') /\ Len(rows') + 1 = Len(rows)
    BY <1>3
  <2> QED BY <1>3, <2>1
<1>6. HasRow(k)' <=> \E n \in 2 .. Len(rows) : rows[n].key = k
  <2>1. ASSUME NEW n \in 1 .. Len(rows'), rows'[n].key = k
        PROVE  \E m \in 2 .. Len(rows) : rows[m].key = k
    BY <1>3, <2>1
  <2>2. ASSUME NEW n \in 2 .. Len(rows), rows[n].key = k
        PROVE  \E m \in 1 .. Len(rows') : rows'[m].key = k
    <3>1. n - 1 \in 1 .. Len(rows')
      BY <1>3
    <3>2. rows'[n - 1] = rows[(n - 1) + 1]
      BY <1>3, <3>1
    <3> QED BY <1>3, <2>2, <3>1, <3>2
  <2> QED BY <2>1, <2>2 DEF HasRow
<1>7. CASE k # rows[1].key
  <2>1. HasRow(k)' <=> HasRow(k)
    BY <1>3, <1>6, <1>7 DEF HasRow
  <2>2. \A i : i \in Left(k)' <=> i \in Left(k)
    BY <1>2, <1>3, <1>4, <1>5, <2>1, LeftSQLServer DEF DbSame
  <2> QED BY <1>7, <2>2
<1>8. CASE k = rows[1].key
  <2>1. ~HasRow(k)'
    BY <1>3, <1>4, <1>6, <1>8
  <2> QED BY <1>2, <1>3, <1>4, <1>5, <1>8, <2>1, LeftSQLServer DEF DbSame
<1> QED BY <1>7, <1>8

\* The rest of a batch is as orderly as the batch.
LEMMA RowsRest ==
  ASSUME IInv, Handling, Handled
  PROVE  RowsInv'
<1>1. Typed /\ RowsInv /\ Listening /\ pc \notin {"listen", "advance"}
  BY DEF IInv, CoreInv, Handling, Listening
<1>2. /\ Len(log) \in Nat /\ last \in Int
      /\ \A n \in 1 .. Len(rows) : rows[n].val \in Int /\ rows[n].at \in Int
  BY <1>1, Basics DEF Old
<1>3. /\ DbSame /\ last' = last /\ pos' = pos /\ high' = high /\ Tails' = Tails
  BY DbFrame DEF Handled
<1>4. /\ Len(rows) \in Nat /\ Len(rows) >= 1
      /\ Tails => Len(rows) = 1 /\ rows' = rows /\ pc' = "advance"
      /\ ~Tails => /\ Len(rows') = Len(rows) - 1
                   /\ \A n \in 1 .. Len(rows') : n + 1 \in 2 .. Len(rows) /\ rows'[n] = rows[n + 1]
                   /\ pc' = IF Len(rows) = 1 THEN "advance" ELSE "listen"
                   /\ rows' = <<>> <=> Len(rows) = 1
  BY RowsAfter
<1>5. pc' \in {"advance", "listen"}
  BY <1>4
<1>6. CASE Tails
  <2>1. RowsTailed'
    BY <1>1, <1>3, <1>4, <1>6 DEF RowsInv, RowsTailed, DbSame
  <2> QED BY <1>3, <1>4, <1>6, <2>1
          DEF RowsInv, RowsCopied, RowsPolled, RowsLogged, RowsNet, RowsHalf, DbSame, Tails
<1>7. CASE ~Tails
  <2>1. /\ \A n \in 1 .. Len(rows') : n + 1 \in 1 .. Len(rows) /\ rows'[n] = rows[n + 1]
        /\ Len(rows') \in Nat
        /\ \A m, n \in 1 .. Len(rows') : m + 1 < n + 1 <=> m < n
        /\ \A m, n \in 1 .. Len(rows') : m + 1 # n + 1 <=> m # n
    BY <1>4, <1>7
  <2>2. rows' # <<>> => /\ Len(rows') \in 1 .. Len(rows') /\ rows'[Len(rows')] = rows[Len(rows)]
                        /\ 2 \in 1 .. Len(rows) /\ rows'[1] = rows[2] /\ pc' = "listen"
                        /\ 1 \in 1 .. Len(rows')
    <3>1. SUFFICES ASSUME rows' # <<>>
                   PROVE  /\ Len(rows') \in 1 .. Len(rows') /\ rows'[Len(rows')] = rows[Len(rows)]
                          /\ 2 \in 1 .. Len(rows) /\ rows'[1] = rows[2] /\ pc' = "listen"
                          /\ 1 \in 1 .. Len(rows')
      OBVIOUS
    <3>2. Len(rows) # 1 /\ pc' = "listen"
      BY <1>4, <1>7, <3>1
    <3>3. PICK N \in Nat : N = Len(rows)
      BY <1>4
    <3>4. N # 1 /\ N >= 1 /\ Len(rows') = N - 1
      BY <1>4, <1>7, <3>2, <3>3
    <3>5. 2 \in 1 .. N /\ 1 \in 1 .. Len(rows') /\ Len(rows') \in 1 .. Len(rows') /\ Len(rows') + 1 = N
      BY <3>4
    <3>6. rows'[Len(rows')] = rows[Len(rows') + 1] /\ rows'[1] = rows[1 + 1] /\ 1 + 1 = 2
      BY <2>1, <3>5
    <3> QED BY <3>2, <3>3, <3>5, <3>6
  <2>3. /\ rows # <<>>
        /\ \A m, n \in 1 .. Len(rows) : m < n => rows[m].at <= rows[n].at
        /\ \A n \in 1 .. Len(rows) : rows[n].at >= last
        /\ kind # "sqlite" => /\ high >= last /\ high = rows[1].at
                              /\ \A n \in 1 .. Len(rows) : rows[n].at > last
    BY <1>1, <1>4, <1>7 DEF RowsInv, RowsPolled
  <2>4. kind # "sqlite" /\ rows' # <<>> => rows[1].at < rows[2].at
    <3>1. SUFFICES ASSUME kind # "sqlite", rows' # <<>> PROVE rows[1].at < rows[2].at
      OBVIOUS
    <3>2. 1 \in 1 .. Len(rows) /\ 2 \in 1 .. Len(rows) /\ 1 < 2
      BY <1>4, <2>2, <3>1
    <3>3. rows[1].at <= rows[2].at
      BY <2>3, <3>2
    <3>4. rows[1].at # rows[2].at
      <4>1. CASE kind = "oracle"
        <5>1. rows[1].at = rows[1].val /\ rows[2].at = rows[2].val /\ rows[1].val < rows[2].val
          BY <1>1, <3>2, <4>1 DEF RowsInv, RowsLogged
        <5> QED BY <1>2, <3>2, <5>1
      <4>2. CASE kind = "sqlserver"
        <5>1. /\ \A n \in 1 .. Len(rows) : log[rows[n].at].key = rows[n].key
              /\ \A m, n \in 1 .. Len(rows) : m # n => rows[m].key # rows[n].key
          BY <1>1, <4>2 DEF RowsInv, RowsNet
        <5>2. rows[1].key # rows[2].key
          BY <3>2, <5>1
        <5> QED BY <3>2, <5>1, <5>2
      <4> QED BY <1>1, <1>7, <3>1, <4>1, <4>2, KindsAssumption DEF Tails, Typed, Types
    <3> QED BY <1>2, <3>2, <3>3, <3>4
  <2>5. RowsPolled'
    <3>1. \A m, n \in 1 .. Len(rows') : m < n => rows'[m].at <= rows'[n].at
      BY <2>1, <2>3
    <3>2. \A n \in 1 .. Len(rows') : rows'[n].at >= last /\ (kind # "sqlite" => rows'[n].at > last)
      BY <2>1, <2>3
    <3>3. kind # "sqlite" => high >= last /\ (rows' # <<>> => high < rows'[1].at)
      BY <2>2, <2>3, <2>4
    <3>4. pc' = "advance" => rows' = <<>>
      BY <1>4, <1>7
    <3>5. kind # "sqlite" => high <= Len(log)
      <4>1. SUFFICES ASSUME kind # "sqlite" PROVE rows[1].at \in 1 .. Len(log)
        BY <1>2, <2>3
      <4>2. 1 \in 1 .. Len(rows)
        BY <1>4
      <4> QED BY <1>1, <1>7, <4>1, <4>2, KindsAssumption DEF RowsInv, RowsLogged, RowsNet, Tails, Typed, Types
    <3> QED BY <1>3, <1>5, <3>1, <3>2, <3>3, <3>4, <3>5 DEF RowsPolled, Handling, DbSame
  <2>6. ASSUME kind \in {"sqlite", "oracle"} PROVE RowsLogged'
    <3>1. /\ \A n \in 1 .. Len(rows) :
               /\ rows[n].val \in 1 .. Len(log)
               /\ rows[n].op = log[rows[n].val].op
               /\ rows[n].old = log[rows[n].val].old /\ rows[n].key = log[rows[n].val].key
               /\ kind = "sqlite" => rows[n].at = log[rows[n].val].time
               /\ kind = "oracle" => rows[n].at = rows[n].val
          /\ \A m, n \in 1 .. Len(rows) : m < n => rows[m].val < rows[n].val
          /\ kind = "oracle" => \A i \in 1 .. Len(log) :
               rows[1].val <= i /\ i <= rows[Len(rows)].val => i \in Held
      BY <1>1, <2>3, <2>6 DEF RowsInv, RowsLogged
    <3>2. ASSUME kind = "oracle", rows' # <<>>, NEW i \in 1 .. Len(log),
                 rows'[1].val <= i, i <= rows'[Len(rows')].val
          PROVE  i \in Held'
      <4>1. 1 \in 1 .. Len(rows) /\ rows[1].val < rows[2].val /\ rows[2].val <= i
        BY <1>4, <2>2, <3>1, <3>2
      <4>2. rows[1].val < i /\ rows[1].val <= i
        BY <1>2, <2>2, <3>2, <4>1
      <4>3. i <= rows[Len(rows)].val
        BY <2>2, <3>2
      <4>4. PICK n \in 1 .. Len(rows) : rows[n].val = i
        BY <3>1, <3>2, <4>2, <4>3 DEF Held
      <4>5. n # 1
        BY <1>2, <4>1, <4>2, <4>4
      <4>6. n - 1 \in 1 .. Len(rows') /\ (n - 1) + 1 = n
        BY <1>4, <1>7, <4>5
      <4>7. rows'[n - 1] = rows[n]
        BY <2>1, <4>6
      <4> QED BY <4>4, <4>6, <4>7 DEF Held
    <3>3. ASSUME NEW m \in 1 .. Len(rows'), NEW n \in 1 .. Len(rows'), m < n
          PROVE  rows'[m].val < rows'[n].val
      <4>1. m + 1 \in 1 .. Len(rows) /\ n + 1 \in 1 .. Len(rows) /\ m + 1 < n + 1
        BY <2>1, <3>3
      <4>2. rows'[m] = rows[m + 1] /\ rows'[n] = rows[n + 1]
        BY <2>1
      <4> QED BY <3>1, <4>1, <4>2
    <3>4. \A n \in 1 .. Len(rows') :
            /\ rows'[n].val \in 1 .. Len(log)
            /\ rows'[n].op = log[rows'[n].val].op
            /\ rows'[n].old = log[rows'[n].val].old /\ rows'[n].key = log[rows'[n].val].key
            /\ kind = "sqlite" => rows'[n].at = log[rows'[n].val].time
            /\ kind = "oracle" => rows'[n].at = rows'[n].val
      BY <2>1, <3>1
    <3> QED BY <1>3, <3>2, <3>3, <3>4 DEF RowsLogged, DbSame
  <2>7. ASSUME kind = "sqlserver" PROVE RowsNet'
    <3>1. /\ \A n \in 1 .. Len(rows) :
               /\ rows[n].at \in 1 .. Len(log) /\ log[rows[n].at].key = rows[n].key
               /\ rows[n].old = rows[n].key
               /\ rows[n].op = "d" <=> rows[n].val = 0
               /\ rows[n].val = 0 \/ Version(rows[n].val, rows[n].key)
               /\ Good(rows[n].val, rows[n].key, {i \in 1 .. Len(log) : i > rows[Len(rows)].at})
          /\ \A m, n \in 1 .. Len(rows) : m # n => rows[m].key # rows[n].key
      BY <1>1, <2>7 DEF RowsInv, RowsNet
    <3>2. \A m, n \in 1 .. Len(rows') : m # n => rows'[m].key # rows'[n].key
      BY <2>1, <3>1
    <3>3. ASSUME NEW n \in 1 .. Len(rows')
          PROVE  /\ rows'[n].at \in 1 .. Len(log) /\ log[rows'[n].at].key = rows'[n].key
                 /\ rows'[n].old = rows'[n].key
                 /\ rows'[n].op = "d" <=> rows'[n].val = 0
                 /\ rows'[n].val = 0 \/ Version(rows'[n].val, rows'[n].key)
                 /\ Good(rows'[n].val, rows'[n].key, {i \in 1 .. Len(log) : i > rows'[Len(rows')].at})
      <4>1. rows' # <<>>
        <5>1. rows' = <<>> => Len(rows') = 0
          OBVIOUS
        <5> QED BY <2>1, <3>3, <5>1
      <4>2. rows'[Len(rows')] = rows[Len(rows)]
        BY <2>2, <4>1
      <4>3. n + 1 \in 1 .. Len(rows) /\ rows'[n] = rows[n + 1]
        BY <2>1
      <4> DEFINE e == {i \in 1 .. Len(log) : i > rows[Len(rows)].at}
                 r == rows[n + 1]
      <4>4. /\ r.at \in 1 .. Len(log) /\ log[r.at].key = r.key /\ r.old = r.key
            /\ r.op = "d" <=> r.val = 0
            /\ r.val = 0 \/ Version(r.val, r.key)
            /\ Good(r.val, r.key, e)
        BY ONLY <3>1, <4>3
      <4>5. e = {i \in 1 .. Len(log) : i > rows'[Len(rows')].at} /\ rows'[n] = r
        BY ONLY <4>2, <4>3
      <4> HIDE DEF e, r
      <4> QED BY ONLY <4>4, <4>5
    <3> QED BY <1>3, <3>2, <3>3 DEF RowsNet, DbSame, Version, Good, Later, Concerns
  <2>8. RowsLogged' /\ RowsNet'
    BY <1>3, <2>6, <2>7 DEF RowsLogged, RowsNet, DbSame
  <2> QED BY <1>3, <1>5, <1>7, <2>5, <2>8 DEF RowsInv, RowsCopied, RowsTailed, RowsHalf
<1> QED BY <1>6, <1>7

\* What a step that handles a row has to show.
LEMMA HandledKeeps ==
  ASSUME IInv, Handling, Handled, engine' \in [Key -> Old .. Len(log)], dirty' \in BOOLEAN,
         ~dirty' => ~dirty /\ engine' = engine, missed' \subseteq Key,
         \A k \in Key : engine'[k] = 0 \/ Version(engine'[k], k),
         \A k \in missed : k \notin missed' =>
           engine'[k] = table[k] /\ \A n \in 2 .. Len(rows) : k \notin {rows[n].old, rows[n].key},
         \A k \in Key : k \notin missed /\ k \notin missed' => Good(engine'[k], k, Left(k)')
  PROVE  CoreInv'
<1>1. /\ DbSame /\ purged' = purged /\ clock' = clock /\ disk' = disk /\ lost' = lost
      /\ last' = last /\ pos' = pos /\ high' = high /\ seen' = seen /\ exit' = exit
  BY DEF Handled
<1>2. Typed /\ DatabaseInv /\ PositionInv /\ ListenInv /\ RowsInv /\ SqliteInv
  BY DEF IInv, CoreInv
<1>3. /\ Len(rows) \in Nat /\ Len(rows) >= 1
      /\ Tails => Len(rows) = 1 /\ rows' = rows /\ pc' = "advance"
      /\ ~Tails => /\ Len(rows') = Len(rows) - 1
                   /\ \A n \in 1 .. Len(rows') : n + 1 \in 2 .. Len(rows) /\ rows'[n] = rows[n + 1]
                   /\ pc' = IF Len(rows) = 1 THEN "advance" ELSE "listen"
                   /\ rows' = <<>> <=> Len(rows) = 1
      /\ rows' \in Seq(RowRec)
  BY RowsAfter
<1>4. Listening /\ Listening' /\ pc' \in {"listen", "advance"}
  BY <1>3 DEF Listening, Handling
<1>5. DatabaseInv' /\ DiskInv' /\ CopyInv' /\ Timed' = Timed /\ Tails' = Tails
  BY <1>1, <1>4, ListenFrame
<1>6. ValuesInv'
  BY <1>1 DEF IInv, CoreInv, ValuesInv, Version, DbSame
<1>7. Typed'
  <2>1. \A n \in 1 .. Len(rows') : rows'[n].val \in Old .. Len(log)
    <3>1. CASE Tails
      BY <1>2, <1>3, <3>1, Basics
    <3>2. CASE ~Tails
      <4>1. \A n \in 1 .. Len(rows') : n + 1 \in 1 .. Len(rows) /\ rows'[n] = rows[n + 1]
        BY <1>3, <3>2
      <4> QED BY <1>2, <4>1, Basics
    <3> QED BY <3>1, <3>2
  <2> QED BY <1>1, <1>2, <1>3, <1>4, <2>1 DEF Typed, Types, DbSame
<1>8. PositionInv'
  BY <1>1, <1>2, <1>4, <1>5 DEF PositionInv, DbSame
<1>9. ListenInv'
  <2>1. kind = "sqlite" => last # Unset
    BY <1>2, <1>4 DEF ListenInv, Handling
  <2> QED BY <1>1, <1>2, <1>4, <2>1 DEF ListenInv, DbSame
<1>10. RowsInv'
  BY RowsRest
<1>11. SqliteInv'
  <2> SUFFICES ASSUME kind = "sqlite", NEW k \in Key, k \notin missed', NEW n \in 1 .. Len(rows'),
                      k \in {rows'[n].old, rows'[n].key}
               PROVE  /\ \A j \in Later(rows[n].val, k)' : j \in Left(k)'
                      /\ disk.file => rows'[n].at > disk.last
                      /\ rows'[n].val > purged
    BY <1>1 DEF SqliteInv, DbSame
  <2>1. n + 1 \in 2 .. Len(rows) /\ n + 1 \in 1 .. Len(rows) /\ rows'[n] = rows[n + 1] /\ 1 < n + 1
        /\ 1 \in 1 .. Len(rows) /\ ~Tails
    BY <1>3 DEF Tails
  <2>2. k \notin missed /\ k \in {rows[n + 1].old, rows[n + 1].key}
    BY <2>1
  <2>3. /\ \A j \in Later(rows[n + 1].val, k) : j \in Left(k)
        /\ disk.file => rows[n + 1].at > disk.last
        /\ rows[n + 1].val > purged
    BY <1>2, <1>4, <2>1, <2>2 DEF SqliteInv
  <2>4. rows[1].val < rows[n + 1].val /\ Cur = rows[1].val
    BY <1>2, <1>4, <2>1 DEF RowsInv, RowsLogged, Cur
  <2>5. rows[1].val \in Int /\ rows[n + 1].val \in Int /\ Len(log) \in Nat
    <3>1. \A m \in 1 .. Len(rows) : rows[m].val \in Int
      BY <1>2, RowValues
    <3>2. Len(log) \in Nat
      BY <1>2, RowValues
    <3> QED BY ONLY <2>1, <3>1, <3>2
  <2>6. ASSUME NEW j \in Later(rows[n].val, k)' PROVE j \in Left(k)'
    <3>1. j \in Later(rows[n + 1].val, k) /\ j \in 1 .. Len(log) /\ j > rows[n + 1].val
      BY <1>1, <2>1, <2>6 DEF Later, Concerns, DbSame
    <3>2. j \in Left(k) /\ j # Cur
      BY <2>3, <2>4, <2>5, <3>1
    <3> QED BY <3>2, LeftAfter
  <2> QED BY <2>1, <2>3, <2>6
<1>12. ASSUME NEW k \in Key, k \notin missed' PROVE Good(engine[k], k, Left(k))'
  <2>1. Good(engine'[k], k, Left(k)')
    BY <1>12 DEF Good
  <2> QED BY <1>1, <2>1 DEF DbSame, Good, Later, Concerns
<1>13. EngineInv'
  BY <1>12 DEF EngineInv
<1> QED BY <1>5, <1>6, <1>7, <1>8, <1>9, <1>10, <1>11, <1>13 DEF IInv, CoreInv

\* Keys that the row at hand does not name are as good as before.
LEMMA OthersKept ==
  ASSUME IInv, Handling, Handled, NEW k \in Key, k \notin missed, k \notin {rows[1].old, rows[1].key}
  PROVE  Good(engine[k], k, Left(k)')
<1>1. Listening /\ Typed /\ ListenInv /\ pc # "listen"
  BY DEF IInv, CoreInv, Handling, Listening
<1>2. Good(engine[k], k, Left(k))
  BY <1>1 DEF IInv, CoreInv, EngineInv, ListenInv, Blind
<1>3. ASSUME NEW i \in Left(k), Concerns(i, k) PROVE i \in Left(k)'
  <2>1. CASE kind = "sqlserver"
    BY <2>1, <1>3, LeftAfterNet
  <2>2. CASE kind # "sqlserver"
    <3>1. i # Cur
      BY <1>3, <2>2, CurrentChange DEF Concerns
    <3> QED BY <2>2, <3>1, LeftAfter
  <2> QED BY <2>1, <2>2
<1> QED BY <1>2, <1>3, GoodMono

\* The row goes to the server interface.
LEMMA ApplyRowKeeps ==
  ASSUME IInv, ApplyRow
  PROVE  CoreInv'
<1> DEFINE r == rows[1]
           e == CASE r.op = "i" -> InsertRecord(engine, r.key, r.val)
                  [] r.op = "d" -> DeleteRecord(engine, r.old)
                  [] OTHER      -> engine
<1>1. /\ Handled /\ pc = "apply" /\ Handling
      /\ r.op = "u" => UpdateRefused(engine, r)
      /\ engine' = e /\ dirty' = (dirty \/ engine' # engine)
      /\ missed' = IF GivenUp(engine', r) THEN missed \cup {r.old, r.key}
                   ELSE missed \ {k \in {r.old, r.key} : engine'[k] = table[k] /\
                           ~(\E n \in 2 .. Len(rows) : k \in {rows[n].old, rows[n].key})}
  <2>1. Handled /\ pc = "apply" /\ Handling
    BY DEF ApplyRow, Handled, Handling, DbSame
  <2>2. Head(rows) = r
    OBVIOUS
  <2>3. /\ r.op = "u" => UpdateRefused(engine, r)
        /\ Write(e) /\ Account(e, r, GivenUp(e, r))
    BY <2>2 DEF ApplyRow
  <2> HIDE DEF e, r
  <2>4. engine' = e /\ dirty' = (dirty \/ engine' # engine)
    BY <2>3 DEF Write
  <2>5. missed' = IF GivenUp(engine', r) THEN missed \cup {r.old, r.key}
                  ELSE missed \ {k \in {r.old, r.key} : engine'[k] = table[k] /\
                          ~(\E n \in 2 .. Len(rows) : k \in {rows[n].old, rows[n].key})}
    BY <2>3, <2>4 DEF Account
  <2> QED BY <2>1, <2>3, <2>4, <2>5
<1>2. Typed /\ DatabaseInv /\ ListenInv /\ RowsInv /\ ValuesInv /\ DbSame /\ Listening
  BY <1>1 DEF IInv, CoreInv, Handled, Listening
<1>3. /\ Len(rows) \in Nat /\ Len(rows) >= 1 /\ Len(log) \in Nat
      /\ r.op \in {"i", "u", "d"} /\ r.old \in Key /\ r.key \in Key /\ r.val \in Old .. Len(log)
      /\ engine \in [Key -> Old .. Len(log)] /\ 0 \in Old .. Len(log)
  <2>1. Len(rows) \in Nat /\ Len(rows) >= 1 /\ 1 \in 1 .. Len(rows)
    BY <1>1, RowsAfter
  <2> QED BY <1>2, <2>1, Basics DEF Typed, Types, Old
<1>4. kind # "sqlserver" =>
        /\ Cur \in 1 .. Len(log) /\ r.val = Cur
        /\ r.op = log[Cur].op /\ r.old = log[Cur].old /\ r.key = log[Cur].key
  BY <1>1, CurrentChange
<1>5. kind = "sqlserver" => /\ r.old = r.key /\ (r.op = "d" <=> r.val = 0)
                            /\ r.val = 0 \/ Version(r.val, r.key)
                            /\ Good(r.val, r.key, {i \in 1 .. Len(log) : i > rows[Len(rows)].at})
  <2>1. 1 \in 1 .. Len(rows)
    BY <1>3
  <2> QED BY <1>2, <2>1 DEF RowsInv, RowsNet
<1>6. r.op # "u" => r.old = r.key
  BY <1>2, <1>4, <1>5 DEF DatabaseInv
<1>7. r.op # "d" => r.val # 0 /\ Version(r.val, r.key)
  BY <1>3, <1>4, <1>5 DEF Version
<1>8. /\ r.op = "i" => engine' = IF engine[r.key] = 0 /\ ~Full(engine) THEN [engine EXCEPT ![r.key] = r.val] ELSE engine
      /\ r.op = "d" => engine' = [engine EXCEPT ![r.old] = 0]
      /\ r.op = "u" => engine' = engine
  BY <1>1, <1>3 DEF InsertRecord, DeleteRecord
<1> HIDE DEF e, r
<1>9. engine' \in [Key -> Old .. Len(log)]
  BY <1>3, <1>8
<1>10. /\ \A k \in Key : k # r.key /\ k # r.old => engine'[k] = engine[k]
       /\ r.op = "i" => engine'[r.key] = IF engine[r.key] = 0 /\ ~Full(engine) THEN r.val ELSE engine[r.key]
       /\ r.op = "i" /\ Full(engine) => engine' = engine
       /\ r.op = "d" => engine'[r.old] = 0
  BY <1>3, <1>8
<1>11. \A k \in Key : engine'[k] = 0 \/ Version(engine'[k], k)
  <2> SUFFICES ASSUME NEW k \in Key PROVE engine'[k] = 0 \/ Version(engine'[k], k)
    OBVIOUS
  <2>1. engine[k] = 0 \/ Version(engine[k], k)
    BY <1>2 DEF ValuesInv
  <2> QED BY <1>3, <1>6, <1>7, <1>8, <1>10, <2>1
<1>12. missed' \subseteq Key
  BY <1>1, <1>2, <1>3 DEF Typed, Types
<1>13. \A k \in missed : k \notin missed' =>
         engine'[k] = table[k] /\ \A n \in 2 .. Len(rows) : k \notin {rows[n].old, rows[n].key}
  BY <1>1
<1>14. ASSUME NEW k \in Key, k \notin missed, k \notin missed' PROVE Good(engine'[k], k, Left(k)')
  <2>1. CASE k \notin {r.old, r.key}
    BY <1>1, <1>10, <1>14, <2>1, OthersKept DEF r
  <2>2. CASE k \in {r.old, r.key}
    <3>1. ~GivenUp(engine', r)
      BY <1>1, <1>14, <2>2
    <3>2. r.op = "u" => engine'[r.key] = r.val
      BY <3>1 DEF GivenUp
    <3>3. CASE kind = "sqlserver"
      <4>1. k = r.key /\ k = r.old
        BY <1>5, <2>2, <3>3
      <4>2. engine'[k] = r.val
        BY <1>3, <1>5, <1>10, <3>1, <3>2, <3>3, <4>1 DEF GivenUp
      <4>3. Good(r.val, k, {i \in 1 .. Len(log) : i > rows[Len(rows)].at})
        BY <1>5, <3>3, <4>1
      <4>4. \A i \in {j \in 1 .. Len(log) : j > rows[Len(rows)].at} : i \in Left(k)'
        BY <1>1, <3>3, <4>1, LeftAfterNet DEF r
      <4>5. Good(r.val, k, Left(k)')
        BY <4>3, <4>4, GoodMono
      <4> QED BY <4>2, <4>5
    <3>4. CASE kind # "sqlserver"
      <4>1. Concerns(Cur, k)
        BY <1>4, <2>2, <3>4 DEF Concerns
      <4>2. /\ \A i \in Left(k) : i >= Cur
            /\ \A j \in Later(Cur, k) : j \in Left(k)
        BY <1>1, <1>14, <3>4, <4>1, CurrentChange
      <4>3. \A i \in Left(k) : i # Cur => i \in Left(k)'
        BY <1>1, <3>4, LeftAfter
      <4>4. \A j \in Later(Cur, k) : j \in Left(k)'
        BY <1>3, <1>4, <3>4, <4>2, <4>3 DEF Later
      <4>5. CASE r.op = "d"
        <5>1. engine'[k] = 0 /\ ~Version(Cur, k)
          BY <1>3, <1>4, <1>6, <1>10, <2>2, <3>4, <4>5 DEF Version, Old
        <5>2. Good(0, k, Left(k)')
          BY <1>2, <1>4, <3>4, <4>1, <4>4, <5>1, GoodRemoved
        <5> QED BY <5>1, <5>2
      <4>6. CASE r.op = "i" /\ engine[k] = 0
        <5>0. ~Full(engine)
          BY <1>6, <1>10, <2>2, <3>1, <4>6 DEF GivenUp, NoPlace
        <5>1. k = r.key /\ engine'[k] = Cur
          BY <1>4, <1>6, <1>10, <2>2, <3>4, <4>6, <5>0
        <5>2. Good(Cur, k, Left(k)')
          BY <1>3, <1>4, <3>4, <4>4, GoodInserted
        <5> QED BY <5>1, <5>2
      <4>7. CASE r.op = "i" /\ engine[k] # 0
        <5>1. k = r.key /\ engine'[k] = engine[k]
          BY <1>6, <1>10, <2>2, <4>7
        <5>2. Version(engine[k], k) /\ engine[k] \in Old .. Len(log)
          BY <1>2, <1>3, <4>7 DEF ValuesInv
        <5>3. Good(engine[k], k, Left(k))
          BY <1>1, <1>2, <1>14 DEF IInv, CoreInv, EngineInv, ListenInv, Blind
        <5>4. log[Cur].key = k /\ log[Cur].op = "i"
          BY <1>4, <3>4, <4>7, <5>1
        <5>5. Good(engine[k], k, Left(k)')
          BY <1>2, <1>4, <3>4, <4>2, <4>3, <4>7, <5>2, <5>3, <5>4, GoodKept
        <5> QED BY <5>1, <5>5
      <4>8. CASE r.op = "u" /\ k = r.key
        <5>1. engine'[k] = Cur
          BY <1>4, <3>2, <3>4, <4>8
        <5>2. Good(Cur, k, Left(k)')
          BY <1>3, <1>4, <3>4, <4>4, GoodInserted
        <5> QED BY <5>1, <5>2
      <4>9. CASE r.op = "u" /\ k # r.key
        <5>1. k = r.old /\ kind # "mongo"
          BY <1>2, <1>4, <2>2, <3>4, <4>9 DEF DatabaseInv
        <5>2. engine'[k] = 0
          BY <1>1, <1>8, <4>9, <5>1 DEF UpdateRefused, LookUpFails
        <5>3. ~Version(Cur, k)
          BY <1>3, <1>4, <3>4, <4>9 DEF Version, Old
        <5>4. Good(0, k, Left(k)')
          BY <1>2, <1>4, <3>4, <4>1, <4>4, <5>3, GoodRemoved
        <5> QED BY <5>2, <5>4
      <4> QED BY <1>3, <4>5, <4>6, <4>7, <4>8, <4>9
    <3> QED BY <3>3, <3>4
  <2> QED BY <2>1, <2>2
<1>15. dirty' \in BOOLEAN /\ (~dirty' => ~dirty /\ engine' = engine)
  BY <1>1, <1>2 DEF Typed, Types
<1> QED BY <1>1, <1>9, <1>11, <1>12, <1>13, <1>14, <1>15, HandledKeeps

\* The second half of an update.
LEMMA UpdateInsertKeeps ==
  ASSUME IInv, UpdateInsert
  PROVE  CoreInv'
<1> DEFINE r == rows[1]
           e == Reinsert(engine, r)
<1>1. /\ Handled /\ pc = "reinsert" /\ Handling
      /\ engine' = e /\ dirty' = (dirty \/ engine' # engine)
      /\ missed' = IF Full(engine) THEN missed \cup {r.old, r.key}
                   ELSE missed \ {k \in {r.old, r.key} : engine'[k] = table[k] /\
                          ~(\E n \in 2 .. Len(rows) : k \in {rows[n].old, rows[n].key})}
  <2>1. Handled /\ pc = "reinsert" /\ Handling
    BY DEF UpdateInsert, Handled, Handling, DbSame
  <2>2. Head(rows) = r
    OBVIOUS
  <2>3. Write(e) /\ Account(e, r, Full(engine))
    BY <2>2 DEF UpdateInsert
  <2> HIDE DEF e, r
  <2>4. engine' = e /\ dirty' = (dirty \/ engine' # engine)
    BY <2>3 DEF Write
  <2>5. missed' = IF Full(engine) THEN missed \cup {r.old, r.key}
                  ELSE missed \ {k \in {r.old, r.key} : engine'[k] = table[k] /\
                         ~(\E n \in 2 .. Len(rows) : k \in {rows[n].old, rows[n].key})}
    BY <2>3, <2>4 DEF Account
  <2> QED BY <2>1, <2>3, <2>4, <2>5
<1>2. Typed /\ DatabaseInv /\ ListenInv /\ RowsInv /\ ValuesInv /\ DbSame /\ Listening
  BY <1>1 DEF IInv, CoreInv, Handled, Listening
<1>3. /\ Len(rows) \in Nat /\ Len(rows) >= 1 /\ 1 \in 1 .. Len(rows) /\ Len(log) \in Nat
      /\ r.old \in Key /\ r.key \in Key /\ r.val \in Old .. Len(log) /\ r.val \in Int
      /\ engine \in [Key -> Old .. Len(log)] /\ 0 \in Old .. Len(log)
  <2>1. Len(rows) \in Nat /\ Len(rows) >= 1 /\ 1 \in 1 .. Len(rows)
    BY <1>1, RowsAfter
  <2> QED BY <1>2, <2>1, Basics DEF Typed, Types, Old
<1>4. kind # "sqlserver" =>
        /\ Cur \in 1 .. Len(log) /\ r.val >= Cur
        /\ r.op = log[Cur].op /\ r.old = log[Cur].old /\ r.key = log[Cur].key
  BY <1>1, CurrentChange
<1>5. kind = "sqlserver" => /\ r.old = r.key /\ (r.op = "d" <=> r.val = 0)
                            /\ r.val = 0 \/ Version(r.val, r.key)
                            /\ Good(r.val, r.key, {i \in 1 .. Len(log) : i > rows[Len(rows)].at})
  BY <1>2, <1>3 DEF RowsInv, RowsNet
<1>6. r.op = "u" /\ engine[r.old] = 0
  BY <1>1, <1>2 DEF RowsInv, RowsHalf
<1>7. r.val # 0 /\ Version(r.val, r.key)
  <2>1. CASE Tails
    BY <1>1, <1>2, <1>3, <1>4, <2>1 DEF RowsInv, RowsTailed, Tails
  <2>2. CASE kind \in {"sqlite", "oracle"}
    BY <1>3, <1>4, <1>6, <2>2 DEF Version, Cur, Tails
  <2>3. CASE kind = "sqlserver"
    BY <1>5, <1>6, <2>3
  <2> QED BY <1>2, <2>1, <2>2, <2>3, KindsAssumption DEF Tails, Typed, Types
<1>8. /\ ~Full(engine) => engine' = IF engine[r.key] = 0 THEN [engine EXCEPT ![r.key] = r.val] ELSE engine
      /\ Full(engine) => engine' = engine \/ engine' = [engine EXCEPT ![r.old] = kept]
  BY <1>1 DEF InsertRecord, Reinsert
<1>16. kept \in Old .. Len(log) /\ (kept = 0 \/ Version(kept, r.old))
  BY <1>1 DEF IInv, LimitInv
<1> HIDE DEF e, r
<1>9. engine' \in [Key -> Old .. Len(log)]
  BY <1>3, <1>8, <1>16
<1>10. /\ \A k \in Key : k \notin {r.old, r.key} => engine'[k] = engine[k]
       /\ ~Full(engine) =>
            /\ \A k \in Key : k # r.key => engine'[k] = engine[k]
            /\ engine'[r.key] = IF engine[r.key] = 0 THEN r.val ELSE engine[r.key]
       /\ Full(engine) => \A k \in Key : engine'[k] = engine[k] \/ (k = r.old /\ engine'[k] = kept)
  <2>1. CASE ~Full(engine)
    BY <1>3, <1>8, <2>1
  <2>2. CASE Full(engine) /\ engine' = engine
    BY <2>2
  <2>3. CASE Full(engine) /\ engine' = [engine EXCEPT ![r.old] = kept]
    BY <1>3, <2>3
  <2> QED BY <1>8, <2>1, <2>2, <2>3
<1>11. \A k \in Key : engine'[k] = 0 \/ Version(engine'[k], k)
  <2>1. CASE Full(engine)
    BY <1>2, <1>10, <1>16, <2>1 DEF ValuesInv
  <2>2. CASE ~Full(engine)
    BY <1>2, <1>7, <1>10, <2>2 DEF ValuesInv
  <2> QED BY <2>1, <2>2
<1>12. missed' \subseteq Key
  BY <1>1, <1>2, <1>3 DEF Typed, Types
<1>13. \A k \in missed : k \notin missed' =>
         engine'[k] = table[k] /\ \A n \in 2 .. Len(rows) : k \notin {rows[n].old, rows[n].key}
  BY <1>1
<1>14. ASSUME NEW k \in Key, k \notin missed, k \notin missed' PROVE Good(engine'[k], k, Left(k)')
  <2>0. k \in {r.old, r.key} => ~Full(engine)
    BY <1>1, <1>14
  <2>1. CASE k \notin {r.old, r.key}
    BY <1>1, <1>10, <1>14, <2>1, OthersKept DEF r
  <2>2. CASE k \in {r.old, r.key} /\ kind = "sqlserver"
    <3>1. k = r.key /\ k = r.old
      BY <1>5, <2>2
    <3>2. engine'[k] = r.val
      BY <1>6, <1>10, <2>0, <3>1
    <3>3. Good(r.val, k, {i \in 1 .. Len(log) : i > rows[Len(rows)].at})
      BY <1>5, <2>2, <3>1
    <3>4. \A i \in {j \in 1 .. Len(log) : j > rows[Len(rows)].at} : i \in Left(k)'
      BY <1>1, <2>2, <3>1, LeftAfterNet DEF r
    <3>5. Good(r.val, k, Left(k)')
      BY <3>3, <3>4, GoodMono
    <3> QED BY <3>2, <3>5
  <2>3. CASE k \in {r.old, r.key} /\ kind # "sqlserver"
    <3>1. Concerns(Cur, k)
      BY <1>4, <2>3 DEF Concerns
    <3>2. /\ \A i \in Left(k) : i >= Cur
          /\ \A j \in Later(Cur, k) : j \in Left(k)
      BY <1>1, <1>14, <2>3, <3>1, CurrentChange
    <3>3. \A i \in Left(k) : i # Cur => i \in Left(k)'
      BY <1>1, <2>3, LeftAfter
    <3>4. \A j \in Later(Cur, k) : j \in Left(k)'
      BY <1>3, <1>4, <2>3, <3>2, <3>3 DEF Later
    <3>5. CASE k = r.key /\ engine[k] = 0
      <4>1. engine'[k] = r.val
        BY <1>10, <2>0, <3>5
      <4>2. Good(r.val, k, Left(k)')
        BY <1>3, <1>4, <2>3, <3>4, GoodInserted
      <4> QED BY <4>1, <4>2
    <3>6. CASE k = r.key /\ engine[k] # 0
      <4>1. engine'[k] = engine[k] /\ r.old # r.key
        BY <1>6, <1>10, <2>0, <3>6
      <4>2. Version(engine[k], k) /\ engine[k] \in Old .. Len(log)
        BY <1>2, <1>3, <3>6 DEF ValuesInv
      <4>3. Good(engine[k], k, Left(k))
        BY <1>1, <1>2, <1>14 DEF IInv, CoreInv, EngineInv, ListenInv, Blind
      <4>4. log[Cur].key = k /\ log[Cur].old # log[Cur].key
        BY <1>4, <2>3, <3>6, <4>1
      <4>5. Good(engine[k], k, Left(k)')
        BY <1>2, <1>4, <2>3, <3>2, <3>3, <3>6, <4>2, <4>3, <4>4, GoodKept
      <4> QED BY <4>1, <4>5
    <3>7. CASE k # r.key
      <4>1. engine'[k] = 0
        BY <1>6, <1>10, <2>0, <2>3, <3>7
      <4>2. ~Version(Cur, k)
        BY <1>3, <1>4, <2>3, <3>7 DEF Version, Old
      <4>3. Good(0, k, Left(k)')
        BY <1>2, <1>4, <2>3, <3>1, <3>4, <4>2, GoodRemoved
      <4> QED BY <4>1, <4>3
    <3> QED BY <3>5, <3>6, <3>7
  <2> QED BY <2>1, <2>2, <2>3
<1>15. dirty' \in BOOLEAN /\ (~dirty' => ~dirty /\ engine' = engine)
  BY <1>1, <1>2 DEF Typed, Types
<1> QED BY <1>1, <1>9, <1>11, <1>12, <1>13, <1>14, <1>15, HandledKeeps

\* The first half: the key has no row, and the change is still left.
LEMMA UpdateDeleteKeeps ==
  ASSUME IInv, UpdateDelete
  PROVE  CoreInv'
<1> DEFINE r == rows[1]
           w == UpdateValue(r)
<1>1. /\ DbSame /\ purged' = purged /\ clock' = clock /\ disk' = disk /\ lost' = lost
      /\ missed' = missed /\ last' = last /\ pos' = pos /\ high' = high /\ seen' = seen
      /\ exit' = exit /\ pc = "apply" /\ pc' = "reinsert" /\ r.op = "u" /\ ~UpdateRefused(engine, r)
      /\ engine' = [engine EXCEPT ![r.old] = 0] /\ dirty' = (dirty \/ engine' # engine)
      /\ rows' = <<[r EXCEPT !.val = w]>> \o Tail(rows)
  <2>1. Head(rows) = r
    OBVIOUS
  <2> HIDE DEF r
  <2> QED BY <2>1 DEF UpdateDelete, DbSame, Write, DeleteRecord
<1>2. Typed /\ DatabaseInv /\ PositionInv /\ ListenInv /\ RowsInv /\ SqliteInv /\ ValuesInv
      /\ Handling /\ Listening /\ Listening'
  BY <1>1 DEF IInv, CoreInv, Handling, Listening
<1>3. /\ rows \in Seq(RowRec) /\ Len(rows) \in Nat /\ Len(rows) >= 1 /\ 1 \in 1 .. Len(rows)
  <2>1. rows # <<>>
    BY <1>1, <1>2 DEF RowsInv, RowsTailed, RowsPolled
  <2> QED BY <1>2, <2>1, EmptySeq DEF Typed
<1>4. /\ Len(log) \in Nat /\ r \in RowRec /\ r.old \in Key /\ r.key \in Key
      /\ r.val \in Old .. Len(log) /\ 0 \in Old .. Len(log)
      /\ engine \in [Key -> Old .. Len(log)]
      /\ \A k \in Key : table[k] \in Old .. Len(log)
  <2>1. r \in RowRec
    BY <1>3
  <2> QED BY <1>2, <1>3, <2>1, Basics DEF Typed, Types, Old
<1>5. w = IF kind = "mongo" THEN table[r.key] ELSE r.val
  BY DEF UpdateValue
<1>6. w \in Old .. Len(log) /\ w \in Int
  BY <1>4, <1>5 DEF Old
<1> HIDE DEF w
<1>7. /\ Len(rows') = Len(rows) /\ rows' \in Seq(RowRec)
      /\ rows'[1] = [r EXCEPT !.val = w]
      /\ \A n \in 2 .. Len(rows) : rows'[n] = rows[n]
  <2>1. [r EXCEPT !.val = w] \in RowRec
    BY <1>4, <1>6 DEF RowRec
  <2>2. Tail(rows) \in Seq(RowRec) /\ Len(Tail(rows)) = Len(rows) - 1
        /\ \A n \in 1 .. Len(rows) - 1 : Tail(rows)[n] = rows[n + 1]
    BY <1>3
  <2> DEFINE q == [r EXCEPT !.val = w]
             t == Tail(rows)
  <2> HIDE DEF q, t
  <2>3. /\ <<q>> \o t \in Seq(RowRec) /\ Len(<<q>> \o t) = 1 + Len(t)
        /\ (<<q>> \o t)[1] = q
        /\ \A n \in 2 .. 1 + Len(t) : (<<q>> \o t)[n] = t[n - 1]
    BY <2>1, <2>2 DEF q, t
  <2>4. rows' = <<q>> \o t
    BY <1>1 DEF q, t
  <2>5. \A n \in 2 .. Len(rows) : rows'[n] = rows[n]
    <3> SUFFICES ASSUME NEW n \in 2 .. Len(rows) PROVE rows'[n] = rows[n]
      OBVIOUS
    <3>1. n \in 2 .. 1 + Len(t) /\ n - 1 \in 1 .. Len(rows) - 1 /\ (n - 1) + 1 = n
      BY <1>3, <2>2 DEF t
    <3>2. rows'[n] = t[n - 1] /\ t[n - 1] = rows[(n - 1) + 1]
      BY <2>2, <2>3, <2>4, <3>1 DEF t
    <3> QED BY <3>1, <3>2
  <2> QED BY <1>3, <2>2, <2>3, <2>4, <2>5 DEF q, t
<1>8. /\ rows'[1].op = "u" /\ rows'[1].old = r.old /\ rows'[1].key = r.key /\ rows'[1].at = r.at
      /\ rows'[1].val = w
  BY <1>1, <1>4, <1>7 DEF RowRec
<1> HIDE DEF r
<1>9. /\ \A n \in 1 .. Len(rows) : /\ rows'[n].op = rows[n].op /\ rows'[n].old = rows[n].old
                                   /\ rows'[n].key = rows[n].key /\ rows'[n].at = rows[n].at
      /\ kind # "mongo" => \A n \in 1 .. Len(rows) : rows'[n].val = rows[n].val
      /\ rows' # <<>> /\ rows # <<>>
  <2>1. \A n \in 1 .. Len(rows) : n = 1 \/ n \in 2 .. Len(rows)
    BY <1>3
  <2>2. rows' # <<>> /\ rows # <<>>
    BY <1>3, <1>7
  <2> QED BY <1>1, <1>5, <1>7, <1>8, <2>1, <2>2 DEF r
<1>10. engine' \in [Key -> Old .. Len(log)] /\ engine'[r.old] = 0
       /\ \A k \in Key : k # r.old => engine'[k] = engine[k]
  BY <1>1, <1>4
<1>11. DatabaseInv' /\ DiskInv' /\ CopyInv' /\ Timed' = Timed /\ Tails' = Tails
  BY <1>1, <1>2, ListenFrame
<1>12. ValuesInv'
  BY <1>1, <1>2, <1>10 DEF ValuesInv, Version, DbSame
<1>13. Typed'
  <2>1. \A n \in 1 .. Len(rows') : rows'[n].val \in Old .. Len(log)
    <3>1. \A n \in 1 .. Len(rows') : n = 1 \/ n \in 2 .. Len(rows)
      BY <1>3, <1>7
    <3>2. \A n \in 2 .. Len(rows) : rows[n].val \in Old .. Len(log)
      BY <1>2, <1>3 DEF Typed
    <3> QED BY <1>6, <1>7, <1>8, <3>1, <3>2
  <2>2. dirty' \in BOOLEAN
    BY <1>1, <1>2 DEF Typed, Types
  <2> QED BY <1>1, <1>2, <1>7, <1>10, <2>1, <2>2 DEF Typed, Types, DbSame
<1>14. PositionInv'
  BY <1>1, <1>2, <1>11 DEF PositionInv, DbSame
<1>15. ListenInv'
  <2>1. kind = "sqlite" => last # Unset
    BY <1>1, <1>2 DEF ListenInv
  <2> QED BY <1>1, <1>2, <2>1 DEF ListenInv, DbSame
<1>16. RowsInv'
  <2>1. RowsTailed'
    <3>1. SUFFICES ASSUME Tails PROVE RowsTailed'
      BY <1>11 DEF RowsTailed
    <3>2. kind # "sqlserver" /\ Cur = pos + 1
      BY <3>1 DEF Tails, Cur
    <3>3. /\ Len(rows) = 1 /\ pos + 1 <= Len(log)
          /\ r.op = log[pos + 1].op /\ r.old = log[pos + 1].old /\ r.key = log[pos + 1].key
          /\ r.at = log[pos + 1].time /\ last <= r.at /\ r.val = pos + 1
      BY <1>1, <1>2, <3>1 DEF RowsInv, RowsTailed, r
    <3>4. w >= pos + 1 /\ Version(w, r.key)
      <4>1. pos + 1 \in 1 .. Len(log)
        BY <1>2, <3>2, CurrentChange
      <4>2. CASE kind = "mongo"
        <5>1. table[r.key] # 0
          BY <1>1, <4>2 DEF UpdateRefused, LookUpFails
        <5>2. Version(table[r.key], r.key) /\ Later(table[r.key], r.key) = {}
          BY <1>2, <1>4, <5>1 DEF DatabaseInv
        <5>3. Concerns(pos + 1, r.key)
          BY <3>3 DEF Concerns
        <5>4. ~(pos + 1 > table[r.key])
          BY <4>1, <5>2, <5>3 DEF Later
        <5> QED BY <1>4, <1>5, <1>6, <4>1, <4>2, <5>2, <5>4
      <4>3. CASE kind # "mongo"
        BY <1>1, <1>5, <3>3, <4>1, <4>3 DEF Version
      <4> QED BY <4>2, <4>3
    <3> QED BY <1>1, <1>7, <1>8, <3>1, <3>3, <3>4 DEF RowsTailed, DbSame, Version
  <2>2. RowsPolled'
    <3>1. SUFFICES ASSUME ~Tails PROVE RowsPolled'
      BY <1>11 DEF RowsPolled
    <3>2. /\ \A m, n \in 1 .. Len(rows) : m < n => rows[m].at <= rows[n].at
          /\ \A n \in 1 .. Len(rows) : rows[n].at >= last
          /\ kind = "sqlite" => last = rows[1].at
          /\ kind # "sqlite" => /\ high >= last /\ high = rows[1].at
                                /\ \A n \in 1 .. Len(rows) : rows[n].at > last
      BY <1>2, <3>1 DEF RowsInv, RowsPolled
    <3>3. \A m, n \in 1 .. Len(rows) : m < n => rows'[m].at <= rows'[n].at
      BY <1>9, <3>2
    <3>4. /\ \A n \in 1 .. Len(rows) : rows'[n].at >= last
          /\ rows'[1].at = rows[1].at
          /\ kind # "sqlite" => \A n \in 1 .. Len(rows) : rows'[n].at > last
      BY <1>3, <1>9, <3>2
    <3> QED BY <1>1, <1>7, <1>9, <3>2, <3>3, <3>4 DEF RowsPolled, DbSame
  <2>3. ASSUME kind \in {"sqlite", "oracle"} PROVE RowsLogged'
    <3>1. \A n \in 1 .. Len(rows) : /\ rows'[n].op = rows[n].op /\ rows'[n].old = rows[n].old
                                    /\ rows'[n].key = rows[n].key /\ rows'[n].at = rows[n].at
                                    /\ rows'[n].val = rows[n].val
      BY <1>9, <2>3
    <3>2. Held' = Held
      BY <1>7, <3>1 DEF Held
    <3>3. /\ \A n \in 1 .. Len(rows) :
               /\ rows[n].val \in 1 .. Len(log)
               /\ rows[n].op = log[rows[n].val].op
               /\ rows[n].old = log[rows[n].val].old /\ rows[n].key = log[rows[n].val].key
               /\ kind = "sqlite" => rows[n].at = log[rows[n].val].time
               /\ kind = "oracle" => rows[n].at = rows[n].val
          /\ \A m, n \in 1 .. Len(rows) : m < n => rows[m].val < rows[n].val
          /\ kind = "oracle" => \A i \in 1 .. Len(log) :
               rows[1].val <= i /\ i <= rows[Len(rows)].val => i \in Held
      BY <1>2, <1>9, <2>3 DEF RowsInv, RowsLogged
    <3>4. \A m, n \in 1 .. Len(rows) : m < n => rows'[m].val < rows'[n].val
      BY <3>1, <3>3
    <3>5. rows'[1].val = rows[1].val /\ rows'[Len(rows)].val = rows[Len(rows)].val
      BY <1>3, <3>1
    <3>6. \A n \in 1 .. Len(rows) :
            /\ rows'[n].val \in 1 .. Len(log)
            /\ rows'[n].op = log[rows'[n].val].op
            /\ rows'[n].old = log[rows'[n].val].old /\ rows'[n].key = log[rows'[n].val].key
            /\ kind = "sqlite" => rows'[n].at = log[rows'[n].val].time
            /\ kind = "oracle" => rows'[n].at = rows'[n].val
      BY <3>1, <3>3
    <3>7. kind = "oracle" => \A i \in 1 .. Len(log) :
            rows'[1].val <= i /\ i <= rows'[Len(rows)].val => i \in Held'
      BY <3>2, <3>3, <3>5
    <3> QED BY <1>1, <1>7, <3>4, <3>6, <3>7 DEF RowsLogged, DbSame
  <2>4. ASSUME kind = "sqlserver" PROVE RowsNet'
    <3>1. \A n \in 1 .. Len(rows) : /\ rows'[n].op = rows[n].op /\ rows'[n].old = rows[n].old
                                    /\ rows'[n].key = rows[n].key /\ rows'[n].at = rows[n].at
                                    /\ rows'[n].val = rows[n].val
      BY <1>9, <2>4
    <3>2. rows'[Len(rows)].at = rows[Len(rows)].at
      BY <1>3, <3>1
    <3>3. /\ \A n \in 1 .. Len(rows) :
               /\ rows[n].at \in 1 .. Len(log) /\ log[rows[n].at].key = rows[n].key
               /\ rows[n].old = rows[n].key
               /\ rows[n].op = "d" <=> rows[n].val = 0
               /\ rows[n].val = 0 \/ Version(rows[n].val, rows[n].key)
               /\ Good(rows[n].val, rows[n].key, {i \in 1 .. Len(log) : i > rows[Len(rows)].at})
          /\ \A m, n \in 1 .. Len(rows) : m # n => rows[m].key # rows[n].key
      BY <1>2, <2>4 DEF RowsInv, RowsNet
    <3>4. ASSUME NEW n \in 1 .. Len(rows')
          PROVE  /\ rows'[n].at \in 1 .. Len(log) /\ log[rows'[n].at].key = rows'[n].key
                 /\ rows'[n].old = rows'[n].key
                 /\ rows'[n].op = "d" <=> rows'[n].val = 0
                 /\ rows'[n].val = 0 \/ Version(rows'[n].val, rows'[n].key)
                 /\ Good(rows'[n].val, rows'[n].key, {i \in 1 .. Len(log) : i > rows'[Len(rows')].at})
      <4>1. n \in 1 .. Len(rows) /\ rows'[Len(rows')].at = rows[Len(rows)].at
        BY <1>7, <3>2
      <4>2. /\ rows'[n].op = rows[n].op /\ rows'[n].old = rows[n].old
            /\ rows'[n].key = rows[n].key /\ rows'[n].at = rows[n].at
            /\ rows'[n].val = rows[n].val
        BY <3>1, <4>1
      <4> QED BY <3>3, <4>1, <4>2
    <3>5. \A m, n \in 1 .. Len(rows') : m # n => rows'[m].key # rows'[n].key
      BY <1>7, <3>1, <3>3
    <3>6. DbSame
      BY <1>1
    <3> QED BY <3>4, <3>5, <3>6 DEF RowsNet, DbSame, Version, Good, Later, Concerns
  <2>5. RowsLogged' /\ RowsNet'
    BY <1>1, <2>3, <2>4 DEF RowsLogged, RowsNet, DbSame
  <2> QED BY <1>1, <1>8, <1>10, <2>1, <2>2, <2>5 DEF RowsInv, RowsCopied, RowsHalf
<1>17. ASSUME NEW k \in Key PROVE \A i \in Left(k) : i \in Left(k)'
  <2>1. \A i : i \in ToCome(pos, last) => i \in ToCome(pos, last)'
    BY <1>1, ToComeCases DEF DbSame
  <2>2. CASE Tails
    BY <1>1, <1>11, <2>1, <2>2, LeftTails
  <2>3. CASE kind = "sqlite"
    <3>1. Held' = Held
      BY <1>7, <1>9, <2>3 DEF Held
    <3> QED BY <1>1, <2>1, <2>3, <3>1, LeftSqlite DEF DbSame
  <2>4. CASE kind = "oracle"
    <3>1. rows'[1].val = rows[1].val
      BY <1>3, <1>9, <2>4
    <3> QED BY <1>1, <1>9, <2>4, <3>1, LeftOracle DEF DbSame
  <2>5. CASE kind = "sqlserver"
    <3>1. HasRow(k)' <=> HasRow(k)
      BY <1>7, <1>9 DEF HasRow
    <3>2. rows'[Len(rows')].at = rows[Len(rows)].at
      BY <1>3, <1>7, <1>9
    <3> QED BY <1>1, <1>9, <2>5, <3>1, <3>2, LeftSQLServer DEF DbSame
  <2> QED BY <1>2, <2>2, <2>3, <2>4, <2>5, KindsAssumption DEF Tails, Typed, Types
<1>18. SqliteInv'
  <2>1. ASSUME kind = "sqlite", NEW k \in Key \ missed, NEW n \in 1 .. Len(rows'),
               k \in {rows'[n].old, rows'[n].key}
        PROVE  /\ \A j \in Later(rows[n].val, k)' : j \in Left(k)'
               /\ disk.file => rows'[n].at > disk.last
               /\ rows'[n].val > purged
    <3>1. n \in 1 .. Len(rows)
      BY <1>7
    <3>2. /\ rows'[n].old = rows[n].old /\ rows'[n].key = rows[n].key
          /\ rows'[n].at = rows[n].at /\ rows'[n].val = rows[n].val
      BY <1>9, <2>1, <3>1
    <3>3. /\ \A j \in Later(rows[n].val, k) : j \in Left(k)
          /\ disk.file => rows[n].at > disk.last
          /\ rows[n].val > purged
      BY <1>2, <2>1, <3>1, <3>2 DEF SqliteInv
    <3>4. ASSUME NEW j \in Later(rows[n].val, k)' PROVE j \in Left(k)'
      <4>1. j \in Later(rows[n].val, k)
        BY <1>1, <3>2, <3>4 DEF Later, Concerns, DbSame
      <4> QED BY <1>17, <3>3, <4>1
    <3> QED BY <3>2, <3>3, <3>4
  <2>2. kind' = kind /\ missed' = missed /\ disk' = disk /\ purged' = purged
    BY <1>1 DEF DbSame
  <2> QED BY <2>1, <2>2 DEF SqliteInv
<1>19. ASSUME NEW k \in Key \ missed PROVE Good(engine[k], k, Left(k))'
  <2>1. Good(engine'[k], k, Left(k))
    <3>1. CASE k # r.old
      BY <1>1, <1>2, <1>10, <1>19, <3>1 DEF IInv, CoreInv, EngineInv, ListenInv, Blind
    <3>2. CASE k = r.old
      <4>1. CASE kind = "sqlserver"
        <5>1. /\ r.at \in 1 .. Len(log) /\ r.at > last /\ log[r.at].key = k /\ r.key = k
          BY <1>2, <1>3, <3>2, <4>1 DEF RowsInv, RowsNet, RowsPolled, Tails, r
        <5>2. HasRow(k)
          BY <1>3, <5>1 DEF HasRow, r
        <5>3. r.at \in Left(k)
          BY <4>1, <5>1, <5>2, LeftSQLServer
        <5> QED BY <1>10, <3>2, <5>1, <5>3 DEF Good, Concerns
      <4>2. CASE kind # "sqlserver"
        <5>1. Concerns(Cur, k)
          BY <1>2, <3>2, <4>2, CurrentChange DEF Concerns, r
        <5>2. Cur \in Left(k)
          BY <1>2, <1>19, <4>2, <5>1, CurrentChange
        <5> QED BY <1>10, <3>2, <5>1, <5>2 DEF Good
      <4> QED BY <4>1, <4>2
    <3> QED BY <3>1, <3>2
  <2>2. Good(engine'[k], k, Left(k)')
    BY <1>17, <2>1, GoodMono
  <2> QED BY <1>1, <2>2 DEF DbSame, Good, Later, Concerns
<1>20. EngineInv'
  BY <1>1, <1>19 DEF EngineInv
<1> QED BY <1>11, <1>12, <1>13, <1>14, <1>15, <1>16, <1>18, <1>20 DEF IInv, CoreInv

-----------------------------------------------------------------------------
(* The copy of the table, and the position to start from. *)

\* Most of the invariant is about a connector that listens.
LEMMA Unlistened ==
  ASSUME ~Listening'
  PROVE  ListenInv' /\ SqliteInv' /\ EngineInv' /\ (RowsCopied' => RowsInv')
BY DEF Listening, ListenInv, SqliteInv, EngineInv, RowsInv, RowsTailed, RowsPolled, RowsLogged, RowsNet,
       RowsHalf

\* A step of the copy touches neither the database nor the disk.
LEMMA CopyFrame ==
  ASSUME IInv, DbSame, purged' = purged, clock' = clock, disk' = disk, lost' = lost,
         pc # "off", ~Listening', Copying' => Copying, ~dirty' => ~dirty /\ engine' = engine
  PROVE  /\ DatabaseInv' /\ DiskInv' /\ ListenInv' /\ SqliteInv' /\ EngineInv'
         /\ RowsCopied' => RowsInv'
         /\ Timed' = Timed /\ Tails' = Tails /\ Resume' = Resume /\ (Usable' <=> Usable)
<1>1. Typed /\ DatabaseInv /\ clock \in Nat
  BY Basics DEF IInv, CoreInv
<1>2. DatabaseInv'
  BY <1>1, DatabaseFrame
<1>3. DiskInv'
  BY DiskFrame
<1> QED BY <1>2, <1>3, Unlistened, DbFrame, ResumeFrame

\* SELECT * FROM table.
LEMMA ScanBeginKeeps ==
  ASSUME IInv, ScanBegin
  PROVE  CoreInv'
<1> DEFINE S == {k \in Key : table[k] # 0}
           held == SetToSeq(S)
           N == Cardinality(S)
           row(k) == [op |-> "i", old |-> k, key |-> k, val |-> table[k], at |-> Unset]
<1>1. /\ DbSame /\ purged' = purged /\ clock' = clock /\ disk' = disk /\ lost' = lost
      /\ missed' = missed /\ engine' = engine /\ dirty' = dirty /\ pc = "connect" /\ pc' = "scan"
      /\ last' = last /\ pos' = pos /\ seen' = seen /\ exit' = exit /\ high' = high
      /\ rows' = [n \in 1 .. Len(held) |-> row(held[n])]
  BY DEF ScanBegin, DbSame
<1>2. Typed /\ DatabaseInv /\ PositionInv /\ CopyInv /\ ValuesInv
  BY DEF IInv, CoreInv
<1>3. N \in Nat /\ held \in [1 .. N -> S] /\ \A x \in S : \E n \in 1 .. N : held[n] = x
  <2>1. IsFiniteSet(S)
    <3>1. S \in SUBSET Key
      OBVIOUS
    <3> QED BY <3>1, KeyAssumption, FS_Subset
  <2> HIDE DEF S
  <2> QED BY <2>1, SetToSeqLists
<1>4. \A k \in S : k \in Key /\ table[k] # 0 /\ table[k] \in Old .. Len(log) /\ table[k] \in Int
  BY <1>2, Basics DEF Old
<1> HIDE DEF S, N, held
<1>5. Len(held) = N
  BY <1>3
<1>6. \A k \in S : /\ row(k) \in RowRec /\ row(k).op = "i" /\ row(k).old = k /\ row(k).key = k
                   /\ row(k).val = table[k]
  BY <1>4 DEF RowRec, Unset
<1> HIDE DEF row
<1>7. rows' \in [1 .. N -> RowRec] /\ \A n \in 1 .. N : rows'[n] = row(held[n]) /\ held[n] \in S
  BY <1>1, <1>3, <1>5, <1>6
<1>8. rows' \in Seq(RowRec) /\ Len(rows') = N
  BY <1>3, <1>7
<1>9. \A n \in 1 .. Len(rows') :
        /\ rows'[n].key \in S /\ rows'[n].old = rows'[n].key /\ rows'[n].val = table[rows'[n].key]
        /\ rows'[n].key \in Key /\ rows'[n].val # 0 /\ rows'[n].val \in Old .. Len(log)
  BY <1>4, <1>6, <1>7, <1>8
<1>10. \A k \in S : \E n \in 1 .. Len(rows') : rows'[n].key = k
  BY <1>3, <1>6, <1>7, <1>8
<1>11. ~Listening' /\ Copying' /\ Copying
  BY <1>1 DEF Listening, Copying
<1>12. /\ DatabaseInv' /\ DiskInv' /\ ListenInv' /\ SqliteInv' /\ EngineInv'
       /\ RowsCopied' => RowsInv'
       /\ Timed' = Timed /\ Tails' = Tails /\ Resume' = Resume /\ (Usable' <=> Usable)
  BY <1>1, <1>11, CopyFrame
<1>13. Typed'
  BY <1>1, <1>2, <1>8, <1>9 DEF Typed, Types, DbSame
<1>14. ValuesInv'
  BY <1>1, <1>2 DEF ValuesInv, Version, DbSame
<1>15. PositionInv'
  BY <1>1, <1>2, <1>12 DEF PositionInv, DbSame
<1>16. RowsInv'
  <2>1. \A n \in 1 .. Len(rows') : Version(rows'[n].val, rows'[n].key)
    BY <1>2, <1>9 DEF DatabaseInv
  <2>2. RowsCopied'
    BY <1>1, <1>9, <2>1 DEF RowsCopied, Version, DbSame
  <2> QED BY <1>12, <2>2
<1>17. CopyInv'
  <2>0. DbSame /\ missed' = missed /\ engine' = engine /\ pc' = "scan"
    BY <1>1
  <2> SUFFICES ASSUME Usable
               PROVE  /\ \A k \in Key \ missed : engine[k] = 0 \/ Good(engine[k], k, Resume)
                      /\ \A k \in Key \ missed : \/ Good(engine[k], k, Resume)
                                                 \/ \E n \in 1 .. Len(rows') : rows'[n].key = k
                      /\ \A n \in 1 .. Len(rows') : Good(rows'[n].val, rows'[n].key, Resume)
    BY <1>12, <2>0 DEF CopyInv, Good, Later, Concerns, DbSame
  <2>1. \A k \in Key \ missed : engine[k] = 0 \/ Good(engine[k], k, Resume)
    BY <1>2, <1>11 DEF CopyInv
  <2>2. ASSUME NEW k \in Key \ missed
        PROVE  Good(engine[k], k, Resume) \/ \E n \in 1 .. Len(rows') : rows'[n].key = k
    <3>1. CASE k \in S
      BY <1>10, <3>1
    <3>2. CASE k \notin S
      <4>1. table[k] = 0
        BY <3>2 DEF S
      <4> QED BY <2>1, <2>2, <4>1 DEF Good
    <3> QED BY <3>1, <3>2
  <2>3. \A n \in 1 .. Len(rows') : Good(rows'[n].val, rows'[n].key, Resume)
    BY <1>9 DEF Good
  <2> QED BY <2>1, <2>2, <2>3
<1> QED BY <1>12, <1>13, <1>14, <1>15, <1>16, <1>17 DEF IInv, CoreInv

\* One row of the table goes into the index.
LEMMA ScanRowKeeps ==
  ASSUME IInv, ScanRow
  PROVE  CoreInv'
<1> DEFINE r == rows[1]
<1>1. /\ DbSame /\ purged' = purged /\ clock' = clock /\ disk' = disk /\ lost' = lost
      /\ missed' = (IF engine[r.key] = 0 /\ Full(engine) THEN missed \cup {r.key} ELSE missed)
      /\ pc = "scan" /\ pc' = pc
      /\ last' = last /\ pos' = pos /\ seen' = seen /\ exit' = exit /\ high' = high
      /\ rows # <<>> /\ rows' = Tail(rows) /\ dirty' = (dirty \/ engine' # engine)
      /\ engine' = IF engine[r.key] = 0 /\ ~Full(engine) THEN [engine EXCEPT ![r.key] = r.val] ELSE engine
  <2>1. Head(rows) = r
    OBVIOUS
  <2> HIDE DEF r
  <2> QED BY <2>1 DEF ScanRow, DbSame, Write, InsertRecord, NoPlace
<1>2. Typed /\ PositionInv /\ CopyInv /\ ValuesInv /\ RowsInv
  BY DEF IInv, CoreInv
<1>3. rows \in Seq(RowRec) /\ Len(rows) \in Nat /\ Len(rows) >= 1 /\ 1 \in 1 .. Len(rows)
  BY <1>1, <1>2, EmptySeq DEF Typed
<1>4. /\ rows' \in Seq(RowRec) /\ Len(rows') = Len(rows) - 1
      /\ \A n \in 1 .. Len(rows') : n + 1 \in 1 .. Len(rows) /\ rows'[n] = rows[n + 1]
  BY <1>1, <1>3
<1>5. /\ r.key \in Key /\ r.val \in Old .. Len(log) /\ engine \in [Key -> Old .. Len(log)]
      /\ dirty \in BOOLEAN
  BY <1>2, <1>3, Basics DEF Typed, Types
<1>6. r.val # 0 /\ Version(r.val, r.key)
  BY <1>1, <1>2, <1>3 DEF RowsInv, RowsCopied
<1>7. /\ engine' \in [Key -> Old .. Len(log)]
      /\ \A k \in Key : k # r.key => engine'[k] = engine[k]
      /\ engine'[r.key] = IF engine[r.key] = 0 /\ ~Full(engine) THEN r.val ELSE engine[r.key]
      /\ missed' \subseteq Key /\ missed \subseteq missed'
      /\ r.key \notin missed' => engine'[r.key] = r.val \/ (engine[r.key] # 0 /\ engine'[r.key] = engine[r.key])
  <2>1. missed \subseteq Key
    BY <1>2 DEF Typed, Types
  <2> HIDE DEF r
  <2>2. CASE engine[r.key] = 0 /\ Full(engine)
    BY <1>1, <1>5, <2>1, <2>2
  <2>3. CASE engine[r.key] = 0 /\ ~Full(engine)
    BY <1>1, <1>5, <2>1, <2>3
  <2>4. CASE engine[r.key] # 0
    BY <1>1, <1>5, <2>1, <2>4
  <2> QED BY <2>2, <2>3, <2>4
<1>8. dirty' \in BOOLEAN /\ (~dirty' => ~dirty /\ engine' = engine)
  BY <1>1, <1>5
<1>9. ~Listening' /\ Copying' /\ Copying
  BY <1>1 DEF Listening, Copying
<1>10. /\ DatabaseInv' /\ DiskInv' /\ ListenInv' /\ SqliteInv' /\ EngineInv'
       /\ RowsCopied' => RowsInv'
       /\ Timed' = Timed /\ Tails' = Tails /\ Resume' = Resume /\ (Usable' <=> Usable)
  BY <1>1, <1>8, <1>9, CopyFrame
<1>11. Typed'
  <2>1. \A n \in 1 .. Len(rows') : rows'[n].val \in Old .. Len(log)
    BY <1>2, <1>4, Basics
  <2> QED BY <1>1, <1>2, <1>4, <1>7, <1>8, <2>1 DEF Typed, Types, DbSame
<1>12. ValuesInv'
  <2> HIDE DEF r
  <2> QED BY <1>1, <1>2, <1>6, <1>7 DEF ValuesInv, Version, DbSame
<1>13. PositionInv'
  BY <1>1, <1>2, <1>10 DEF PositionInv, DbSame
<1>14. RowsInv'
  <2>1. \A n \in 1 .. Len(rows) :
          rows[n].old = rows[n].key /\ rows[n].val # 0 /\ Version(rows[n].val, rows[n].key)
    BY <1>1, <1>2 DEF RowsInv, RowsCopied
  <2>2. \A n \in 1 .. Len(rows') :
          rows'[n].old = rows'[n].key /\ rows'[n].val # 0 /\ Version(rows'[n].val, rows'[n].key)
    BY <1>4, <2>1
  <2>3. RowsCopied'
    BY <1>1, <2>2 DEF RowsCopied, Version, DbSame
  <2> QED BY <1>10, <2>3
<1>15. CopyInv'
  <2> HIDE DEF r
  <2> SUFFICES ASSUME Usable
               PROVE  /\ \A k \in Key \ missed' : engine'[k] = 0 \/ Good(engine'[k], k, Resume)
                      /\ \A k \in Key \ missed' : \/ Good(engine'[k], k, Resume)
                                                  \/ \E n \in 1 .. Len(rows') : rows'[n].key = k
                      /\ \A n \in 1 .. Len(rows') :
                           rows'[n].key \in missed' \/ Good(rows'[n].val, rows'[n].key, Resume)
    BY <1>1, <1>10 DEF CopyInv, Good, Later, Concerns, DbSame
  <2>1. /\ \A k \in Key \ missed : engine[k] = 0 \/ Good(engine[k], k, Resume)
        /\ \A k \in Key \ missed : \/ Good(engine[k], k, Resume)
                                   \/ \E n \in 1 .. Len(rows) : rows[n].key = k
        /\ \A n \in 1 .. Len(rows) : rows[n].key \in missed \/ Good(rows[n].val, rows[n].key, Resume)
    BY <1>1, <1>2, <1>9 DEF CopyInv
  <2>2. r.key \in missed' \/ Good(engine'[r.key], r.key, Resume)
    <3>1. r.key \in missed \/ Good(r.val, r.key, Resume)
      BY <1>3, <2>1 DEF r
    <3> QED BY <1>5, <1>7, <2>1, <3>1
  <2>3. \A k \in Key \ missed' : engine'[k] = 0 \/ Good(engine'[k], k, Resume)
    BY <1>7, <2>1, <2>2
  <2>4. ASSUME NEW k \in Key \ missed'
        PROVE  Good(engine'[k], k, Resume) \/ \E n \in 1 .. Len(rows') : rows'[n].key = k
    <3>1. CASE k = r.key
      BY <2>2, <2>4, <3>1
    <3>2. CASE k # r.key /\ Good(engine[k], k, Resume)
      BY <1>7, <3>2
    <3>3. ASSUME k # r.key, NEW n \in 1 .. Len(rows), rows[n].key = k
          PROVE  \E m \in 1 .. Len(rows') : rows'[m].key = k
      <4>1. n # 1
        BY <3>3 DEF r
      <4>2. n - 1 \in 1 .. Len(rows') /\ (n - 1) + 1 = n
        BY <1>3, <1>4, <4>1
      <4>3. rows'[n - 1] = rows[n]
        BY <1>4, <4>2
      <4> QED BY <3>3, <4>2, <4>3
    <3> QED BY <1>7, <2>1, <2>4, <3>1, <3>2, <3>3
  <2>5. \A n \in 1 .. Len(rows') : rows'[n].key \in missed' \/ Good(rows'[n].val, rows'[n].key, Resume)
    BY <1>4, <1>7, <2>1
  <2> QED BY <2>3, <2>4, <2>5
<1> QED BY <1>10, <1>11, <1>12, <1>13, <1>14, <1>15 DEF IInv, CoreInv

\* An error sends the copy back to its beginning; what was inserted stays.
LEMMA ScanErrorKeeps ==
  ASSUME IInv, ScanError
  PROVE  CoreInv'
<1>1. /\ DbSame /\ purged' = purged /\ clock' = clock /\ disk' = disk /\ lost' = lost
      /\ missed' = missed /\ engine' = engine /\ dirty' = dirty /\ pc = "scan" /\ pc' = "connect"
      /\ last' = last /\ pos' = pos /\ seen' = seen /\ exit' = exit /\ high' = high /\ rows' = <<>>
  BY DEF ScanError, DbSame
<1>2. Typed /\ PositionInv /\ CopyInv /\ ValuesInv
  BY DEF IInv, CoreInv
<1>3. ~Listening' /\ Copying' /\ Copying
  BY <1>1 DEF Listening, Copying
<1>4. /\ DatabaseInv' /\ DiskInv' /\ ListenInv' /\ SqliteInv' /\ EngineInv'
      /\ RowsCopied' => RowsInv'
      /\ Timed' = Timed /\ Tails' = Tails /\ Resume' = Resume /\ (Usable' <=> Usable)
  BY <1>1, <1>3, CopyFrame
<1>5. Typed'
  BY <1>1, <1>2 DEF Typed, Types, DbSame
<1>6. ValuesInv'
  BY <1>1, <1>2 DEF ValuesInv, Version, DbSame
<1>7. PositionInv'
  BY <1>1, <1>2, <1>4 DEF PositionInv, DbSame
<1>8. RowsInv'
  BY <1>1, <1>4 DEF RowsCopied
<1>9. CopyInv'
  BY <1>1, <1>2, <1>3, <1>4 DEF CopyInv, Good, Later, Concerns, DbSame
<1> QED BY <1>4, <1>5, <1>6, <1>7, <1>8, <1>9 DEF IInv, CoreInv

\* After the copy, everything read is in the index.
LEMMA ScanEndKeeps ==
  ASSUME IInv, ScanEnd
  PROVE  CoreInv'
<1>1. /\ DbSame /\ purged' = purged /\ clock' = clock /\ disk' = disk /\ lost' = lost
      /\ missed' = missed /\ engine' = engine /\ dirty' = dirty /\ pc = "scan" /\ pc' = "load"
      /\ pos' = pos /\ seen' = seen /\ exit' = exit /\ high' = high /\ rows' = rows /\ rows = <<>>
      /\ last' \in StampAfterCopy
  BY DEF ScanEnd, DbSame
<1>2. Typed /\ PositionInv /\ CopyInv /\ ValuesInv
  BY DEF IInv, CoreInv
<1>3. ~Listening' /\ ~Copying'
  BY <1>1 DEF Listening, Copying
<1>4. /\ DatabaseInv' /\ DiskInv' /\ ListenInv' /\ SqliteInv' /\ EngineInv'
      /\ RowsCopied' => RowsInv'
      /\ Timed' = Timed /\ Tails' = Tails /\ Resume' = Resume /\ (Usable' <=> Usable)
  BY <1>1, <1>3, CopyFrame
<1>5. Len(log) \in Nat /\ clock \in Nat /\ last \in Int
  BY <1>2, Basics
<1>6. last' \in Int /\ last' >= Unset /\ (Timed => last' <= clock) /\ (kind = "mysql" => last' = last)
  BY <1>1, <1>2, <1>5, BoundsAssumption
     DEF StampAfterCopy, MaxRSID, MaxChangeVersion, TimeAfterCopy, PositionInv, Timed, Unset
<1>7. Typed'
  BY <1>1, <1>2, <1>6 DEF Typed, Types, DbSame
<1>8. ValuesInv'
  BY <1>1, <1>2 DEF ValuesInv, Version, DbSame
<1>9. PositionInv'
  BY <1>1, <1>2, <1>4, <1>6 DEF PositionInv, DbSame
<1>10. RowsInv'
  BY <1>1, <1>4 DEF RowsCopied
<1>11. CopyInv'
  <2>1. ASSUME Usable, NEW k \in Key \ missed PROVE Good(engine[k], k, Resume)
    BY <1>1, <1>2, <2>1 DEF CopyInv
  <2> QED BY <1>1, <1>3, <1>4, <2>1 DEF CopyInv, Good, Later, Concerns, DbSame
<1> QED BY <1>4, <1>7, <1>8, <1>9, <1>10, <1>11 DEF IInv, CoreInv

\* A key none of whose changes was passed is one the listener will put right.
LEMMA NotPassed ==
  ASSUME Typed, DatabaseInv, NEW index, NEW p, NEW l, NEW k \in Key, k \notin Passed(index, p, l),
         Copied(index[k], k)
  PROVE  Good(index[k], k, ToCome(p, l))
<1>1. Needed(index[k], k) \subseteq ToCome(p, l)
  BY DEF Passed
<1>2. CASE index[k] = table[k]
  BY <1>2 DEF Good
<1>3. CASE index[k] # table[k] /\ index[k] = 0
  <2>1. table[k] # 0 /\ table[k] # Old
    BY <1>3 DEF Copied
  <2>2. table[k] \in ToCome(p, l)
    BY <1>1, <1>3, <2>1 DEF Needed
  <2>3. Version(table[k], k)
    BY <2>1 DEF DatabaseInv
  <2>4. Concerns(table[k], k)
    BY <2>1, <2>3 DEF Version, Concerns
  <2> QED BY <1>3, <2>2, <2>4 DEF Good
<1>4. CASE index[k] # table[k] /\ index[k] # 0
  <2>1. Later(index[k], k) \subseteq ToCome(p, l)
    BY <1>1, <1>4 DEF Needed, Later
  <2> QED BY <1>4, <2>1 DEF Good
<1> QED BY <1>2, <1>3, <1>4

\* A listener that has read nothing yet is given all that is to come.
LEMMA LeftFresh ==
  ASSUME Typed', rows' = <<>>, pc' = "listen", NEW k, NEW i \in ToCome(pos, last)'
  PROVE  i \in Left(k)'
<1>1. purged' \in Nat /\ Len(log') \in Nat /\ kind' \in Kinds
  BY DEF Typed, Types
<1>2. i \in purged' + 1 .. Len(log')
  BY ToComeCases
<1>3. i \in 1 .. Len(log')
  <2>1. \A a, b \in Nat : a + 1 .. b \subseteq 1 .. b
    OBVIOUS
  <2> QED BY <1>1, <1>2, <2>1
<1>4. CASE Tails'
  BY <1>4, LeftTails
<1>5. CASE kind' = "sqlite"
  BY <1>5, LeftSqlite
<1>6. CASE kind' = "oracle"
  <2>1. i > last'
    BY <1>6, ToComeCases
  <2> QED BY <1>3, <1>6, <2>1, LeftOracle
<1>7. CASE kind' = "sqlserver"
  <2>1. i > last'
    BY <1>7, ToComeCases
  <2>2. ~HasRow(k)'
    BY DEF HasRow
  <2> QED BY <1>3, <1>7, <2>1, <2>2, LeftSQLServer
<1> QED BY <1>1, <1>4, <1>5, <1>6, <1>7, KindsAssumption DEF Tails

\* The position to start from.
LEMMA LoadPositionKeeps ==
  ASSUME IInv, LoadPosition
  PROVE  CoreInv'
<1> DEFINE known == IF kind = "mysql" THEN LoadMySQL.known ELSE disk.file /\ ~EmptyFile
<1>1. /\ DbSame /\ purged' = purged /\ clock' = clock /\ disk' = disk /\ lost' = lost
      /\ engine' = engine /\ dirty' = dirty /\ pc = "load"
      /\ seen' = seen /\ exit' = exit /\ high' = high /\ rows' = rows
      /\ pc' = IF Blank /\ purged > 0 THEN "stuck" ELSE "listen"
  BY DEF LoadPosition, DbSame
<1>2. missed' = {k \in missed : engine[k] # table[k]}
                  \cup IF known THEN {} ELSE Passed(engine, pos', last')
  BY DEF LoadPosition
<1>3. Typed /\ DatabaseInv /\ PositionInv /\ CopyInv /\ ValuesInv /\ RowsInv
  BY DEF IInv, CoreInv
<1>4. /\ Len(log) \in Nat /\ purged \in 0 .. Len(log) /\ clock \in Nat /\ last \in Int
      /\ disk.last \in Int /\ disk.pos \in 0 .. Len(log) /\ disk.file \in BOOLEAN
  BY <1>3, Basics
<1>5. rows = <<>> /\ seen = 0
  BY <1>1, <1>3 DEF RowsInv, RowsCopied, PositionInv
<1>8. \A k \in Key \ missed : Copied(engine[k], k)
  BY <1>1 DEF IInv, CopiedInv
<1>9. ASSUME NEW k \in Key, ~known, k \notin missed' PROVE Good(engine[k], k, ToCome(pos', last'))
  <2>1. k \notin Passed(engine, pos', last') /\ (k \in missed => engine[k] = table[k])
    BY <1>2, <1>9
  <2>2. CASE engine[k] = table[k]
    BY <2>2 DEF Good
  <2>3. CASE engine[k] # table[k]
    BY <1>3, <1>8, <2>1, <2>3, NotPassed
  <2> QED BY <2>2, <2>3
<1>6. CASE kind = "mysql"
  <2>1. \/ known /\ disk.file /\ pos' = disk.pos /\ last' = disk.last /\ (Blank \/ disk.pos >= purged)
        \/ ~known /\ ~(disk.file /\ (Blank \/ disk.pos >= purged)) /\ pos' = purged /\ last' = clock
    BY <1>6 DEF LoadPosition, LoadMySQL
  <2>2. Blank <=> disk.file /\ disk.last = Unset
    BY <1>6 DEF Blank
  <2>3. (disk.last = Unset => disk.pos = 0) /\ (~disk.file => disk.last = Unset) /\ disk.last <= clock
        /\ disk.last >= Unset
    BY <1>3, <1>6 DEF PositionInv, Timed
  <2>4. /\ pos' \in 0 .. Len(log) /\ last' \in Int /\ last' <= clock /\ last' >= Unset
        /\ last' = Unset => pos' = 0
        /\ pc' = "listen" => pos' >= purged
        /\ disk.pos <= pos' /\ disk.last <= last'
        /\ pc' = "stuck" => /\ disk.file /\ disk.last = Unset /\ last' = Unset /\ pos' = 0 /\ purged > 0
        /\ pc' \in {"listen", "stuck"}
    BY <1>1, <1>4, <2>1, <2>2, <2>3 DEF Unset
  <2> HIDE DEF known
  <2>5. missed' \subseteq Key
    BY <1>2, <1>3 DEF Typed, Types, Passed
  <2>6. Typed'
    BY <1>1, <1>3, <2>4, <2>5 DEF Typed, Types, DbSame
  <2>7. Timed' = Timed /\ Tails' = Tails /\ Resume' = Resume /\ (Usable' <=> Usable) /\ Timed /\ Tails
    BY <1>1, <1>6, DbFrame, ResumeFrame DEF Timed, Tails
  <2>8. PositionInv'
    BY <1>1, <1>3, <1>5, <1>6, <2>4, <2>7 DEF PositionInv, DbSame
  <2>9. ListenInv'
    BY <1>1, <1>6, <2>4 DEF ListenInv, DbSame, Listening
  <2>10. ASSUME pc' = "listen", NEW k \in Key, k \notin missed' PROVE Good(engine[k], k, Left(k))'
    <3>1. Good(engine[k], k, ToCome(pos', last'))
      <4>1. CASE known
        <5>1. pos' = disk.pos /\ last' = disk.last /\ disk.file /\ disk.pos >= purged
          BY <2>1, <2>4, <2>10, <4>1
        <5>2. k \notin missed \/ engine[k] = table[k]
          BY <1>2, <2>10
        <5>3. Usable
          BY <1>6, <5>1 DEF Usable
        <5>4. k \notin missed => Good(engine[k], k, Resume)
          BY <1>1, <1>3, <5>3 DEF CopyInv
        <5> QED BY <5>1, <5>2, <5>4 DEF Resume, Good
      <4>2. CASE ~known
        BY <1>9, <2>10, <4>2
      <4> QED BY <4>1, <4>2
    <3>2. \A i \in ToCome(pos', last') : i \in ToCome(pos, last)'
      BY <1>1, ToComeCases DEF DbSame
    <3>3. \A i \in ToCome(pos', last') : i \in Left(k)'
      BY <1>1, <1>5, <2>6, <2>10, <3>2, LeftFresh
    <3>4. Good(engine[k], k, Left(k)')
      BY <3>1, <3>3, GoodMono
    <3> QED BY <1>1, <3>4 DEF DbSame, Good, Later, Concerns
  <2>11. EngineInv'
    BY <2>4, <2>10 DEF EngineInv, Listening
  <2>12. DatabaseInv' /\ DiskInv'
    BY <1>1, <1>3, <1>4, <2>4, DatabaseFrame, DiskFrame DEF Copying
  <2>13. ValuesInv'
    BY <1>1, <1>3 DEF ValuesInv, Version, DbSame
  <2>14. CopyInv'
    BY <2>4 DEF CopyInv, Copying
  <2>15. RowsInv' /\ SqliteInv'
    BY <1>1, <1>5, <2>4 DEF RowsInv, RowsCopied, RowsTailed, RowsPolled, RowsLogged, RowsNet, RowsHalf,
                            Handling, Listening, SqliteInv
  <2> QED BY <2>6, <2>8, <2>9, <2>11, <2>12, <2>13, <2>14, <2>15 DEF IInv, CoreInv
<1>7. CASE kind # "mysql"
  <2>1. pos' = 0 /\ known = (disk.file /\ ~EmptyFile) /\ pc' = "listen"
    BY <1>1, <1>7 DEF LoadPosition, Blank
  <2>2. /\ disk.file /\ ~EmptyFile => last' = disk.last
        /\ EmptyFile => last' = last
        /\ ~disk.file /\ last # Unset => last' = last
        /\ ~disk.file /\ last = Unset =>
             IF kind \in {"oracle", "sqlserver"} THEN last' \in {0, MaxChanges, Len(log)} ELSE last' = clock
    <3>1. \/ kind = "mongo" /\ last' \in LoadMongo
          \/ kind = "oracle" /\ last' \in LoadOracle
          \/ kind = "sqlserver" /\ last' \in LoadSQLServer
          \/ kind \notin {"mongo", "oracle", "sqlserver"} /\ last' \in LoadSQLite
      BY <1>7 DEF LoadPosition
    <3> QED BY <3>1 DEF EmptyFile, LoadSQLite, LoadMongo, LoadOracle, LoadSQLServer, LoadElse, MaxRSID, MaxChangeVersion
  <2> HIDE DEF known
  <2>3. /\ last >= Unset /\ disk.last >= Unset /\ disk.pos = 0 /\ (~disk.file => disk.last = Unset)
        /\ Timed => last <= clock /\ disk.last <= clock
    BY <1>3, <1>7 DEF PositionInv
  <2>4. /\ last' \in Int /\ last' >= Unset /\ (Timed => last' <= clock) /\ disk.last <= last'
        /\ ~disk.file => last' # Unset
    BY <1>4, <2>2, <2>3, BoundsAssumption DEF EmptyFile, Unset, Timed
  <2>5. missed' \subseteq Key
    BY <1>2, <1>3 DEF Typed, Types, Passed
  <2>6. Typed'
    BY <1>1, <1>3, <1>4, <2>1, <2>4, <2>5 DEF Typed, Types, DbSame
  <2>7. Timed' = Timed /\ Tails' = Tails /\ Resume' = Resume /\ (Usable' <=> Usable)
    BY <1>1, DbFrame, ResumeFrame
  <2>8. PositionInv'
    BY <1>1, <1>3, <1>5, <1>7, <2>1, <2>4, <2>7 DEF PositionInv, DbSame
  <2>9. ListenInv'
    <3>1. \A i \in 1 .. Len(log) : 0 <= log[i].time
      BY <1>3, Basics
    <3> QED BY <1>1, <1>5, <1>7, <2>1, <2>2, <2>4, <3>1 DEF EmptyFile, ListenInv, DbSame
  <2>10. ASSUME ~Blind', NEW k \in Key, k \notin missed' PROVE Good(engine[k], k, Left(k))'
    <3>1. Good(engine[k], k, ToCome(pos', last'))
      <4>1. CASE disk.file /\ ~EmptyFile
        <5>1. pos' = disk.pos /\ last' = disk.last
          BY <2>1, <2>2, <2>3, <4>1
        <5>2. k \notin missed \/ engine[k] = table[k]
          BY <1>2, <2>10
        <5>3. Usable
          BY <1>1, <1>7, <2>10, <5>1 DEF Usable, Blind, DbSame
        <5>4. k \notin missed => Good(engine[k], k, Resume)
          BY <1>1, <1>3, <5>3 DEF CopyInv
        <5> QED BY <4>1, <5>1, <5>2, <5>4 DEF Resume, Good
      <4>2. CASE ~(disk.file /\ ~EmptyFile)
        BY <1>9, <2>1, <2>10, <4>2 DEF known
      <4> QED BY <4>1, <4>2
    <3>2. \A i \in ToCome(pos', last') : i \in ToCome(pos, last)'
      BY <1>1, ToComeCases DEF DbSame
    <3>3. \A i \in ToCome(pos', last') : i \in Left(k)'
      BY <1>1, <1>5, <2>1, <2>6, <3>2, LeftFresh
    <3>4. Good(engine[k], k, Left(k)')
      BY <3>1, <3>3, GoodMono
    <3> QED BY <1>1, <3>4 DEF DbSame, Good, Later, Concerns
  <2>11. EngineInv'
    BY <2>10 DEF EngineInv
  <2>12. DatabaseInv' /\ DiskInv'
    BY <1>1, <1>3, <1>4, <2>1, DatabaseFrame, DiskFrame DEF Copying
  <2>13. ValuesInv'
    BY <1>1, <1>3 DEF ValuesInv, Version, DbSame
  <2>14. CopyInv'
    BY <2>1 DEF CopyInv, Copying
  <2>15. RowsInv' /\ SqliteInv'
    BY <1>1, <1>5, <2>1 DEF RowsInv, RowsCopied, RowsTailed, RowsPolled, RowsLogged, RowsNet, RowsHalf,
                            Handling, Listening, SqliteInv
  <2> QED BY <2>6, <2>8, <2>9, <2>11, <2>12, <2>13, <2>14, <2>15 DEF IInv, CoreInv
<1> QED BY <1>6, <1>7

-----------------------------------------------------------------------------
(* The index and the position on disk. *)

\* What is left is ahead of a position that is not later than the connector's.
LEMMA LeftAhead ==
  ASSUME IInv, Listening, NEW k \in Key, k \notin missed, NEW p \in Nat, NEW l \in Int, l <= last,
         kind = "mysql" => p <= pos, kind = "mongo" => p = 0,
         kind = "sqlite" => /\ l # Unset /\ last # Unset
                            /\ \A n \in 1 .. Len(rows) : k \in {rows[n].old, rows[n].key} => rows[n].at > l,
         NEW i \in Left(k), Concerns(i, k)
  PROVE  i \in ToCome(p, l)
<1>1. Typed /\ DatabaseInv /\ PositionInv /\ ListenInv /\ RowsInv /\ SqliteInv
  BY DEF IInv, CoreInv
<1>2. /\ Len(log) \in Nat /\ Len(rows) \in Nat /\ last \in Int /\ high \in Int /\ pos \in Nat
      /\ purged \in Nat /\ disk.last \in Int
      /\ \A j \in 1 .. Len(log) : log[j].time \in Nat
      /\ \A n \in 1 .. Len(rows) : rows[n].at \in Int /\ rows[n].val \in Int
  BY <1>1, Basics DEF Old
<1>3. rows # <<>> => Len(rows) >= 1
  BY <1>1, <1>2, EmptySeq DEF Typed
<1>4. CASE Tails
  <2>1. i \in purged + 1 .. Len(log) /\ i > pos /\ log[i].time >= last
    BY <1>4, LeftTails, ToComeCases DEF Tails
  <2>2. i \in 1 .. Len(log)
    BY <1>2, <2>1
  <2>3. i > p
    BY <1>2, <1>4, <2>1, <2>2 DEF Tails
  <2>4. log[i].time >= l
    BY <1>2, <2>1, <2>2
  <2> QED BY <1>4, <2>1, <2>3, <2>4, ToComeCases DEF Tails
<1>5. CASE kind = "sqlite"
  <2>1. CASE i \in ToCome(pos, last)
    <3>1. i \in purged + 1 .. Len(log) /\ log[i].time > last
      BY <1>5, <2>1, ToComeCases
    <3>2. i \in 1 .. Len(log)
      BY <1>2, <3>1
    <3>3. log[i].time > l
      BY <1>2, <3>1, <3>2
    <3> QED BY <1>5, <3>1, <3>3, ToComeCases
  <2>2. CASE i \in Held
    <3>1. PICK n \in 1 .. Len(rows) : rows[n].val = i
      BY <2>2 DEF Held
    <3>2. /\ i \in 1 .. Len(log) /\ rows[n].old = log[i].old /\ rows[n].key = log[i].key
          /\ rows[n].at = log[i].time
      BY <1>1, <1>5, <3>1 DEF RowsInv, RowsLogged
    <3>3. k \in {rows[n].old, rows[n].key}
      BY <3>2 DEF Concerns
    <3>4. log[i].time > l
      BY <1>5, <3>2, <3>3
    <3>5. rows[n].val > purged
      BY <1>1, <1>5, <3>3 DEF SqliteInv
    <3>6. i \in purged + 1 .. Len(log)
      BY <1>2, <3>1, <3>2, <3>5
    <3> QED BY <1>5, <3>4, <3>6, ToComeCases
  <2> QED BY <1>5, <2>1, <2>2, LeftSqlite
<1>6. CASE kind = "oracle"
  <2>1. rows # <<>> => rows[1].val > last /\ rows[1].val \in Int
    BY <1>1, <1>2, <1>3, <1>6 DEF RowsInv, RowsPolled, RowsLogged, Tails
  <2>2. pc = "advance" => high >= last
    BY <1>1, <1>6 DEF RowsInv, RowsPolled, Tails
  <2>3. i \in 1 .. Len(log) /\ (rows # <<>> => i >= rows[1].val)
        /\ (rows = <<>> /\ pc = "advance" => i > high) /\ (rows = <<>> /\ pc # "advance" => i > last)
    BY <1>6, LeftOracle
  <2>4. i > last
    BY <1>2, <2>1, <2>2, <2>3
  <2>5. i > l /\ i \in purged + 1 .. Len(log)
    BY <1>1, <1>2, <1>6, <2>3, <2>4 DEF PositionInv
  <2> QED BY <1>6, <2>5, ToComeCases
<1>7. CASE kind = "sqlserver"
  <2>1. rows # <<>> => rows[Len(rows)].at > last /\ rows[Len(rows)].at \in Int
    BY <1>1, <1>2, <1>3, <1>7 DEF RowsInv, RowsPolled, Tails
  <2>2. pc = "advance" => high >= last
    BY <1>1, <1>7 DEF RowsInv, RowsPolled, Tails
  <2>3. /\ i \in 1 .. Len(log) /\ (HasRow(k) => i > last)
        /\ ~HasRow(k) /\ rows # <<>> => i > rows[Len(rows)].at
        /\ ~HasRow(k) /\ rows = <<>> /\ pc = "advance" => i > high
        /\ ~HasRow(k) /\ rows = <<>> /\ pc # "advance" => i > last
    BY <1>7, LeftSQLServer
  <2>4. i > last
    BY <1>2, <2>1, <2>2, <2>3
  <2>5. i > l /\ i \in purged + 1 .. Len(log)
    BY <1>1, <1>2, <1>7, <2>3, <2>4 DEF PositionInv
  <2> QED BY <1>7, <2>5, ToComeCases
<1> QED BY <1>1, <1>4, <1>5, <1>6, <1>7, KindsAssumption DEF Tails, Typed, Types

\* An index saved now needs what data.bin promises, save for what LostByIndex names.
LEMMA SavedGood ==
  ASSUME IInv, pc # "off", ~Copying, Usable, NEW k \in Key, k \notin LostByIndex
  PROVE  Good(engine[k], k, Resume)
<1>1. Typed /\ DatabaseInv /\ PositionInv /\ ListenInv /\ CopyInv /\ SqliteInv
  BY DEF IInv, CoreInv
<1>2. /\ k \notin missed
      /\ kind = "mongo" /\ pc # "load" /\ last < disk.last =>
           k \notin Passed(engine, 0, disk.last)
  BY DEF LostByIndex, Copying
<1>3. pc \in {"load", "listen", "apply", "reinsert", "advance", "stuck"}
  BY <1>1 DEF Typed, Types, Copying
<1>4. CASE pc = "load"
  BY <1>1, <1>2, <1>4 DEF CopyInv
<1>5. CASE pc = "stuck"
  <2>1. kind = "mysql" /\ purged > 0 /\ disk.file /\ disk.pos = 0
    BY <1>1, <1>5 DEF PositionInv
  <2>2. disk.pos >= purged /\ purged \in Nat
    BY <1>1, <2>1, Basics DEF Usable
  <2> QED BY <2>1, <2>2
<1>6. CASE Listening
  <2>1. CASE engine[k] = table[k]
    BY <2>1 DEF Good
  <2>3. CASE kind = "mongo" /\ last < disk.last
    <3>1. /\ disk.pos = 0 /\ last >= Unset /\ (~disk.file => disk.last = Unset)
          /\ last \in Int /\ disk.last \in Int
      BY <1>1, <2>3, Basics DEF PositionInv
    <3>2. disk.file
      BY <2>3, <3>1 DEF Unset
    <3>3. k \notin Passed(engine, 0, disk.last) /\ Copied(engine[k], k)
      BY <1>2, <1>6, <2>3 DEF IInv, CopiedInv, Listening
    <3>4. Good(engine[k], k, ToCome(0, disk.last))
      BY <1>1, <3>3, NotPassed
    <3> QED BY <3>1, <3>2, <3>4 DEF Resume
  <2>2. CASE engine[k] # table[k] /\ ~(kind = "mongo" /\ last < disk.last)
    <3>1. /\ last \in Int /\ disk.last \in Int /\ disk.pos \in Nat /\ Len(log) \in Nat /\ pos \in Nat
          /\ purged \in Nat
      BY <1>1, Basics
    <3>2. ~Blind
      BY <1>1, <1>6 DEF Blind, Usable, ListenInv
    <3>3. Good(engine[k], k, Left(k))
      BY <1>2, <1>6, <3>2 DEF IInv, CoreInv, EngineInv
    <3>4. ASSUME NEW i \in Left(k), Concerns(i, k) PROVE i \in Resume
      <4>1. disk.file => disk.last <= last
        BY <1>1, <1>6, <2>2, <3>1 DEF ListenInv
      <4>2. kind = "mysql" => disk.pos <= pos
        BY <1>1, <1>6 DEF ListenInv
      <4>3. kind = "mongo" => disk.pos = 0
        BY <1>1 DEF PositionInv
      <4>4. disk.file => i \in ToCome(disk.pos, disk.last)
        <5>1. SUFFICES ASSUME disk.file PROVE i \in ToCome(disk.pos, disk.last)
          OBVIOUS
        <5>2. kind = "sqlite" =>
                /\ disk.last # Unset /\ last # Unset
                /\ \A n \in 1 .. Len(rows) : k \in {rows[n].old, rows[n].key} => rows[n].at > disk.last
          BY <1>1, <1>2, <1>6, <3>2, <5>1 DEF Usable, Blind, SqliteInv
        <5> QED BY <1>2, <1>6, <3>1, <3>4, <4>1, <4>2, <4>3, <5>1, <5>2, LeftAhead
      <4>5. i \in 1 .. Len(log)
        <5>1. i \in ToCome(0, Unset) \/ kind = "sqlite"
          <6>1. kind = "mysql" => 0 <= pos
            BY <3>1
          <6>2. Unset <= last /\ Unset \in Int
            BY <1>1 DEF PositionInv, Unset
          <6> QED BY <1>2, <1>6, <3>4, <6>1, <6>2, LeftAhead
        <5>2. CASE kind # "sqlite"
          <6>1. i \in purged + 1 .. Len(log)
            BY <5>1, <5>2, ToComeCases
          <6> QED BY <3>1, <6>1
        <5>3. CASE kind = "sqlite"
          <6>1. i \in ToCome(pos, last) => i \in purged + 1 .. Len(log)
            BY ToComeCases
          <6>2. i \in Held => i \in 1 .. Len(log)
            BY <1>6, <5>3 DEF IInv, CoreInv, RowsInv, RowsLogged, Held
          <6> QED BY <3>1, <5>3, <6>1, <6>2, LeftSqlite
        <5> QED BY <5>2, <5>3
      <4> QED BY <4>4, <4>5 DEF Resume
    <3> QED BY <3>3, <3>4, GoodMono
  <2> QED BY <2>1, <2>2, <2>3
<1> QED BY <1>3, <1>4, <1>5, <1>6 DEF Listening

\* The index is written; data.bin is not.
LEMMA IndexSaved ==
  ASSUME IInv, DbSame, pc # "off", pc' = pc, exit' \in {"no", "early", "saved"},
         NEW f \in BOOLEAN, ~f => ~disk.found /\ ~dirty,
         disk' = [disk EXCEPT !.found = f, !.index = engine], dirty' = FALSE, lost' = LostByIndex,
         purged' = purged, clock' = clock, engine' = engine, last' = last, pos' = pos, rows' = rows,
         high' = high, seen' = seen, missed' = missed
  PROVE  CoreInv'
<1>1. /\ Typed /\ DatabaseInv /\ ValuesInv /\ PositionInv /\ ListenInv /\ RowsInv
      /\ SqliteInv /\ EngineInv /\ CopyInv /\ DiskInv
  BY DEF IInv, CoreInv
<1>2. disk \in DiskRec /\ engine \in [Key -> Old .. Len(log)] /\ Len(log) \in Nat
  BY <1>1 DEF Typed, Types
<1>3. /\ disk'.found = f /\ disk'.index = engine /\ disk'.file = disk.file
      /\ disk'.last = disk.last /\ disk'.pos = disk.pos /\ disk' \in DiskRec
  <2>1. engine \in [Key -> Int]
    BY <1>2 DEF Old
  <2> QED BY <1>2, <2>1 DEF DiskRec
<1>4. lost' \subseteq Key
  BY <1>1 DEF LostByIndex, Passed, Typed, Types
<1>5. Typed'
  BY <1>1, <1>2, <1>3, <1>4 DEF Typed, Types, DbSame
<1>6. Resume' = Resume /\ (Usable' <=> Usable) /\ Timed' = Timed /\ Tails' = Tails
  BY <1>3, ResumeFrame, DbFrame
<1>7. DatabaseInv'
  BY <1>1, DatabaseFrame DEF Typed
<1>8. ValuesInv'
  BY <1>1, <1>3 DEF ValuesInv, Version, DbSame
<1>9. PositionInv'
  BY <1>1, <1>3, <1>6 DEF PositionInv, DbSame
<1>10. ListenInv'
  BY <1>1, <1>3 DEF ListenInv, DbSame, Listening
<1>11. RowsInv'
  <2>1. RowsLogged'
    BY <1>1 DEF RowsInv, RowsLogged, DbSame, Listening, Held
  <2>2. RowsNet'
    BY <1>1 DEF RowsInv, RowsNet, DbSame, Listening, Version, Good, Later, Concerns
  <2>3. RowsPolled'
    BY <1>1, <1>6 DEF RowsInv, RowsPolled, DbSame, Listening, Handling
  <2>4. RowsTailed' /\ RowsCopied' /\ RowsHalf'
    BY <1>1, <1>6 DEF RowsInv, RowsTailed, RowsCopied, RowsHalf, DbSame, Listening, Version
  <2> QED BY <2>1, <2>2, <2>3, <2>4 DEF RowsInv
<1>12. \A k : Left(k)' = Left(k)
  <2>1. \A p, l : ToCome(p, l)' = ToCome(p, l)
    BY DbFrame
  <2>2. ToCome(pos, last)' = ToCome(pos, last)
    BY <2>1, ToComeCases DEF DbSame
  <2> QED BY <1>6, <2>2 DEF Left, Held, DbSame
<1>13. SqliteInv'
  BY <1>1, <1>3, <1>12 DEF SqliteInv, DbSame, Listening, Later, Concerns
<1>14. EngineInv'
  BY <1>1, <1>12 DEF EngineInv, DbSame, Listening, Blind, Good, Later, Concerns
<1>15. CopyInv'
  BY <1>1, <1>6 DEF CopyInv, DbSame, Copying, Good, Later, Concerns
<1>16. DiskInv'
  <2>1. Copying' => lost' = Key
    BY DEF LostByIndex, Copying
  <2>2. ASSUME Usable, NEW k \in Key \ lost' PROVE Good(disk.index[k], k, Resume)'
    <3>1. ~Copying
      BY <2>1, <2>2 DEF Copying
    <3>2. Good(engine[k], k, Resume)
      BY <2>2, <3>1, SavedGood
    <3> QED BY <1>3, <1>6, <3>2 DEF DbSame, Good, Later, Concerns
  <2>3. ~f => engine = Empty
    BY <1>1 DEF DiskInv
  <2> QED BY <1>3, <1>6, <2>1, <2>2, <2>3 DEF DiskInv, Empty
<1> QED BY <1>5, <1>7, <1>8, <1>9, <1>10, <1>11, <1>13, <1>14, <1>15, <1>16 DEF IInv, CoreInv

\* The save command.
LEMMA SaveCommandKeeps ==
  ASSUME IInv, SaveCommand
  PROVE  CoreInv'
<1>1. /\ DbSame /\ pc # "off" /\ pc' = pc /\ exit' \in {"no", "early", "saved"}
      /\ disk' = [disk EXCEPT !.found = TRUE, !.index = engine] /\ dirty' = FALSE
      /\ lost' = LostByIndex /\ purged' = purged /\ clock' = clock /\ engine' = engine
      /\ last' = last /\ pos' = pos /\ rows' = rows /\ high' = high /\ seen' = seen
      /\ missed' = missed
  BY DEF SaveCommand, DbSame
<1> QED BY <1>1, IndexSaved

\* The first half of an exit.
LEMMA SaveIndexKeeps ==
  ASSUME IInv, SaveIndex
  PROVE  CoreInv'
<1> DEFINE f == disk.found \/ dirty
<1>1. /\ DbSame /\ pc # "off" /\ pc' = pc /\ exit' \in {"no", "early", "saved"}
      /\ disk' = [disk EXCEPT !.found = f, !.index = engine] /\ dirty' = FALSE
      /\ lost' = LostByIndex /\ purged' = purged /\ clock' = clock /\ engine' = engine
      /\ last' = last /\ pos' = pos /\ rows' = rows /\ high' = high /\ seen' = seen
      /\ missed' = missed
  BY DEF SaveIndex, DbSame
<1>2. f \in BOOLEAN /\ (~f => ~disk.found /\ ~dirty)
  BY Basics DEF IInv, CoreInv, Typed, Types
<1> HIDE DEF f
<1> QED BY <1>1, <1>2, IndexSaved

\* What the invariant says of the position on disk alone.
DiskPosition ==
  /\ Timed => disk.last <= clock
  /\ disk.last >= Unset
  /\ kind \notin {"sqlite", "mysql"} => purged = 0
  /\ kind # "mysql" => disk.pos = 0
  /\ kind = "sqlite" /\ disk.file /\ disk.last # Unset =>
       \A i \in 1 .. purged : log[i].time <= disk.last
  /\ kind = "sqlite" /\ ~disk.file => purged = 0
  /\ ~disk.file => disk.last = Unset
  /\ disk.last = Unset => disk.pos = 0

\* data.bin is written, and SQLite's log is deleted up to it.
LEMMA StampFacts ==
  ASSUME IInv, DbSame, clock' = clock, disk' = Stamped(disk), DeleteProcessedLog, NEW l, l = last
  PROVE  /\ disk' \in DiskRec /\ disk'.pos <= Len(log) /\ purged' \in 0 .. Len(log)
         /\ disk'.found = disk.found /\ disk'.index = disk.index /\ disk'.file
         /\ disk'.last = last /\ disk'.pos = IF kind = "mysql" THEN pos ELSE 0
         /\ kind # "sqlite" => purged' = purged
         /\ DiskPosition'
         /\ \A p, i : i \in ToCome(p, l) => i \in ToCome(p, l)'
<1>1. Typed /\ DatabaseInv /\ PositionInv
  BY DEF IInv, CoreInv
<1>2. /\ Len(log) \in Nat /\ last \in Int /\ clock \in Nat /\ pos \in 0 .. Len(log)
      /\ purged \in 0 .. Len(log) /\ \A i \in 1 .. Len(log) : log[i].time \in Nat
  BY <1>1, Basics
<1>3. disk \in DiskRec
  BY <1>1 DEF Typed
<1>4. /\ disk' \in DiskRec /\ disk'.found = disk.found /\ disk'.index = disk.index /\ disk'.file
      /\ disk'.last = last /\ disk'.pos = IF kind = "mysql" THEN pos ELSE 0
  <2> DEFINE P == IF kind = "mysql" THEN pos ELSE 0
  <2>1. P \in Nat /\ disk' = [disk EXCEPT !.file = TRUE, !.last = last, !.pos = P]
    BY <1>2 DEF Stamped
  <2> HIDE DEF P
  <2>2. /\ disk' \in DiskRec /\ disk'.found = disk.found /\ disk'.index = disk.index
        /\ disk'.file = TRUE /\ disk'.last = last /\ disk'.pos = P
    BY <1>2, <1>3, <2>1 DEF DiskRec
  <2> QED BY <2>2 DEF P
<1>5. kind = "sqlite" /\ last # Unset =>
        /\ purged' \in 0 .. Len(log)
        /\ \A i \in 1 .. Len(log) : i <= purged' <=> log[i].time <= last
  <2>1. SUFFICES ASSUME kind = "sqlite", last # Unset
                 PROVE  /\ purged' \in 0 .. Len(log)
                        /\ \A i \in 1 .. Len(log) : i <= purged' <=> log[i].time <= last
    OBVIOUS
  <2> DEFINE S == {i \in 1 .. Len(log) : Stamp(i) <= last}
  <2>2. \A i \in 1 .. Len(log) : i \in S <=> log[i].time <= last
    BY <2>1 DEF Stamp, Timed
  <2>3. S \subseteq 1 .. Len(log) /\ purged' = Cardinality(S)
    BY <2>1 DEF DeleteProcessedLog
  <2> HIDE DEF S
  <2>4. \A x \in S : \A y \in 1 .. Len(log) : y <= x => y \in S
    <3> SUFFICES ASSUME NEW x \in S, NEW y \in 1 .. Len(log), y <= x PROVE y \in S
      OBVIOUS
    <3>1. x \in 1 .. Len(log) /\ log[x].time <= last
      BY <2>2, <2>3
    <3>2. log[y].time <= log[x].time
      BY <1>1, <3>1 DEF DatabaseInv
    <3>3. log[y].time <= last
      BY <1>2, <3>1, <3>2
    <3> QED BY <2>2, <3>3
  <2>5. Cardinality(S) \in 0 .. Len(log) /\ \A i \in 1 .. Len(log) : i \in S <=> i <= Cardinality(S)
    BY <1>2, <2>3, <2>4, CountedBySize
  <2> QED BY <2>2, <2>3, <2>5
<1>6. kind # "sqlite" => purged' = purged
  BY DEF DeleteProcessedLog
<1>7. kind = "sqlite" /\ last = Unset => purged' = Len(log)
  BY DEF DeleteProcessedLog
<1>8. purged' \in 0 .. Len(log)
  BY <1>2, <1>5, <1>6, <1>7
<1>9. kind = "sqlite" /\ last # Unset => \A i \in 1 .. purged' : log[i].time <= last
  <2>1. \A i \in 1 .. purged' : i \in 1 .. Len(log) /\ i <= purged'
    BY <1>2, <1>8
  <2> QED BY <1>5, <2>1
<1>10. DiskPosition'
  <2>1. Timed' = Timed
    BY DbFrame
  <2> QED BY <1>1, <1>4, <1>6, <1>9, <2>1 DEF DiskPosition, PositionInv, DbSame
<1>11. ASSUME NEW p, NEW i, i \in ToCome(p, l) PROVE i \in ToCome(p, l)'
  <2>1. /\ i \in purged + 1 .. Len(log)
        /\ kind = "sqlite" => l # Unset /\ log[i].time > l
        /\ kind \in {"mongo", "mysql"} => i > p /\ log[i].time >= l
        /\ kind \notin {"sqlite", "mongo", "mysql"} => i > l
    BY <1>11, ToComeCases
  <2>2. i \in 1 .. Len(log)
    <3>1. \A a, b \in Nat : a + 1 .. b \subseteq 1 .. b
      OBVIOUS
    <3> QED BY <1>2, <2>1, <3>1
  <2>3. i \in purged' + 1 .. Len(log)
    <3>1. CASE kind = "sqlite"
      <4>1. ~(log[i].time <= last)
        BY <1>2, <2>1, <2>2, <3>1
      <4>2. ~(i <= purged')
        BY <1>5, <2>1, <2>2, <3>1, <4>1
      <4> QED BY <1>2, <1>8, <2>2, <4>2
    <3>2. CASE kind # "sqlite"
      BY <1>6, <2>1, <3>2
    <3> QED BY <3>1, <3>2
  <2> QED BY <2>1, <2>3, ToComeCases DEF DbSame
<1> QED BY <1>2, <1>4, <1>6, <1>8, <1>10, <1>11

\* What the connector will be given now, an engine that starts from that position
\* will be given.
LEMMA StampResume ==
  ASSUME IInv, DbSame, clock' = clock, disk' = Stamped(disk), DeleteProcessedLog,
         NEW i \in ToCome(IF kind = "mysql" THEN pos ELSE 0, last)
  PROVE  i \in Resume'
<1> DEFINE P == IF kind = "mysql" THEN pos ELSE 0
<1>1. disk'.file /\ disk'.last = last /\ disk'.pos = P
  BY StampFacts
<1>2. PICK l : l = last /\ \A p, j : j \in ToCome(p, l) => j \in ToCome(p, l)'
  BY StampFacts
<1>3. PICK q : q = P
  OBVIOUS
<1>4. i \in ToCome(q, l)'
  BY <1>2, <1>3
<1>5. i \in ToCome(disk.pos, disk.last)'
  BY <1>1, <1>2, <1>3, <1>4, ToComeCases
<1> QED BY <1>1, <1>5 DEF Resume

\* The index on disk needs what the position written now promises, save for what
\* LostByStamp names.
LEMMA StampGood ==
  ASSUME IInv, ~Copying, DbSame, clock' = clock, disk' = Stamped(disk), DeleteProcessedLog,
         disk.found, NEW k \in Key, k \notin LostByStamp
  PROVE  Good(disk.index[k], k, Resume')
<1> DEFINE P == IF kind = "mysql" THEN pos ELSE 0
<1>1. Typed /\ DatabaseInv
  BY DEF IInv, CoreInv
<1>2. disk'.pos = P
  BY StampFacts
<1>3. k \notin lost /\ k \notin Passed(disk.index, P, last)
  BY <1>2 DEF LostByStamp, Copying
<1>4. Copied(disk.index[k], k)
  BY <1>3 DEF IInv, CopiedInv
<1>5. Good(disk.index[k], k, ToCome(P, last))
  BY <1>1, <1>3, <1>4, NotPassed
<1>6. \A i \in ToCome(P, last) : i \in Resume'
  BY StampResume
<1> QED BY <1>5, <1>6, GoodMono

\* An early stamp drops no change that is left.
LEMMA StampLeft ==
  ASSUME IInv, DbSame, clock' = clock, disk' = Stamped(disk), DeleteProcessedLog, pc' = pc,
         last' = last, pos' = pos, rows' = rows, high' = high, NEW k, NEW i \in Left(k)
  PROVE  i \in Left(k)'
<1>1. CASE kind = "sqlite"
  <2>1. PICK l : l = last /\ \A p, j : j \in ToCome(p, l) => j \in ToCome(p, l)'
    BY StampFacts
  <2>2. PICK q : q = pos
    OBVIOUS
  <2>3. i \in ToCome(pos, last) => i \in ToCome(q, l)'
    BY <2>1, <2>2
  <2>4. i \in ToCome(pos, last) => i \in ToCome(pos, last)'
    BY <2>1, <2>2, <2>3, ToComeCases
  <2>5. i \in Held => i \in Held'
    BY DEF Held
  <2>6. i \in ToCome(pos, last) \/ i \in Held
    BY <1>1, LeftSqlite
  <2> QED BY <1>1, <2>4, <2>5, <2>6, LeftSqlite DEF DbSame
<1>2. CASE kind # "sqlite"
  <2>1. purged' = purged
    BY <1>2 DEF DeleteProcessedLog
  <2>2. \A p, l : ToCome(p, l)' = ToCome(p, l)
    BY <2>1, DbFrame
  <2>3. ToCome(pos, last)' = ToCome(pos, last)
    BY <2>1, <2>2, ToComeCases DEF DbSame
  <2>4. Tails' = Tails
    BY DbFrame
  <2> QED BY <2>3, <2>4 DEF Left, Held, DbSame
<1> QED BY <1>1, <1>2

\* The position is written before the index.
LEMMA StampEarlyKeeps ==
  ASSUME IInv, StampEarly
  PROVE  CoreInv'
<1> DEFINE P == IF kind = "mysql" THEN pos ELSE 0
<1>1. /\ DbSame /\ clock' = clock /\ disk' = Stamped(disk) /\ DeleteProcessedLog
      /\ pc # "off" /\ pc' = pc /\ exit' = "early" /\ engine' = engine /\ dirty' = dirty /\ last' = last
      /\ pos' = pos /\ rows' = rows /\ high' = high /\ seen' = seen
      /\ missed' = missed \cup NotHandled /\ lost' = LostByStamp
  BY DEF StampEarly, DbSame
<1>2. /\ Typed /\ DatabaseInv /\ ValuesInv /\ PositionInv /\ ListenInv /\ RowsInv
      /\ SqliteInv /\ EngineInv /\ CopyInv /\ DiskInv
  BY DEF IInv, CoreInv
<1>3. /\ disk' \in DiskRec /\ disk'.pos <= Len(log) /\ purged' \in 0 .. Len(log)
      /\ disk'.found = disk.found /\ disk'.index = disk.index /\ disk'.file
      /\ disk'.last = last /\ disk'.pos = P
      /\ kind # "sqlite" => purged' = purged
      /\ DiskPosition'
  BY <1>1, StampFacts
<1>4. /\ Len(log) \in Nat /\ Len(rows) \in Nat /\ last \in Int /\ pos \in Nat /\ purged \in Nat
      /\ clock \in Nat /\ \A n \in 1 .. Len(rows) : rows[n].at \in Int
  BY <1>2, Basics
<1>5. NotHandled \subseteq Key /\ missed' \subseteq Key /\ lost' \subseteq Key
  <2>1. NotHandled \subseteq Key
    BY DEF NotHandled, Passed
  <2> QED BY <1>1, <1>2, <2>1 DEF LostByStamp, Passed, Typed, Types
<1>6. Typed'
  BY <1>1, <1>2, <1>3, <1>5 DEF Typed, Types, DbSame
<1>7. DatabaseInv' /\ Timed' = Timed /\ Tails' = Tails
  BY <1>1, <1>2, <1>4, DatabaseFrame, DbFrame
<1>8. ValuesInv'
  BY <1>1, <1>2, <1>3 DEF ValuesInv, Version, DbSame
<1>9. PositionInv'
  BY <1>1, <1>2, <1>3, <1>7 DEF PositionInv, DiskPosition, DbSame
<1>10. ListenInv'
  BY <1>1, <1>2, <1>3, <1>4 DEF ListenInv, DbSame, Listening
<1>11. RowsInv'
  <2>1. RowsLogged'
    BY <1>1, <1>2 DEF RowsInv, RowsLogged, DbSame, Listening, Held
  <2>2. RowsNet'
    BY <1>1, <1>2 DEF RowsInv, RowsNet, DbSame, Listening, Version, Good, Later, Concerns
  <2>3. RowsPolled'
    BY <1>1, <1>2, <1>7 DEF RowsInv, RowsPolled, DbSame, Listening, Handling
  <2>4. RowsTailed' /\ RowsCopied' /\ RowsHalf'
    BY <1>1, <1>2, <1>7 DEF RowsInv, RowsTailed, RowsCopied, RowsHalf, DbSame, Listening, Version
  <2> QED BY <2>1, <2>2, <2>3, <2>4 DEF RowsInv
<1>12. \A k : \A i \in Left(k) : i \in Left(k)'
  BY <1>1, StampLeft
<1>13. SqliteInv'
  <2> SUFFICES ASSUME kind = "sqlite", Listening, NEW k \in Key \ missed', NEW n \in 1 .. Len(rows),
                      k \in {rows[n].old, rows[n].key}
               PROVE  /\ \A j \in Later(rows[n].val, k) : j \in Left(k)'
                      /\ rows[n].at > last
                      /\ rows[n].val > purged'
    BY <1>1, <1>3 DEF SqliteInv, DbSame, Listening, Later, Concerns
  <2>1. \A j \in Later(rows[n].val, k) : j \in Left(k)
    BY <1>1, <1>2 DEF SqliteInv
  <2>2. ~(rows[n].at <= last)
    BY <1>1 DEF NotHandled, Listening
  <2>3. rows[n].at > last
    BY <1>4, <2>2
  <2>4. rows[n].val > purged'
    <3>1. last # Unset /\ rows[n].val \in 1 .. Len(log) /\ rows[n].at = log[rows[n].val].time
      <4>1. rows # <<>>
        BY <1>4
      <4> QED BY <1>2, <4>1 DEF ListenInv, RowsInv, RowsLogged
    <3>2. \A i \in 1 .. purged' : log[i].time <= last
      BY <1>1, <1>3, <3>1 DEF DiskPosition, DbSame
    <3>3. rows[n].val \notin 1 .. purged'
      BY <1>4, <2>3, <3>1, <3>2
    <3> QED BY <1>3, <1>4, <3>1, <3>3
  <2> QED BY <1>12, <2>1, <2>3, <2>4
<1>14. EngineInv'
  <2> SUFFICES ASSUME Listening, ~Blind, NEW k \in Key \ missed' PROVE Good(engine[k], k, Left(k))'
    BY <1>1 DEF EngineInv, Listening, Blind, DbSame
  <2>1. Good(engine[k], k, Left(k))
    BY <1>1, <1>2 DEF EngineInv
  <2>2. Good(engine[k], k, Left(k)')
    BY <1>12, <2>1, GoodMono
  <2> QED BY <1>1, <2>2 DEF DbSame, Good, Later, Concerns
<1>15. CopyInv'
  <2> SUFFICES ASSUME Usable' PROVE CopyInv'
    BY DEF CopyInv
  <2>1. (kind = "sqlite" => last # Unset) /\ (kind = "mysql" => pos >= purged)
    BY <1>1, <1>3 DEF Usable, DbSame
  <2>2. ASSUME Copying PROVE Usable /\ \A i \in Resume : i \in Resume'
    <3>1. last = Unset /\ pos = 0 /\ kind # "sqlite"
      BY <1>2, <2>1, <2>2 DEF PositionInv, Copying
    <3>2. purged = 0
      BY <1>2, <1>4, <2>1, <3>1 DEF PositionInv
    <3>3. Usable
      BY <1>2, <3>1, <3>2, Basics DEF Usable
    <3>4. Resume \subseteq 1 .. Len(log)
      <4>1. disk.pos \in Int /\ disk.last \in Int
        BY <1>2, Basics
      <4> QED BY <1>2, <4>1, ToComeUp DEF Resume
    <3>5. ASSUME NEW i \in 1 .. Len(log) PROVE i \in ToCome(P, last)
      <4>1. log[i].time \in Nat
        BY <1>2, Basics
      <4>2. i \in purged + 1 .. Len(log) /\ i > last /\ i > 0 /\ log[i].time >= last
        BY <3>1, <3>2, <4>1 DEF Unset
      <4> QED BY <3>1, <4>2, ToComeCases
    <3> QED BY <1>1, <3>3, <3>4, <3>5, StampResume
  <2>3. ASSUME Copying, NEW v, NEW k, Good(v, k, Resume) PROVE Good(v, k, Resume')
    BY <2>2, <2>3, GoodMono
  <2>4. ASSUME pc = "load", NEW k \in Key \ missed' PROVE Good(engine[k], k, Resume')
    <3>1. k \notin Passed(engine, pos, last) /\ pos = P
      BY <1>1, <1>2, <2>4 DEF NotHandled, PositionInv
    <3>2. Copied(engine[k], k)
      BY <1>1, <2>4 DEF IInv, CopiedInv
    <3>3. Good(engine[k], k, ToCome(P, last))
      BY <1>2, <3>1, <3>2, NotPassed
    <3> QED BY <1>1, <3>3, GoodMono, StampResume
  <2>5. Copying =>
          /\ \A k \in Key \ missed' : engine[k] = 0 \/ Good(engine[k], k, Resume')
          /\ pc = "scan" => \A k \in Key \ missed' :
               \/ Good(engine[k], k, Resume')
               \/ \E n \in 1 .. Len(rows) : rows[n].key = k
          /\ pc = "scan" => \A n \in 1 .. Len(rows) :
               rows[n].key \in missed' \/ Good(rows[n].val, rows[n].key, Resume')
    BY <1>1, <1>2, <2>2, <2>3 DEF CopyInv
  <2> QED BY <1>1, <2>4, <2>5 DEF CopyInv, Copying, DbSame, Good, Later, Concerns
<1>16. DiskInv'
  <2>1. ASSUME disk.found, Usable', NEW k \in Key \ lost' PROVE Good(disk.index[k], k, Resume)'
    <3>1. ~Copying
      <4>1. Copying => lost = Key /\ lost' = lost
        BY <1>1, <1>2, <2>1 DEF DiskInv, Copying, LostByStamp
      <4> QED BY <2>1, <4>1
    <3>2. Good(disk.index[k], k, Resume')
      BY <1>1, <2>1, <3>1, StampGood
    <3> QED BY <1>1, <1>3, <3>2 DEF DbSame, Good, Later, Concerns
  <2>2. Copying => lost' = lost
    BY <1>1 DEF Copying, LostByStamp
  <2> QED BY <1>1, <1>2, <1>3, <2>1, <2>2 DEF DiskInv, Copying
<1> QED BY <1>6, <1>7, <1>8, <1>9, <1>10, <1>11, <1>13, <1>14, <1>15, <1>16 DEF IInv, CoreInv

\* The process ends: only the disk is left.
LEMMA GoneKeeps ==
  ASSUME IInv, DbSame, clock' = clock, Gone, purged' \in 0 .. Len(log), disk' \in DiskRec,
         disk'.pos <= Len(log), disk'.found = disk.found, disk'.index = disk.index, lost' \subseteq Key,
         DiskPosition',
         \A k \in Key \ lost' : disk.found /\ Usable' => Good(disk.index[k], k, Resume')
  PROVE  CoreInv'
<1>1. /\ pc' = "off" /\ exit' = "no" /\ engine' = Empty /\ dirty' = FALSE
      /\ last' = Unset /\ pos' = 0 /\ rows' = <<>> /\ high' = Unset /\ seen' = 0 /\ missed' = {}
  BY DEF Gone
<1>2. Typed /\ DatabaseInv /\ ValuesInv /\ PositionInv /\ DiskInv
  BY DEF IInv, CoreInv
<1>3. Len(log) \in Nat /\ clock \in Nat
  BY <1>2, Basics
<1>4. engine' \in [Key -> Old .. Len(log)]
  BY <1>1, <1>3 DEF Empty, Old
<1>5. Typed'
  <2>1. Types'
    <3>1. /\ kind \in Kinds /\ table \in [Key -> Old .. Len(log)]
          /\ disk.index \in [Key -> Old .. Len(log)]
      BY <1>2 DEF Typed, Types
    <3>2. pos' \in 0 .. Len(log) /\ last' \in Int /\ high' \in Int
      BY <1>1, <1>3 DEF Unset
    <3> QED BY <1>1, <1>4, <3>1, <3>2 DEF Types, DbSame
  <2>2. born \subseteq Key /\ log \in Seq(ChangeRec) /\ clock \in Nat
    BY <1>2 DEF Typed
  <2>3. rows' \in Seq(RowRec) /\ 1 .. Len(rows') = {} /\ seen' \in Nat
    BY <1>1
  <2> QED BY <2>1, <2>2, <2>3 DEF Typed, DbSame
<1>6. DatabaseInv' /\ Timed' = Timed
  BY <1>2, <1>3, DatabaseFrame, DbFrame
<1>7. ValuesInv'
  BY <1>1, <1>2 DEF ValuesInv, Version, DbSame, Empty
<1>8. PositionInv'
  BY <1>1, <1>2, <1>3, <1>6 DEF PositionInv, DiskPosition, DbSame, Unset
<1>9. ListenInv' /\ SqliteInv' /\ EngineInv' /\ RowsInv'
  BY <1>1, Unlistened DEF Listening, RowsCopied
<1>10. CopyInv'
  BY <1>1 DEF CopyInv, Copying
<1>11. DiskInv'
  BY <1>1, <1>2 DEF DiskInv, Copying, DbSame, Good, Later, Concerns
<1> QED BY <1>5, <1>6, <1>7, <1>8, <1>9, <1>10, <1>11 DEF IInv, CoreInv

\* The second half of an exit.
LEMMA SaveTimestampKeeps ==
  ASSUME IInv, SaveTimestamp
  PROVE  CoreInv'
<1>1. /\ DbSame /\ clock' = clock /\ disk' = Stamped(disk) /\ DeleteProcessedLog /\ Gone
      /\ exit = "saved" /\ lost' = LostByStamp
  BY DEF SaveTimestamp, DbSame
<1>2. pc # "off" /\ missed \subseteq Key /\ lost \subseteq Key
  BY <1>1 DEF IInv, CoreInv, PositionInv, Typed, Types
<1>3. /\ disk' \in DiskRec /\ disk'.pos <= Len(log) /\ purged' \in 0 .. Len(log)
      /\ disk'.found = disk.found /\ disk'.index = disk.index /\ DiskPosition'
  BY <1>1, StampFacts
<1>4. lost' \subseteq Key
  <2>1. NotHandled \subseteq Key
    BY DEF NotHandled, Passed
  <2> QED BY <1>1, <1>2, <2>1 DEF LostByStamp, Passed
<1>5. ASSUME NEW k \in Key \ lost', disk.found, Usable' PROVE Good(disk.index[k], k, Resume')
  <2>1. ~Copying
    <3>1. Copying => lost = Key /\ lost' = lost
      BY <1>1, <1>5 DEF IInv, CoreInv, DiskInv, Copying, LostByStamp
    <3> QED BY <1>5, <3>1
  <2> QED BY <1>1, <1>2, <1>5, <2>1, StampGood
<1> QED BY <1>1, <1>3, <1>4, <1>5, GoneKeeps

\* A crash leaves the disk as it was.
LEMMA CrashKeeps ==
  ASSUME IInv, Crash
  PROVE  CoreInv'
<1>1. /\ DbSame /\ clock' = clock /\ disk' = disk /\ purged' = purged /\ Gone /\ lost' = lost
  BY DEF Crash, DbSame
<1>2. Typed /\ PositionInv /\ DiskInv
  BY DEF IInv, CoreInv
<1>3. purged' \in 0 .. Len(log) /\ disk' \in DiskRec /\ disk'.pos <= Len(log) /\ lost' \subseteq Key
  BY <1>1, <1>2 DEF Typed, Types
<1>4. Timed' = Timed /\ Resume' = Resume /\ (Usable' <=> Usable)
  BY <1>1, DbFrame, ResumeFrame
<1>5. DiskPosition'
  BY <1>1, <1>2, <1>4 DEF DiskPosition, PositionInv, DbSame
<1>6. \A k \in Key \ lost' : disk.found /\ Usable' => Good(disk.index[k], k, Resume')
  BY <1>1, <1>2, <1>4 DEF DiskInv
<1> QED BY <1>1, <1>3, <1>5, <1>6, GoneKeeps

\* A new process begins with the index on disk.
LEMMA StartKeeps ==
  ASSUME IInv, Start
  PROVE  CoreInv'
<1>1. /\ DbSame /\ clock' = clock /\ disk' = disk /\ purged' = purged /\ lost' = lost
      /\ pc = "off" /\ engine' = disk.index /\ dirty' = dirty /\ last' = last /\ pos' = pos
      /\ rows' = rows /\ high' = high /\ seen' = seen /\ exit' = exit
      /\ pc' = (IF disk.found THEN "load" ELSE "connect")
      /\ missed' = IF disk.found THEN lost ELSE {}
  BY DEF Start, IndexExists, DbSame
<1>2. Typed /\ DatabaseInv /\ ValuesInv /\ PositionInv /\ RowsInv /\ DiskInv
  BY DEF IInv, CoreInv
<1>3. clock \in Nat /\ missed' \subseteq Key
  BY <1>1, <1>2, Basics DEF Typed, Types
<1>4. pc' \in {"load", "connect"}
  BY <1>1
<1>5. Typed'
  BY <1>1, <1>2, <1>3, <1>4 DEF Typed, Types, DbSame
<1>6. DatabaseInv' /\ Timed' = Timed /\ Tails' = Tails /\ Resume' = Resume /\ (Usable' <=> Usable)
  BY <1>1, <1>2, <1>3, DatabaseFrame, DbFrame, ResumeFrame
<1>7. ValuesInv'
  BY <1>1, <1>2 DEF ValuesInv, Version, DbSame
<1>8. PositionInv'
  BY <1>1, <1>2, <1>4, <1>6 DEF PositionInv, DbSame
<1>9. ListenInv' /\ SqliteInv' /\ EngineInv' /\ RowsInv'
  BY <1>1, <1>2, <1>4, Unlistened DEF Listening, RowsInv, RowsCopied
<1>10. CopyInv'
  <2>1. ASSUME Usable, pc' = "connect", NEW k \in Key PROVE engine'[k] = 0
    BY <1>1, <1>2, <2>1 DEF DiskInv, Empty
  <2>2. ASSUME Usable, pc' = "load", NEW k \in Key, k \notin missed' PROVE Good(engine[k], k, Resume)'
    <3>1. disk.found
      BY <1>1, <2>2
    <3>2. Good(disk.index[k], k, Resume)
      BY <1>1, <1>2, <2>2, <3>1 DEF DiskInv
    <3> QED BY <1>1, <1>6, <3>2 DEF DbSame, Good, Later, Concerns
  <2> QED BY <1>4, <1>6, <2>1, <2>2 DEF CopyInv, Copying
<1>11. DiskInv'
  <2>1. ASSUME disk.found, Usable, NEW k \in Key \ lost PROVE Good(disk.index[k], k, Resume)'
    <3>1. Good(disk.index[k], k, Resume)
      BY <1>2, <2>1 DEF DiskInv
    <3> QED BY <1>1, <1>6, <3>1 DEF DbSame, Good, Later, Concerns
  <2> QED BY <1>1, <1>2, <1>6, <2>1 DEF DiskInv, Copying
<1> QED BY <1>5, <1>6, <1>7, <1>8, <1>9, <1>10, <1>11 DEF IInv, CoreInv

\* The user removes the index; data.bin stays.
LEMMA RemoveIndexKeeps ==
  ASSUME IInv, RemoveIndex
  PROVE  CoreInv'
<1>1. /\ DbSame /\ clock' = clock /\ purged' = purged /\ lost' = lost /\ missed' = missed
      /\ disk' = [disk EXCEPT !.found = FALSE, !.index = Empty]
      /\ pc = "off" /\ pc' = "off" /\ engine' = engine /\ dirty' = dirty /\ last' = last /\ pos' = pos
      /\ rows' = rows /\ high' = high /\ seen' = seen /\ exit' = exit
  BY DEF RemoveIndex, DbSame
<1>2. Typed /\ DatabaseInv /\ ValuesInv /\ PositionInv /\ RowsInv /\ DiskInv
  BY DEF IInv, CoreInv
<1>3. clock \in Nat /\ Len(log) \in Nat
  BY <1>2, Basics
<1>4. Empty \in [Key -> Old .. Len(log)] /\ Empty \in [Key -> Int]
  BY <1>3 DEF Empty, Old
<1>5. /\ disk'.found = FALSE /\ disk'.index = Empty /\ disk'.file = disk.file
      /\ disk'.last = disk.last /\ disk'.pos = disk.pos /\ disk' \in DiskRec
  BY <1>1, <1>2, <1>4 DEF DiskRec, Typed
<1>6. Typed'
  BY <1>1, <1>2, <1>4, <1>5 DEF Typed, Types, DbSame
<1>7. DatabaseInv' /\ Timed' = Timed /\ Tails' = Tails
  BY <1>1, <1>2, <1>3, DatabaseFrame, DbFrame
<1>8. ValuesInv'
  BY <1>1, <1>2, <1>5 DEF ValuesInv, Version, DbSame, Empty
<1>9. PositionInv'
  BY <1>1, <1>2, <1>5, <1>7 DEF PositionInv, DbSame
<1>10. ListenInv' /\ SqliteInv' /\ EngineInv' /\ RowsInv'
  BY <1>1, <1>2, Unlistened DEF Listening, RowsInv, RowsCopied
<1>11. CopyInv' /\ DiskInv'
  BY <1>1, <1>5 DEF CopyInv, DiskInv, Copying, Empty
<1> QED BY <1>6, <1>7, <1>8, <1>9, <1>10, <1>11 DEF IInv, CoreInv

\* A binlog that is dropped is either behind data.bin or makes it useless.
LEMMA PurgeBinlogKeeps ==
  ASSUME IInv, PurgeBinlog
  PROVE  CoreInv'
<1>1. /\ DbSame /\ clock' = clock /\ lost' = lost /\ missed' = missed /\ disk' = disk
      /\ kind = "mysql" /\ purged < Len(log) /\ purged' = purged + 1
      /\ pc = "off" /\ pc' = "off" /\ engine' = engine /\ dirty' = dirty /\ last' = last /\ pos' = pos
      /\ rows' = rows /\ high' = high /\ seen' = seen /\ exit' = exit
  BY DEF PurgeBinlog, DbSame
<1>2. Typed /\ DatabaseInv /\ ValuesInv /\ PositionInv /\ RowsInv /\ DiskInv
  BY DEF IInv, CoreInv
<1>3. /\ clock \in Nat /\ Len(log) \in Nat /\ purged \in 0 .. Len(log) /\ disk.pos \in Nat
      /\ purged' \in 0 .. Len(log)
  BY <1>1, <1>2, Basics
<1>4. Typed'
  BY <1>1, <1>2, <1>3 DEF Typed, Types, DbSame
<1>5. DatabaseInv' /\ Timed' = Timed /\ Tails' = Tails
  BY <1>1, <1>2, <1>3, DatabaseFrame, DbFrame
<1>6. ValuesInv'
  BY <1>1, <1>2 DEF ValuesInv, Version, DbSame
<1>7. PositionInv'
  BY <1>1, <1>2, <1>5 DEF PositionInv, DbSame
<1>8. ListenInv' /\ SqliteInv' /\ EngineInv' /\ RowsInv'
  BY <1>1, <1>2, Unlistened DEF Listening, RowsInv, RowsCopied
<1>9. CopyInv'
  BY <1>1 DEF CopyInv, Copying
<1>10. ASSUME disk.found, Usable', NEW k \in Key \ lost PROVE Good(disk.index[k], k, Resume)'
  <2>1. disk.file => disk.pos >= purged + 1
    BY <1>1, <1>10 DEF Usable, DbSame
  <2>2. Usable
    BY <1>1, <1>3, <2>1 DEF Usable
  <2>3. Good(disk.index[k], k, Resume)
    BY <1>2, <1>10, <2>2 DEF DiskInv
  <2>4. ASSUME disk.file, NEW i \in ToCome(disk.pos, disk.last) PROVE i \in ToCome(disk.pos, disk.last)'
    <3>1. i \in purged + 1 .. Len(log) /\ i > disk.pos /\ log[i].time >= disk.last
      BY <1>1, <2>4, ToComeCases
    <3>2. i \in purged' + 1 .. Len(log)
      BY <1>1, <1>3, <2>1, <2>4, <3>1
    <3> QED BY <1>1, <3>1, <3>2, ToComeCases DEF DbSame
  <2>5. \A i \in Resume : i \in Resume'
    BY <1>1, <2>4 DEF Resume, DbSame
  <2>6. Good(disk.index[k], k, Resume')
    BY <2>3, <2>5, GoodMono
  <2> QED BY <1>1, <2>6 DEF DbSame, Good, Later, Concerns
<1>11. DiskInv'
  BY <1>1, <1>2, <1>10 DEF DiskInv, Copying
<1> QED BY <1>4, <1>5, <1>6, <1>7, <1>8, <1>9, <1>11 DEF IInv, CoreInv

-----------------------------------------------------------------------------
(* The database changes. *)

\* A change as the database makes it: what is inserted or renamed to was absent.
Made(op, old, k) ==
  /\ Change(op, old, k)
  /\ op \in {"i", "u", "d"} /\ old \in Key /\ k \in Key
  /\ op = "i" \/ old # k => table[k] = 0
  /\ old # k => op = "u" /\ kind \notin {"mongo", "sqlserver"}

\* The log grows by one change, and all that was in it stays.
LEMMA ChangeFacts ==
  ASSUME IInv, NEW op, NEW old, NEW k, Made(op, old, k),
         NEW c, c = Len(log) + 1
  PROVE  /\ Len(log) \in Nat /\ c \in Nat /\ Len(log') = c /\ log' \in Seq(ChangeRec)
         /\ \A i \in 1 .. c : i \in 1 .. Len(log) \/ i = c
         /\ \A i \in 1 .. Len(log) : i \in 1 .. c /\ i < c /\ log'[i] = log[i]
         /\ log'[c].op = op /\ log'[c].old = old /\ log'[c].key = k /\ log'[c].time = clock
         /\ \A x \in Key : table'[x] = IF x = k /\ op # "d" THEN c
                                       ELSE IF x \in {old, k} THEN 0 ELSE table[x]
         /\ table' \in [Key -> Old .. c]
<1>1. Typed
  BY DEF IInv, CoreInv
<1>2. /\ Len(log) \in Nat /\ clock \in Nat /\ \A x \in Key : table[x] \in Old .. Len(log)
  BY <1>1, Basics
<1> DEFINE ch == [op |-> op, old |-> old, key |-> k, time |-> clock]
<1>3. ch \in ChangeRec /\ log' = Append(log, ch) /\ log \in Seq(ChangeRec)
  BY <1>1, <1>2 DEF Made, Change, ChangeRec, Typed
<1>4. ch.op = op /\ ch.old = old /\ ch.key = k /\ ch.time = clock
  OBVIOUS
<1> HIDE DEF ch
<1>5. /\ Len(log') = c /\ log' \in Seq(ChangeRec) /\ log'[c] = ch
      /\ \A i \in 1 .. Len(log) : log'[i] = log[i]
  BY <1>3
<1>6. /\ \A i \in 1 .. c : i \in 1 .. Len(log) \/ i = c
      /\ \A i \in 1 .. Len(log) : i \in 1 .. c /\ i < c
  BY <1>2
<1>7. \A x \in Key : table'[x] = IF x = k /\ op # "d" THEN c
                                 ELSE IF x \in {old, k} THEN 0 ELSE table[x]
  BY DEF Made, Change
<1>8. table' \in [Key -> Old .. c]
  <2>1. \A x \in Key : (IF x = k /\ op # "d" THEN c
                        ELSE IF x \in {old, k} THEN 0 ELSE table[x]) \in Old .. c
    BY <1>2 DEF Old
  <2> QED BY <2>1 DEF Made, Change
<1> QED BY <1>2, <1>4, <1>5, <1>6, <1>7, <1>8

\* What is said of the rows written before stays, and the new change comes last.
LEMMA ChangeFrame ==
  ASSUME IInv, NEW op, NEW old, NEW k, Made(op, old, k), NEW c, c = Len(log) + 1
  PROVE  /\ \A i \in 1 .. Len(log) : \A x : Concerns(i, x)' <=> Concerns(i, x)
         /\ \A x : Concerns(c, x)' <=> x \in {old, k}
         /\ \A v \in Old .. Len(log) : \A x : Version(v, x)' <=> Version(v, x)
         /\ \A x : Version(c, x)' <=> op # "d" /\ x = k
         /\ \A v \in Old .. Len(log) : \A x, i : i \in Later(v, x)' <=>
              i \in Later(v, x) \/ (i = c /\ x \in {old, k})
         /\ \A x : Later(c, x)' = {}
<1>1. /\ Len(log) \in Nat /\ c \in Nat /\ Len(log') = c
      /\ \A i \in 1 .. c : i \in 1 .. Len(log) \/ i = c
      /\ \A i \in 1 .. Len(log) : i \in 1 .. c /\ i < c /\ log'[i] = log[i]
      /\ log'[c].op = op /\ log'[c].old = old /\ log'[c].key = k
  BY ChangeFacts
<1>2. born' = born
  BY DEF Made, Change
<1>3. \A i \in 1 .. Len(log) : \A x : Concerns(i, x)' <=> Concerns(i, x)
  BY <1>1 DEF Concerns
<1>4. \A x : Concerns(c, x)' <=> x \in {old, k}
  BY <1>1 DEF Concerns
<1>5. \A v \in Old .. Len(log) : \A x : Version(v, x)' <=> Version(v, x)
  <2> SUFFICES ASSUME NEW v \in Old .. Len(log), NEW x PROVE Version(v, x)' <=> Version(v, x)
    OBVIOUS
  <2>1. v \in 1 .. c <=> v \in 1 .. Len(log)
    BY <1>1 DEF Old
  <2> QED BY <1>1, <1>2, <2>1 DEF Version
<1>6. \A x : Version(c, x)' <=> op # "d" /\ x = k
  <2>1. c \in 1 .. c /\ c # Old
    BY <1>1 DEF Old
  <2> QED BY <1>1, <2>1 DEF Version
<1>7. \A v \in Old .. Len(log) : \A x, i : i \in Later(v, x)' <=>
        i \in Later(v, x) \/ (i = c /\ x \in {old, k})
  <2> SUFFICES ASSUME NEW v \in Old .. Len(log), NEW x, NEW i
               PROVE  i \in Later(v, x)' <=> i \in Later(v, x) \/ (i = c /\ x \in {old, k})
    OBVIOUS
  <2>1. i \in Later(v, x)' <=> i \in 1 .. c /\ i > v /\ Concerns(i, x)'
    BY <1>1 DEF Later
  <2>2. i \in Later(v, x) <=> i \in 1 .. Len(log) /\ i > v /\ Concerns(i, x)
    BY DEF Later
  <2>3. c \in 1 .. c /\ c > v /\ c \notin 1 .. Len(log)
    BY <1>1 DEF Old
  <2> QED BY <1>1, <1>3, <1>4, <2>1, <2>2, <2>3
<1>8. \A x : Later(c, x)' = {}
  BY <1>1 DEF Later
<1> QED BY <1>3, <1>4, <1>5, <1>6, <1>7, <1>8

\* Good() once the change is made, for the changes B to come then.
GoodAfter(v, x, B) ==
  \/ v = table'[x]
  \/ v = 0 /\ \E i \in B : Concerns(i, x)'
  \/ v # 0 /\ \A i \in Later(v, x)' : i \in B

\* A row of the index stays good when the new change is to come.
LEMMA GoodChange ==
  ASSUME IInv, NEW op, NEW old, NEW k, Made(op, old, k), NEW c, c = Len(log) + 1,
         NEW x \in Key, NEW v \in Old .. Len(log), v = 0 \/ Version(v, x), NEW A, Good(v, x, A),
         NEW B, \A i \in A : Concerns(i, x) => i \in 1 .. Len(log) /\ i \in B,
         x \in {old, k} => c \in B
  PROVE  GoodAfter(v, x, B)
<1>1. /\ \A i \in 1 .. Len(log) : \A y : Concerns(i, y)' <=> Concerns(i, y)
      /\ \A y : Concerns(c, y)' <=> y \in {old, k}
      /\ \A i : i \in Later(v, x)' <=> i \in Later(v, x) \/ (i = c /\ x \in {old, k})
  BY ChangeFrame
<1>2. x \notin {old, k} => table'[x] = table[x]
  BY ChangeFacts
<1>3. \A i \in Later(v, x) : Concerns(i, x)
  BY DEF Later
<1>4. v # 0 /\ v = table[x] => Later(v, x) = {}
  BY DEF IInv, CoreInv, DatabaseInv
<1>5. CASE x \notin {old, k}
  BY <1>1, <1>2, <1>3, <1>5 DEF Good, GoodAfter
<1>6. CASE x \in {old, k}
  <2>1. v # 0 => \A i \in Later(v, x) : i \in B
    BY <1>3, <1>4 DEF Good
  <2> QED BY <1>1, <1>6, <2>1 DEF GoodAfter
<1> QED BY <1>5, <1>6

\* The database stays as it should be.
LEMMA ChangeDatabase ==
  ASSUME IInv, NEW op, NEW old, NEW k, Made(op, old, k), NEW c, c = Len(log) + 1
  PROVE  DatabaseInv'
<1>1. Typed /\ DatabaseInv
  BY DEF IInv, CoreInv
<1>2. /\ Len(log) \in Nat /\ c \in Nat /\ Len(log') = c
      /\ \A i \in 1 .. c : i \in 1 .. Len(log) \/ i = c
      /\ \A i \in 1 .. Len(log) : i \in 1 .. c /\ i < c /\ log'[i] = log[i]
      /\ log'[c].op = op /\ log'[c].old = old /\ log'[c].key = k /\ log'[c].time = clock
      /\ \A x \in Key : table'[x] = IF x = k /\ op # "d" THEN c
                                    ELSE IF x \in {old, k} THEN 0 ELSE table[x]
  BY ChangeFacts
<1>3. /\ \A v \in Old .. Len(log) : \A x : Version(v, x)' <=> Version(v, x)
      /\ \A x : Version(c, x)' <=> op # "d" /\ x = k
      /\ \A v \in Old .. Len(log) : \A x, i : i \in Later(v, x)' <=>
           i \in Later(v, x) \/ (i = c /\ x \in {old, k})
      /\ \A x : Later(c, x)' = {}
  BY ChangeFrame
<1>4. /\ kind' = kind /\ clock' = clock /\ op \in {"i", "u", "d"} /\ old \in Key /\ k \in Key
      /\ op = "i" \/ old # k => table[k] = 0
      /\ old # k => op = "u" /\ kind \notin {"mongo", "sqlserver"}
  BY DEF Made, Change
<1>5. /\ clock \in Nat /\ clock >= 1 /\ \A i \in 1 .. Len(log) : log[i].time \in 1 .. clock
      /\ \A x \in Key : table[x] \in Old .. Len(log)
      /\ \A i \in 1 .. Len(log) : log[i].key \in Key
  BY <1>1, Basics DEF DatabaseInv
<1>6. \A v \in Old .. c : v \in Old .. Len(log) \/ v = c
  BY <1>2 DEF Old
<1>7. \A i \in 1 .. c : log'[i].time \in 1 .. clock
  BY <1>2, <1>5
<1>8. \A i, j \in 1 .. c : i <= j => log'[i].time <= log'[j].time
  <2> SUFFICES ASSUME NEW i \in 1 .. c, NEW j \in 1 .. c, i <= j PROVE log'[i].time <= log'[j].time
    OBVIOUS
  <2>1. CASE j = c
    BY <1>2, <1>5, <1>7, <2>1
  <2>2. CASE j # c
    <3>1. i \in 1 .. Len(log) /\ j \in 1 .. Len(log)
      BY <1>2, <2>2
    <3> QED BY <1>1, <1>2, <3>1 DEF DatabaseInv
  <2> QED BY <2>1, <2>2
<1>9. \A x \in Key : table'[x] # 0 => Version(table[x], x)' /\ Later(table[x], x)' = {}
  <2> SUFFICES ASSUME NEW x \in Key, table'[x] # 0
               PROVE  Version(table[x], x)' /\ Later(table[x], x)' = {}
    OBVIOUS
  <2>1. PICK t : t = table'[x]
    OBVIOUS
  <2>2. Version(t, x)' /\ Later(t, x)' = {}
    <3>1. CASE t = c /\ x = k /\ op # "d"
      BY <1>3, <3>1
    <3>2. CASE t = table[x] /\ x \notin {old, k}
      <4>1. t \in Old .. Len(log) /\ Version(t, x) /\ Later(t, x) = {}
        BY <1>1, <1>5, <2>1, <3>2 DEF DatabaseInv
      <4> QED BY <1>3, <3>2, <4>1
    <3> QED BY <1>2, <2>1, <3>1, <3>2
  <2> QED BY <2>1, <2>2 DEF Version, Later
<1>10. \A x \in Key : \A v \in Old .. c :
         v # 0 /\ Version(v, x)' /\ Later(v, x)' = {} => table'[x] = v
  <2> SUFFICES ASSUME NEW x \in Key, NEW v \in Old .. c, v # 0, Version(v, x)', Later(v, x)' = {}
               PROVE  table'[x] = v
    OBVIOUS
  <2>1. CASE v = c
    BY <1>2, <1>3, <2>1
  <2>2. CASE v \in Old .. Len(log)
    <3>1. x \notin {old, k}
      BY <1>3, <2>2
    <3>2. Version(v, x) /\ Later(v, x) = {}
      BY <1>3, <2>2
    <3> QED BY <1>1, <1>2, <2>2, <3>1, <3>2 DEF DatabaseInv
  <2> QED BY <1>6, <2>1, <2>2
<1>11. \A i \in 1 .. c : log'[i].op = "i" \/ log'[i].old # log'[i].key =>
         \A v \in Old .. i - 1 : v # 0 /\ Version(v, log[i].key)' =>
           \E j \in Later(v, log[i].key)' : j < i
  <2> SUFFICES ASSUME NEW i \in 1 .. c, log'[i].op = "i" \/ log'[i].old # log'[i].key,
                      NEW v \in Old .. i - 1, v # 0, NEW x, x = log'[i].key, Version(v, x)'
               PROVE  \E j \in Later(v, x)' : j < i
    BY DEF Version, Later
  <2>1. v \in Old .. Len(log)
    BY <1>2 DEF Old
  <2>2. Version(v, x)
    BY <1>3, <2>1
  <2>3. \E j \in Later(v, x) : j < i
    <3>1. CASE i = c
      <4>1. x = k /\ table[k] = 0
        BY <1>2, <1>4, <3>1
      <4>2. Later(v, x) # {}
        BY <1>1, <1>4, <2>1, <2>2, <4>1 DEF DatabaseInv
      <4>3. \A j \in Later(v, x) : j < c
        BY <1>2 DEF Later
      <4> QED BY <3>1, <4>2, <4>3
    <3>2. CASE i \in 1 .. Len(log)
      <4>1. log[i].op = "i" \/ log[i].old # log[i].key
        BY <1>2, <3>2
      <4>2. x = log[i].key
        BY <1>2, <3>2
      <4> QED BY <1>1, <2>2, <3>2, <4>1, <4>2 DEF DatabaseInv
    <3> QED BY <1>2, <3>1, <3>2
  <2> QED BY <1>3, <2>1, <2>3
<1>12. /\ \A i \in 1 .. c : log'[i].old # log'[i].key => log'[i].op = "u"
       /\ \A i \in 1 .. c : kind \in {"mongo", "sqlserver"} => log'[i].old = log'[i].key
  BY <1>1, <1>2, <1>4 DEF DatabaseInv
<1> QED BY <1>2, <1>4, <1>5, <1>7, <1>8, <1>9, <1>10, <1>11, <1>12 DEF DatabaseInv

\* What was to come stays so, and the new change is to come unless it is born behind.
LEMMA ChangeToCome ==
  ASSUME IInv, NEW op, NEW old, NEW k, Made(op, old, k), NEW c, c = Len(log) + 1,
         NEW p \in 0 .. Len(log), NEW l \in Int, l >= Unset
  PROVE  /\ \A i \in ToCome(p, l) : i \in ToCome(p, l)'
         /\ ~BornBehind(l) /\ (kind = "sqlite" => l # Unset) /\ (Timed => l <= clock) =>
              c \in ToCome(p, l)' /\ (~Tails => c > l \/ kind = "sqlite")
<1>1. Typed
  BY DEF IInv, CoreInv
<1>2. /\ Len(log) \in Nat /\ c \in Nat /\ Len(log') = c
      /\ \A i \in 1 .. Len(log) : i \in 1 .. c /\ log'[i] = log[i]
      /\ log'[c].time = clock
  BY ChangeFacts
<1>3. purged' = purged /\ kind' = kind /\ purged \in 0 .. Len(log) /\ clock \in Nat
  BY <1>1, Basics DEF Made, Change
<1>4. ASSUME NEW i \in ToCome(p, l) PROVE i \in ToCome(p, l)'
  <2>1. i \in purged + 1 .. Len(log)
    BY ToComeCases
  <2>2. i \in 1 .. Len(log) /\ i \in purged + 1 .. c
    BY <1>2, <1>3, <2>1
  <2>3. log'[i] = log[i]
    BY <1>2, <2>2
  <2> QED BY <1>2, <1>3, <2>2, <2>3, ToComeCases
<1>5. ASSUME ~BornBehind(l), kind = "sqlite" => l # Unset, Timed => l <= clock
      PROVE  c \in ToCome(p, l)' /\ (~Tails => c > l \/ kind = "sqlite")
  <2>1. c \in purged + 1 .. c /\ c > p
    BY <1>2, <1>3
  <2>2. CASE kind = "sqlite"
    <3>1. clock > l
      BY <1>3, <1>5, <2>2 DEF BornBehind, Timed, Tails
    <3> QED BY <1>2, <1>3, <1>5, <2>1, <2>2, <3>1, ToComeCases
  <2>3. CASE kind \in {"mongo", "mysql"}
    <3>1. clock >= l
      BY <1>3, <1>5, <2>3 DEF Timed
    <3> QED BY <1>2, <1>3, <2>1, <2>3, <3>1, ToComeCases DEF Tails
  <2>4. CASE kind \notin {"sqlite", "mongo", "mysql"}
    <3>1. c > l
      BY <1>2, <1>5, <2>4 DEF BornBehind, Timed, Tails, Unset
    <3> QED BY <1>2, <1>3, <2>1, <2>4, <3>1, ToComeCases
  <2> QED BY <2>2, <2>3, <2>4
<1> QED BY <1>4, <1>5

\* So it is with what is left for the connector ...
LEMMA ChangeLeft ==
  ASSUME IInv, NEW op, NEW old, NEW k, Made(op, old, k), NEW c, c = Len(log) + 1,
         NEW x \in Key, Listening
  PROVE  /\ \A i \in Left(x) : Concerns(i, x) => i \in 1 .. Len(log) /\ i \in Left(x)'
         /\ ~BornBehind(last) /\ ~Blind => c \in Left(x)'
<1>1. Typed /\ PositionInv /\ ListenInv /\ RowsInv
  BY DEF IInv, CoreInv
<1>2. /\ Len(log) \in Nat /\ c \in Nat /\ Len(log') = c
      /\ \A i \in 1 .. Len(log) : i \in 1 .. c /\ i < c
  BY ChangeFacts
<1>3. /\ kind' = kind /\ pc' = pc /\ rows' = rows /\ pos' = pos /\ last' = last /\ high' = high
  BY DEF Made, Change
<1>4. /\ last \in Int /\ high \in Int /\ pos \in 0 .. Len(log) /\ Len(rows) \in Nat /\ purged \in Nat
      /\ \A n \in 1 .. Len(rows) : rows[n].val \in Int /\ rows[n].at \in Int
      /\ last >= Unset /\ (Timed => last <= clock)
  BY <1>1, Basics DEF PositionInv, Old
<1>5. /\ \A i \in ToCome(pos, last) : i \in ToCome(pos, last)'
      /\ ~BornBehind(last) /\ ~Blind => c \in ToCome(pos, last)' /\ (~Tails => c > last \/ kind = "sqlite")
  <2>1. PICK p, l : p = pos /\ l = last
    OBVIOUS
  <2>2. /\ \A i \in ToCome(p, l) : i \in ToCome(p, l)'
        /\ ~BornBehind(l) /\ (kind = "sqlite" => l # Unset) /\ (Timed => l <= clock) =>
             c \in ToCome(p, l)' /\ (~Tails => c > l \/ kind = "sqlite")
    BY <1>4, <2>1, ChangeToCome
  <2>3. \A i : i \in ToCome(p, l)' <=> i \in ToCome(pos, last)'
    BY <1>3, <2>1, ToComeCases
  <2> QED BY <1>4, <2>1, <2>2, <2>3 DEF Blind
<1>6. ToCome(pos, last) \subseteq 1 .. Len(log)
  <2>1. DatabaseInv /\ pos \in Int
    BY <1>4 DEF IInv, CoreInv
  <2> QED BY <1>1, <1>4, <2>1, ToComeUp
<1>7. rows # <<>> => Len(rows) >= 1 /\ 1 \in 1 .. Len(rows) /\ Len(rows) \in 1 .. Len(rows)
  BY <1>1, <1>4, EmptySeq DEF Typed
<1>8. CASE Tails
  <2>1. pc = "advance" => c > pos + 1
    <3>1. pc = "advance" => pos + 1 <= Len(log)
      BY <1>1, <1>8 DEF RowsInv, RowsTailed, Listening
    <3> QED BY <1>2, <1>4, <3>1
  <2>2. Tails'
    BY <1>3, <1>8 DEF Tails
  <2>3. /\ Left(x) = {i \in ToCome(pos, last) : pc = "advance" => i > pos + 1}
        /\ Left(x)' = {i \in ToCome(pos, last)' : pc = "advance" => i > pos + 1}
    BY <1>3, <1>8, <2>2, LeftTails
  <2> QED BY <1>5, <1>6, <2>1, <2>3
<1>9. CASE kind = "sqlite"
  <2>1. Left(x) = ToCome(pos, last) \cup Held /\ Left(x)' = ToCome(pos, last)' \cup Held'
    BY <1>3, <1>9, LeftSqlite
  <2>2. Held' = Held
    BY <1>3 DEF Held
  <2>3. Held \subseteq 1 .. Len(log)
    BY <1>1, <1>9 DEF RowsInv, RowsLogged, Held
  <2> QED BY <1>5, <1>6, <2>1, <2>2, <2>3
<1>10. CASE kind = "oracle"
  <2>1. /\ rows # <<>> => c >= rows[1].val
        /\ pc = "advance" => c > high
    <3>1. rows # <<>> => rows[1].val \in 1 .. Len(log)
      BY <1>1, <1>7, <1>10 DEF RowsInv, RowsLogged
    <3>2. pc = "advance" => high <= Len(log)
      BY <1>1, <1>10 DEF RowsInv, RowsPolled, Tails, Listening
    <3> QED BY <1>2, <1>4, <3>1, <3>2
  <2>2. ~BornBehind(last) => c > last
    BY <1>5, <1>10 DEF Blind, Tails
  <2>3. c \in 1 .. c
    BY <1>2
  <2> QED BY <1>2, <1>3, <1>10, <2>1, <2>2, <2>3, LeftOracle
<1>11. CASE kind = "sqlserver"
  <2>1. /\ rows # <<>> => c > rows[Len(rows)].at
        /\ pc = "advance" => c > high
    <3>1. rows # <<>> => rows[Len(rows)].at \in 1 .. Len(log)
      BY <1>1, <1>7, <1>11 DEF RowsInv, RowsNet
    <3>2. pc = "advance" => high <= Len(log)
      BY <1>1, <1>11 DEF RowsInv, RowsPolled, Tails, Listening
    <3> QED BY <1>2, <1>4, <3>1, <3>2
  <2>2. ~BornBehind(last) => c > last
    BY <1>5, <1>11 DEF Blind, Tails
  <2>3. c \in 1 .. c
    BY <1>2
  <2>4. HasRow(x)' <=> HasRow(x)
    BY <1>3 DEF HasRow
  <2> QED BY <1>2, <1>3, <1>11, <2>1, <2>2, <2>3, <2>4, LeftSQLServer
<1> QED BY <1>1, <1>8, <1>9, <1>10, <1>11, KindsAssumption DEF Tails, Typed, Types

\* ... and with what an engine that starts from disk will be given.
LEMMA ChangeResume ==
  ASSUME IInv, NEW op, NEW old, NEW k, Made(op, old, k), NEW c, c = Len(log) + 1
  PROVE  /\ Usable' <=> Usable
         /\ Resume \subseteq 1 .. Len(log) /\ \A i \in Resume : i \in Resume'
         /\ Usable /\ ~BornBehind(disk.last) => c \in Resume'
<1>1. Typed /\ PositionInv /\ DatabaseInv
  BY DEF IInv, CoreInv
<1>2. /\ Len(log) \in Nat /\ c \in Nat /\ Len(log') = c
      /\ \A i \in 1 .. Len(log) : i \in 1 .. c
  BY ChangeFacts
<1>3. kind' = kind /\ disk' = disk /\ purged' = purged
  BY DEF Made, Change
<1>4. disk.pos \in 0 .. Len(log) /\ disk.last \in Int /\ disk.last >= Unset /\ (Timed => disk.last <= clock)
  BY <1>1, Basics DEF PositionInv
<1>5. Usable' <=> Usable
  BY <1>3 DEF Usable
<1>6. Resume \subseteq 1 .. Len(log)
  <2>1. disk.pos \in Int
    BY <1>4
  <2> QED BY <1>1, <1>4, <2>1, ToComeUp DEF Resume
<1>7. PICK p, l : p = disk.pos /\ l = disk.last
  OBVIOUS
<1>8. /\ \A i \in ToCome(p, l) : i \in ToCome(p, l)'
      /\ ~BornBehind(l) /\ (kind = "sqlite" => l # Unset) => c \in ToCome(p, l)'
  BY <1>4, <1>7, ChangeToCome
<1>9. \A i : i \in ToCome(p, l)' <=> i \in ToCome(disk.pos, disk.last)'
  BY <1>3, <1>7, ToComeCases
<1>10. \A i \in Resume : i \in Resume'
  BY <1>2, <1>3, <1>7, <1>8, <1>9 DEF Resume
<1>11. Usable /\ ~BornBehind(disk.last) => c \in Resume'
  <2>1. c \in 1 .. c
    <3>1. 1 <= c
      BY <1>2
    <3> QED BY <1>2, <3>1
  <2> QED BY <1>2, <1>3, <1>7, <1>8, <1>9, <2>1 DEF Resume, Usable
<1> QED BY <1>5, <1>6, <1>10, <1>11

\* A change keeps the invariant.
LEMMA ChangeKeeps ==
  ASSUME IInv, NEW op, NEW old, NEW k, Made(op, old, k)
  PROVE  CoreInv'
<1> DEFINE mine == {old, k}
<1>1. PICK c : c = Len(log) + 1
  OBVIOUS
<1>2. /\ Typed /\ DatabaseInv /\ ValuesInv /\ PositionInv /\ ListenInv /\ RowsInv
      /\ SqliteInv /\ EngineInv /\ CopyInv /\ DiskInv
  BY DEF IInv, CoreInv
<1>3. /\ Len(log) \in Nat /\ c \in Nat /\ Len(log') = c /\ log' \in Seq(ChangeRec)
      /\ \A i \in 1 .. c : i \in 1 .. Len(log) \/ i = c
      /\ \A i \in 1 .. Len(log) : i \in 1 .. c /\ i < c /\ log'[i] = log[i]
      /\ log'[c].time = clock
      /\ table' \in [Key -> Old .. c]
  BY <1>1, ChangeFacts
<1>4. /\ kind' = kind /\ born' = born /\ purged' = purged /\ clock' = clock /\ pc' = pc
      /\ engine' = engine /\ dirty' = dirty /\ last' = last /\ pos' = pos /\ rows' = rows
      /\ high' = high /\ seen' = seen /\ exit' = exit /\ disk' = disk
      /\ mine \subseteq Key
      /\ missed' = IF BornBehind(last) \/ BornBehind(disk.last) THEN missed \cup mine ELSE missed
      /\ lost' = IF BornBehind(disk.last) THEN lost \cup mine ELSE lost
  BY DEF Made, Change
<1>5. /\ missed \subseteq missed' /\ missed' \subseteq Key /\ lost \subseteq lost' /\ lost' \subseteq Key
      /\ \A x \in mine : x \notin missed' => ~BornBehind(last) /\ ~BornBehind(disk.last)
      /\ \A x \in mine : x \notin lost' => ~BornBehind(disk.last)
  BY <1>2, <1>4 DEF Typed, Types
<1>6. /\ Len(rows) \in Nat /\ pos \in 0 .. Len(log) /\ purged \in 0 .. Len(log) /\ seen \in Nat
      /\ clock \in Nat /\ disk.pos \in 0 .. Len(log)
      /\ \A n \in 1 .. Len(rows) : /\ rows[n].val \in Old .. Len(log) /\ rows[n].at \in Int
                                   /\ rows[n].key \in Key /\ rows[n].old \in Key
      /\ \A x \in Key : engine[x] \in Old .. Len(log) /\ disk.index[x] \in Old .. Len(log)
  BY <1>2, Basics
<1>7. /\ \A v \in Old .. Len(log) : \A x : Version(v, x)' <=> Version(v, x)
      /\ \A v \in Old .. Len(log) : \A x, i : i \in Later(v, x)' <=>
           i \in Later(v, x) \/ (i = c /\ x \in mine)
  BY <1>1, ChangeFrame
<1>8. /\ Usable' <=> Usable
      /\ Resume \subseteq 1 .. Len(log) /\ \A i \in Resume : i \in Resume'
      /\ Usable /\ ~BornBehind(disk.last) => c \in Resume'
  BY <1>1, ChangeResume
<1>9. Timed' = Timed /\ Tails' = Tails
  BY <1>4 DEF Timed, Tails
<1>10. ASSUME NEW x \in Key, NEW v \in Old .. Len(log), v = 0 \/ Version(v, x), NEW A, Good(v, x, A),
              NEW B, \A i \in A : Concerns(i, x) => i \in 1 .. Len(log) /\ i \in B, x \in mine => c \in B
       PROVE  GoodAfter(v, x, B)
  <2>1. x \in {old, k} => c \in B
    BY <1>10
  <2> HIDE DEF mine
  <2> QED BY <1>1, <1>10, <2>1, GoodChange
<1> HIDE DEF mine
<1>11. Typed'
  <2>1. \A v \in Old .. Len(log) : v \in Old .. c
    BY <1>3 DEF Old
  <2>2. engine \in [Key -> Old .. c] /\ disk.index \in [Key -> Old .. c]
    BY <1>2, <2>1 DEF Typed, Types
  <2>3. purged \in 0 .. c /\ pos \in 0 .. c /\ disk.pos <= c
    BY <1>3, <1>6
  <2>4. Types'
    BY <1>2, <1>3, <1>4, <1>5, <2>2, <2>3 DEF Typed, Types
  <2> QED BY <1>2, <1>3, <1>4, <1>6, <2>1, <2>3, <2>4 DEF Typed
<1>12. DatabaseInv'
  BY <1>1, ChangeDatabase
<1>13. ValuesInv'
  <2>1. \A x \in Key : /\ engine[x] = 0 \/ Version(engine[x], x)
                       /\ disk.index[x] = 0 \/ Version(disk.index[x], x)
    BY <1>2 DEF ValuesInv
  <2>2. ASSUME NEW x \in Key, NEW v, NEW w, v = engine[x], w = disk.index[x]
        PROVE  (v = 0 \/ Version(v, x)') /\ (w = 0 \/ Version(w, x)')
    BY <1>6, <1>7, <2>1, <2>2
  <2>3. \A x \in Key : /\ engine'[x] = 0 \/ Version(engine[x], x)'
                       /\ disk'.index[x] = 0 \/ Version(disk.index[x], x)'
    BY <1>4, <2>2 DEF Version
  <2> QED BY <2>3 DEF ValuesInv
<1>14. PositionInv'
  <2>1. \A i \in 1 .. purged : log'[i] = log[i]
    BY <1>3, <1>6
  <2> QED BY <1>2, <1>4, <1>9, <2>1 DEF PositionInv
<1>15. ListenInv'
  <2>1. seen <= clock
    BY <1>2 DEF PositionInv
  <2>2. ASSUME Listening, kind = "mongo", NEW i \in 1 .. c, i > pos PROVE seen <= log'[i].time
    BY <1>2, <1>3, <2>1, <2>2 DEF ListenInv
  <2> QED BY <1>2, <1>3, <1>4, <2>2 DEF ListenInv, Listening
<1>16. RowsInv'
  <2>1. \A n \in 1 .. Len(rows) : \A x : Version(rows[n].val, x)' <=> Version(rows[n].val, x)
    <3> SUFFICES ASSUME NEW n \in 1 .. Len(rows), NEW x
                 PROVE  Version(rows[n].val, x)' <=> Version(rows[n].val, x)
      OBVIOUS
    <3>1. PICK v : v = rows[n].val
      OBVIOUS
    <3>2. Version(v, x)' <=> Version(v, x)
      BY <1>6, <1>7, <3>1
    <3> QED BY <1>4, <3>1, <3>2 DEF Version
  <2>2. RowsCopied'
    BY <1>2, <1>4, <2>1 DEF RowsInv, RowsCopied, Version
  <2>3. RowsTailed'
    <3>1. \A n \in 1 .. Len(rows) : rows'[n] = rows[n]
      BY <1>4
    <3>2. CASE Listening /\ Tails /\ pc # "listen"
      <4>1. pos + 1 <= Len(log) /\ Len(rows) = 1
        BY <1>2, <3>2 DEF RowsInv, RowsTailed
      <4>2. pos + 1 \in 1 .. Len(log) /\ 1 \in 1 .. Len(rows)
        BY <1>3, <1>6, <4>1
      <4>3. log'[pos + 1] = log[pos + 1] /\ pos + 1 <= c
        BY <1>3, <1>6, <4>1, <4>2
      <4>4. Version(rows[1].val, rows[1].key)' <=> Version(rows[1].val, rows[1].key)
        <5>1. PICK y : y = rows[1].key
          OBVIOUS
        <5>2. Version(rows[1].val, y)' <=> Version(rows[1].val, y)
          BY <2>1, <4>2
        <5> QED BY <1>4, <5>1, <5>2 DEF Version
      <4> QED BY <1>2, <1>3, <1>4, <1>9, <3>2, <4>1, <4>3, <4>4 DEF RowsInv, RowsTailed
    <3> QED BY <1>2, <1>4, <1>9, <3>2 DEF RowsInv, RowsTailed, Listening
  <2>4. RowsPolled'
    <3>1. \A h \in Int : h <= Len(log) => h <= c
      BY <1>3
    <3>2. high \in Int
      BY <1>2, Basics
    <3> QED BY <1>2, <1>3, <1>4, <1>9, <3>1, <3>2 DEF RowsInv, RowsPolled, Listening, Handling
  <2>5. RowsLogged'
    <3> SUFFICES ASSUME Listening, kind \in {"sqlite", "oracle"} PROVE RowsLogged'
      BY <1>4 DEF RowsLogged, Listening
    <3>1. /\ \A n \in 1 .. Len(rows) :
               /\ rows[n].val \in 1 .. Len(log)
               /\ rows[n].op = log[rows[n].val].op
               /\ rows[n].old = log[rows[n].val].old /\ rows[n].key = log[rows[n].val].key
               /\ kind = "sqlite" => rows[n].at = log[rows[n].val].time
               /\ kind = "oracle" => rows[n].at = rows[n].val
          /\ \A m, n \in 1 .. Len(rows) : m < n => rows[m].val < rows[n].val
          /\ kind = "oracle" /\ rows # <<>> =>
               \A i \in 1 .. Len(log) : rows[1].val <= i /\ i <= rows[Len(rows)].val => i \in Held
      BY <1>2 DEF RowsInv, RowsLogged
    <3>2. \A n \in 1 .. Len(rows) : log'[rows[n].val] = log[rows[n].val] /\ rows[n].val \in 1 .. c
      BY <1>3, <3>1
    <3>3. ASSUME kind = "oracle", rows # <<>>, NEW i \in 1 .. c, rows[1].val <= i,
                 i <= rows[Len(rows)].val
          PROVE  i \in Held
      <4>1. Len(rows) \in 1 .. Len(rows)
        BY <1>2, <1>6, <3>3, EmptySeq DEF Typed
      <4>2. rows[Len(rows)].val \in 1 .. Len(log)
        BY <3>1, <4>1
      <4>3. i # c
        BY <1>3, <3>3, <4>2
      <4> QED BY <1>3, <3>1, <3>3, <4>3
    <3>4. Held' = Held
      BY <1>4 DEF Held
    <3> QED BY <1>3, <1>4, <3>1, <3>2, <3>3, <3>4 DEF RowsLogged
  <2>6. RowsNet'
    <3> SUFFICES ASSUME Listening, kind = "sqlserver" PROVE RowsNet'
      BY <1>4 DEF RowsNet, Listening
    <3> DEFINE After(m) == {i \in 1 .. m : i > rows[Len(rows)].at}
    <3>1. /\ \A n \in 1 .. Len(rows) :
               /\ rows[n].at \in 1 .. Len(log) /\ log[rows[n].at].key = rows[n].key
               /\ rows[n].old = rows[n].key
               /\ rows[n].op = "d" <=> rows[n].val = 0
               /\ rows[n].val = 0 \/ Version(rows[n].val, rows[n].key)
               /\ Good(rows[n].val, rows[n].key, After(Len(log)))
          /\ \A m, n \in 1 .. Len(rows) : m # n => rows[m].key # rows[n].key
      BY <1>2 DEF RowsInv, RowsNet
    <3>2. ASSUME NEW n \in 1 .. Len(rows)
          PROVE  Good(rows[n].val, rows[n].key, {i \in 1 .. Len(log) : i > rows[Len(rows)].at})'
      <4>1. Len(rows) \in 1 .. Len(rows)
        BY <1>6
      <4>2. rows[Len(rows)].at \in 1 .. Len(log)
        BY <3>1, <4>1
      <4>3. c \in After(c) /\ \A i \in After(Len(log)) : i \in 1 .. Len(log) /\ i \in After(c)
        BY <1>3, <4>2
      <4>4. PICK v, x : v = rows[n].val /\ x = rows[n].key
        OBVIOUS
      <4> HIDE DEF After
      <4>5. x \in Key /\ v \in Old .. Len(log) /\ (v = 0 \/ Version(v, x)) /\ Good(v, x, After(Len(log)))
        BY <1>6, <3>1, <4>4
      <4>6. GoodAfter(v, x, After(c))
        BY <1>10, <4>3, <4>5
      <4> QED BY <1>3, <1>4, <4>4, <4>6 DEF Good, GoodAfter, Later, Concerns, After
    <3>3. \A n \in 1 .. Len(rows) : rows[n].at \in 1 .. c /\ log'[rows[n].at] = log[rows[n].at]
      BY <1>3, <3>1
    <3>4. \A n \in 1 .. Len(rows) : rows[n].val = 0 \/ Version(rows[n].val, rows[n].key)'
      <4> SUFFICES ASSUME NEW n \in 1 .. Len(rows), rows[n].val # 0
                   PROVE  Version(rows[n].val, rows[n].key)'
        OBVIOUS
      <4>1. PICK y : y = rows[n].key
        OBVIOUS
      <4>2. Version(rows[n].val, y)'
        BY <2>1, <3>1, <4>1
      <4> QED BY <1>4, <4>1, <4>2 DEF Version
    <3>5. \A n \in 1 .. Len(rows) :
            /\ rows[n].at \in 1 .. Len(log') /\ log'[rows[n].at].key = rows[n].key
            /\ rows[n].old = rows[n].key /\ (rows[n].op = "d" <=> rows[n].val = 0)
      BY <1>3, <3>1, <3>3
    <3>6. \A m, n \in 1 .. Len(rows) : m # n => rows[m].key # rows[n].key
      BY <3>1
    <3> HIDE DEF After
    <3> QED BY <1>4, <3>2, <3>4, <3>5, <3>6 DEF RowsNet, Version, Good, Later, Concerns
  <2>7. RowsHalf'
    BY <1>2, <1>4 DEF RowsInv, RowsHalf
  <2> QED BY <2>2, <2>3, <2>4, <2>5, <2>6, <2>7 DEF RowsInv
<1>17. ASSUME Listening, NEW x \in Key
       PROVE  /\ \A i \in Left(x) : Concerns(i, x) => i \in 1 .. Len(log) /\ i \in Left(x)'
              /\ ~BornBehind(last) /\ ~Blind => c \in Left(x)'
  BY <1>1, <1>17, ChangeLeft
<1>18. SqliteInv'
  <2> SUFFICES ASSUME kind = "sqlite", Listening, NEW x \in Key \ missed', NEW n \in 1 .. Len(rows),
                      x \in {rows[n].old, rows[n].key}
               PROVE  /\ \A j \in Later(rows[n].val, x)' : j \in Left(x)'
                      /\ disk.file => rows[n].at > disk.last
                      /\ rows[n].val > purged
    BY <1>4 DEF SqliteInv, Listening
  <2>1. /\ \A j \in Later(rows[n].val, x) : j \in Left(x)
        /\ disk.file => rows[n].at > disk.last
        /\ rows[n].val > purged
    BY <1>2, <1>5 DEF SqliteInv
  <2>2. \A j \in Later(rows[n].val, x) : Concerns(j, x)
    BY DEF Later
  <2>3. ~Blind
    BY <1>2, <1>6 DEF ListenInv, Blind
  <2>4. PICK v : v = rows[n].val
    OBVIOUS
  <2>5. \A j \in Later(v, x)' : j \in Left(x)'
    BY <1>5, <1>6, <1>7, <1>17, <2>1, <2>2, <2>3, <2>4
  <2> QED BY <1>4, <2>1, <2>4, <2>5 DEF Later
<1>19. EngineInv'
  <2> SUFFICES ASSUME Listening, ~Blind, NEW x \in Key \ missed' PROVE Good(engine[x], x, Left(x))'
    BY <1>4 DEF EngineInv, Listening, Blind
  <2>1. PICK v : v = engine[x]
    OBVIOUS
  <2>2. v \in Old .. Len(log) /\ (v = 0 \/ Version(v, x)) /\ Good(v, x, Left(x))
    BY <1>2, <1>5, <1>6, <2>1 DEF EngineInv, ValuesInv
  <2>3. GoodAfter(v, x, Left(x)')
    BY <1>5, <1>10, <1>17, <2>2
  <2> QED BY <1>4, <2>1, <2>3 DEF Good, GoodAfter, Later, Concerns
<1>20. ASSUME Usable, NEW x \in Key, x \in mine => ~BornBehind(disk.last),
              NEW v \in Old .. Len(log), v = 0 \/ Version(v, x), Good(v, x, Resume)
       PROVE  GoodAfter(v, x, Resume')
  BY <1>8, <1>10, <1>20
<1>21. ASSUME Usable, NEW x \in Key, x \notin missed', Good(engine[x], x, Resume)
       PROVE  Good(engine[x], x, Resume)'
  <2>1. PICK v : v = engine[x]
    OBVIOUS
  <2>2. v \in Old .. Len(log) /\ (v = 0 \/ Version(v, x)) /\ Good(v, x, Resume)
    BY <1>2, <1>6, <1>21, <2>1 DEF ValuesInv
  <2>3. GoodAfter(v, x, Resume')
    BY <1>5, <1>20, <1>21, <2>2
  <2> QED BY <1>4, <2>1, <2>3 DEF Good, GoodAfter, Later, Concerns
<1>22. CopyInv'
  <2> SUFFICES ASSUME Usable PROVE CopyInv'
    BY <1>8 DEF CopyInv
  <2>1. ASSUME pc = "scan", NEW n \in 1 .. Len(rows), rows[n].key \notin missed'
        PROVE  Good(rows[n].val, rows[n].key, Resume)'
    <3>1. PICK v, x : v = rows[n].val /\ x = rows[n].key
      OBVIOUS
    <3>2. x \in Key /\ v \in Old .. Len(log) /\ Version(v, x) /\ x \notin missed'
      BY <1>2, <1>6, <2>1, <3>1 DEF RowsInv, RowsCopied
    <3>3. Good(v, x, Resume)
      BY <1>2, <1>5, <2>1, <3>1 DEF CopyInv
    <3>4. GoodAfter(v, x, Resume')
      BY <1>5, <1>20, <3>2, <3>3
    <3> QED BY <1>4, <3>1, <3>4 DEF Good, GoodAfter, Later, Concerns
  <2>2. Copying => \A x \in Key \ missed' : engine[x] = 0 \/ Good(engine[x], x, Resume)'
    BY <1>2, <1>5, <1>21 DEF CopyInv
  <2>3. pc = "scan" => \A x \in Key \ missed' :
          Good(engine[x], x, Resume)' \/ \E n \in 1 .. Len(rows) : rows[n].key = x
    BY <1>2, <1>5, <1>21 DEF CopyInv
  <2>4. pc = "load" => \A x \in Key \ missed' : Good(engine[x], x, Resume)'
    BY <1>2, <1>5, <1>21 DEF CopyInv
  <2>5. pc = "scan" => \A n \in 1 .. Len(rows) :
          rows[n].key \in missed' \/ Good(rows[n].val, rows[n].key, Resume)'
    BY <2>1
  <2> QED BY <1>4, <2>2, <2>3, <2>4, <2>5 DEF CopyInv, Copying
<1>23. DiskInv'
  <2>1. ASSUME disk.found, Usable, NEW x \in Key \ lost' PROVE Good(disk.index[x], x, Resume)'
    <3>1. PICK v : v = disk.index[x]
      OBVIOUS
    <3>2. v \in Old .. Len(log) /\ (v = 0 \/ Version(v, x)) /\ Good(v, x, Resume)
      BY <1>2, <1>5, <1>6, <2>1, <3>1 DEF ValuesInv, DiskInv
    <3>3. GoodAfter(v, x, Resume')
      BY <1>5, <1>20, <2>1, <3>2
    <3> QED BY <1>4, <3>1, <3>3 DEF Good, GoodAfter, Later, Concerns
  <2> QED BY <1>2, <1>4, <1>5, <1>8, <2>1 DEF DiskInv, Copying
<1> QED BY <1>11, <1>12, <1>13, <1>14, <1>15, <1>16, <1>18, <1>19, <1>22, <1>23 DEF IInv, CoreInv

\* Rows are inserted, deleted and updated.
LEMMA RowChangeKeeps ==
  ASSUME IInv, NEW k \in Key, Insert(k) \/ Delete(k) \/ Update(k)
  PROVE  CoreInv'
<1>1. \E op \in {"i", "u", "d"} : Made(op, k, k)
  BY DEF Insert, Delete, Update, Made
<1> QED BY <1>1, ChangeKeeps

\* The key of a row changes.
LEMMA RenameKeeps ==
  ASSUME IInv, NEW k \in Key, NEW l \in Key, Rename(k, l)
  PROVE  CoreInv'
<1>1. Made("u", k, l)
  BY DEF Rename, Made
<1> QED BY <1>1, ChangeKeeps

-----------------------------------------------------------------------------
(* The whole specification. *)

\* Time passes, or nothing happens.
LEMMA IdleKeeps ==
  ASSUME IInv, DbSame, clock' \in Nat, clock' >= clock, purged' = purged, pc' = pc, engine' = engine,
         dirty' = dirty, last' = last, pos' = pos, rows' = rows, high' = high, seen' = seen,
         exit' = exit, disk' = disk, missed' = missed, lost' = lost
  PROVE  CoreInv'
<1>1. /\ Typed /\ DatabaseInv /\ ValuesInv /\ PositionInv /\ ListenInv /\ RowsInv
      /\ SqliteInv /\ EngineInv /\ CopyInv /\ DiskInv
  BY DEF IInv, CoreInv
<1>2. /\ clock \in Nat /\ last \in Int /\ disk.last \in Int /\ seen \in Nat
  BY <1>1, Basics
<1>3. Resume' = Resume /\ (Usable' <=> Usable) /\ Timed' = Timed /\ Tails' = Tails
  BY ResumeFrame, DbFrame
<1>4. Typed'
  BY <1>1 DEF Typed, Types, DbSame
<1>5. DatabaseInv'
  BY <1>1, DatabaseFrame
<1>6. ValuesInv'
  BY <1>1 DEF ValuesInv, Version, DbSame
<1>7. PositionInv'
  <2>1. \A t \in Int : t <= clock => t <= clock'
    BY <1>2
  <2>2. (Timed => last <= clock' /\ disk.last <= clock') /\ seen <= clock'
    BY <1>1, <1>2, <2>1 DEF PositionInv
  <2> QED BY <1>1, <1>3, <2>2 DEF PositionInv, DbSame
<1>8. ListenInv'
  BY <1>1 DEF ListenInv, DbSame, Listening
<1>9. RowsInv'
  <2>1. RowsLogged'
    BY <1>1 DEF RowsInv, RowsLogged, DbSame, Listening, Held
  <2>2. RowsNet'
    BY <1>1 DEF RowsInv, RowsNet, DbSame, Listening, Version, Good, Later, Concerns
  <2>3. RowsPolled'
    BY <1>1, <1>3 DEF RowsInv, RowsPolled, DbSame, Listening, Handling
  <2>4. RowsTailed' /\ RowsCopied' /\ RowsHalf'
    BY <1>1, <1>3 DEF RowsInv, RowsTailed, RowsCopied, RowsHalf, DbSame, Listening, Version
  <2> QED BY <2>1, <2>2, <2>3, <2>4 DEF RowsInv
<1>10. \A k : Left(k)' = Left(k)
  <2>1. \A p, l : ToCome(p, l)' = ToCome(p, l)
    BY DbFrame
  <2>2. ToCome(pos, last)' = ToCome(pos, last)
    BY <2>1, ToComeCases DEF DbSame
  <2> QED BY <1>3, <2>2 DEF Left, Held, DbSame
<1>11. SqliteInv'
  BY <1>1, <1>10 DEF SqliteInv, DbSame, Listening, Later, Concerns
<1>12. EngineInv'
  BY <1>1, <1>10 DEF EngineInv, DbSame, Listening, Blind, Good, Later, Concerns
<1>13. CopyInv'
  BY <1>1, <1>3 DEF CopyInv, DbSame, Copying, Good, Later, Concerns
<1>14. DiskInv'
  BY <1>1, <1>3 DEF DiskInv, DbSame, Copying, Good, Later, Concerns
<1> QED BY <1>4, <1>5, <1>6, <1>7, <1>8, <1>9, <1>11, <1>12, <1>13, <1>14 DEF IInv, CoreInv

\* The clock goes on.
LEMMA TickKeeps ==
  ASSUME IInv, Tick
  PROVE  CoreInv'
<1>1. clock \in Nat /\ clock' = clock + 1
  BY Basics DEF IInv, CoreInv, Tick
<1>2. clock' \in Nat /\ clock' >= clock
  BY <1>1
<1>3. /\ DbSame /\ purged' = purged /\ pc' = pc /\ engine' = engine
      /\ dirty' = dirty /\ last' = last /\ pos' = pos /\ rows' = rows /\ high' = high /\ seen' = seen
      /\ exit' = exit /\ disk' = disk /\ missed' = missed /\ lost' = lost
  BY DEF Tick, DbSame
<1> QED BY <1>2, <1>3, IdleKeeps

-----------------------------------------------------------------------------
(* The document limit, and the rows that are older than the log. *)

\* A key that the row at hand names has no row older than the log any more.
LEMMA RowAtHand ==
  ASSUME IInv, Handling
  PROVE  /\ rows \in Seq(RowRec) /\ Len(rows) \in Nat /\ Len(rows) >= 1 /\ Head(rows) = rows[1]
         /\ rows[1].old \in Key /\ rows[1].key \in Key
         /\ table[rows[1].old] # Old /\ table[rows[1].key] # Old
<1>1. Typed /\ DatabaseInv /\ RowsInv /\ Listening
  BY DEF IInv, CoreInv, Handling, Listening
<1>2. rows \in Seq(RowRec) /\ Len(rows) \in Nat /\ Len(rows) >= 1 /\ 1 \in 1 .. Len(rows)
  <2>1. rows # <<>>
    BY <1>1 DEF RowsInv, RowsTailed, RowsPolled, Handling
  <2> QED BY <1>1, <2>1, EmptySeq DEF Typed
<1>3. rows[1].old \in Key /\ rows[1].key \in Key /\ Len(log) \in Nat
  BY <1>1, <1>2, Basics
<1>4. PICK i \in 1 .. Len(log) : Concerns(i, rows[1].old) /\ Concerns(i, rows[1].key)
  <2>1. CASE kind = "sqlserver"
    <3>1. /\ rows[1].at \in 1 .. Len(log) /\ log[rows[1].at].key = rows[1].key
          /\ rows[1].old = rows[1].key
      BY <1>1, <1>2, <2>1 DEF RowsInv, RowsNet
    <3> QED BY <3>1 DEF Concerns
  <2>2. CASE kind # "sqlserver"
    <3>1. Cur \in 1 .. Len(log) /\ rows[1].old = log[Cur].old /\ rows[1].key = log[Cur].key
      BY <2>2, CurrentChange
    <3> QED BY <3>1 DEF Concerns
  <2> QED BY <2>1, <2>2
<1>5. ASSUME NEW k \in Key, Concerns(i, k) PROVE table[k] # Old
  <2>1. i \in Later(Old, k)
    BY <1>3, <1>5 DEF Later, Old
  <2>2. table[k] # 0 => Later(table[k], k) = {}
    BY <1>1 DEF DatabaseInv
  <2> QED BY <2>1, <2>2 DEF Old
<1> QED BY <1>2, <1>3, <1>4, <1>5

\* What a row at hand leaves is in the index or is no row older than the log.
LEMMA HandledCopied ==
  ASSUME IInv, Handling, pc' \notin {"off", "connect", "scan"}, table' = table, disk' = disk,
         lost' = lost,
         \A k \in Key : k \notin {rows[1].old, rows[1].key} =>
           engine'[k] = engine[k] /\ (k \in missed => k \in missed')
  PROVE  CopiedInv'
<1>1. \A k \in Key \ missed : Copied(engine[k], k)
  BY DEF IInv, CopiedInv, Handling
<1>2. ASSUME NEW k \in Key \ missed' PROVE Copied(engine'[k], k)
  <2>1. CASE k \in {rows[1].old, rows[1].key}
    BY <2>1, RowAtHand DEF Copied
  <2>2. CASE k \notin {rows[1].old, rows[1].key}
    BY <1>1, <1>2, <2>2
  <2> QED BY <2>1, <2>2
<1>3. disk.found => \A k \in Key \ lost : Copied(disk.index[k], k)
  BY DEF IInv, CopiedInv
<1> QED BY <1>2, <1>3 DEF CopiedInv, Copied

\* The index is as it was, and no key has left the account that differs from the table.
LEMMA SameCopied ==
  ASSUME IInv, table' = table, engine' = engine, disk' = disk, lost' = lost,
         pc \notin {"off", "connect", "scan"}, pc' \notin {"off", "connect", "scan"},
         \A k \in missed : k \in missed' \/ engine[k] = table[k]
  PROVE  CopiedInv'
<1>1. /\ \A k \in Key \ missed : Copied(engine[k], k)
      /\ disk.found => \A k \in Key \ lost : Copied(disk.index[k], k)
  BY DEF IInv, CopiedInv
<1>2. ASSUME NEW k \in Key \ missed' PROVE Copied(engine[k], k)
  <2>1. CASE engine[k] = table[k]
    BY <2>1 DEF Copied, Old
  <2> QED BY <1>1, <1>2, <2>1
<1> QED BY <1>1, <1>2 DEF CopiedInv, Copied

\* The copy of the table.
LEMMA ScanCopied ==
  ASSUME IInv, ScanBegin \/ ScanRow \/ ScanError \/ ScanEnd
  PROVE  CopiedInv'
<1>1. disk.found => \A k \in Key \ lost : Copied(disk.index[k], k)
  BY DEF IInv, CopiedInv
<1>2. Typed /\ RowsInv
  BY DEF IInv, CoreInv
<1>3. CASE ScanBegin
  <2> DEFINE held == {k \in Key : table[k] # 0}
  <2>1. /\ table' = table /\ disk' = disk /\ lost' = lost /\ missed' = missed /\ engine' = engine
        /\ pc' = "scan"
        /\ rows' = [n \in 1 .. Len(SetToSeq(held)) |->
             [op |-> "i", old |-> SetToSeq(held)[n], key |-> SetToSeq(held)[n],
              val |-> table[SetToSeq(held)[n]], at |-> Unset]]
    BY <1>3 DEF ScanBegin
  <2>2. IsFiniteSet(held)
    BY KeyAssumption, FS_Subset
  <2>3. ASSUME NEW k \in Key, table[k] = Old PROVE \E n \in 1 .. Len(rows') : rows'[n].key = k
    <3>1. k \in held
      BY <2>3 DEF Old
    <3> HIDE DEF held
    <3>2. /\ Cardinality(held) \in Nat /\ SetToSeq(held) \in [1 .. Cardinality(held) -> held]
          /\ \A x \in held : \E n \in 1 .. Cardinality(held) : SetToSeq(held)[n] = x
      BY <2>2, SetToSeqLists
    <3>3. Len(SetToSeq(held)) = Cardinality(held)
      BY <3>2
    <3>4. PICK n \in 1 .. Cardinality(held) : SetToSeq(held)[n] = k
      BY <3>1, <3>2
    <3>5. Len(rows') = Cardinality(held) /\ rows'[n].key = k
      BY <2>1, <3>2, <3>3, <3>4
    <3> QED BY <3>5
  <2> HIDE DEF held
  <2> QED BY <1>1, <2>1, <2>3 DEF CopiedInv, Copied
<1>4. CASE ScanRow
  <2> DEFINE r == rows[1]
  <2>1. /\ table' = table /\ disk' = disk /\ lost' = lost /\ pc = "scan" /\ pc' = "scan"
        /\ rows # <<>> /\ rows' = Tail(rows)
        /\ missed' = (IF engine[r.key] = 0 /\ Full(engine) THEN missed \cup {r.key} ELSE missed)
        /\ engine' = IF engine[r.key] = 0 /\ ~Full(engine) THEN [engine EXCEPT ![r.key] = r.val] ELSE engine
    <3>1. Head(rows) = r
      OBVIOUS
    <3> HIDE DEF r
    <3> QED BY <1>4, <3>1 DEF ScanRow, Write, InsertRecord, NoPlace
  <2>2. rows \in Seq(RowRec) /\ Len(rows) \in Nat /\ Len(rows) >= 1 /\ 1 \in 1 .. Len(rows)
    BY <1>2, <2>1, EmptySeq DEF Typed
  <2>3. Len(rows') = Len(rows) - 1 /\ \A n \in 1 .. Len(rows') : rows'[n] = rows[n + 1]
    BY <2>1, <2>2
  <2>4. r.key \in Key /\ r.val # 0 /\ engine \in [Key -> Old .. Len(log)]
    BY <1>2, <2>1, <2>2, Basics DEF RowsInv, RowsCopied, Typed, Types
  <2>5. \A k \in Key \ missed : Copied(engine[k], k) \/ \E n \in 1 .. Len(rows) : rows[n].key = k
    BY <2>1 DEF IInv, CopiedInv
  <2>6. ASSUME NEW k \in Key \ missed'
        PROVE  Copied(engine'[k], k) \/ \E n \in 1 .. Len(rows') : rows'[n].key = k
    <3>1. CASE k = r.key
      <4>1. engine'[k] # 0
        <5> HIDE DEF r
        <5> QED BY <2>1, <2>4, <2>6, <3>1
      <4> QED BY <4>1 DEF Copied
    <3>2. CASE k # r.key
      <4>1. engine'[k] = engine[k] /\ k \notin missed
        <5> HIDE DEF r
        <5> QED BY <2>1, <2>4, <2>6, <3>2
      <4>2. ASSUME NEW n \in 1 .. Len(rows), rows[n].key = k
            PROVE  \E m \in 1 .. Len(rows') : rows'[m].key = k
        <5>1. n # 1
          BY <3>2, <4>2
        <5>2. n - 1 \in 1 .. Len(rows') /\ (n - 1) + 1 = n
          BY <2>2, <2>3, <5>1
        <5> QED BY <2>3, <4>2, <5>2
      <4> QED BY <2>5, <4>1, <4>2
    <3> QED BY <3>1, <3>2
  <2> HIDE DEF r
  <2> QED BY <1>1, <2>1, <2>6 DEF CopiedInv, Copied
<1>5. CASE ScanError
  BY <1>1, <1>5 DEF ScanError, CopiedInv, Copied
<1>6. CASE ScanEnd
  <2>1. /\ table' = table /\ disk' = disk /\ lost' = lost /\ missed' = missed /\ engine' = engine
        /\ pc = "scan" /\ pc' = "load" /\ rows = <<>>
    BY <1>6 DEF ScanEnd
  <2>2. \A k \in Key \ missed : Copied(engine[k], k)
    BY <2>1 DEF IInv, CopiedInv
  <2> QED BY <1>1, <2>1, <2>2 DEF CopiedInv, Copied
<1> QED BY <1>3, <1>4, <1>5, <1>6

\* The thread while it listens.
LEMMA ListenCopied ==
  ASSUME IInv, LoadPosition \/ Poll \/ TailRow \/ TakeRow \/ ApplyRow \/ UpdateDelete \/ UpdateInsert
               \/ Advance \/ FetchError
  PROVE  CopiedInv'
<1>1. CASE LoadPosition
  BY <1>1, SameCopied DEF LoadPosition
<1>2. CASE Poll
  BY <1>2, SameCopied DEF Poll
<1>3. CASE TailRow
  BY <1>3, SameCopied DEF TailRow
<1>4. CASE TakeRow
  BY <1>4, SameCopied DEF TakeRow
<1>5. CASE Advance
  BY <1>5, SameCopied DEF Advance
<1>6. CASE FetchError
  BY <1>6, SameCopied DEF FetchError
<1>7. ASSUME Handling, NEW e, NEW r, r = rows[1], NEW given, Account(e, r, given),
             NEW k \in Key, k \notin {r.old, r.key}, k \in missed
      PROVE  k \in missed'
  BY <1>7 DEF Account
<1>8. engine \in [Key -> Old .. Len(log)]
  BY DEF IInv, CoreInv, Typed, Types
<1>9. CASE ApplyRow
  <2>1. Handling /\ Head(rows) = rows[1]
    BY <1>9, RowAtHand DEF ApplyRow, Handling
  <2>2. PICK r : r = rows[1]
    OBVIOUS
  <2>3. /\ pc' \in {"advance", "listen"} /\ table' = table /\ disk' = disk /\ lost' = lost
        /\ \/ engine' = InsertRecord(engine, r.key, r.val) \/ engine' = DeleteRecord(engine, r.old)
           \/ engine' = engine
        /\ \E e, given : Account(e, r, given)
    BY <1>9, <2>1, <2>2 DEF ApplyRow, RowDone, Write
  <2>4. \A k \in Key : k \notin {r.old, r.key} => engine'[k] = engine[k]
    BY <1>8, <2>3 DEF InsertRecord, DeleteRecord
  <2> QED BY <1>7, <2>1, <2>2, <2>3, <2>4, HandledCopied
<1>10. CASE UpdateInsert
  <2>1. Handling /\ Head(rows) = rows[1]
    BY <1>10, RowAtHand DEF UpdateInsert, Handling
  <2>2. PICK r : r = rows[1]
    OBVIOUS
  <2>3. /\ pc' \in {"advance", "listen"} /\ table' = table /\ disk' = disk /\ lost' = lost
        /\ engine' = Reinsert(engine, r)
        /\ \E e, given : Account(e, r, given)
    BY <1>10, <2>1, <2>2 DEF UpdateInsert, RowDone, Write
  <2>4. \A k \in Key : k \notin {r.old, r.key} => engine'[k] = engine[k]
    BY <1>8, <2>3 DEF Reinsert, InsertRecord
  <2> QED BY <1>7, <2>1, <2>2, <2>3, <2>4, HandledCopied
<1>11. CASE UpdateDelete
  <2>1. Handling /\ Head(rows) = rows[1]
    BY <1>11, RowAtHand DEF UpdateDelete, Handling
  <2>2. PICK r : r = rows[1]
    OBVIOUS
  <2>3. /\ pc' = "reinsert" /\ table' = table /\ disk' = disk /\ lost' = lost /\ missed' = missed
        /\ engine' = DeleteRecord(engine, r.old)
    BY <1>11, <2>1, <2>2 DEF UpdateDelete, Write
  <2>4. \A k \in Key : k \notin {r.old, r.key} => engine'[k] = engine[k]
    BY <1>8, <2>3 DEF DeleteRecord
  <2> QED BY <2>1, <2>2, <2>3, <2>4, HandledCopied
<1> QED BY <1>1, <1>2, <1>3, <1>4, <1>5, <1>6, <1>9, <1>10, <1>11

\* The engine around it.
LEMMA EngineCopied ==
  ASSUME IInv, Start \/ SaveCommand \/ StampEarly \/ SaveIndex \/ SaveTimestamp \/ Crash
               \/ RemoveIndex \/ PurgeBinlog
  PROVE  CopiedInv'
<1>1. /\ disk.found => \A k \in Key \ lost : Copied(disk.index[k], k)
      /\ pc \notin {"off", "connect", "scan"} => \A k \in Key \ missed : Copied(engine[k], k)
      /\ pc = "scan" => \A k \in Key \ missed :
           Copied(engine[k], k) \/ \E n \in 1 .. Len(rows) : rows[n].key = k
      /\ disk \in DiskRec
  BY DEF IInv, CoreInv, Typed, CopiedInv
<1>2. ASSUME table' = table, pc # "off", pc' = pc, engine' = engine, missed' = missed, rows' = rows,
             disk'.index = engine, lost' = LostByIndex
      PROVE  CopiedInv'
  <2>1. ASSUME NEW k \in Key \ lost' PROVE Copied(engine[k], k)
    <3>1. pc \notin {"connect", "scan"} /\ k \notin missed
      BY <1>2, <2>1 DEF LostByIndex
    <3> QED BY <1>1, <1>2, <3>1
  <2> QED BY <1>1, <1>2, <2>1 DEF CopiedInv, Copied
<1>3. CASE SaveCommand
  <2>1. disk'.index = engine
    BY <1>1, <1>3 DEF SaveCommand, DiskRec
  <2> QED BY <1>2, <1>3, <2>1 DEF SaveCommand
<1>4. CASE SaveIndex
  <2>1. disk'.index = engine
    BY <1>1, <1>4 DEF SaveIndex, DiskRec
  <2> QED BY <1>2, <1>4, <2>1 DEF SaveIndex
<1>5. ASSUME disk' = Stamped(disk), lost' = LostByStamp
      PROVE  disk'.found = disk.found /\ disk'.index = disk.index /\ lost \subseteq lost'
  BY <1>1, <1>5 DEF Stamped, LostByStamp, DiskRec
<1>6. CASE StampEarly
  BY <1>1, <1>5, <1>6 DEF StampEarly, CopiedInv, Copied
<1>7. CASE SaveTimestamp
  BY <1>1, <1>5, <1>7 DEF SaveTimestamp, Gone, CopiedInv, Copied
<1>8. CASE Crash
  BY <1>1, <1>8 DEF Crash, Gone, CopiedInv, Copied
<1>9. CASE Start
  BY <1>1, <1>9 DEF Start, IndexExists, CopiedInv, Copied
<1>10. CASE RemoveIndex
  <2>1. ~disk'.found
    BY <1>1, <1>10 DEF RemoveIndex, DiskRec
  <2> QED BY <1>10, <2>1 DEF RemoveIndex, CopiedInv
<1>11. CASE PurgeBinlog
  BY <1>1, <1>11 DEF PurgeBinlog, CopiedInv, Copied
<1> QED BY <1>3, <1>4, <1>6, <1>7, <1>8, <1>9, <1>10, <1>11

\* A change makes no row old.
LEMMA ChangeCopied ==
  ASSUME IInv, NEW op, NEW old, NEW k, Change(op, old, k)
  PROVE  CopiedInv'
<1>1. /\ disk.found => \A x \in Key \ lost : Copied(disk.index[x], x)
      /\ pc \notin {"off", "connect", "scan"} => \A x \in Key \ missed : Copied(engine[x], x)
      /\ pc = "scan" => \A x \in Key \ missed :
           Copied(engine[x], x) \/ \E n \in 1 .. Len(rows) : rows[n].key = x
  BY DEF IInv, CopiedInv
<1>2. /\ disk' = disk /\ pc' = pc /\ engine' = engine /\ rows' = rows
      /\ missed \subseteq missed' /\ lost \subseteq lost'
      /\ table' = [x \in Key |-> IF x = k /\ op # "d" THEN Len(log) + 1
                                 ELSE IF x \in {old, k} THEN 0 ELSE table[x]]
  BY DEF Change
<1>3. Len(log) \in Nat
  BY Basics DEF IInv, CoreInv
<1>4. \A x \in Key : table[x] # Old => table'[x] # Old
  BY <1>2, <1>3 DEF Old
<1> QED BY <1>1, <1>2, <1>4 DEF CopiedInv, Copied

\* The limit, and the row an update has deleted.
LEMMA LimitKeeps ==
  ASSUME IInv, Next
  PROVE  LimitInv'
<1>1. /\ limit \in Limits \cup {0} /\ kept \in Old .. Len(log) /\ Typed /\ ValuesInv
      /\ pc = "reinsert" => kept = 0 \/ Version(kept, rows[1].old)
  BY DEF IInv, CoreInv, LimitInv
<1>2. Len(log) \in Nat /\ 0 \in Old .. Len(log)
  BY <1>1, Basics DEF Old
<1>3. ASSUME limit' \in Limits \cup {0}, log' = log, kept' = kept \/ kept' = 0, pc' # "reinsert"
      PROVE  LimitInv'
  BY <1>1, <1>2, <1>3 DEF LimitInv
<1>4. ASSUME limit' = limit, log' = log, kept' = kept, pc' = pc, rows' = rows, born' = born
      PROVE  LimitInv'
  BY <1>1, <1>2, <1>4 DEF LimitInv, Version
<1>5. ASSUME NEW op, NEW old, NEW k, Change(op, old, k) PROVE LimitInv'
  <2>1. /\ limit' = limit /\ kept' = kept /\ pc' = pc /\ rows' = rows /\ born' = born
        /\ log' = Append(log, [op |-> op, old |-> old, key |-> k, time |-> clock])
    BY <1>5 DEF Change
  <2>2. log \in Seq(ChangeRec)
    BY <1>1 DEF Typed
  <2>3. Len(log') = Len(log) + 1 /\ \A i \in 1 .. Len(log) : log'[i] = log[i]
    BY <2>1, <2>2
  <2>4. kept' \in Old .. Len(log')
    BY <1>1, <1>2, <2>1, <2>3 DEF Old
  <2>5. ASSUME pc' = "reinsert" PROVE kept' = 0 \/ Version(kept, rows[1].old)'
    <3>1. kept = 0 \/ Version(kept, rows[1].old)
      BY <1>1, <2>1, <2>5
    <3>2. \A i \in 1 .. Len(log) : i \in 1 .. Len(log')
      BY <1>2, <2>3
    <3> QED BY <2>1, <2>3, <3>1, <3>2 DEF Version
  <2> QED BY <1>1, <2>1, <2>4, <2>5 DEF LimitInv
<1>6. CASE Database
  <2>1. CASE Tick
    BY <1>4, <2>1 DEF Tick
  <2> QED BY <1>5, <1>6, <2>1 DEF Database, Insert, Delete, Update, Rename
<1>7. CASE Start
  <2>1. pc' # "reinsert"
    BY <1>7 DEF Start
  <2> QED BY <1>3, <1>7, <2>1 DEF Start
<1>8. CASE ScanBegin \/ ScanRow \/ ScanEnd \/ ScanError
  BY <1>1, <1>3, <1>8 DEF ScanBegin, ScanRow, ScanEnd, ScanError
<1>9. CASE LoadPosition \/ Advance \/ FetchError
  <2>1. pc' # "reinsert"
    BY <1>9 DEF LoadPosition, Advance, FetchError
  <2> QED BY <1>1, <1>3, <1>9, <2>1 DEF LoadPosition, Advance, FetchError
<1>10. CASE Poll \/ TailRow \/ TakeRow
  <2>1. pc' # "reinsert"
    BY <1>10 DEF Poll, TailRow, TakeRow
  <2> QED BY <1>1, <1>3, <1>10, <2>1 DEF Poll, TailRow, TakeRow
<1>11. CASE ApplyRow \/ UpdateInsert
  <2>1. pc' # "reinsert"
    BY <1>11 DEF ApplyRow, UpdateInsert, RowDone
  <2> QED BY <1>1, <1>3, <1>11, <2>1 DEF ApplyRow, UpdateInsert
<1>12. CASE UpdateDelete
  <2> DEFINE r == rows[1]
             w == UpdateValue(r)
             q == [r EXCEPT !.val = w]
  <2>1. Handling /\ rows \in Seq(RowRec) /\ Len(rows) >= 1 /\ Head(rows) = r /\ r.old \in Key
    BY <1>12, RowAtHand DEF UpdateDelete, Handling
  <2>2. /\ limit' = limit /\ log' = log /\ born' = born /\ kept' = engine[r.old]
        /\ rows' = <<q>> \o Tail(rows)
    BY <1>12, <2>1 DEF UpdateDelete
  <2>3. r \in RowRec /\ Tail(rows) \in Seq(RowRec)
    <3>1. Len(rows) \in Nat /\ 1 \in 1 .. Len(rows) /\ rows # <<>>
      BY <2>1, RowAtHand
    <3> QED BY <2>1, <3>1
  <2>4. q.old = r.old
    BY <2>3 DEF RowRec
  <2>5. rows'[1] = q
    <3> DEFINE t == Tail(rows)
    <3>1. t \in Seq(RowRec) /\ rows' = <<q>> \o t
      BY <2>2, <2>3
    <3> HIDE DEF t, q
    <3>2. Len(t) \in Nat
      BY <3>1
    <3> QED BY <3>1, <3>2
  <2>6. engine[r.old] \in Old .. Len(log) /\ (engine[r.old] = 0 \/ Version(engine[r.old], r.old))
    BY <1>1, <2>1 DEF Typed, Types, ValuesInv
  <2>7. rows'[1].old = r.old
    BY <2>4, <2>5
  <2> HIDE DEF r, q, w
  <2> QED BY <1>1, <2>2, <2>6, <2>7 DEF LimitInv, Version
<1>13. CASE SaveCommand \/ StampEarly \/ SaveIndex \/ RemoveIndex \/ PurgeBinlog
  BY <1>4, <1>13 DEF SaveCommand, StampEarly, SaveIndex, RemoveIndex, PurgeBinlog
<1>14. CASE SaveTimestamp \/ Crash
  BY <1>3, <1>14 DEF SaveTimestamp, Crash, Gone
<1> QED BY <1>6, <1>7, <1>8, <1>9, <1>10, <1>11, <1>12, <1>13, <1>14 DEF Next, Connector

\* No step disturbs what was copied.
LEMMA CopiedKeeps ==
  ASSUME IInv, Next
  PROVE  CopiedInv'
<1>1. CASE Database
  <2>1. CASE Tick
    BY <2>1 DEF Tick, IInv, CopiedInv, Copied
  <2> QED BY <1>1, <2>1, ChangeCopied DEF Database, Insert, Delete, Update, Rename
<1>2. CASE Start \/ SaveCommand \/ StampEarly \/ SaveIndex \/ SaveTimestamp \/ Crash
           \/ RemoveIndex \/ PurgeBinlog
  BY <1>2, EngineCopied
<1>3. CASE Connector \/ ScanError \/ FetchError
  BY <1>3, ScanCopied, ListenCopied DEF Connector
<1> QED BY <1>1, <1>2, <1>3 DEF Next


\* The invariant holds at first.
LEMMA InitIInv == Init => IInv
<1> SUFFICES ASSUME Init PROVE IInv
  OBVIOUS
<1>1. /\ kind \in Kinds /\ born \in Tables /\ table = [k \in Key |-> IF k \in born THEN Old ELSE 0]
      /\ log = <<>> /\ purged = 0 /\ clock = 1 /\ pc = "off" /\ engine = Empty /\ dirty = FALSE
      /\ last = Unset /\ pos = 0 /\ rows = <<>> /\ high = Unset /\ seen = 0 /\ exit = "no"
      /\ missed = {} /\ lost = {}
      /\ disk = [found |-> FALSE, index |-> Empty, file |-> FALSE, last |-> Unset, pos |-> 0]
  BY DEF Init
<1>2. Len(log) = 0 /\ Len(rows) = 0 /\ log \in Seq(ChangeRec) /\ rows \in Seq(RowRec)
  BY <1>1
<1>3. born \subseteq Key
  BY <1>1, TablesAssumption
<1>4. Empty \in [Key -> Old .. 0] /\ Empty \in [Key -> Int] /\ table \in [Key -> Old .. 0]
  BY <1>1 DEF Empty, Old
<1>5. disk \in DiskRec /\ disk.found = FALSE /\ disk.index = Empty /\ disk.file = FALSE
      /\ disk.last = Unset /\ disk.pos = 0
  BY <1>1, <1>4 DEF DiskRec, Unset
<1>6. Typed
  <2>1. last \in Int /\ high \in Int /\ 0 \in 0 .. 0
    BY <1>1 DEF Unset
  <2>2. Types
    BY <1>1, <1>2, <1>4, <1>5, <2>1 DEF Types
  <2>3. 1 .. Len(rows) = {} /\ disk.pos <= Len(log) /\ clock \in Nat /\ seen \in Nat
    BY <1>1, <1>2, <1>5
  <2> QED BY <1>2, <1>3, <1>5, <2>2, <2>3 DEF Typed
<1>7. DatabaseInv
  <2>1. \A i : i \notin 1 .. Len(log)
    BY <1>2
  <2>2. \A v, k : Later(v, k) = {}
    BY <2>1 DEF Later
  <2>3. \A v, k : Version(v, k) <=> v = Old /\ k \in born
    BY <2>1 DEF Version
  <2>4. \A k \in Key : table[k] = IF k \in born THEN Old ELSE 0
    BY <1>1
  <2>5. Old # 0 /\ clock >= 1
    BY <1>1 DEF Old
  <2> QED BY <2>1, <2>2, <2>3, <2>4, <2>5 DEF DatabaseInv
<1>8. ValuesInv
  BY <1>1, <1>5 DEF ValuesInv, Empty
<1>9. PositionInv
  BY <1>1, <1>5 DEF PositionInv, Unset
<1>10. ListenInv /\ RowsInv /\ SqliteInv /\ EngineInv
  BY <1>1 DEF Listening, ListenInv, SqliteInv, EngineInv, RowsInv, RowsCopied, RowsTailed, RowsPolled,
              RowsLogged, RowsNet, RowsHalf
<1>11. CopyInv /\ DiskInv
  BY <1>1, <1>5 DEF CopyInv, DiskInv, Copying
<1>12. CoreInv
  BY <1>6, <1>7, <1>8, <1>9, <1>10, <1>11 DEF CoreInv
<1>13. LimitInv /\ CopiedInv
  BY <1>1, <1>2, <1>5 DEF Init, LimitInv, CopiedInv, Old
<1> QED BY <1>12, <1>13 DEF IInv

\* The invariant is inductive.
LEMMA NextCore ==
  ASSUME IInv, [Next]_vars
  PROVE  CoreInv'
<1>1. CASE Database
  BY <1>1, RowChangeKeeps, RenameKeeps, TickKeeps DEF Database
<1>2. CASE Start
  BY <1>2, StartKeeps
<1>3. CASE Connector
  BY <1>3, ScanBeginKeeps, ScanRowKeeps, ScanEndKeeps, LoadPositionKeeps, PollKeeps, TailRowKeeps,
     TakeRowKeeps, ApplyRowKeeps, UpdateDeleteKeeps, UpdateInsertKeeps, AdvanceKeeps DEF Connector
<1>4. CASE ScanError \/ FetchError
  BY <1>4, ScanErrorKeeps, FetchErrorKeeps
<1>5. CASE SaveCommand \/ StampEarly \/ SaveIndex
  BY <1>5, SaveCommandKeeps, StampEarlyKeeps, SaveIndexKeeps
<1>6. CASE SaveTimestamp \/ Crash
  BY <1>6, SaveTimestampKeeps, CrashKeeps
<1>7. CASE RemoveIndex \/ PurgeBinlog
  BY <1>7, RemoveIndexKeeps, PurgeBinlogKeeps
<1>8. CASE UNCHANGED vars
  <2>1. clock \in Nat
    BY Basics DEF IInv, CoreInv
  <2>2. clock' \in Nat /\ clock' >= clock
    BY <1>8, <2>1 DEF vars
  <2>3. /\ DbSame /\ purged' = purged /\ pc' = pc /\ engine' = engine
        /\ dirty' = dirty /\ last' = last /\ pos' = pos /\ rows' = rows /\ high' = high /\ seen' = seen
        /\ exit' = exit /\ disk' = disk /\ missed' = missed /\ lost' = lost
    BY <1>8 DEF vars, DbSame
  <2> QED BY <2>2, <2>3, IdleKeeps
<1> QED BY <1>1, <1>2, <1>3, <1>4, <1>5, <1>6, <1>7, <1>8 DEF Next

LEMMA NextIInv == IInv /\ [Next]_vars => IInv'
<1> SUFFICES ASSUME IInv, [Next]_vars PROVE IInv'
  OBVIOUS
<1>1. CoreInv'
  BY NextCore
<1>2. CASE Next
  BY <1>1, <1>2, LimitKeeps, CopiedKeeps DEF IInv
<1>3. CASE UNCHANGED vars
  <2>1. LimitInv' /\ CopiedInv'
    BY <1>3 DEF vars, IInv, LimitInv, CopiedInv, Copied, Version
  <2> QED BY <1>1, <2>1 DEF IInv
<1> QED BY <1>2, <1>3

\* The invariant leaves only the known losses.
LEMMA IInvLosses == IInv => OnlyKnownLosses
<1> SUFFICES ASSUME IInv, Listening, ~Blind, NEW k \in Key, engine[k] # table[k], k \notin missed
             PROVE  Pending(k)
  BY DEF OnlyKnownLosses, Listening
<1>1. Typed /\ DatabaseInv /\ ValuesInv /\ RowsInv /\ PositionInv
  BY DEF IInv, CoreInv
<1>2. Good(engine[k], k, Left(k))
  BY DEF IInv, CoreInv, EngineInv
<1>3. PICK i \in Left(k) : Concerns(i, k)
  <2>1. engine[k] \in Old .. Len(log) /\ (engine[k] = 0 \/ Version(engine[k], k))
    BY <1>1, Basics DEF ValuesInv
  <2> QED BY <1>1, <1>2, <2>1, GoodPending
<1>4. CASE Tails
  BY <1>3, <1>4, LeftTails DEF Pending
<1>5. CASE kind = "sqlite"
  <2>1. CASE i \in Held
    <3>1. PICK n \in 1 .. Len(rows) : rows[n].val = i
      BY <2>1 DEF Held
    <3>2. rows[n].old = log[i].old /\ rows[n].key = log[i].key
      BY <1>1, <1>5, <3>1 DEF RowsInv, RowsLogged
    <3> QED BY <1>3, <3>1, <3>2 DEF Pending, Concerns
  <2> QED BY <1>3, <1>5, <2>1, LeftSqlite DEF Pending
<1>6. CASE kind \in {"oracle", "sqlserver"}
  <2>1. last \in Int /\ last <= last /\ pos = 0 /\ 0 \in Nat
    BY <1>1, <1>6, Basics DEF PositionInv, Tails
  <2>2. i \in ToCome(0, last)
    BY <1>3, <1>6, <2>1, LeftAhead
  <2> QED BY <1>3, <2>1, <2>2 DEF Pending
<1> QED BY <1>1, <1>4, <1>5, <1>6, KindsAssumption DEF Tails, Typed, Types

\* Every variable of the model keeps its type.
THEOREM TypeCorrect == Spec => []TypeOK
<1>1. IInv => TypeOK
  BY DEF IInv, CoreInv, Typed, Types, LimitInv, TypeOK
<1> QED BY <1>1, InitIInv, NextIInv, PTL DEF Spec

\* For every library, every table and every order of changes, errors, saves, exits,
\* crashes and restarts: while the connector listens, a key on which the engine and the
\* table differ has a change on its way or fell into a window the model names.
THEOREM LossesKnown == Spec => []OnlyKnownLosses
BY InitIInv, NextIInv, IInvLosses, PTL DEF Spec
=============================================================================
