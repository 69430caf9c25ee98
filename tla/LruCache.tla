------------------------------- MODULE LruCache -------------------------------
(***************************************************************************)
(* The cache container (CacheBase.h) behind the caches of query results    *)
(* and of active nodes: entries by hashed key, and a doubly linked list of *)
(* the hashed keys in the order of their last use, from whose front        *)
(* entries leave until a new one fits the byte budget.  One lock makes     *)
(* put(), get() and clear() atomic.  Two keys may have the same hash.      *)
(***************************************************************************)
EXTENDS Integers, Sequences, FiniteSets, Functions

CONSTANTS
  CacheKey,  \* keys
  Hash,      \* hashDJB2: the hashed key of each key
  Bytes,     \* the sizes an object may have, with those of entry and element
  Budget,    \* cacheTotalByteBudget
  Null

ASSUME LruAssumption ==
  /\ Bytes \subseteq Nat \ {0}
  /\ Budget \in Nat
  /\ Null \notin {Hash[k] : k \in CacheKey}

VARIABLES
  entries,   \* cacheEntries: the key and the size of the entry of a hash
  first,     \* elementsLinkListFirst
  final,     \* elementsLinkListLast
  next,      \* the elements of the linked list, one for each hash:
  previous,  \*   next and previous
  used,      \* totalSizeUsed
  last       \* the hash put or found last

cacheVars == <<entries, first, final, next, previous, used, last>>

CacheInit ==
  /\ entries = <<>>
  /\ first = Null /\ final = Null
  /\ next = <<>> /\ previous = <<>>
  /\ used = 0
  /\ last = Null

Set(f, x, y) == [z \in DOMAIN f \cup {x} |-> IF z = x THEN y ELSE f[z]]
Drop(f, x) == [z \in DOMAIN f \ {x} |-> f[z]]

-----------------------------------------------------------------------------
(* The linked list l = [first, final, next, previous] *)

\* Mutant: only the element is moved, not the front of the list.
MoveFromMiddle(l, h) ==
  IF h = l.final \/ l.previous[h] = Null THEN l
  ELSE [first |-> l.first, final |-> h,
        next |-> [[[l.next EXCEPT ![l.previous[h]] = l.next[h]] EXCEPT ![h] = Null]
                    EXCEPT ![l.final] = h],
        previous |-> [[l.previous EXCEPT ![l.next[h]] = l.previous[h]] EXCEPT ![h] = l.final]]

\* moveLinkedListElementToLast.
MoveToLast(l, h) ==
  CASE l.first = l.final \/ h = l.final -> l
    [] h = l.first /\ h # l.final ->
         [first |-> l.next[h], final |-> h,
          next |-> [[l.next EXCEPT ![l.final] = h] EXCEPT ![h] = Null],
          previous |-> [[l.previous EXCEPT ![l.next[h]] = Null] EXCEPT ![h] = l.final]]
    [] OTHER ->
         [first |-> l.first, final |-> h,
          next |-> [[[l.next EXCEPT ![l.previous[h]] = l.next[h]] EXCEPT ![h] = Null]
                      EXCEPT ![l.final] = h],
          previous |-> [[l.previous EXCEPT ![l.next[h]] = l.previous[h]] EXCEPT ![h] = l.final]]

\* addNewElementToLinkList.
AddElement(l, h) ==
  IF l.first = Null
  THEN [first |-> h, final |-> h, next |-> Set(l.next, h, Null), previous |-> Set(l.previous, h, Null)]
  ELSE [first |-> l.first, final |-> h,
        next |-> Set([l.next EXCEPT ![l.final] = h], h, Null),
        previous |-> Set(l.previous, h, l.final)]

\* removeTheOldestElementFromLinkList.
RemoveOldest(l) ==
  IF l.first = l.final
  THEN [first |-> Null, final |-> Null, next |-> <<>>, previous |-> <<>>]
  ELSE [first |-> l.next[l.first], final |-> l.final,
        next |-> Drop(l.next, l.first),
        previous |-> Drop([l.previous EXCEPT ![l.next[l.first]] = Null], l.first)]

-----------------------------------------------------------------------------

\* Mutant: the size of what leaves is not given back.
KickOutUnaccounted(s) ==
  [list |-> RemoveOldest(s.list), entries |-> Drop(s.entries, s.list.first), used |-> s.used]

\* LRUCacheReplacementPolicyKickoutOneEntry.
KickOut(s) ==
  [list |-> RemoveOldest(s.list),
   entries |-> Drop(s.entries, s.list.first),
   used |-> s.used - s.entries[s.list.first].bytes]

\* The loop of put() that removes entries until b bytes are free.
MakeRoom(b) ==
  LET state[n \in 0 .. Cardinality(DOMAIN entries)] ==
        LET s == IF n = 0
                 THEN [list |-> [first |-> first, final |-> final, next |-> next, previous |-> previous],
                       entries |-> entries, used |-> used]
                 ELSE state[n - 1]
        IN IF b <= Budget - s.used \/ s.list.first = Null THEN s ELSE KickOut(s)
  IN state[Cardinality(DOMAIN entries)]

Becomes(list) ==
  /\ first' = list.first /\ final' = list.final
  /\ next' = list.next /\ previous' = list.previous

\* put: an object larger than the budget is not taken.  An entry with the same
\* hash is replaced, whatever its key.
Put(k, b) ==
  LET h == Hash[k]
      s == MakeRoom(b)
      old == IF h \in DOMAIN s.entries THEN s.entries[h].bytes ELSE 0
  IN /\ b <= Budget
     /\ entries' = Set(s.entries, h, [key |-> k, bytes |-> b])
     /\ used' = (s.used + b) - old
     /\ Becomes(IF h \in DOMAIN s.entries THEN MoveToLast(s.list, h) ELSE AddElement(s.list, h))
     /\ last' = h

\* get: a hit makes the entry the last to be kicked out.
Get(k) ==
  LET h == Hash[k]
  IN /\ h \in DOMAIN entries /\ entries[h].key = k
     /\ Becomes(MoveToLast([first |-> first, final |-> final, next |-> next, previous |-> previous], h))
     /\ last' = h
     /\ UNCHANGED <<entries, used>>

\* clear, called by every merge.
ClearCache ==
  /\ entries' = <<>> /\ used' = 0
  /\ first' = Null /\ final' = Null /\ next' = <<>> /\ previous' = <<>>
  /\ last' = Null

CacheNext ==
  \/ \E k \in CacheKey : Get(k) \/ \E b \in Bytes : Put(k, b)
  \/ ClearCache

CacheSpec == CacheInit /\ [][CacheNext]_cacheVars

-----------------------------------------------------------------------------
(* Properties *)

Hashed == {Hash[k] : k \in CacheKey}

\* Types.
CacheTypeOK ==
  /\ DOMAIN entries \subseteq Hashed
  /\ entries \in [DOMAIN entries -> [key : CacheKey, bytes : Bytes]]
  /\ {first, final, last} \subseteq Hashed \cup {Null}
  /\ next \in [DOMAIN entries -> Hashed \cup {Null}]
  /\ previous \in [DOMAIN entries -> Hashed \cup {Null}]
  /\ used \in Nat

\* The hashed keys in the order of the linked list; as many as there are
\* elements, so that a cycle shows.
Chain ==
  LET chain[n \in 0 .. Cardinality(DOMAIN next) + 1] ==
        IF n = 0 THEN <<>>
        ELSE LET c == chain[n - 1]
                 h == IF c = <<>> THEN first ELSE next[c[Len(c)]]
             IN IF h = Null THEN c ELSE Append(c, h)
  IN chain[Cardinality(DOMAIN next) + 1]

\* Put, get and clear implement least-recently-used replacement: entries leave
\* only in the order of their last use, and what is put or found is the newest.
Recency == INSTANCE RecencyList WITH Item <- Hashed, None <- Null, order <- Chain
ImplementsRecency == Recency!Spec

\* checkCacheConsistency(), which the code has commented out: map and linked
\* list hold the same hashes, the links agree both ways, and the bytes used
\* are those of the entries, within the budget.
CacheConsistent ==
  /\ {Chain[i] : i \in 1 .. Len(Chain)} = DOMAIN entries
  /\ Len(Chain) = Cardinality(DOMAIN entries)
  /\ DOMAIN next = DOMAIN entries /\ DOMAIN previous = DOMAIN entries
  /\ \A i \in 1 .. Len(Chain) : previous[Chain[i]] = (IF i = 1 THEN Null ELSE Chain[i - 1])
  /\ Chain # <<>> => final = Chain[Len(Chain)]
  /\ used = SumFunction([h \in DOMAIN entries |-> entries[h].bytes])
  /\ used <= Budget
  /\ \A h \in DOMAIN entries : Hash[entries[h].key] = h

=============================================================================
