------------------------------ MODULE KeywordIds ------------------------------
(***************************************************************************)
(* The keyword ids of the trie (Trie.cpp).  Ids are in alphabetical order, *)
(* so that a prefix is a range of ids.  A new keyword takes an id between  *)
(* those of its two neighbours; where there is no room it waits with a     *)
(* temporary id above MAX_ALLOCATED_KEYWORD_ID until the next merge, which *)
(* spreads a range of neighbours evenly to make room.  Keywords without    *)
(* records leave the trie at the end of a merge.                           *)
(*                                                                         *)
(* A range to spread may have too little room, or its ends out of order:   *)
(* the ids are not followed beyond such a reassignment.                    *)
(*                                                                         *)
(* Keywords are numbers in alphabetical order.  How the nodes of the write *)
(* and the read view share ids is in module SearchViews.                   *)
(***************************************************************************)
EXTENDS Integers, Sequences, FiniteSets, SequencesExt

CONSTANTS
  Keyword,       \* keywords, numbers in alphabetical order
  MaxId,         \* MAX_ALLOCATED_KEYWORD_ID
  MaxKeywordId,  \* MAX_KEYWORD_ID, the largest unsigned
  Sparsity,      \* KEYWORD_ID_SPARSITY
  MaxWeight,     \* bound: insertions beside one keyword
  MaxWaits       \* bound: temporary ids given

ASSUME KeywordIdsAssumption ==
  /\ Keyword \subseteq Nat
  /\ MaxId \in Nat \ {0} /\ MaxKeywordId \in Nat /\ MaxId < MaxKeywordId
  /\ Sparsity \in Nat \ {0}
  /\ MaxWeight \in Nat /\ MaxWaits \in Nat

VARIABLES
  id,       \* the id of each keyword of the write view
  lefts,    \* leftInsertCounter
  rights,   \* rightInsertCounter
  waiting,  \* trieNodesToReassign
  counter,  \* counterForReassignedKeywordIds
  shrunk,   \* history: keywords have left the trie
  cramped   \* history: a range had no room for its keywords

vars == <<id, lefts, rights, waiting, counter, shrunk, cramped>>

Temporary(x) == x > MaxId

TypeOK ==
  /\ DOMAIN id \subseteq Keyword
  /\ id \in [DOMAIN id -> 0 .. MaxKeywordId]
  /\ waiting \subseteq DOMAIN id
  /\ \A k \in DOMAIN id \ waiting : ~Temporary(id[k])
  /\ lefts \in [DOMAIN id -> Nat] /\ rights \in [DOMAIN id -> Nat]
  /\ counter \in 0 .. MaxKeywordId
  /\ shrunk \in BOOLEAN /\ cramped \in BOOLEAN

\* The place of a keyword in alphabetical order, and the keywords in this order.
Place(S, k) == Cardinality({j \in S : j <= k})
Ordered(S) == <<>> \o [i \in 1 .. Cardinality(S) |-> CHOOSE k \in S : Place(S, k) = i]

\* Trie::commit spreads the ids of the bulk load evenly.
Commit(S) ==
  LET n == Cardinality(S)
      pace == MaxId \div (IF n > 1 THEN n + 5 ELSE 5)
  IN [k \in S |-> Place(S, k) * pace]

\* An index after its bulk load.
Init ==
  \E S \in SUBSET Keyword :
    /\ id = Commit(S)
    /\ lefts = [k \in S |-> 1] /\ rights = [k \in S |-> 1]
    /\ waiting = {}
    /\ counter = MaxId + 1
    /\ shrunk = FALSE /\ cramped = FALSE

-----------------------------------------------------------------------------
(* A new keyword *)

Before(k) == {j \in DOMAIN id : j < k}
After(k) == {j \in DOMAIN id : j > k}

With(f, x, y) == [z \in DOMAIN f \cup {x} |-> IF z = x THEN y ELSE f[z]]

\* computeIdForNewKeyword: neighbours that are there and have ids.
Between(k) ==
  /\ Before(k) # {} /\ After(k) # {}
  /\ LET p == Max(Before(k))  n == Min(After(k))
     IN id[p] < id[n] /\ ~Temporary(id[p]) /\ ~Temporary(id[n])

\* ... and the point between them, weighted by the earlier insertions there.
Centroid(p, n) ==
  id[p] + ((id[n] - id[p]) * rights[p]) \div (rights[p] + lefts[n])

\* Mutant: the id of the left neighbour is taken for a room.
RoomUnchecked(k) == Between(k)

\* addKeyword_SetPrevIdNexIdByPathTrace: the new id must keep the order.
Room(k) == Between(k) /\ Centroid(Max(Before(k)), Min(After(k))) > id[Max(Before(k))]

\* The insert counters of the neighbours go up even if there is no room.
Count(k) ==
  IF Between(k)
  THEN LET p == Max(Before(k))  n == Min(After(k))
       IN /\ lefts[n] < MaxWeight /\ rights[p] < MaxWeight
          /\ lefts' = With([lefts EXCEPT ![n] = @ + 1], k, 1)
          /\ rights' = With([rights EXCEPT ![p] = @ + 1], k, 1)
  ELSE lefts' = With(lefts, k, 1) /\ rights' = With(rights, k, 1)

\* addKeyword_ThreadSafe of a keyword with room for its id ...
AddBetween(k) ==
  /\ k \notin DOMAIN id
  /\ Room(k)
  /\ id' = With(id, k, Centroid(Max(Before(k)), Min(After(k))))
  /\ Count(k)
  /\ UNCHANGED <<waiting, counter, shrunk, cramped>>

\* ... and without.
AddWaiting(k) ==
  /\ k \notin DOMAIN id
  /\ ~Room(k)
  /\ counter <= MaxId + MaxWaits
  /\ id' = With(id, k, counter)
  /\ waiting' = waiting \cup {k}
  /\ counter' = (counter + 1) % (MaxKeywordId + 1)
  /\ Count(k)
  /\ UNCHANGED <<shrunk, cramped>>

-----------------------------------------------------------------------------
(* Reassignment.  ids is the trie seen through the mapper (getTrueId); a     *)
(* range is a pair of places among the keywords.                             *)

LeftId(x) == IF Temporary(x) THEN 0 ELSE x
RightId(x) == IF Temporary(x) THEN MaxId ELSE x

\* The ids from the left to the right end of a range, an unsigned difference.
Distance(ids, s, r) == (RightId(ids[s[r[2]]]) - LeftId(ids[s[r[1]]])) % (MaxKeywordId + 1)

\* Mutant: any range will do.
NeverMore(ids, s, r) == FALSE

\* needToReassignMore.
NeedMore(ids, s, r) ==
  \/ r[1] = r[2]
  \/ Distance(ids, s, r) \div (r[2] - r[1]) < Sparsity

\* The ranges that pushNeighborsForMoreSpace tries for the keyword at place p.
\* It first extends to the left, from one keyword with an id to the next, and
\* when there are no more of them to the right; last it takes all.
Ranges(ids, s, p) ==
  LET settled(q) == ~Temporary(ids[s[q]])
      left == {q \in 1 .. p - 1 : settled(q)}
      right == {q \in p + 1 .. Len(s) : settled(q)}
      toLeft == IF left = {} THEN <<1>> ELSE Reverse(Ordered(left))
      toRight == IF right = {} THEN <<Len(s)>> ELSE Ordered(right)
  IN [i \in 1 .. Len(toLeft) |-> <<toLeft[i], toRight[1]>>]
     \o [i \in 1 .. Len(toRight) - 1 |-> <<1, toRight[i + 1]>>]
     \o <<<<1, Len(s)>>>>

\* The first of them that is sparse enough, or all.
ReassignRange(ids, s, p) ==
  LET ranges == Ranges(ids, s, p)
      enough == {i \in 1 .. Len(ranges) : ~NeedMore(ids, s, ranges[i])}
  IN ranges[IF enough = {} THEN Len(ranges) ELSE Min(enough)]

Spanned(s, r) == {s[q] : q \in r[1] .. r[2]}

\* Mutant: a temporary id at the right end is kept.
SpreadKeepingEnd(ids, s, r) ==
  LET leftId == LeftId(ids[s[r[1]]])
      pace == Distance(ids, s, r) \div (r[2] - r[1])
  IN IF r[1] = r[2] THEN [ids EXCEPT ![s[r[1]]] = MaxId \div 2]
     ELSE [k \in Spanned(s, r) \ {s[r[2]]} |-> leftId + (Place(Spanned(s, r), k) - 1) * pace] @@ ids

\* doReassignment: evenly over the range, whose ends keep their ids.
Spread(ids, s, r) ==
  LET leftId == LeftId(ids[s[r[1]]])
      rightId == RightId(ids[s[r[2]]])
      pace == Distance(ids, s, r) \div (r[2] - r[1])
  IN IF r[1] = r[2] THEN [ids EXCEPT ![s[r[1]]] = MaxId \div 2]
     ELSE [k \in Spanned(s, r) |->
             IF k = s[r[2]] THEN rightId
             ELSE leftId + (Place(Spanned(s, r), k) - 1) * pace] @@ ids

\* The assertion of doReassignment, ends in order, and a place for every keyword.
Roomy(ids, s, r) ==
  r[1] < r[2] => /\ LeftId(ids[s[r[1]]]) < RightId(ids[s[r[2]]])
                 /\ Distance(ids, s, r) \div (r[2] - r[1]) > 0

\* One waiting keyword, unless an earlier one has pushed it; roomy remembers
\* whether every range so far had room.
Push(s, state, k) ==
  IF k \in state.mapped THEN state
  ELSE LET r == ReassignRange(state.ids, s, Place(DOMAIN id, k))
           temporary(q) == Temporary(state.ids[s[q]])
           inside == {s[q] : q \in r[1] + 1 .. r[2] - 1}
                     \cup {s[q] : q \in {x \in {r[1], r[2]} : temporary(x)}}
       IN [ids |-> Spread(state.ids, s, r),
           mapped |-> state.mapped \cup inside,
           roomy |-> state.roomy /\ Roomy(state.ids, s, r)]

\* Trie::reassignKeywordIds: the waiting keywords in alphabetical order.
ReassignKeywordIds ==
  LET s == Ordered(DOMAIN id)
  IN FoldLeft(LAMBDA state, k : Push(s, state, k),
              [ids |-> id, mapped |-> {}, roomy |-> TRUE],
              Ordered(waiting))

\* The part of a merge that changes ids: the reassignment, then
\* removeDeletedNodes, which knows the keywords S that have to go by their ids.
Merge ==
  \E done \in {ReassignKeywordIds}, S \in SUBSET (DOMAIN id \ waiting) :
    LET rest == {k \in DOMAIN id : \A j \in S : done.ids[k] # done.ids[j]}
    IN /\ waiting # {} \/ S # {}
       /\ id' = [k \in rest |-> done.ids[k]]
       /\ lefts' = [k \in rest |-> lefts[k]] /\ rights' = [k \in rest |-> rights[k]]
       /\ waiting' = {}
       /\ counter' = IF S # {} /\ rest = {} THEN MaxId + 1 ELSE counter
       /\ shrunk' = (shrunk \/ S # {})
       /\ cramped' = ~done.roomy

-----------------------------------------------------------------------------

Next ==
  /\ ~cramped
  /\ (\E k \in Keyword : AddBetween(k) \/ AddWaiting(k)) \/ Merge

Spec == Init /\ [][Next]_vars

-----------------------------------------------------------------------------
(* Properties *)

\* Ids keep the alphabetical order, from insertion to insertion and through
\* the reassignments and removals, until a range has no room: a prefix search
\* reads a subtrie as a range of ids.
OrderPreserved ==
  \/ cramped
  \/ /\ \A j, k \in DOMAIN id \ waiting : j < k => id[j] < id[k]
     /\ \A j, k \in DOMAIN id : j # k => id[j] # id[k]

\* pushNeighborsForMoreSpace finds a range with room, and the assertion of
\* doReassignment holds, as long as no keyword has left the trie.  When keywords
\* leave, those that stay may all be at one end of the ids.
RoomUntilRemoval == cramped => shrunk

=============================================================================
