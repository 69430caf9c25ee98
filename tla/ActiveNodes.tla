---------------------------- MODULE ActiveNodes ----------------------------
(* Fuzzy search on the trie: PrefixActiveNodeSet of ActiveNode.h/.cpp, and the
   two iterators that turn a set of active nodes into keywords.

   A trie node is the sequence of characters on its path.  An active node of
   the characters typed so far carries a PivotalActiveNode:
     edp     editdistanceofPrefix, the distance when its last character matched
     differ  the characters typed since then, all of them deleted
     td      transformationdistance, what is compared with the threshold
   The sets are computed one character at a time; the trie stands still, for a
   search holds the root of its read view.  The characters of Wide stand for
   those of CHARTYPE_FUZZY_UPPERBOUND and above. *)
EXTENDS Integers, Sequences, FiniteSets, FiniteSetsExt, SequencesExt

CONSTANTS
  Char,          \* the characters
  Wide,          \* those not searched for with edits
  Words,         \* the keywords an index holds, one or two at a time
  MaxTyped,      \* bound: characters of one query term
  Thresholds     \* the edit distances asked for

\* Of the constants.
ActiveNodesAssumption ==
  /\ Wide \subseteq Char
  /\ \A w \in Words : w # <<>> /\ w \in Seq(Char)
  /\ MaxTyped \in Nat /\ Thresholds \subseteq Nat

VARIABLES
  keywords,   \* the keywords of the read view
  threshold,  \* editDistanceThreshold
  swaps,      \* supportSwapInEditDistance
  typed,      \* prefix
  pans        \* PANMap, of the active nodes

activeVars == <<keywords, threshold, swaps, typed, pans>>

-----------------------------------------------------------------------------
(* The trie                                                                  *)

Trie == UNION {Prefixes(w) : w \in keywords}

Narrow == Char \ Wide

MaxOf(a, b) == IF a < b THEN b ELSE a

-----------------------------------------------------------------------------
(* The active nodes of one more character                                    *)

\* A character has matched at distance e.
Matched(e) == [td |-> e, differ |-> 0, edp |-> e]

\* The character typed is deleted.
Deleted(pan) == [pan EXCEPT !.td = @ + 1, !.differ = @ + 1]

\* With a character already deleted, a child for the new character and below it
\* one for the last character are the two of them swapped.
SwapsAt(n, pan, c) ==
  /\ swaps /\ pan.differ > 0 /\ typed # <<>>
  /\ n \o <<c, Last(typed)>> \in Trie

\* The node the visit of a child goes on from: after a swap, the variable child
\* holds the grandchild.
Below(n, pan, c, ch) ==
  IF ch = c /\ SwapsAt(n, pan, c) THEN n \o <<ch, Last(typed)>> ELSE Append(n, ch)

\* addPANUpToDepth(): the nodes it is called for at each depth.
Visited(n, pan, c) ==
  LET limit == threshold - pan.edp
      visited[d \in 0..limit] ==
        IF d = 0 THEN {n}
        ELSE {Below(m, pan, c, ch) : m \in visited[d - 1], ch \in Narrow} \cap Trie
  IN  IF c \in Wide THEN [d \in {0} |-> {n}] ELSE visited

\* addPANUpToDepth(): what it adds, the matches of the character and the swaps.
Matches(n, pan, c) ==
  LET visited == Visited(n, pan, c)
      At(d) == Matched(pan.edp + MaxOf(d, pan.differ))
      Hits(d) == {m \in visited[d] : Append(m, c) \in Trie}
      Swapped(d) == {m \in visited[d] : c \in Narrow /\ threshold > pan.edp /\ SwapsAt(m, pan, c)}
  IN  UNION {    {<<Append(m, c), At(d)>> : m \in Hits(d)}
            \cup {<<m \o <<c, Last(typed)>>, At(d)>> : m \in Swapped(d)} : d \in DOMAIN visited}

\* _addPANSetForOneNode()
AddPanSet(n, pan, c) ==
  Matches(n, pan, c) \cup IF c \in Wide THEN {} ELSE {<<n, Deleted(pan)>>}

\* Mutant: of two at the same distance, the one matched last is kept.
BetterByPrefix(q, p) == q.td < p.td \/ (q.td = p.td /\ q.edp > p.edp)

\* _addPAN() replaces p by q: td is edp + differ throughout, so it keeps one
\* that comes first in this order whatever the order of the calls.
Better(q, p) ==
  \/ q.td < p.td
  \/ q.td = p.td /\ (q.differ > p.differ \/ q.edp < p.edp)

\* computeActiveNodeSetIncrementally()
Computed(c) ==
  LET added == {a \in UNION {AddPanSet(n, pans[n], c) : n \in DOMAIN pans} : a[2].td <= threshold}
  IN  [n \in {a[1] : a \in added} |->
         LET of == {a[2] : a \in {b \in added : b[1] = n}}
         IN  CHOOSE p \in of : \A q \in of : ~Better(q, p)]

-----------------------------------------------------------------------------
(* From active nodes to keywords                                             *)

\* LeafNodeSetIteratorForPrefix: the keywords below active nodes, each with the
\* smallest distance of the active nodes on its path.
PrefixAnswers ==
  [w \in {k \in keywords : Prefixes(k) \cap DOMAIN pans # {}} |->
     Min({pans[n].td : n \in Prefixes(w) \cap DOMAIN pans})]

\* computeTerminalNodesWithinDistance(): the distances it finds for keyword w.
TerminalDistances(w) ==
  {MaxOf(pans[n].td, pans[n].edp + Len(w) - Len(n)) :
     n \in {m \in Prefixes(w) \cap DOMAIN pans : pans[m].edp + Len(w) - Len(m) <= threshold}}

\* LeafNodeSetIteratorForComplete
CompleteAnswers ==
  [w \in {k \in keywords : TerminalDistances(k) # {}} |-> Min(TerminalDistances(w))]

-----------------------------------------------------------------------------

\* The constructor for the empty string.
Init ==
  /\ \E v, w \in Words : keywords = {v, w}
  /\ threshold \in Thresholds
  /\ swaps \in BOOLEAN
  /\ typed = <<>>
  /\ pans = [n \in {<<>>} |-> Matched(0)]

\* One round of the loop of computeActiveNodeSet().
Type(c) ==
  /\ Len(typed) < MaxTyped
  /\ typed' = Append(typed, c)
  /\ pans' = Computed(c)
  /\ UNCHANGED <<keywords, threshold, swaps>>

Next == \E c \in Char : Type(c)

Spec == Init /\ [][Next]_activeVars

-----------------------------------------------------------------------------
(* Properties                                                                *)

\* Type invariant; the deleted characters account for the rest of the distance.
TypeOK ==
  /\ \A n \in DOMAIN pans :
       /\ n \in Trie
       /\ pans[n].td \in 0..threshold
       /\ pans[n].td = pans[n].edp + pans[n].differ
  /\ typed \in Seq(Char)

\* The edit distance of q and w, swaps of adjacent characters counted as one
\* edit if asked for.
EditDistance(q, w, withSwaps) ==
  LET D[i \in 0..Len(q), j \in 0..Len(w)] ==
        IF i = 0 \/ j = 0 THEN i + j
        ELSE Min({D[i - 1, j] + 1, D[i, j - 1] + 1,
                  D[i - 1, j - 1] + IF q[i] = w[j] THEN 0 ELSE 1}
                 \cup IF withSwaps /\ i > 1 /\ j > 1 /\ q[i] = w[j - 1] /\ q[i - 1] = w[j]
                      THEN {D[i - 2, j - 2] + 1} ELSE {})
  IN  D[Len(q), Len(w)]

PrefixDistance(w) == Min({EditDistance(typed, p, swaps) : p \in Prefixes(w)})

\* No character of the search is exempt from edits.
Plain == \A w \in keywords \cup {typed} : Range(w) \cap Wide = {}

\* The answers are the keywords within the threshold, at their distance.
Exactly(answers, distance(_)) ==
  /\ DOMAIN answers = {w \in keywords : distance(w) <= threshold}
  /\ \A w \in DOMAIN answers : answers[w] = distance(w)

\* A prefix search finds the keywords with a prefix within the threshold.  Not
\* so with swaps: addPANUpToDepth() overwrites its variable child.
PrefixExact == Plain => Exactly(PrefixAnswers, PrefixDistance)

\* Without swaps both searches find the keywords within the threshold, although
\* a node keeps one PivotalActiveNode only.  With swaps the prefix search does as
\* long as no second keyword branches off, and never takes a keyword to be
\* closer than it is.
SearchExact ==
  /\ Plain /\ ~swaps => Exactly(CompleteAnswers, LAMBDA w : EditDistance(typed, w, FALSE))
  /\ ~swaps \/ Cardinality(keywords) = 1 => PrefixExact
  /\ \A w \in DOMAIN PrefixAnswers : PrefixAnswers[w] >= PrefixDistance(w)
=============================================================================
