----------------------------- MODULE SearchPlans -----------------------------
(***************************************************************************)
(* How a keyword query is answered: KeywordSearchOperator runs a physical  *)
(* plan for exact matches and, if they are fewer than k, another one for   *)
(* fuzzy matches.  The optimizer picks a plan by cost, here any of         *)
(*   topK      MergeTopK over the term virtual lists of the terms,         *)
(*   shortest  SortByScore over MergeByShortestList over a scan of one     *)
(*             term's lists and random access to the others,               *)
(*   byId      SortByScore over MergeSortedByID over SortById of each,     *)
(*   union     SortByScore over UnionSortedByID, for a disjunction.        *)
(*                                                                         *)
(* A term matches the keywords of its active nodes, which are numbered in  *)
(* the order of the active node iterator, by rising edit distance.  An     *)
(* item is an entry of a keyword's inverted list whose record is valid.    *)
(* Scores are numbers: static score, similarity and boost are factors.     *)
(* The cache of physical operators always misses (CacheManager.cpp).       *)
(***************************************************************************)
EXTENDS Integers, Sequences, FiniteSets, FiniteSetsExt, Functions

CONSTANTS
  Docs,        \* internal record ids
  Term,        \* terms of the query, 1 .. n in the order of the plan's children
  Word,        \* matching keywords of a term, 1 .. m
  Distance,    \* edit distance of each
  Similarity,  \* factor that each distance leaves of the static score
  Boost,       \* boost of each term
  Matching,    \* static scores that a record may have for the words of a term, 0 for none
  K            \* results asked for

ASSUME PlansAssumption ==
  /\ Docs \subseteq Nat /\ IsFiniteSet(Docs) /\ K \in Nat \ {0}
  /\ IsFiniteSet(Term) /\ Term # {} /\ Term = 1 .. Cardinality(Term)
  /\ Word \subseteq Nat
  /\ Boost \in [Term -> Nat \ {0}] /\ Distance \in [Word -> Nat]
  /\ \A w \in Word : Distance[w] \in DOMAIN Similarity /\ Similarity[Distance[w]] \in Nat
  /\ \A v, w \in Word : v < w => Distance[v] <= Distance[w]
  /\ Matching \subseteq [Word -> Nat]

VARIABLES
  kind,     \* "and" or "or"
  all,      \* a query for all results (SearchTypeGetAllResultsQuery)
  static,   \* the index: static score of each word of each term in each record
  pass,     \* "exact", "fuzzy" or "done"
  plan,     \* [name, scan]: the plan of this pass
  step,     \* "plan", "call", "loop", "drain" or "sorted"
  input,    \* items each child has not returned yet
  ahead,    \* nextItemsFromChildren
  turn,     \* childRoundRobinOffset
  current,  \* topRecordToReturn, or the record MergeSortedByID looks for
  seen,     \* visitedRecords, previousResultsFound
  more,     \* listsHaveMoreRecordsInThem
  found,    \* candidatesList, or the records of SortByScore
  results   \* results of KeywordSearchOperator

query == <<kind, all, static>>
planVars == <<query, pass, plan, step, input, ahead, turn, current, seen, more, found, results>>

Nil == [doc |-> -1]
NoPlan == [name |-> "none", scan |-> 0]

\* A query is put to an index.
PlanInit ==
  /\ kind \in {"and", "or"} /\ all \in BOOLEAN
  /\ static \in [Term -> [Docs -> Matching]]
  /\ pass = IF all THEN "fuzzy" ELSE "exact"
  /\ plan = NoPlan /\ step = "plan"
  /\ input = <<>> /\ ahead = <<>> /\ turn = 1 /\ current = Nil
  /\ seen = {} /\ more = TRUE /\ found = {} /\ results = <<>>

-----------------------------------------------------------------------------
(* Scores *)

\* The words that count in a pass.
Words(p) == {w \in Word : p = "fuzzy" \/ Distance[w] = 0}

\* The words of term t in record d.
Hits(p, t, d) == {w \in Words(p) : static[t][d][w] > 0}

\* The items of the lists of term t.
Items(p, t) == {x \in [doc : Docs, word : Word] : x.word \in Hits(p, t, x.doc)}

\* computeTermRecordRuntimeScore of what a list returns, times the boost.
Sequential(t, x) == static[t][x.doc][x.word] * Similarity[Distance[x.word]] * Boost[t]

\* pow.
Power(b, n) == LET p[i \in 0 .. n] == IF i = 0 THEN 1 ELSE b * p[i - 1] IN p[n]

\* verifyByRandomAccessHelper: the first word counts, and the boost is a factor
\* of the similarity, to the power of the distance.
RandomAccess(t, d) ==
  LET w == Min(Hits(pass, t, d))
  IN static[t][d][w] * Similarity[Distance[w]] * Power(Boost[t], Distance[w])

Verified(t, d) == Hits(pass, t, d) # {}

\* computeAggregatedRuntimeScoreForAnd of a record of child t.
AndScore(t, x) ==
  Sequential(t, x) + SumFunction([u \in Term \ {t} |-> RandomAccess(u, x.doc)])

\* compareRecordsGreaterThan.
Above(x, y) == x.score > y.score \/ (x.score = y.score /\ x.doc < y.doc)
Best(S) == CHOOSE x \in S : \A y \in S \ {x} : Above(x, y)

-----------------------------------------------------------------------------
(* What a child returns next *)

\* The heap of UnionLowestLevelTermVirtualList: the highest score; the heap of
\* SortById: the lowest id; UnionLowestLevelSimpleScan: list after list.
Precedes(p, t, x, y) ==
  CASE p.name = "topK" -> \/ Sequential(t, x) > Sequential(t, y)
                          \/ Sequential(t, x) = Sequential(t, y) /\ x.doc <= y.doc
    [] p.name = "shortest" -> \/ x.word < y.word
                              \/ x.word = y.word /\ Sequential(t, x) >= Sequential(t, y)
    [] OTHER -> \/ x.doc < y.doc
                \/ x.doc = y.doc /\ Sequential(t, x) >= Sequential(t, y)

\* x is what getNext of child t of plan p may return when the items left are S.
Returns(p, t, S, x) ==
  IF S = {} THEN x = Nil ELSE x \in S /\ \A y \in S : Precedes(p, t, x, y)

Item == [doc : Docs, word : Word] \cup {Nil}

\* Child t has returned x.
Read(t, x) == Returns(plan, t, input[t], x) /\ input' = [input EXCEPT ![t] = @ \ {x}]

-----------------------------------------------------------------------------
(* KeywordSearchOperator *)

Limit == IF all THEN Cardinality(Docs) + 1 ELSE K

\* A plan is built and opened.  MergeTopK and UnionSortedByID read an item of
\* every child.
Open ==
  /\ step = "plan" /\ pass # "done"
  /\ plan' \in IF kind = "or" THEN {[name |-> "union", scan |-> 0]}
               ELSE {[name |-> n, scan |-> 0] : n \in {"topK", "byId"}}
                    \cup [name : {"shortest"}, scan : Term]
  /\ step' = IF plan'.name = "topK" THEN "call" ELSE "drain"
  /\ \E a \in [Term -> Item] :
       /\ IF plan'.name \in {"topK", "union"}
          THEN \A t \in Term : Returns(plan', t, Items(pass, t), a[t])
          ELSE a = [t \in Term |-> Nil]
       /\ ahead' = a
       /\ input' = [t \in Term |-> Items(pass, t) \ {a[t]}]
  /\ turn' = 1 /\ current' = Nil /\ seen' = {} /\ more' = TRUE /\ found' = {}
  /\ UNCHANGED <<query, pass, results>>

\* The plan is closed: with fewer results than k, fuzzy matches are wanted.
End(n) ==
  /\ pass' = IF pass = "exact" /\ n < K THEN "fuzzy" ELSE "done"
  /\ plan' = NoPlan /\ step' = "plan"

\* getNext of the plan has returned x: a record that is no result yet becomes
\* one; without one, and with k of them, the pass ends.
Return(x, onward) ==
  IF x = Nil
  THEN End(Len(results)) /\ UNCHANGED results
  ELSE /\ results' = IF \E i \in 1 .. Len(results) : results[i].doc = x.doc THEN results
                     ELSE Append(results, [doc |-> x.doc, score |-> x.score, pass |-> pass])
       /\ IF Len(results') >= Limit THEN End(Len(results'))
          ELSE step' = onward /\ UNCHANGED <<pass, plan>>

-----------------------------------------------------------------------------
(* MergeTopKOperator *)

\* Mutant: what has not been seen is thought to be worse.
BoundLoose(a, x) == TRUE

\* getMaximumScoreOfUnvisitedRecords is below the score of x.
BoundBelow(a, x) == SumFunction([t \in Term |-> Sequential(t, a[t])]) < x.score

Unread(a) == \A t \in Term : a[t] # Nil

\* getNext takes the best candidate; it is returned if nothing that has not been
\* seen can be better.
TopCall ==
  LET x == IF found = {} THEN Nil ELSE Best(found)
      left == IF found = {} THEN more ELSE more /\ Unread(ahead)
  IN /\ plan.name = "topK" /\ step = "call"
     /\ found' = found \ {x}
     /\ more' = left
     /\ IF ~left \/ (x # Nil /\ BoundBelow(ahead, x))
        THEN Return(x, "call") /\ UNCHANGED current
        ELSE step' = "loop" /\ current' = x /\ UNCHANGED <<results, pass, plan>>
     /\ UNCHANGED <<query, input, ahead, turn, seen>>

\* One turn of its loop: the next record of the next child.
TopVisit ==
  LET t == turn
      x == ahead[t]
      new == [doc |-> x.doc, score |-> AndScore(t, x)]
      isNew == x # Nil /\ x.doc \notin seen /\ \A u \in Term \ {t} : Verified(u, x.doc)
      wins == current = Nil \/ current.score < new.score
      top == IF wins THEN new ELSE current
  IN /\ plan.name = "topK" /\ step = "loop"
     /\ turn' = (t % Cardinality(Term)) + 1
     /\ \E y \in Item : Read(t, y) /\ ahead' = [ahead EXCEPT ![t] = y]
     /\ seen' = IF x = Nil THEN seen ELSE seen \cup {x.doc}
     /\ more' = (more /\ x # Nil /\ (isNew => Unread(ahead')))
     /\ found' = IF isNew THEN (found \cup {new, current}) \ {top, Nil} ELSE found
     /\ IF x = Nil THEN Return(current, "call") /\ current' = Nil
        ELSE IF isNew /\ (~Unread(ahead') \/ BoundBelow(ahead', top))
        THEN Return(top, "call") /\ current' = Nil
        ELSE /\ current' = IF isNew THEN top ELSE current
             /\ UNCHANGED <<step, results, pass, plan>>
     /\ UNCHANGED query

-----------------------------------------------------------------------------
(* The operators below SortByScore *)

Drain(name) == plan.name = name /\ step = "drain"

\* The child has no more records: they are sorted.
Sort ==
  /\ step' = "sorted"
  /\ UNCHANGED <<query, pass, plan, input, ahead, turn, current, seen, more, found, results>>

\* MergeByShortestListOperator::getNext, one turn of its loop.
ShortestNext ==
  LET t == plan.scan
  IN /\ Drain("shortest")
     /\ input[t] # {}
     /\ \E x \in Item :
          /\ Read(t, x)
          /\ found' = IF \A u \in Term \ {t} : Verified(u, x.doc)
                      THEN found \cup {[doc |-> x.doc, score |-> AndScore(t, x)]}
                      ELSE found
     /\ UNCHANGED <<query, pass, plan, step, ahead, turn, current, seen, more, results>>

ShortestEnd == Drain("shortest") /\ input[plan.scan] = {} /\ Sort

\* MergeSortedByIDOperator::getNext: the next record of the first child, unless
\* it was a result ...
ByIdStart ==
  /\ Drain("byId") /\ current = Nil
  /\ input[1] # {}
  /\ \E x \in Item :
       /\ Read(1, x)
       /\ current' = IF x.doc \in seen THEN Nil ELSE [doc |-> x.doc, items |-> [u \in {1} |-> x]]
  /\ UNCHANGED <<query, pass, plan, step, ahead, turn, seen, more, found, results>>

\* The child that is to come up with the record.
Lagging == Min(Term \ DOMAIN current.items)

Joined(f, x, y) == [z \in DOMAIN f \cup {x} |-> IF z = x THEN y ELSE f[z]]

\* Mutant: of the greater record only the id is taken over.
ByIdKeep(t, x) ==
  IF x.doc >= current.doc THEN [doc |-> x.doc, items |-> Joined(current.items, t, x)] ELSE current

\* ... is looked for in the others, where a greater one takes its place ...
ByIdSkip(t, x) ==
  CASE x.doc = current.doc -> [current EXCEPT !.items = Joined(@, t, x)]
    [] x.doc > current.doc -> [doc |-> x.doc, items |-> [u \in {t} |-> x]]
    [] x.doc < current.doc -> current

ByIdNext ==
  /\ Drain("byId") /\ current # Nil
  /\ DOMAIN current.items # Term
  /\ input[Lagging] # {}
  /\ \E x \in Item : Read(Lagging, x) /\ current' = ByIdSkip(Lagging, x)
  /\ UNCHANGED <<query, pass, plan, step, ahead, turn, seen, more, found, results>>

\* ... until all have it.
ByIdFound ==
  /\ Drain("byId") /\ current # Nil
  /\ DOMAIN current.items = Term
  /\ found' = found \cup {[doc |-> current.doc,
                           score |-> SumFunction([t \in Term |-> Sequential(t, current.items[t])])]}
  /\ seen' = seen \cup {current.doc}
  /\ current' = Nil
  /\ UNCHANGED <<query, pass, plan, step, input, ahead, turn, more, results>>

ByIdEnd ==
  /\ Drain("byId")
  /\ IF current = Nil THEN input[1] = {}
     ELSE DOMAIN current.items # Term /\ input[Lagging] = {}
  /\ Sort

\* UnionSortedByIDOperator::getNext: records returned before are passed over ...
UnionSkip ==
  /\ Drain("union")
  /\ \E t \in Term, x \in Item :
       /\ ahead[t] # Nil /\ ahead[t].doc \in seen
       /\ Read(t, x)
       /\ ahead' = [ahead EXCEPT ![t] = x]
  /\ UNCHANGED <<query, pass, plan, step, turn, current, seen, more, found, results>>

\* ... and the lowest id is taken from every child that has it, with the highest
\* score.
UnionNext ==
  LET docs == {ahead[t].doc : t \in Term} \ {Nil.doc}
      d == Min(docs)
      having == {t \in Term : ahead[t].doc = d}
  IN /\ Drain("union")
     /\ docs # {} /\ docs \cap seen = {}
     /\ \E a \in [having -> Item] :
          /\ \A t \in having : Returns(plan, t, input[t], a[t])
          /\ ahead' = [t \in Term |-> IF t \in having THEN a[t] ELSE ahead[t]]
          /\ input' = [t \in Term |-> IF t \in having THEN input[t] \ {a[t]} ELSE input[t]]
     /\ found' = found \cup {[doc |-> d, score |-> Max({Sequential(t, ahead[t]) : t \in having})]}
     /\ seen' = seen \cup {d}
     /\ UNCHANGED <<query, pass, plan, step, turn, current, more, results>>

UnionEnd == Drain("union") /\ (\A t \in Term : ahead[t] = Nil) /\ Sort

\* SortByScoreOperator::getNext.
SortedNext ==
  LET x == IF found = {} THEN Nil ELSE Best(found)
  IN /\ step = "sorted"
     /\ found' = found \ {x}
     /\ Return(x, "sorted")
     /\ UNCHANGED <<query, input, ahead, turn, current, seen, more>>

-----------------------------------------------------------------------------

PlanNext ==
  \/ Open
  \/ TopCall \/ TopVisit
  \/ ShortestNext \/ ShortestEnd
  \/ ByIdStart \/ ByIdNext \/ ByIdFound \/ ByIdEnd
  \/ UnionSkip \/ UnionNext \/ UnionEnd
  \/ SortedNext

PlanSpec == PlanInit /\ [][PlanNext]_planVars

-----------------------------------------------------------------------------
(* Properties *)

PlanTypeOK ==
  /\ pass \in {"exact", "fuzzy", "done"}
  /\ step \in {"plan", "call", "loop", "drain", "sorted"}
  /\ seen \subseteq Docs
  /\ \A x \in found : x.doc \in Docs /\ x.score \in Nat
  /\ Len(results) <= Limit

Matches(p, d) ==
  IF kind = "and" THEN \A t \in Term : Hits(p, t, d) # {} ELSE \E t \in Term : Hits(p, t, d) # {}

Returned == {results[i].doc : i \in 1 .. Len(results)}

\* Whatever the plans, a search returns records that match, each one once, and
\* all that match if they are no more than it was asked for.
AnswersQuery ==
  /\ Cardinality(Returned) = Len(results)
  /\ \A i \in 1 .. Len(results) : Matches(results[i].pass, results[i].doc)
  /\ pass = "done" /\ Len(results) < Limit => \A d \in Docs : Matches("fuzzy", d) => d \in Returned

\* The least score that a plan of pass p can give to a record for term t ...
Low(p, t, d) ==
  Min({static[t][d][w] * Similarity[Distance[w]] *
         (IF kind = "and" THEN Min({Boost[t], Power(Boost[t], Distance[w])}) ELSE Boost[t])
        : w \in Hits(p, t, d)})

\* ... and to a record that matches.
Least(p, d) ==
  IF kind = "and" THEN SumFunction([t \in Term |-> Low(p, t, d)])
  ELSE Max({Low(p, t, d) : t \in {u \in Term : Hits(p, u, d) # {}}})

\* MergeTopK stops early only if nothing better is left: the results of a pass
\* come by falling score, and no record that is missing has a higher one.
NoneBetter ==
  /\ \A i, j \in 1 .. Len(results) :
       i < j /\ results[i].pass = results[j].pass => results[i].score >= results[j].score
  /\ \A i \in 1 .. Len(results), d \in Docs \ Returned :
       Matches(results[i].pass, d) => Least(results[i].pass, d) <= results[i].score

\* Of a query for k results the exact ones come before the fuzzy ones, none left
\* out for them.
ExactFirst ==
  ~all => \A i \in 1 .. Len(results) :
    ~Matches("exact", results[i].doc) =>
      \A d \in Docs : Matches("exact", d) => \E j \in 1 .. i - 1 : results[j].doc = d

\* The best come first: MergeTopKOperator stops early only when nothing better
\* is left, and the exact matches come before the fuzzy ones.
BestFirst == NoneBetter /\ ExactFirst
=============================================================================
