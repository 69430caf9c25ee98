------------------------ MODULE SearchScenariosProofs ------------------------
(* The theorems about searches in the scenarios of MCSearchScenarios: those *)
(* about SearchViews, whatever its keywords, records and searches, those    *)
(* about SearchPlans, whatever its records, terms, words and scores, and    *)
(* those about LruCache, whatever its keys, hashes, sizes and budget.       *)
EXTENDS MCSearchScenarios, SearchViewsProofs, FiniteSetTheorems, WellFoundedInduction, TLAPS

TP == INSTANCE SearchViewsProofs
      WITH Reader <- TightReader, MaxRecords <- TightRecords, Room <- FALSE, CacheResults <- TRUE

-----------------------------------------------------------------------------
(* The scenario "tight" is the instance the theorems are about *)

LEMMA TightConstants == TP!SearchViewsAssumption
BY SearchViewsAssumption, ScenarioAssumption DEF TP!SearchViewsAssumption

LEMMA SameCardinality == \A S : TP!Cardinality(S) = Tight!Cardinality(S)
BY DEF TP!Cardinality, Tight!Cardinality

\* Two instances of one module with the same constants: their definitions are
\* the same once expanded.
LEMMA SameInit == Tight!Init => TP!Init
BY DEF Tight!Init, TP!Init, Tight!NoSearch, TP!NoSearch

LEMMA SameWrite == Tight!Write => TP!Write
<1>1. TP!size = Tight!size
  BY SameCardinality DEF TP!size, Tight!size
<1>2. ASSUME NEW k \in Keyword, Tight!AddRecord(k) PROVE TP!AddRecord(k)
  <2>1. TP!AddKeyword(k)
    BY <1>2 DEF Tight!AddRecord, Tight!AddKeyword, TP!AddKeyword, Tight!With, TP!With
  <2>2. TP!AddForwardList(k, trie'[k].id)
    BY <1>1, <1>2 DEF Tight!AddRecord, Tight!AddForwardList, TP!AddForwardList, Tight!With,
       TP!With
  <2>3. TP!AddToInvertedIndex(trie'[k].offset, k, TP!size)
    BY <1>1, <1>2 DEF Tight!AddRecord, Tight!AddToInvertedIndex, TP!AddToInvertedIndex,
       Tight!HitList, TP!HitList, Tight!With, TP!With
  <2> QED
    BY <1>1, <1>2, <2>1, <2>2, <2>3 DEF Tight!AddRecord, TP!AddRecord, Tight!LockFree,
       TP!LockFree
<1>3. \A i : Tight!DeleteRecord(i) => TP!DeleteRecord(i)
  BY DEF Tight!DeleteRecord, TP!DeleteRecord, Tight!LockFree, TP!LockFree, Tight!readVars,
     TP!readVars
<1> QED
  BY <1>2, <1>3 DEF Tight!Write, TP!Write, Tight!Record, TP!Record

LEMMA SameMerge == Tight!Merge => TP!Merge
BY SameCardinality DEF Tight!Merge, TP!Merge, Tight!MergeBegin, TP!MergeBegin,
   Tight!MergeForward, TP!MergeForward, Tight!MergeDirectory, TP!MergeDirectory,
   Tight!MergeList, TP!MergeList, Tight!ListsMerged, TP!ListsMerged,
   Tight!ReassignKeywordIds, TP!ReassignKeywordIds, Tight!MergeTrie, TP!MergeTrie,
   Tight!RemoveDeletedNodes, TP!RemoveDeletedNodes, Tight!NewIds, TP!NewIds,
   Tight!RewriteForwardLists, TP!RewriteForwardLists,
   Tight!ReassignForwardList, TP!ReassignForwardList,
   Tight!ReorderForwardList, TP!ReorderForwardList, Tight!ExclusiveLock, TP!ExclusiveLock,
   Tight!Searching, TP!Searching, Tight!Without, TP!Without, Tight!LockFree, TP!LockFree,
   Tight!size, TP!size, Tight!dir, TP!dir, Tight!indexVars, TP!indexVars,
   Tight!readVars, TP!readVars, Tight!mergeVars, TP!mergeVars

LEMMA SameSearch == \A r \in TightReader : Tight!Search(r) => TP!Search(r)
BY DEF Tight!Search, TP!Search, Tight!ReaderPreEnter, TP!ReaderPreEnter,
   Tight!GetTrie, TP!GetTrie, Tight!GetForward, TP!GetForward,
   Tight!GetDirectory, TP!GetDirectory, Tight!CacheHit, TP!CacheHit,
   Tight!Evaluate, TP!Evaluate, Tight!ReaderPreExit, TP!ReaderPreExit,
   Tight!Answer, TP!Answer, Tight!Scan, TP!Scan, Tight!Probe, TP!Probe,
   Tight!HaveWordInRange, TP!HaveWordInRange, Tight!NoSearch, TP!NoSearch,
   Tight!writersUnchanged, TP!writersUnchanged, Tight!indexVars, TP!indexVars,
   Tight!readVars, TP!readVars, Tight!mergeVars, TP!mergeVars

LEMMA SameNext == Tight!Next => TP!Next
BY SameWrite, SameMerge, SameSearch DEF Tight!Next, TP!Next

-----------------------------------------------------------------------------
(* Induction over numbers and over finite sets *)

\* Induction: a set of numbers that has 0, and with n also n + 1, has all.
LEMMA NumberInduction ==
  ASSUME NEW good, 0 \in good, \A n \in Nat : n \in good => n + 1 \in good
  PROVE  \A n \in Nat : n \in good
<1> DEFINE R == {ss \in Nat \X Nat : ss[1] < ss[2]}
           bad == Nat \ good
<1> SUFFICES ASSUME bad # {} PROVE FALSE
  OBVIOUS
<1>1. IsWellFoundedOn(R, Nat)
  BY NatLessThanWellFounded DEF OpToRel
<1>2. PICK n \in bad : \A y \in bad : ~(<<y, n>> \in R)
  <2>1. bad \subseteq Nat
    OBVIOUS
  <2> HIDE DEF bad, R
  <2> QED BY <1>1, <2>1, WFMin
<1>3. n \in Nat /\ n # 0 /\ n - 1 \in Nat /\ n - 1 < n /\ (n - 1) + 1 = n
  OBVIOUS
<1>4. n - 1 \notin bad
  BY <1>2, <1>3
<1> QED BY <1>2, <1>3, <1>4

\* Induction over the subsets of a finite set: good has all of them if it has
\* every one that is in good without any of its elements.
LEMMA SetInduction ==
  ASSUME NEW S, IsFiniteSet(S), NEW good,
         \A T \in SUBSET S : (\A x \in T : T \ {x} \in good) => T \in good
  PROVE  S \in good
<1> DEFINE sizes == {n \in Nat : \A T \in SUBSET S : Cardinality(T) = n => T \in good}
<1>1. \A T \in SUBSET S : IsFiniteSet(T) /\ Cardinality(T) \in Nat
  BY FS_Subset, FS_CardinalityType
<1>2. 0 \in sizes
  <2> SUFFICES ASSUME NEW T \in SUBSET S, Cardinality(T) = 0 PROVE T \in good
    OBVIOUS
  <2>1. T = {}
    BY <1>1, FS_EmptySet
  <2> QED BY <2>1
<1>3. ASSUME NEW n \in Nat, n \in sizes PROVE n + 1 \in sizes
  <2> SUFFICES ASSUME NEW T \in SUBSET S, Cardinality(T) = n + 1 PROVE T \in good
    OBVIOUS
  <2>1. ASSUME NEW x \in T PROVE T \ {x} \in good
    <3>1. Cardinality(T \ {x}) = n
      BY <1>1, FS_RemoveElement
    <3> QED BY <1>3, <3>1
  <2> QED BY <2>1
<1>4. \A n \in Nat : n \in sizes
  <2> HIDE DEF sizes
  <2> QED BY <1>2, <1>3, NumberInduction
<1> QED BY <1>1, <1>4

-----------------------------------------------------------------------------
(* Sums *)

Some(s) == CHOOSE x \in s : TRUE

SumsOn(g, f, D) == g = [s \in D |-> IF s = {} THEN 0 ELSE f[Some(s)] + g[s \ {Some(s)}]]

\* The recursion of a sum over a finite set has a solution.
LEMMA SumExists ==
  ASSUME NEW S, IsFiniteSet(S), NEW f
  PROVE  \E g : SumsOn(g, f, SUBSET S)
<1> DEFINE L(n) == {s \in SUBSET S : Cardinality(s) <= n}
           good == {n \in Nat : \E g : SumsOn(g, f, L(n))}
<1>1. \A T \in SUBSET S : /\ IsFiniteSet(T) /\ Cardinality(T) \in Nat
                          /\ Cardinality(T) <= Cardinality(S) /\ (T = {} <=> Cardinality(T) = 0)
  BY FS_Subset, FS_CardinalityType, FS_EmptySet
<1>2. ASSUME NEW T \in SUBSET S, T # {}
      PROVE  /\ Some(T) \in T /\ T \ {Some(T)} \in SUBSET S
             /\ Cardinality(T \ {Some(T)}) = Cardinality(T) - 1
  <2>1. Some(T) \in T
    BY <1>2 DEF Some
  <2> QED BY <1>1, <2>1, FS_RemoveElement
<1>3. 0 \in good
  <2> DEFINE g == [s \in L(0) |-> 0]
  <2>1. \A s \in L(0) : s = {}
    BY <1>1
  <2>2. SumsOn(g, f, L(0))
    BY <2>1 DEF SumsOn
  <2> QED BY <2>2
<1>4. ASSUME NEW n \in Nat, n \in good PROVE n + 1 \in good
  <2>1. PICK g : SumsOn(g, f, L(n))
    BY <1>4
  <2> DEFINE h == [s \in L(n + 1) |-> IF s = {} THEN 0 ELSE f[Some(s)] + g[s \ {Some(s)}]]
  <2>2. ASSUME NEW s \in L(n) PROVE h[s] = g[s]
    <3>1. s \in L(n + 1)
      BY <1>1
    <3>2. g[s] = IF s = {} THEN 0 ELSE f[Some(s)] + g[s \ {Some(s)}]
      BY <2>1 DEF SumsOn
    <3> QED BY <3>1, <3>2
  <2>3. ASSUME NEW s \in L(n + 1), s # {} PROVE s \ {Some(s)} \in L(n)
    BY <1>1, <1>2, <2>3
  <2>4. \A s \in L(n + 1) : s # {} => h[s \ {Some(s)}] = g[s \ {Some(s)}]
    <3> HIDE DEF h, L
    <3> QED BY <2>2, <2>3
  <2>5. SumsOn(h, f, L(n + 1))
    <3> HIDE DEF L
    <3> SUFFICES h = [s \in L(n + 1) |-> IF s = {} THEN 0 ELSE f[Some(s)] + h[s \ {Some(s)}]]
      BY DEF SumsOn
    <3> QED BY <2>4
  <2> QED BY <2>5
<1>5. \A n \in Nat : n \in good
  <2> HIDE DEF good
  <2> QED BY <1>3, <1>4, NumberInduction
<1>6. Cardinality(S) \in Nat /\ L(Cardinality(S)) = SUBSET S
  BY <1>1, FS_CardinalityType
<1> QED BY <1>5, <1>6

\* Two solutions agree wherever both are defined.
LEMMA SumsAgree ==
  ASSUME NEW S, IsFiniteSet(S), NEW T, NEW f, NEW g, NEW h,
         SumsOn(g, f, SUBSET S), SumsOn(h, f, SUBSET T), S \subseteq T
  PROVE  g[S] = h[S]
<1> DEFINE good == {s \in SUBSET S : g[s] = h[s]}
<1>1. ASSUME NEW s \in SUBSET S, \A x \in s : s \ {x} \in good PROVE s \in good
  <2>1. /\ g[s] = IF s = {} THEN 0 ELSE f[Some(s)] + g[s \ {Some(s)}]
        /\ h[s] = IF s = {} THEN 0 ELSE f[Some(s)] + h[s \ {Some(s)}]
    BY DEF SumsOn
  <2>2. s # {} => Some(s) \in s
    BY DEF Some
  <2> QED BY <1>1, <2>1, <2>2
<1>2. S \in good
  <2> HIDE DEF good
  <2> QED BY <1>1, SetInduction
<1> QED BY <1>2

\* SumFunctionOnSet() is the solution.
LEMMA SumIs ==
  ASSUME NEW S, IsFiniteSet(S), NEW f
  PROVE  \E g : SumsOn(g, f, SUBSET S) /\ SumFunctionOnSet(f, S) = g[S]
<1> DEFINE h == CHOOSE g : SumsOn(g, f, SUBSET S)
<1>1. SumsOn(h, f, SUBSET S)
  BY SumExists
<1>2. SumFunctionOnSet(f, S) = h[S]
  BY DEF SumsOn, Some, SumFunctionOnSet, FoldFunctionOnSet, MapThenFoldSet
<1> QED BY <1>1, <1>2

\* A sum over nothing is zero, and a sum over a set is that of all but one of
\* its elements and the value of this one.
LEMMA SumStep ==
  ASSUME NEW S, IsFiniteSet(S), NEW f
  PROVE  /\ S = {} => SumFunctionOnSet(f, S) = 0
         /\ S # {} => /\ Some(S) \in S
                      /\ SumFunctionOnSet(f, S) = f[Some(S)] + SumFunctionOnSet(f, S \ {Some(S)})
<1>1. PICK g : SumsOn(g, f, SUBSET S) /\ SumFunctionOnSet(f, S) = g[S]
  BY SumIs
<1>2. g[S] = IF S = {} THEN 0 ELSE f[Some(S)] + g[S \ {Some(S)}]
  BY <1>1 DEF SumsOn
<1>3. S # {} => Some(S) \in S
  BY DEF Some
<1>4. ASSUME S # {} PROVE SumFunctionOnSet(f, S \ {Some(S)}) = g[S \ {Some(S)}]
  <2> DEFINE T == S \ {Some(S)}
  <2>1. IsFiniteSet(T) /\ T \subseteq S
    BY FS_RemoveElement
  <2> HIDE DEF T
  <2>2. PICK h : SumsOn(h, f, SUBSET T) /\ SumFunctionOnSet(f, T) = h[T]
    BY <2>1, SumIs
  <2>3. h[T] = g[T]
    BY ONLY <1>1, <2>1, <2>2, SumsAgree
  <2> QED BY <2>2, <2>3 DEF T
<1> QED BY <1>1, <1>2, <1>3, <1>4

\* A sum of natural numbers is one.
LEMMA SumType ==
  ASSUME NEW S, IsFiniteSet(S), NEW f, \A x \in S : f[x] \in Nat
  PROVE  SumFunctionOnSet(f, S) \in Nat
<1> DEFINE good == {T \in SUBSET S : SumFunctionOnSet(f, T) \in Nat}
<1>1. ASSUME NEW T \in SUBSET S, \A x \in T : T \ {x} \in good PROVE T \in good
  <2>1. IsFiniteSet(T)
    BY FS_Subset
  <2>2. CASE T = {}
    BY <2>1, <2>2, SumStep
  <2>3. CASE T # {}
    <3>1. Some(T) \in T /\ SumFunctionOnSet(f, T) = f[Some(T)] + SumFunctionOnSet(f, T \ {Some(T)})
      BY <2>1, <2>3, SumStep
    <3>2. f[Some(T)] \in Nat /\ SumFunctionOnSet(f, T \ {Some(T)}) \in Nat
      BY <1>1, <3>1
    <3> QED BY <3>1, <3>2
  <2> QED BY <2>2, <2>3
<1> HIDE DEF good
<1>2. S \in good
  BY <1>1, SetInduction
<1> QED BY <1>2 DEF good

\* Any element can be taken out of a sum first.
LEMMA SumRemove ==
  ASSUME NEW S, IsFiniteSet(S), NEW f, \A x \in S : f[x] \in Nat
  PROVE  \A x \in S : SumFunctionOnSet(f, S) = f[x] + SumFunctionOnSet(f, S \ {x})
<1> DEFINE sum(T) == SumFunctionOnSet(f, T)
           good == {T \in SUBSET S : \A x \in T : sum(T) = f[x] + sum(T \ {x})}
<1>1. \A T \in SUBSET S : IsFiniteSet(T) /\ sum(T) \in Nat
  <2> SUFFICES ASSUME NEW T \in SUBSET S PROVE IsFiniteSet(T) /\ sum(T) \in Nat
    OBVIOUS
  <2>1. IsFiniteSet(T) /\ \A x \in T : f[x] \in Nat
    BY FS_Subset
  <2> QED BY <2>1, SumType
<1>2. ASSUME NEW T \in SUBSET S, \A x \in T : T \ {x} \in good, NEW x \in T
      PROVE  sum(T) = f[x] + sum(T \ {x})
  <2> DEFINE c == Some(T)
  <2>1. c \in T /\ sum(T) = f[c] + sum(T \ {c})
    BY <1>1, SumStep
  <2> HIDE DEF sum, c
  <2>2. CASE x = c
    BY <2>1, <2>2
  <2>3. CASE x # c
    <3>1. x \in T \ {c} /\ c \in T \ {x}
      BY <2>1, <2>3
    <3> DEFINE rest == (T \ {x}) \ {c}
    <3>2. sum(T \ {c}) = f[x] + sum(rest)
      <4>1. (T \ {c}) \ {x} = rest
        OBVIOUS
      <4> HIDE DEF rest
      <4> QED BY <1>2, <2>1, <3>1, <4>1
    <3>3. sum(T \ {x}) = f[c] + sum(rest)
      BY <1>2, <3>1
    <3>4. rest \in SUBSET S
      OBVIOUS
    <3> HIDE DEF rest
    <3>5. sum(rest) \in Nat /\ f[c] \in Nat /\ f[x] \in Nat
      BY <1>1, <2>1, <3>4
    <3> QED BY <2>1, <3>2, <3>3, <3>5
  <2> QED BY <2>2, <2>3
<1> HIDE DEF sum
<1>3. S \in good
  <2>1. \A T \in SUBSET S : (\A x \in T : T \ {x} \in good) => T \in good
    BY <1>2
  <2> HIDE DEF good
  <2> QED BY <2>1, SetInduction
<1> QED BY <1>3 DEF sum

\* A sum of values that are no greater is no greater.
LEMMA SumMonotone ==
  ASSUME NEW S, IsFiniteSet(S), NEW f, NEW h,
         \A x \in S : f[x] \in Nat /\ h[x] \in Nat /\ f[x] <= h[x]
  PROVE  SumFunctionOnSet(f, S) <= SumFunctionOnSet(h, S)
<1> DEFINE good == {T \in SUBSET S : SumFunctionOnSet(f, T) <= SumFunctionOnSet(h, T)}
<1>1. ASSUME NEW T \in SUBSET S, \A x \in T : T \ {x} \in good PROVE T \in good
  <2>1. IsFiniteSet(T)
    BY FS_Subset
  <2>2. CASE T = {}
    <3>1. SumFunctionOnSet(f, T) = 0 /\ SumFunctionOnSet(h, T) = 0
      BY <2>1, <2>2, SumStep
    <3> QED BY <3>1
  <2>3. CASE T # {}
    <3> DEFINE c == Some(T)
               a == SumFunctionOnSet(f, T \ {c})
               b == SumFunctionOnSet(h, T \ {c})
    <3>1. /\ c \in T
          /\ SumFunctionOnSet(f, T) = f[c] + a /\ SumFunctionOnSet(h, T) = h[c] + b
      BY <2>1, <2>3, SumStep
    <3>2. a <= b
      BY <1>1, <3>1
    <3>3. a \in Nat /\ b \in Nat
      <4>1. IsFiniteSet(T \ {c}) /\ \A x \in T \ {c} : f[x] \in Nat /\ h[x] \in Nat
        BY <2>1, FS_RemoveElement
      <4> QED BY <4>1, SumType
    <3>4. f[c] \in Nat /\ h[c] \in Nat /\ f[c] <= h[c]
      BY <3>1
    <3> HIDE DEF a, b, c
    <3>5. f[c] + a <= h[c] + b
      BY <3>2, <3>3, <3>4
    <3> QED BY <3>1, <3>5
  <2> QED BY <2>2, <2>3
<1> HIDE DEF good
<1>2. S \in good
  BY <1>1, SetInduction
<1> QED BY <1>2 DEF good

\* Values that agree have the same sum.
LEMMA SumSame ==
  ASSUME NEW S, IsFiniteSet(S), NEW f, NEW h, \A x \in S : f[x] = h[x]
  PROVE  SumFunctionOnSet(f, S) = SumFunctionOnSet(h, S)
<1> DEFINE good == {T \in SUBSET S : SumFunctionOnSet(f, T) = SumFunctionOnSet(h, T)}
<1>1. ASSUME NEW T \in SUBSET S, \A x \in T : T \ {x} \in good PROVE T \in good
  <2>1. IsFiniteSet(T)
    BY FS_Subset
  <2>2. CASE T = {}
    <3>1. SumFunctionOnSet(f, T) = 0 /\ SumFunctionOnSet(h, T) = 0
      BY <2>1, <2>2, SumStep
    <3> QED BY <3>1
  <2>3. CASE T # {}
    <3> DEFINE c == Some(T)
    <3>1. /\ c \in T
          /\ SumFunctionOnSet(f, T) = f[c] + SumFunctionOnSet(f, T \ {c})
          /\ SumFunctionOnSet(h, T) = h[c] + SumFunctionOnSet(h, T \ {c})
      BY <2>1, <2>3, SumStep
    <3>2. f[c] = h[c] /\ SumFunctionOnSet(f, T \ {c}) = SumFunctionOnSet(h, T \ {c})
      BY <1>1, <3>1
    <3> QED BY <3>1, <3>2
  <2> QED BY <2>2, <2>3
<1> HIDE DEF good
<1>2. S \in good
  BY <1>1, SetInduction
<1> QED BY <1>2 DEF good

-----------------------------------------------------------------------------
(* Orders *)

\* A non-empty set of naturals has a least one.
LEMMA LeastNumber ==
  ASSUME NEW S, S \subseteq Nat, S # {}
  PROVE  Min(S) \in S /\ \A x \in S : Min(S) <= x
<1> DEFINE R == {ss \in Nat \X Nat : ss[1] < ss[2]}
<1>1. IsWellFoundedOn(R, Nat)
  BY NatLessThanWellFounded DEF OpToRel
<1>2. PICK m \in S : \A y \in S : ~(<<y, m>> \in R)
  <2> HIDE DEF R
  <2> QED BY <1>1, WFMin
<1>3. ASSUME NEW y \in S PROVE m <= y
  <2>1. y \in Nat /\ m \in Nat
    OBVIOUS
  <2>2. ~(y < m)
    BY <1>2, <2>1
  <2> QED BY <2>1, <2>2
<1> QED BY <1>2, <1>3 DEF Min

\* A finite one has a greatest one.
LEMMA GreatestNumber ==
  ASSUME NEW S, IsFiniteSet(S), S \subseteq Nat, S # {}
  PROVE  Max(S) \in S /\ \A x \in S : x <= Max(S)
<1> DEFINE good == {T \in SUBSET S : T # {} => \E m \in T : \A x \in T : x <= m}
<1>1. ASSUME NEW T \in SUBSET S, \A x \in T : T \ {x} \in good, T # {}
      PROVE  \E m \in T : \A x \in T : x <= m
  <2>1. PICK c \in T : TRUE
    BY <1>1
  <2>2. CASE T \ {c} = {}
    <3>1. c \in Nat /\ \A x \in T : x = c
      BY <2>1, <2>2
    <3> QED BY <2>1, <3>1
  <2>3. CASE T \ {c} # {}
    <3>1. PICK m \in T \ {c} : \A x \in T \ {c} : x <= m
      BY <1>1, <2>1, <2>3
    <3>2. m \in Nat /\ c \in Nat /\ \A x \in T : x \in Nat /\ (x = c \/ x <= m)
      BY <2>1, <3>1
    <3>3. CASE c <= m
      BY <3>1, <3>2, <3>3
    <3>4. CASE m <= c
      BY <2>1, <3>2, <3>4
    <3> QED BY <3>2, <3>3, <3>4
  <2> QED BY <2>2, <2>3
<1>2. S \in good
  <2>1. \A T \in SUBSET S : (\A x \in T : T \ {x} \in good) => T \in good
    BY <1>1
  <2> HIDE DEF good
  <2> QED BY <2>1, SetInduction
<1>3. PICK m \in S : \A x \in S : x <= m
  BY <1>2
<1> QED BY <1>3 DEF Max

\* Of finitely many records one is the best.
LEMMA BestExists ==
  ASSUME NEW S, IsFiniteSet(S), S # {}, \A x \in S : x \in [doc : Nat, score : Nat]
  PROVE  Best(S) \in S /\ \A x \in S : x.score <= Best(S).score
<1> DEFINE good == {T \in SUBSET S : T # {} => \E m \in T : \A x \in T \ {m} : Above(m, x)}
<1>1. ASSUME NEW T \in SUBSET S, \A x \in T : T \ {x} \in good, T # {}
      PROVE  \E m \in T : \A x \in T \ {m} : Above(m, x)
  <2>1. PICK c \in T : TRUE
    BY <1>1
  <2>2. CASE T \ {c} = {}
    BY <2>1, <2>2
  <2>3. CASE T \ {c} # {}
    <3>1. PICK m \in T \ {c} : \A x \in (T \ {c}) \ {m} : Above(m, x)
      BY <1>1, <2>1, <2>3
    <3>2. m \in [doc : Nat, score : Nat] /\ c \in [doc : Nat, score : Nat] /\ m # c
      BY <2>1, <3>1
    <3>3. Above(m, c) \/ Above(c, m)
      <4>1. m.doc # c.doc \/ m.score # c.score
        BY <3>2
      <4> QED BY <3>2, <4>1 DEF Above
    <3>4. CASE Above(m, c)
      BY <3>1, <3>4
    <3>5. CASE Above(c, m)
      <4>1. ASSUME NEW x \in T \ {c} PROVE Above(c, x)
        <5>1. CASE x = m
          BY <3>5, <5>1
        <5>2. CASE x # m
          <6>1. Above(m, x) /\ x \in [doc : Nat, score : Nat]
            BY <3>1, <4>1, <5>2
          <6> QED BY <3>2, <3>5, <6>1 DEF Above
        <5> QED BY <5>1, <5>2
      <4> QED BY <2>1, <4>1
    <3> QED BY <3>3, <3>4, <3>5
  <2> QED BY <2>2, <2>3
<1>2. S \in good
  <2>1. \A T \in SUBSET S : (\A x \in T : T \ {x} \in good) => T \in good
    BY <1>1
  <2> HIDE DEF good
  <2> QED BY <2>1, SetInduction
<1>3. \E m \in S : \A x \in S \ {m} : Above(m, x)
  BY <1>2
<1>4. Best(S) \in S /\ \A x \in S \ {Best(S)} : Above(Best(S), x)
  BY <1>3 DEF Best
<1>5. ASSUME NEW x \in S PROVE x.score <= Best(S).score
  <2>1. x.score \in Nat /\ Best(S).score \in Nat
    BY <1>4
  <2>2. CASE x = Best(S)
    BY <2>1, <2>2
  <2>3. CASE x # Best(S)
    BY <1>4, <2>1, <2>3 DEF Above
  <2> QED BY <2>2, <2>3
<1> QED BY <1>4, <1>5

-----------------------------------------------------------------------------
(* Powers *)

PowersOn(p, b, n) == p = [i \in 0 .. n |-> IF i = 0 THEN 1 ELSE b * p[i - 1]]

\* The recursion of a power has a solution, and the power obeys it.
LEMMA PowerIs ==
  ASSUME NEW b \in Nat, NEW n \in Nat
  PROVE  \E p : PowersOn(p, b, n) /\ p \in [0 .. n -> Nat] /\ Power(b, n) = p[n]
<1> DEFINE good == {m \in Nat : \E p : PowersOn(p, b, m) /\ p \in [0 .. m -> Nat]}
<1>1. 0 \in good
  <2> DEFINE p == [i \in 0 .. 0 |-> 1]
  <2>1. \A i \in 0 .. 0 : i = 0
    OBVIOUS
  <2>2. PowersOn(p, b, 0) /\ p \in [0 .. 0 -> Nat]
    BY <2>1 DEF PowersOn
  <2> QED BY <2>2
<1>2. ASSUME NEW m \in Nat, m \in good PROVE m + 1 \in good
  <2>1. PICK p : PowersOn(p, b, m) /\ p \in [0 .. m -> Nat]
    BY <1>2
  <2> DEFINE q == [i \in 0 .. m + 1 |-> IF i = 0 THEN 1 ELSE b * p[i - 1]]
  <2>2. ASSUME NEW i \in 0 .. m + 1, i # 0
        PROVE  q[i - 1] = p[i - 1] /\ p[i - 1] \in Nat /\ b * p[i - 1] \in Nat
    <3>1. i - 1 \in 0 .. m /\ i - 1 \in 0 .. m + 1
      BY <2>2
    <3>2. p[i - 1] = IF i - 1 = 0 THEN 1 ELSE b * p[(i - 1) - 1]
      BY <2>1, <3>1 DEF PowersOn
    <3>3. p[i - 1] \in Nat
      BY <2>1, <3>1
    <3>4. b * p[i - 1] \in Nat
      BY <3>3
    <3> QED BY <3>1, <3>2, <3>3, <3>4
  <2>3. q \in [0 .. m + 1 -> Nat]
    BY <2>2
  <2>4. q = [i \in 0 .. m + 1 |-> IF i = 0 THEN 1 ELSE b * q[i - 1]]
    BY <2>2
  <2> HIDE DEF q
  <2> QED BY <2>3, <2>4 DEF PowersOn
<1>3. \A m \in Nat : m \in good
  <2> HIDE DEF good
  <2> QED BY <1>1, <1>2, NumberInduction
<1> DEFINE h == CHOOSE p : PowersOn(p, b, n)
<1>4. PowersOn(h, b, n)
  BY <1>3
<1>5. Power(b, n) = h[n]
  BY DEF PowersOn, Power
<1>6. PICK p : PowersOn(p, b, n) /\ p \in [0 .. n -> Nat]
  BY <1>3
<1> HIDE DEF h
<1>7. h \in [0 .. n -> Nat]
  <2> DEFINE same == {m \in Nat : m \in 0 .. n => h[m] = p[m]}
  <2>1. ASSUME NEW i \in 0 .. n
        PROVE  /\ h[i] = IF i = 0 THEN 1 ELSE b * h[i - 1]
               /\ p[i] = IF i = 0 THEN 1 ELSE b * p[i - 1]
    BY <1>4, <1>6 DEF PowersOn
  <2>2. 0 \in same
    BY <2>1
  <2>3. ASSUME NEW m \in Nat, m \in same PROVE m + 1 \in same
    <3> SUFFICES ASSUME m + 1 \in 0 .. n PROVE h[m + 1] = p[m + 1]
      OBVIOUS
    <3>1. m \in 0 .. n /\ (m + 1) - 1 = m /\ m + 1 # 0
      OBVIOUS
    <3>2. h[m] = p[m]
      BY <2>3, <3>1
    <3> QED BY <2>1, <3>1, <3>2
  <2>4. \A m \in Nat : m \in same
    <3> HIDE DEF same
    <3> QED BY <2>2, <2>3, NumberInduction
  <2>5. \A m \in 0 .. n : h[m] = p[m]
    BY <2>4
  <2>6. DOMAIN h = 0 .. n /\ h = [i \in 0 .. n |-> h[i]]
    BY <1>4 DEF PowersOn
  <2> QED BY <1>6, <2>5, <2>6
<1> QED BY <1>4, <1>5, <1>7

\* Powers are numbers, the zeroth is one and the first the number itself.
LEMMA PowerType ==
  ASSUME NEW b \in Nat, NEW n \in Nat
  PROVE  /\ Power(b, n) \in Nat
         /\ n = 0 => Power(b, n) = 1
         /\ n = 1 => Power(b, n) = b
<1>1. PICK p : PowersOn(p, b, n) /\ p \in [0 .. n -> Nat] /\ Power(b, n) = p[n]
  BY PowerIs
<1>2. \A i \in 0 .. n : p[i] = IF i = 0 THEN 1 ELSE b * p[i - 1]
  BY <1>1 DEF PowersOn
<1>3. n = 0 => p[n] = 1
  BY <1>2
<1>4. n = 1 => p[n] = b
  <2> SUFFICES ASSUME n = 1 PROVE p[1] = b
    OBVIOUS
  <2>1. p[0] = 1 /\ p[1] = b * p[0]
    BY <1>2
  <2> QED BY <2>1
<1> QED BY <1>1, <1>3, <1>4

\* A power of one is one.
LEMMA PowerOfOne ==
  ASSUME NEW n \in Nat
  PROVE  Power(1, n) = 1
<1>1. PICK p : PowersOn(p, 1, n) /\ p \in [0 .. n -> Nat] /\ Power(1, n) = p[n]
  BY PowerIs
<1> DEFINE good == {m \in Nat : m \in 0 .. n => p[m] = 1}
<1>2. \A i \in 0 .. n : p[i] = IF i = 0 THEN 1 ELSE 1 * p[i - 1]
  BY <1>1 DEF PowersOn
<1>3. 0 \in good
  BY <1>2
<1>4. ASSUME NEW m \in Nat, m \in good PROVE m + 1 \in good
  <2> SUFFICES ASSUME m + 1 \in 0 .. n PROVE p[m + 1] = 1
    OBVIOUS
  <2>1. m \in 0 .. n /\ (m + 1) - 1 = m /\ m + 1 # 0
    OBVIOUS
  <2>2. p[m] = 1
    BY <1>4, <2>1
  <2> QED BY <1>2, <2>1, <2>2
<1>5. \A m \in Nat : m \in good
  <2> HIDE DEF good
  <2> QED BY <1>3, <1>4, NumberInduction
<1> QED BY <1>1, <1>5

-----------------------------------------------------------------------------
(* The inductive invariant of the plans *)

Scored == [doc : Docs, score : Nat]
Result == [doc : Docs, score : Nat, pass : {"exact", "fuzzy"}]

\* The query, and the types of what every plan uses.
QueryTyped ==
  /\ kind \in {"and", "or"} /\ all \in BOOLEAN
  /\ static \in [Term -> [Docs -> Matching]]
  /\ pass \in {"exact", "fuzzy", "done"}
  /\ step \in {"plan", "call", "loop", "drain", "sorted"}
  /\ results \in Seq(Result)
  /\ found \subseteq Scored /\ IsFiniteSet(found)
  /\ seen \subseteq Docs
  /\ turn \in Term /\ more \in BOOLEAN

\* The plan that runs, if any.
PlanInv ==
  /\ all => pass # "exact"
  /\ pass = "done" => step = "plan"
  /\ step \in {"call", "loop"} => plan.name = "topK" /\ kind = "and"
  /\ step = "drain" =>
       \/ plan.name = "shortest" /\ plan.scan \in Term /\ kind = "and"
       \/ plan.name = "byId" /\ kind = "and"
       \/ plan.name = "union" /\ kind = "or"
  /\ step = "sorted" => plan.name \in {"shortest", "byId", "union"}

\* The results: every record once, only records that match, fuzzy ones after
\* all exact ones.
ResultsInv ==
  /\ \A i, j \in 1 .. Len(results) : i # j => results[i].doc # results[j].doc
  /\ \A i \in 1 .. Len(results) : Matches(results[i].pass, results[i].doc)
  /\ Len(results) <= Limit
  /\ pass # "done" => Len(results) < Limit
  /\ pass = "done" /\ Len(results) < Limit =>
       \A d \in Docs : Matches("fuzzy", d) => d \in Returned

ExactInv ==
  ~all =>
    /\ pass = "fuzzy" => \A d \in Docs : Matches("exact", d) => d \in Returned
    /\ \A i \in 1 .. Len(results) : results[i].pass = "fuzzy" =>
         \A d \in Docs : Matches("exact", d) => \E j \in 1 .. i - 1 : results[j].doc = d

InFound(d) == \E x \in found : x.doc = d

\* What the children have and have not returned.
ChildrenInv ==
  step \in {"call", "loop", "drain"} =>
    /\ input \in [Term -> SUBSET [doc : Docs, word : Word]]
    /\ ahead \in [Term -> Item]
    /\ \A t \in Term : input[t] \subseteq Items(pass, t) /\ (ahead[t] # Nil => ahead[t] \in Items(pass, t))
    /\ plan.name \in {"topK", "union"} =>
         \A t \in Term :
           /\ ahead[t] = Nil => input[t] = {}
           /\ \A x \in Items(pass, t) : x \in input[t] \/ x = ahead[t] \/ x.doc \in seen

FoundInv == step # "plan" => \A x \in found : Matches(pass, x.doc)

TopInv ==
  step \in {"call", "loop"} =>
    /\ step = "call" => current = Nil
    /\ current # Nil => current \in Scored /\ Matches(pass, current.doc)
    /\ current = Nil /\ step = "loop" => found = {}
    /\ ~more => \E t \in Term : ahead[t] = Nil
    /\ \A d \in seen : Matches(pass, d) => d \in Returned \/ InFound(d) \/ (current # Nil /\ current.doc = d)

ShortestInv ==
  step = "drain" /\ plan.name = "shortest" =>
    \A x \in Items(pass, plan.scan) : x \in input[plan.scan] \/ (Matches(pass, x.doc) => InFound(x.doc))

Waits(t, d) == \E x \in input[t] : x.doc = d

\* Record d, which matches, can still be found.
Reachable(d) ==
  IF current = Nil THEN \A t \in Term : Waits(t, d)
  ELSE /\ current.doc <= d
       /\ \A t \in Term : Waits(t, d) \/ (current.doc = d /\ t \in DOMAIN current.items)

ByIdInv ==
  step = "drain" /\ plan.name = "byId" =>
    /\ current # Nil =>
         /\ current.doc \in Docs /\ DOMAIN current.items \subseteq Term
         /\ current = [doc |-> current.doc, items |-> current.items]
         /\ current.items = [t \in DOMAIN current.items |-> current.items[t]]
         /\ \A t \in DOMAIN current.items : current.items[t] \in Items(pass, t) /\ current.items[t].doc = current.doc
    /\ \A d \in seen : InFound(d)
    /\ \A d \in Docs : Matches(pass, d) => InFound(d) \/ Reachable(d)

UnionInv == step = "drain" /\ plan.name = "union" => \A d \in seen : InFound(d)

SortedInv ==
  step = "sorted" => \A d \in Docs : Matches(pass, d) => d \in Returned \/ InFound(d)

PlanIInv == /\ QueryTyped /\ PlanInv /\ ResultsInv /\ ExactInv /\ ChildrenInv /\ FoundInv
        /\ TopInv /\ ShortestInv /\ ByIdInv /\ UnionInv /\ SortedInv

-----------------------------------------------------------------------------
(* Constants, items and scores *)

\* What the assumptions say.
LEMMA PlanConstants ==
  /\ Docs \subseteq Nat /\ IsFiniteSet(Docs) /\ K \in Nat \ {0}
  /\ IsFiniteSet(Term) /\ Cardinality(Term) \in Nat \ {0} /\ Term = 1 .. Cardinality(Term)
  /\ 1 \in Term /\ Term \subseteq Nat /\ Word \subseteq Nat
  /\ \A t \in Term : Boost[t] \in Nat \ {0}
  /\ \A w \in Word : Distance[w] \in Nat /\ Similarity[Distance[w]] \in Nat
  /\ Limit \in Nat
<1>1. Cardinality(Term) \in Nat /\ Cardinality(Docs) \in Nat
  BY PlansAssumption, FS_CardinalityType
<1>2. Cardinality(Term) # 0
  BY PlansAssumption, FS_EmptySet
<1>3. 1 \in Term /\ Term \subseteq Nat
  BY <1>1, <1>2, PlansAssumption
<1> QED BY <1>1, <1>2, <1>3, PlansAssumption DEF Limit

\* Nil is no item and no record.
LEMMA NilIs ==
  /\ Nil \notin [doc : Docs, word : Word] /\ Nil \notin Scored /\ Nil.doc = -1
  /\ \A x \in Item : x # Nil => x \in [doc : Docs, word : Word] /\ x.doc \in Docs /\ x.word \in Word
  /\ \A x \in Item : x.doc = Nil.doc => x = Nil
BY PlanConstants DEF Nil, Item, Scored

\* The words of a term in a record, and what they score.
LEMMA HitsAre ==
  ASSUME QueryTyped, NEW p, NEW t \in Term, NEW d \in Docs
  PROVE  /\ Hits(p, t, d) \subseteq Nat /\ Hits(p, t, d) \subseteq Word
         /\ \A w \in Word : static[t][d][w] \in Nat
<1>1. Hits(p, t, d) \subseteq Word
  BY DEF Hits, Words
<1>2. static[t][d] \in [Word -> Nat]
  BY PlansAssumption DEF QueryTyped
<1> QED BY <1>1, <1>2, PlanConstants

\* The items of a term show which records it matches.
LEMMA ItemsAre ==
  ASSUME NEW p, NEW t \in Term
  PROVE  /\ Items(p, t) \subseteq [doc : Docs, word : Word]
         /\ \A x \in Items(p, t) : x.doc \in Docs /\ x.word \in Hits(p, t, x.doc)
         /\ \A d \in Docs : Hits(p, t, d) # {} <=> \E x \in Items(p, t) : x.doc = d
         /\ Nil \notin Items(p, t)
<1>1. Items(p, t) \subseteq [doc : Docs, word : Word]
  BY DEF Items
<1>2. \A x \in Items(p, t) : x.doc \in Docs /\ x.word \in Hits(p, t, x.doc)
  BY DEF Items
<1>3. ASSUME NEW d \in Docs, NEW w \in Hits(p, t, d)
      PROVE  [doc |-> d, word |-> w] \in Items(p, t)
  <2>1. w \in Word
    BY <1>3 DEF Hits, Words
  <2> HIDE DEF Hits
  <2> QED BY <1>3, <2>1 DEF Items
<1>4. ASSUME NEW d \in Docs PROVE Hits(p, t, d) # {} <=> \E x \in Items(p, t) : x.doc = d
  <2>1. ASSUME Hits(p, t, d) # {} PROVE \E x \in Items(p, t) : x.doc = d
    <3>1. PICK w \in Hits(p, t, d) : TRUE
      BY <2>1
    <3>2. [doc |-> d, word |-> w] \in Items(p, t) /\ [doc |-> d, word |-> w].doc = d
      BY <1>3, <3>1
    <3> QED BY <3>2
  <2>2. ASSUME NEW x \in Items(p, t), x.doc = d PROVE Hits(p, t, d) # {}
    BY <1>2, <2>2
  <2> QED BY <2>1, <2>2
<1> QED BY <1>1, <1>2, <1>4, NilIs

\* The score of an item is a number.
LEMMA SequentialType ==
  ASSUME QueryTyped, NEW t \in Term, NEW x \in [doc : Docs, word : Word]
  PROVE  Sequential(t, x) \in Nat
<1>1. x.doc \in Docs /\ x.word \in Word
  OBVIOUS
<1>2. static[t][x.doc][x.word] \in Nat
  BY <1>1, HitsAre
<1>3. Similarity[Distance[x.word]] \in Nat /\ Boost[t] \in Nat
  BY <1>1, PlanConstants
<1> DEFINE a == static[t][x.doc][x.word]
           b == Similarity[Distance[x.word]]
           c == Boost[t]
<1>4. Sequential(t, x) = a * b * c
  BY DEF Sequential
<1> HIDE DEF a, b, c
<1>5. a \in Nat /\ b \in Nat /\ c \in Nat
  BY <1>2, <1>3 DEF a, b, c
<1>6. a * b \in Nat
  BY <1>5
<1> QED BY <1>4, <1>5, <1>6

\* The score of a record that random access finds is a number.
LEMMA RandomAccessType ==
  ASSUME QueryTyped, NEW t \in Term, NEW d \in Docs, Verified(t, d)
  PROVE  RandomAccess(t, d) \in Nat
<1> DEFINE w == Min(Hits(pass, t, d))
           a == static[t][d][w]
           b == Similarity[Distance[w]]
           c == Power(Boost[t], Distance[w])
<1>1. w \in Hits(pass, t, d)
  BY HitsAre, LeastNumber DEF Verified
<1>2. w \in Word
  BY <1>1, HitsAre
<1>3. RandomAccess(t, d) = a * b * c
  BY DEF RandomAccess
<1> HIDE DEF w
<1>4. a \in Nat /\ b \in Nat
  BY <1>2, HitsAre, PlanConstants
<1>5. c \in Nat
  BY <1>2, PlanConstants, PowerType
<1> HIDE DEF a, b, c
<1>6. a * b \in Nat
  BY <1>4
<1> QED BY <1>3, <1>5, <1>6

\* The score of a record that every term has is a number.
LEMMA AndScoreType ==
  ASSUME QueryTyped, NEW t \in Term, NEW x \in [doc : Docs, word : Word],
         \A u \in Term \ {t} : Verified(u, x.doc)
  PROVE  AndScore(t, x) \in Nat
<1> DEFINE f == [u \in Term \ {t} |-> RandomAccess(u, x.doc)]
<1>1. \A u \in Term \ {t} : f[u] \in Nat
  BY RandomAccessType
<1>2. IsFiniteSet(Term \ {t}) /\ DOMAIN f = Term \ {t}
  BY PlanConstants, FS_RemoveElement
<1>3. AndScore(t, x) = Sequential(t, x) + SumFunctionOnSet(f, Term \ {t})
  BY <1>2 DEF AndScore, SumFunction
<1> HIDE DEF f
<1>4. SumFunctionOnSet(f, Term \ {t}) \in Nat
  BY <1>1, <1>2, SumType
<1> QED BY <1>3, <1>4, SequentialType

-----------------------------------------------------------------------------
(* Steps that keep the query, and results that are returned *)

\* A step keeps the query: what matches is the same.
LEMMA SameQuery ==
  ASSUME UNCHANGED query
  PROVE  /\ kind' = kind /\ all' = all /\ static' = static /\ Limit' = Limit
         /\ \A p, d : Matches(p, d)' <=> Matches(p, d)
         /\ \A p, t : Items(p, t)' = Items(p, t)
<1>1. kind' = kind /\ all' = all /\ static' = static
  BY DEF query
<1> QED BY <1>1 DEF Limit, Matches, Items, Hits, Words

\* A step that keeps the query and the pass keeps what matches in the pass.
LEMMA SamePass ==
  ASSUME UNCHANGED query, pass' = pass
  PROVE  /\ \A d : Matches(pass, d)' <=> Matches(pass, d)
         /\ \A t : Items(pass, t)' = Items(pass, t)
<1>1. kind' = kind /\ static' = static
  BY DEF query
<1> QED BY <1>1, pass' = pass DEF Matches, Items, Hits, Words

\* Nothing is asked of the plan between two passes.
LEMMA NoPlanRuns ==
  ASSUME step' = "plan"
  PROVE  ChildrenInv' /\ FoundInv' /\ TopInv' /\ ShortestInv' /\ ByIdInv' /\ UnionInv' /\ SortedInv'
BY step' = "plan" DEF ChildrenInv, FoundInv, TopInv, ShortestInv, ByIdInv, UnionInv, SortedInv

\* A plan that runs out has returned all records that match.
LEMMA ReturnNil ==
  ASSUME QueryTyped, PlanInv, ResultsInv, ExactInv, pass # "done", UNCHANGED query,
         NEW onward, Return(Nil, onward),
         \A d \in Docs : Matches(pass, d) => d \in Returned
  PROVE  /\ results' = results /\ step' = "plan" /\ pass' \in {"fuzzy", "done"}
         /\ PlanInv' /\ ResultsInv' /\ ExactInv'
<1>1. /\ results' = results /\ step' = "plan" /\ Returned' = Returned
      /\ pass' = IF pass = "exact" /\ Len(results) < K THEN "fuzzy" ELSE "done"
  BY DEF Return, End, Returned
<1>2. pass \in {"exact", "fuzzy"} /\ pass' \in {"fuzzy", "done"}
  BY <1>1 DEF QueryTyped
<1>3. PlanInv'
  BY <1>1, <1>2 DEF PlanInv
<1>4. pass = "exact" => ~all /\ Limit = K /\ pass' = "fuzzy"
  BY <1>1 DEF PlanInv, ResultsInv, Limit
<1>5. ResultsInv'
  <2>1. \A d \in Docs : Matches("fuzzy", d)' <=> Matches("fuzzy", d)
    BY SameQuery
  <2>2. pass' = "done" => pass = "fuzzy"
    BY <1>2, <1>4
  <2>3. \A i \in 1 .. Len(results) : Matches(results[i].pass, results[i].doc)'
    BY <1>1, SameQuery DEF ResultsInv
  <2> QED BY <1>1, <2>1, <2>2, <2>3, SameQuery DEF ResultsInv
<1>6. ExactInv'
  <2>1. pass' = "fuzzy" /\ pass = "exact" => \A d \in Docs : Matches("exact", d) => d \in Returned
    OBVIOUS
  <2> QED BY <1>1, <1>2, <2>1, SameQuery DEF ExactInv
<1> QED BY <1>1, <1>2, <1>3, <1>5, <1>6

\* A record that matches becomes a result.
LEMMA ReturnSome ==
  ASSUME QueryTyped, PlanInv, ResultsInv, ExactInv, pass # "done", UNCHANGED query,
         NEW onward, NEW x \in Scored, Return(x, onward), Matches(pass, x.doc)
  PROVE  /\ results' \in Seq(Result) /\ ResultsInv' /\ ExactInv'
         /\ Returned' = Returned \cup {x.doc}
         /\ \/ pass' = "done" /\ step' = "plan" /\ PlanInv'
            \/ pass' = pass /\ step' = onward /\ plan' = plan
<1> DEFINE n == Len(results)
           new == [doc |-> x.doc, score |-> x.score, pass |-> pass]
<1>1. pass \in {"exact", "fuzzy"} /\ results \in Seq(Result) /\ n \in Nat
  BY DEF QueryTyped
<1>2. x # Nil /\ x.doc \in Docs /\ new \in Result
  BY <1>1, NilIs DEF Scored, Result
<1>3. /\ results' = IF x.doc \in Returned THEN results ELSE Append(results, new)
      /\ IF Len(results') >= Limit THEN End(Len(results'))
         ELSE step' = onward /\ UNCHANGED <<pass, plan>>
  BY <1>2 DEF Return, Returned
<1>4. /\ results' \in Seq(Result) /\ Len(results') \in Nat
      /\ n <= Len(results') /\ Len(results') <= n + 1
      /\ \A i \in 1 .. n : results'[i] = results[i]
      /\ \A i \in 1 .. Len(results') :
           i \in 1 .. n \/ (i = n + 1 /\ x.doc \notin Returned /\ results'[i] = new)
      /\ x.doc \notin Returned => Len(results') = n + 1 /\ results'[n + 1] = new
  BY <1>1, <1>2, <1>3
<1>5. Returned' = Returned \cup {x.doc}
  <2>1. Returned' = {results'[i].doc : i \in 1 .. Len(results')}
    BY DEF Returned
  <2>2. ASSUME NEW d \in Returned \cup {x.doc} PROVE d \in Returned'
    <3>1. CASE d \in Returned
      <4>1. PICK i \in 1 .. n : results[i].doc = d
        BY <3>1 DEF Returned
      <4>2. i \in 1 .. Len(results')
        BY <1>1, <1>4
      <4> QED BY <1>4, <2>1, <4>1, <4>2
    <3>2. CASE d \notin Returned
      <4>1. n + 1 \in 1 .. Len(results') /\ results'[n + 1].doc = d
        BY <1>1, <1>4, <2>2, <3>2
      <4> QED BY <2>1, <4>1
    <3> QED BY <3>1, <3>2
  <2>3. ASSUME NEW d \in Returned' PROVE d \in Returned \cup {x.doc}
    <3>1. PICK i \in 1 .. Len(results') : results'[i].doc = d
      BY <2>1, <2>3
    <3> QED BY <1>4, <3>1 DEF Returned
  <2> QED BY <2>2, <2>3
<1>6. Limit \in Nat /\ Limit' = Limit /\ n < Limit /\ Len(results') <= Limit
  BY <1>1, <1>4, PlanConstants, SameQuery DEF ResultsInv
<1>7. ASSUME Len(results') >= Limit PROVE pass' = "done" /\ step' = "plan" /\ PlanInv'
  <2>1. pass = "exact" => Limit = K
    BY DEF PlanInv, Limit
  <2>2. pass' = "done" /\ step' = "plan"
    BY <1>1, <1>3, <1>4, <1>6, <1>7, <2>1, PlanConstants DEF End
  <2> QED BY <2>2 DEF PlanInv
<1>8. ASSUME ~(Len(results') >= Limit) PROVE pass' = pass /\ step' = onward /\ plan' = plan
  BY <1>3, <1>8
<1>9. /\ pass' = "done" => Len(results') >= Limit
      /\ pass' \in {pass, "done"}
      /\ pass' # "done" => Len(results') < Limit
  <2>1. Len(results') >= Limit => pass' = "done"
    <3>1. pass = "exact" => Limit = K
      BY DEF PlanInv, Limit
    <3> QED BY <1>1, <1>3, <1>4, <1>6, <3>1, PlanConstants DEF End
  <2>2. ~(Len(results') >= Limit) => pass' = pass
    BY <1>3
  <2> QED BY <1>4, <1>6, <2>1, <2>2
<1>10. ResultsInv'
  <2>1. ASSUME NEW i \in 1 .. Len(results'), NEW j \in 1 .. Len(results'), i # j
        PROVE  results'[i].doc # results'[j].doc
    <3>1. CASE i \in 1 .. n /\ j \in 1 .. n
      BY <1>4, <2>1, <3>1 DEF ResultsInv
    <3>2. CASE i \notin 1 .. n
      <4>1. j \in 1 .. n /\ results'[j].doc \in Returned
        BY <1>4, <2>1, <3>2 DEF Returned
      <4> QED BY <1>4, <3>2, <4>1
    <3>3. CASE j \notin 1 .. n
      <4>1. i \in 1 .. n /\ results'[i].doc \in Returned
        BY <1>4, <2>1, <3>3 DEF Returned
      <4> QED BY <1>4, <3>3, <4>1
    <3> QED BY <3>1, <3>2, <3>3
  <2>2. ASSUME NEW i \in 1 .. Len(results') PROVE Matches(results[i].pass, results[i].doc)'
    <3> DEFINE p == results'[i].pass
               d == results'[i].doc
    <3>1. Matches(p, d)
      BY <1>4, <2>2 DEF ResultsInv
    <3> QED BY <3>1, SameQuery DEF Matches, Hits, Words
  <2>3. pass' = "done" /\ Len(results') < Limit' => FALSE
    BY <1>4, <1>6, <1>9
  <2> QED BY <1>4, <1>6, <1>9, <2>1, <2>2, <2>3 DEF ResultsInv
<1>11. ExactInv'
  <2> SUFFICES ASSUME ~all' PROVE
        /\ pass' = "fuzzy" => \A d \in Docs : Matches("exact", d)' => d \in Returned'
        /\ \A i \in 1 .. Len(results') : results'[i].pass = "fuzzy" =>
             \A d \in Docs : Matches("exact", d)' => \E j \in 1 .. i - 1 : results'[j].doc = d
    BY DEF ExactInv
  <2>0. ~all /\ \A d \in Docs : Matches("exact", d)' <=> Matches("exact", d)
    BY SameQuery
  <2>1. pass = "fuzzy" => \A d \in Docs : Matches("exact", d) => d \in Returned
    BY <2>0 DEF ExactInv
  <2>2. pass' = "fuzzy" => \A d \in Docs : Matches("exact", d)' => d \in Returned'
    BY <1>1, <1>5, <1>9, <2>0, <2>1
  <2>3. ASSUME NEW i \in 1 .. Len(results'), results'[i].pass = "fuzzy",
               NEW d \in Docs, Matches("exact", d)
        PROVE  \E j \in 1 .. i - 1 : results'[j].doc = d
    <3>1. CASE i \in 1 .. n
      <4>1. PICK j \in 1 .. i - 1 : results[j].doc = d
        BY <1>4, <2>0, <2>3, <3>1 DEF ExactInv
      <4>2. j \in 1 .. n
        BY <1>1, <3>1, <4>1
      <4> QED BY <1>4, <4>1, <4>2
    <3>2. CASE i \notin 1 .. n
      <4>1. i = n + 1 /\ pass = "fuzzy"
        BY <1>4, <2>3, <3>2
      <4>2. PICK j \in 1 .. n : results[j].doc = d
        BY <2>1, <2>3, <4>1 DEF Returned
      <4>3. j \in 1 .. i - 1
        BY <1>1, <4>1, <4>2
      <4> QED BY <1>4, <4>2, <4>3
    <3> QED BY <3>1, <3>2
  <2> QED BY <2>0, <2>2, <2>3
<1> QED BY <1>4, <1>5, <1>7, <1>8, <1>10, <1>11

-----------------------------------------------------------------------------
(* A query starts, and a plan is opened *)

\* A query starts with the invariant.
LEMMA PlanStarts == PlanInit => PlanIInv
<1> SUFFICES ASSUME PlanInit PROVE PlanIInv
  OBVIOUS
<1>1. /\ kind \in {"and", "or"} /\ all \in BOOLEAN /\ static \in [Term -> [Docs -> Matching]]
      /\ pass = IF all THEN "fuzzy" ELSE "exact"
      /\ step = "plan" /\ turn = 1 /\ seen = {} /\ more = TRUE /\ found = {} /\ results = <<>>
  BY DEF PlanInit
<1>2. QueryTyped
  BY <1>1, PlanConstants, FS_EmptySet DEF QueryTyped
<1>3. PlanInv
  BY <1>1 DEF PlanInv
<1>4. Len(results) = 0 /\ 1 .. Len(results) = {}
  BY <1>1
<1>5. 0 < Limit
  <2>1. Cardinality(Docs) \in Nat
    BY PlanConstants, FS_CardinalityType
  <2> QED BY <2>1, PlanConstants DEF Limit
<1>6. ResultsInv
  BY <1>1, <1>4, <1>5, PlanConstants DEF ResultsInv
<1>7. ExactInv
  BY <1>1, <1>4 DEF ExactInv
<1> QED BY <1>1, <1>2, <1>3, <1>6, <1>7
        DEF PlanIInv, ChildrenInv, FoundInv, TopInv, ShortestInv, ByIdInv, UnionInv, SortedInv

\* Steps that return nothing leave the results as they are.
LEMMA SameResults ==
  ASSUME ResultsInv, ExactInv, UNCHANGED query, pass' = pass, results' = results
  PROVE  ResultsInv' /\ ExactInv' /\ Returned' = Returned
<1>1. \A p, d : Matches(p, d)' <=> Matches(p, d)
  BY SameQuery
<1>2. Limit' = Limit /\ all' = all /\ Returned' = Returned
  BY SameQuery DEF Returned
<1>3. ResultsInv'
  <2>1. \A i \in 1 .. Len(results) : Matches(results[i].pass, results[i].doc)'
    BY <1>1 DEF ResultsInv
  <2> QED BY <1>1, <1>2, <2>1 DEF ResultsInv
<1>4. ExactInv'
  BY <1>1, <1>2 DEF ExactInv
<1> QED BY <1>2, <1>3, <1>4

\* A plan is opened.
LEMMA OpenStep == ASSUME PlanIInv, Open PROVE PlanIInv'
<1>1. /\ step = "plan" /\ pass # "done" /\ UNCHANGED query /\ pass' = pass /\ results' = results
      /\ turn' = 1 /\ current' = Nil /\ seen' = {} /\ more' = TRUE /\ found' = {}
      /\ step' = IF plan'.name = "topK" THEN "call" ELSE "drain"
  BY DEF Open
<1>2. \/ kind = "or" /\ plan'.name = "union"
      \/ kind = "and" /\ plan'.name \in {"topK", "byId"}
      \/ kind = "and" /\ plan'.name = "shortest" /\ plan'.scan \in Term
  BY DEF Open, PlanIInv, QueryTyped
<1>3. PICK a \in [Term -> Item] :
        /\ IF plan'.name \in {"topK", "union"}
           THEN \A t \in Term : Returns(plan', t, Items(pass, t), a[t])
           ELSE a = [t \in Term |-> Nil]
        /\ ahead' = a
        /\ input' = [t \in Term |-> Items(pass, t) \ {a[t]}]
  BY DEF Open
<1>4. /\ kind' = kind /\ all' = all /\ static' = static /\ Limit' = Limit /\ Returned' = Returned
      /\ \A d : Matches(pass, d)' <=> Matches(pass, d)
      /\ \A t : Items(pass, t)' = Items(pass, t)
  BY <1>1, SameQuery, SamePass DEF Returned
<1>5. QueryTyped'
  BY <1>1, <1>4, PlanConstants, FS_EmptySet DEF PlanIInv, QueryTyped
<1>6. PlanInv'
  BY <1>1, <1>2, <1>4 DEF PlanIInv, PlanInv
<1>7. ResultsInv' /\ ExactInv'
  BY <1>1, SameResults DEF PlanIInv
<1>8. ASSUME NEW t \in Term
      PROVE  /\ ahead'[t] \in Item /\ input'[t] = Items(pass, t) \ {ahead'[t]}
             /\ ahead'[t] # Nil => ahead'[t] \in Items(pass, t)
             /\ plan'.name \in {"topK", "union"} => (ahead'[t] = Nil => input'[t] = {})
             /\ plan'.name \notin {"topK", "union"} => input'[t] = Items(pass, t)
  <2>1. Nil \notin Items(pass, t)
    BY ItemsAre
  <2>2. ahead'[t] = a[t] /\ a[t] \in Item /\ input'[t] = Items(pass, t) \ {a[t]}
    BY <1>3
  <2>3. CASE plan'.name \in {"topK", "union"}
    <3>1. Returns(plan', t, Items(pass, t), a[t])
      BY <1>3, <2>3
    <3>2. (a[t] = Nil <=> Items(pass, t) = {}) /\ (a[t] # Nil => a[t] \in Items(pass, t))
      BY <2>1, <3>1 DEF Returns
    <3> QED BY <2>2, <2>3, <3>2
  <2>4. CASE plan'.name \notin {"topK", "union"}
    BY <1>3, <2>1, <2>2, <2>4
  <2> QED BY <2>3, <2>4
<1>9. ChildrenInv'
  <2>1. ahead' \in [Term -> Item]
    BY <1>3
  <2>2. input' \in [Term -> SUBSET [doc : Docs, word : Word]]
    <3>1. \A t \in Term : Items(pass, t) \subseteq [doc : Docs, word : Word]
      BY ItemsAre
    <3> QED BY <1>3, <3>1
  <2>3. \A t \in Term : \A x \in Items(pass, t) : x \in input'[t] \/ x = ahead'[t]
    BY <1>8
  <2> QED BY <1>4, <1>8, <2>1, <2>2, <2>3 DEF ChildrenInv
<1>10. FoundInv' /\ UnionInv' /\ SortedInv'
  BY <1>1 DEF FoundInv, UnionInv, SortedInv
<1>11. TopInv'
  BY <1>1 DEF TopInv
<1>12. ShortestInv'
  BY <1>1, <1>2, <1>4, <1>8 DEF ShortestInv
<1>13. ByIdInv'
  <2> SUFFICES ASSUME plan'.name = "byId", NEW d \in Docs, Matches(pass, d)
               PROVE  Reachable(d)'
    BY <1>1, <1>4 DEF ByIdInv
  <2>1. \A t \in Term : Hits(pass, t, d) # {}
    BY <1>2 DEF Matches
  <2>2. \A t \in Term : \E x \in input'[t] : x.doc = d
    BY <1>8, <2>1, ItemsAre
  <2> QED BY <1>1, <2>2 DEF Reachable, Waits
<1> QED BY <1>5, <1>6, <1>7, <1>9, <1>10, <1>11, <1>12, <1>13 DEF PlanIInv

-----------------------------------------------------------------------------
(* MergeTopKOperator *)

\* A child that has nothing left has shown all its records.
LEMMA AllSeen ==
  ASSUME PlanIInv, step \in {"call", "loop", "drain"}, plan.name \in {"topK", "union"},
         NEW t \in Term, ahead[t] = Nil, NEW d \in Docs, Hits(pass, t, d) # {}
  PROVE  d \in seen
<1>1. PICK x \in Items(pass, t) : x.doc = d
  BY ItemsAre
<1>2. x # Nil /\ input[t] = {}
  BY <1>1, ItemsAre DEF PlanIInv, ChildrenInv
<1> QED BY <1>1, <1>2 DEF PlanIInv, ChildrenInv

\* MergeTopK with one child exhausted and nothing kept back has returned
\* everything.
LEMMA TopRunsOut ==
  ASSUME PlanIInv, step \in {"call", "loop"}, found = {}, current = Nil,
         NEW t \in Term, ahead[t] = Nil
  PROVE  \A d \in Docs : Matches(pass, d) => d \in Returned
<1> SUFFICES ASSUME NEW d \in Docs, Matches(pass, d) PROVE d \in Returned
  OBVIOUS
<1>1. plan.name = "topK" /\ kind = "and"
  BY DEF PlanIInv, PlanInv
<1>2. Hits(pass, t, d) # {}
  BY <1>1 DEF Matches
<1>3. d \in seen
  BY <1>1, <1>2, AllSeen
<1> QED BY <1>3 DEF PlanIInv, TopInv, InFound

\* The plan invariant survives a call of MergeTopK.
LEMMA TopCallStep == ASSUME PlanIInv, TopCall PROVE PlanIInv'
<1> DEFINE x == IF found = {} THEN Nil ELSE Best(found)
           left == IF found = {} THEN more ELSE more /\ Unread(ahead)
<1>1. /\ plan.name = "topK" /\ step = "call" /\ found' = found \ {x} /\ more' = left
      /\ IF ~left \/ (x # Nil /\ BoundBelow(ahead, x))
         THEN Return(x, "call") /\ UNCHANGED current
         ELSE step' = "loop" /\ current' = x /\ UNCHANGED <<results, pass, plan>>
      /\ UNCHANGED query /\ input' = input /\ ahead' = ahead /\ turn' = turn /\ seen' = seen
  BY DEF TopCall
<1>2. kind = "and" /\ pass # "done" /\ current = Nil /\ more \in BOOLEAN
  BY <1>1 DEF PlanIInv, PlanInv, TopInv, QueryTyped
<1>3. found # {} => x \in found /\ x \in Scored /\ x # Nil /\ Matches(pass, x.doc)
  <2>1. found # {} => x \in found
    <3>1. IsFiniteSet(found) /\ \A y \in found : y \in [doc : Nat, score : Nat]
      BY PlanConstants DEF PlanIInv, QueryTyped, Scored
    <3> QED BY <3>1, BestExists
  <2> HIDE DEF x
  <2> QED BY <1>1, <2>1, NilIs DEF PlanIInv, QueryTyped, FoundInv
<1>4. found = {} => x = Nil
  OBVIOUS
<1>5. left \in BOOLEAN /\ (~left => \E t \in Term : ahead[t] = Nil)
  BY <1>1, <1>2 DEF PlanIInv, TopInv, Unread
<1> HIDE DEF x, left
<1>6. /\ kind' = kind /\ all' = all /\ static' = static
      /\ \A d : pass' = pass => (Matches(pass, d)' <=> Matches(pass, d))
      /\ \A t : pass' = pass => Items(pass, t)' = Items(pass, t)
  BY <1>1, SameQuery, SamePass
<1>7. /\ found' \subseteq found /\ IsFiniteSet(found')
      /\ \A y \in found : y \in found' \/ y = x
  BY <1>1, FS_RemoveElement DEF PlanIInv, QueryTyped
<1>8. ASSUME pass' = pass, plan' = plan, step' \in {"call", "loop"}
      PROVE  ChildrenInv' /\ FoundInv' /\ ShortestInv' /\ ByIdInv' /\ UnionInv' /\ SortedInv' /\ PlanInv'
  <2>1. ChildrenInv'
    BY <1>1, <1>6, <1>8 DEF PlanIInv, ChildrenInv
  <2>2. FoundInv'
    BY <1>1, <1>6, <1>7, <1>8 DEF PlanIInv, FoundInv
  <2> QED BY <1>1, <1>2, <1>6, <1>8, <2>1, <2>2
          DEF ShortestInv, ByIdInv, UnionInv, SortedInv, PlanIInv, PlanInv
<1>9. CASE ~left \/ (x # Nil /\ BoundBelow(ahead, x))
  <2>1. Return(x, "call") /\ current' = Nil
    BY <1>1, <1>2, <1>9
  <2>2. CASE found = {}
    <3>1. x = Nil /\ ~left
      BY <1>4, <1>9, <2>2
    <3>2. PICK t \in Term : ahead[t] = Nil
      BY <1>5, <3>1
    <3>3. \A d \in Docs : Matches(pass, d) => d \in Returned
      BY <1>1, <1>2, <2>2, <3>2, TopRunsOut
    <3>4. Return(Nil, "call")
      BY <2>1, <3>1
    <3>5. /\ results' = results /\ step' = "plan" /\ pass' \in {"fuzzy", "done"}
          /\ PlanInv' /\ ResultsInv' /\ ExactInv'
      BY <1>1, <1>2, <3>3, <3>4, ReturnNil DEF PlanIInv
    <3>6. QueryTyped'
      BY <1>1, <1>5, <1>6, <1>7, <3>5 DEF PlanIInv, QueryTyped
    <3> QED BY <3>5, <3>6, NoPlanRuns DEF PlanIInv
  <2>3. CASE found # {}
    <3>1. /\ results' \in Seq(Result) /\ ResultsInv' /\ ExactInv'
          /\ Returned' = Returned \cup {x.doc}
          /\ \/ pass' = "done" /\ step' = "plan" /\ PlanInv'
             \/ pass' = pass /\ step' = "call" /\ plan' = plan
      BY <1>1, <1>2, <1>3, <2>1, <2>3, ReturnSome DEF PlanIInv
    <3>2. QueryTyped'
      BY <1>1, <1>5, <1>6, <1>7, <3>1 DEF PlanIInv, QueryTyped
    <3>3. CASE step' = "plan"
      BY <3>1, <3>2, <3>3, NoPlanRuns DEF PlanIInv
    <3>4. CASE step' = "call" /\ pass' = pass /\ plan' = plan
      <4>1. TopInv'
        <5>1. ASSUME NEW d \in seen', Matches(pass, d)' PROVE d \in Returned' \/ InFound(d)'
          <6>1. d \in seen /\ Matches(pass, d)
            BY <1>1, <1>6, <3>4, <5>1
          <6>2. d \in Returned \/ \E y \in found : y.doc = d
            BY <1>1, <1>2, <6>1 DEF PlanIInv, TopInv, InFound
          <6> QED BY <1>7, <3>1, <6>2 DEF InFound
        <5> QED BY <1>1, <1>5, <2>1, <3>4, <5>1 DEF TopInv
      <4> QED BY <1>8, <3>1, <3>2, <3>4, <4>1 DEF PlanIInv
    <3> QED BY <3>1, <3>3, <3>4
  <2> QED BY <2>2, <2>3
<1>10. CASE ~(~left \/ (x # Nil /\ BoundBelow(ahead, x)))
  <2>1. step' = "loop" /\ current' = x /\ results' = results /\ pass' = pass /\ plan' = plan
    BY <1>1, <1>10
  <2>2. ResultsInv' /\ ExactInv' /\ Returned' = Returned
    BY <1>1, <2>1, SameResults DEF PlanIInv
  <2>3. QueryTyped'
    BY <1>1, <1>5, <1>6, <1>7, <2>1 DEF PlanIInv, QueryTyped
  <2>4. TopInv'
    <3>1. ASSUME NEW d \in seen', Matches(pass, d)'
          PROVE  d \in Returned' \/ InFound(d)' \/ (current' # Nil /\ current'.doc = d)
      <4>1. d \in seen /\ Matches(pass, d)
        BY <1>1, <1>6, <2>1, <3>1
      <4>2. d \in Returned \/ \E y \in found : y.doc = d
        BY <1>1, <1>2, <4>1 DEF PlanIInv, TopInv, InFound
      <4> QED BY <1>3, <1>7, <2>1, <2>2, <4>2 DEF InFound
    <3>2. current' # Nil => current' \in Scored /\ Matches(pass, current.doc)'
      BY <1>3, <1>4, <1>6, <2>1 DEF Matches, Hits, Words
    <3>3. current' = Nil => found' = {}
      BY <1>3, <1>7, <2>1
    <3> QED BY <1>1, <1>5, <2>1, <3>1, <3>2, <3>3 DEF TopInv
  <2> QED BY <1>8, <2>1, <2>2, <2>3, <2>4 DEF PlanIInv
<1> QED BY <1>9, <1>10

\* Round robin.
LEMMA NextTurn == ASSUME NEW t \in Term PROVE (t % Cardinality(Term)) + 1 \in Term
<1> DEFINE n == Cardinality(Term)
<1>1. n \in Nat \ {0} /\ Term = 1 .. n
  BY PlanConstants
<1> HIDE DEF n
<1>2. t \in 1 .. n
  BY <1>1
<1>3. CASE t = n
  <2>1. n % n = 0
    BY <1>1
  <2> QED BY <1>1, <1>3, <2>1 DEF n
<1>4. CASE t # n
  <2>1. t \in Nat /\ t < n
    BY <1>1, <1>2, <1>4
  <2>2. t % n = t
    BY <1>1, <2>1
  <2> QED BY <1>1, <2>1, <2>2 DEF n
<1> QED BY <1>3, <1>4

\* Child t returns an item, and what it returned before has been seen.
LEMMA ReadKeepsChildren ==
  ASSUME PlanIInv, step \in {"call", "loop", "drain"}, plan.name \in {"topK", "union"},
         NEW t \in Term, NEW y \in Item, Read(t, y), ahead' = [ahead EXCEPT ![t] = y],
         seen \subseteq seen', ahead[t] # Nil => ahead[t].doc \in seen',
         UNCHANGED query, pass' = pass, plan' = plan
  PROVE  /\ ChildrenInv'
         /\ \A u \in Term : u # t => ahead'[u] = ahead[u]
         /\ ahead'[t] = y /\ (input[t] = {} => y = Nil)
<1>1. /\ input \in [Term -> SUBSET [doc : Docs, word : Word]] /\ ahead \in [Term -> Item]
      /\ \A u \in Term : input[u] \subseteq Items(pass, u) /\ (ahead[u] # Nil => ahead[u] \in Items(pass, u))
      /\ \A u \in Term :
           /\ ahead[u] = Nil => input[u] = {}
           /\ \A x \in Items(pass, u) : x \in input[u] \/ x = ahead[u] \/ x.doc \in seen
  BY DEF PlanIInv, ChildrenInv
<1>2. Returns(plan, t, input[t], y) /\ input' = [input EXCEPT ![t] = @ \ {y}]
  BY DEF Read
<1>3. Nil \notin input[t]
  BY <1>1, ItemsAre
<1>4. (y = Nil <=> input[t] = {}) /\ (y # Nil => y \in input[t])
  BY <1>2, <1>3 DEF Returns
<1>5. /\ ahead'[t] = y /\ input'[t] = input[t] \ {y}
      /\ \A u \in Term : u # t => ahead'[u] = ahead[u] /\ input'[u] = input[u]
  BY <1>1, <1>2
<1>6. /\ input' \in [Term -> SUBSET [doc : Docs, word : Word]]
      /\ ahead' \in [Term -> Item]
  BY <1>1, <1>2
<1>7. ASSUME NEW u \in Term
      PROVE  /\ input'[u] \subseteq Items(pass, u)
             /\ ahead'[u] # Nil => ahead'[u] \in Items(pass, u)
             /\ ahead'[u] = Nil => input'[u] = {}
             /\ \A x \in Items(pass, u) : x \in input'[u] \/ x = ahead'[u] \/ x.doc \in seen'
  <2>1. CASE u = t
    <3>1. \A x \in Items(pass, u) : x \in input'[u] \/ x = ahead'[u] \/ x.doc \in seen'
      <4> SUFFICES ASSUME NEW x \in Items(pass, t) PROVE x \in input'[t] \/ x = ahead'[t] \/ x.doc \in seen'
        BY <2>1
      <4>1. x # Nil
        BY ItemsAre
      <4>2. x \in input[t] \/ x = ahead[t] \/ x.doc \in seen
        BY <1>1
      <4> QED BY <1>5, <4>1, <4>2
    <3> QED BY <1>1, <1>4, <1>5, <2>1, <3>1
  <2>2. CASE u # t
    BY <1>1, <1>5, <2>2
  <2> QED BY <2>1, <2>2
<1>8. \A u : Items(pass, u)' = Items(pass, u)
  BY SamePass
<1>9. ChildrenInv'
  BY <1>6, <1>7, <1>8 DEF ChildrenInv
<1> QED BY <1>4, <1>5, <1>9

\* A record of one child that the others verify matches.
LEMMA VerifiedMatches ==
  ASSUME kind = "and", NEW t \in Term, NEW x \in Items(pass, t),
         \A u \in Term \ {t} : Verified(u, x.doc)
  PROVE  x.doc \in Docs /\ Matches(pass, x.doc)
<1>1. x.doc \in Docs /\ Hits(pass, t, x.doc) # {}
  BY ItemsAre
<1>2. \A u \in Term : Hits(pass, u, x.doc) # {}
  BY <1>1 DEF Verified
<1> QED BY <1>1, <1>2 DEF Matches

\* What MergeTopK looks at in a turn of its loop: the item read ahead, the record
\* of it, whether that record is a new match, and the best record then.
Visited == ahead[turn]
Visitor == [doc |-> Visited.doc, score |-> AndScore(turn, Visited)]
Considered == /\ Visited # Nil /\ Visited.doc \notin seen
              /\ \A u \in Term \ {turn} : Verified(u, Visited.doc)
Leader == IF current = Nil \/ current.score < Visitor.score THEN Visitor ELSE current

\* A turn, in these words.
LEMMA TopVisitIs ==
  ASSUME TopVisit
  PROVE  /\ plan.name = "topK" /\ step = "loop"
         /\ turn' = (turn % Cardinality(Term)) + 1
         /\ \E y \in Item : Read(turn, y) /\ ahead' = [ahead EXCEPT ![turn] = y]
         /\ seen' = IF Visited = Nil THEN seen ELSE seen \cup {Visited.doc}
         /\ more' = (more /\ Visited # Nil /\ (Considered => Unread(ahead')))
         /\ found' = IF Considered THEN (found \cup {Visitor, current}) \ {Leader, Nil} ELSE found
         /\ IF Visited = Nil THEN Return(current, "call") /\ current' = Nil
            ELSE IF Considered /\ (~Unread(ahead') \/ BoundBelow(ahead', Leader))
            THEN Return(Leader, "call") /\ current' = Nil
            ELSE /\ current' = IF Considered THEN Leader ELSE current
                 /\ UNCHANGED <<step, results, pass, plan>>
         /\ UNCHANGED query
BY DEF TopVisit, Visited, Visitor, Considered, Leader

\* What is known before it.
LEMMA VisitFrom ==
  ASSUME PlanIInv, plan.name = "topK", step = "loop"
  PROVE  /\ kind = "and" /\ pass # "done" /\ pass \in {"exact", "fuzzy", "done"} /\ turn \in Term
         /\ more \in BOOLEAN /\ found \subseteq Scored /\ IsFiniteSet(found) /\ seen \subseteq Docs
         /\ results \in Seq(Result)
         /\ ahead \in [Term -> Item] /\ Visited \in Item /\ (Visited # Nil => Visited \in Items(pass, turn) /\ Visited.doc \in Docs)
         /\ Visited = Nil => input[turn] = {}
         /\ current # Nil => current \in Scored /\ Matches(pass, current.doc)
         /\ current = Nil => found = {}
         /\ ~more => \E u \in Term : ahead[u] = Nil
         /\ \A d \in seen : Matches(pass, d) => d \in Returned \/ InFound(d) \/ (current # Nil /\ current.doc = d)
         /\ \A y \in found : Matches(pass, y.doc)
         /\ Considered \in BOOLEAN /\ (Considered => Visitor \in Scored /\ Matches(pass, Visitor.doc) /\ Visitor # Nil)
         /\ Considered => Leader \in Scored /\ Matches(pass, Leader.doc) /\ Leader # Nil /\ (Leader = Visitor \/ Leader = current)
         /\ Visited # Nil /\ ~Considered /\ Visited.doc \notin seen => ~Matches(pass, Visited.doc)
<1>2. /\ kind = "and" /\ pass # "done" /\ pass \in {"exact", "fuzzy", "done"} /\ turn \in Term
      /\ more \in BOOLEAN /\ found \subseteq Scored /\ IsFiniteSet(found) /\ seen \subseteq Docs
      /\ results \in Seq(Result)
  BY DEF PlanIInv, PlanInv, QueryTyped
<1>3. /\ ahead \in [Term -> Item] /\ Visited \in Item /\ (Visited # Nil => Visited \in Items(pass, turn) /\ Visited.doc \in Docs)
      /\ Visited = Nil => input[turn] = {}
  BY <1>2, NilIs DEF PlanIInv, ChildrenInv, Visited
<1>4. /\ current # Nil => current \in Scored /\ Matches(pass, current.doc)
      /\ current = Nil => found = {}
      /\ ~more => \E u \in Term : ahead[u] = Nil
      /\ \A d \in seen : Matches(pass, d) => d \in Returned \/ InFound(d) \/ (current # Nil /\ current.doc = d)
      /\ \A y \in found : Matches(pass, y.doc)
  BY DEF PlanIInv, TopInv, FoundInv
<1>5. Considered \in BOOLEAN /\ (Considered => Visitor \in Scored /\ Matches(pass, Visitor.doc) /\ Visitor # Nil)
  <2>1. Considered \in BOOLEAN
    BY DEF Considered
  <2>2. ASSUME Considered PROVE Visitor \in Scored /\ Matches(pass, Visitor.doc)
    <3>1. Visited \in Items(pass, turn) /\ Visited \in [doc : Docs, word : Word]
      BY <1>2, <1>3, <2>2, ItemsAre DEF Considered
    <3>2. AndScore(turn, Visited) \in Nat
      BY <1>2, <2>2, <3>1, AndScoreType DEF PlanIInv, Considered
    <3>3. Visited.doc \in Docs /\ Matches(pass, Visited.doc)
      BY <1>2, <2>2, <3>1, VerifiedMatches DEF Considered
    <3> QED BY <3>2, <3>3 DEF Scored, Visitor
  <2> QED BY <2>1, <2>2, NilIs
<1>6. Considered => Leader \in Scored /\ Matches(pass, Leader.doc) /\ Leader # Nil /\ (Leader = Visitor \/ Leader = current)
  BY <1>4, <1>5, NilIs DEF Leader
<1>7. Visited # Nil /\ ~Considered /\ Visited.doc \notin seen => ~Matches(pass, Visited.doc)
  BY <1>2, <1>3 DEF Matches, Verified, Considered
<1> QED BY <1>2, <1>3, <1>4, <1>5, <1>6, <1>7

\* What the children and the candidates are after it.
LEMMA VisitTo ==
  ASSUME PlanIInv, TopVisit
  PROVE  /\ seen \subseteq seen' /\ seen' \subseteq Docs /\ turn' \in Term /\ more' \in BOOLEAN
         /\ pass' = pass /\ plan' = plan => ChildrenInv'
         /\ \A u \in Term : u # turn => ahead'[u] = ahead[u]
         /\ ~more' => \E u \in Term : ahead'[u] = Nil
         /\ found' \subseteq Scored /\ IsFiniteSet(found')
         /\ \A z \in found' : Matches(pass, z.doc)
         /\ ~Considered => found' = found
         /\ Considered => \A z \in found \cup {Visitor, current} : z \in found' \/ z = Leader \/ z = Nil
         /\ \A d \in seen' : Matches(pass, d) =>
               \/ d \in Returned
               \/ \E z \in found' : z.doc = d
               \/ IF Considered THEN Leader.doc = d ELSE current # Nil /\ current.doc = d
<1>1. /\ plan.name = "topK" /\ step = "loop"
      /\ turn' = (turn % Cardinality(Term)) + 1
      /\ \E y \in Item : Read(turn, y) /\ ahead' = [ahead EXCEPT ![turn] = y]
      /\ seen' = IF Visited = Nil THEN seen ELSE seen \cup {Visited.doc}
      /\ more' = (more /\ Visited # Nil /\ (Considered => Unread(ahead')))
      /\ found' = IF Considered THEN (found \cup {Visitor, current}) \ {Leader, Nil} ELSE found
      /\ IF Visited = Nil THEN Return(current, "call") /\ current' = Nil
         ELSE IF Considered /\ (~Unread(ahead') \/ BoundBelow(ahead', Leader))
         THEN Return(Leader, "call") /\ current' = Nil
         ELSE /\ current' = IF Considered THEN Leader ELSE current
              /\ UNCHANGED <<step, results, pass, plan>>
      /\ UNCHANGED query
  BY TopVisitIs
<1>2. /\ kind = "and" /\ pass # "done" /\ pass \in {"exact", "fuzzy", "done"} /\ turn \in Term
      /\ more \in BOOLEAN /\ found \subseteq Scored /\ IsFiniteSet(found) /\ seen \subseteq Docs
      /\ results \in Seq(Result)
  BY <1>1, VisitFrom
<1>3. /\ ahead \in [Term -> Item] /\ Visited \in Item /\ (Visited # Nil => Visited \in Items(pass, turn) /\ Visited.doc \in Docs)
      /\ Visited = Nil => input[turn] = {}
  BY <1>1, VisitFrom
<1>4. /\ current # Nil => current \in Scored /\ Matches(pass, current.doc)
      /\ current = Nil => found = {}
      /\ ~more => \E u \in Term : ahead[u] = Nil
      /\ \A d \in seen : Matches(pass, d) => d \in Returned \/ InFound(d) \/ (current # Nil /\ current.doc = d)
      /\ \A y \in found : Matches(pass, y.doc)
  BY <1>1, VisitFrom
<1>5. Considered \in BOOLEAN /\ (Considered => Visitor \in Scored /\ Matches(pass, Visitor.doc) /\ Visitor # Nil)
  BY <1>1, VisitFrom
<1>6. Considered => Leader \in Scored /\ Matches(pass, Leader.doc) /\ Leader # Nil /\ (Leader = Visitor \/ Leader = current)
  BY <1>1, VisitFrom
<1>7. Visited # Nil /\ ~Considered /\ Visited.doc \notin seen => ~Matches(pass, Visited.doc)
  BY <1>1, VisitFrom
<1>8. seen \subseteq seen' /\ seen' \subseteq Docs /\ turn' \in Term /\ more' \in BOOLEAN
  BY <1>1, <1>2, <1>3, NextTurn
<1>9. PICK y \in Item : Read(turn, y) /\ ahead' = [ahead EXCEPT ![turn] = y]
  BY <1>1
<1>10. /\ pass' = pass /\ plan' = plan => ChildrenInv'
       /\ \A u \in Term : u # turn => ahead'[u] = ahead[u]
       /\ ahead'[turn] = y /\ (input[turn] = {} => y = Nil)
  <2>1. ahead[turn] # Nil => ahead[turn].doc \in seen'
    BY <1>1 DEF Visited
  <2>2. ASSUME pass' = pass, plan' = plan
        PROVE  ChildrenInv'
    BY <1>1, <1>2, <1>8, <1>9, <2>1, <2>2, ReadKeepsChildren
  <2>3. input[turn] = {} => y = Nil
    BY <1>9 DEF Read, Returns
  <2>4. ahead'[turn] = y /\ \A u \in Term : u # turn => ahead'[u] = ahead[u]
    BY <1>2, <1>3, <1>9
  <2> QED BY <2>2, <2>3, <2>4
<1>11. ~more' => \E u \in Term : ahead'[u] = Nil
  <2>1. CASE Visited = Nil
    BY <1>2, <1>3, <1>10, <2>1
  <2>2. CASE Visited # Nil /\ ~more
    <3>1. PICK u \in Term : ahead[u] = Nil
      BY <1>4, <2>2
    <3>2. u # turn
      BY <2>2, <3>1 DEF Visited
    <3> QED BY <1>10, <3>1, <3>2
  <2>3. CASE Visited # Nil /\ more
    BY <1>1, <2>3 DEF Unread
  <2> QED BY <1>2, <2>1, <2>2, <2>3
<1>12. /\ found' \subseteq Scored /\ IsFiniteSet(found')
       /\ \A z \in found' : Matches(pass, z.doc)
       /\ ~Considered => found' = found
       /\ Considered => \A z \in found \cup {Visitor, current} : z \in found' \/ z = Leader \/ z = Nil
  <2>1. CASE Considered
    <3>1. found' = (found \cup {Visitor, current}) \ {Leader, Nil}
      BY <1>1, <2>1
    <3>2. IsFiniteSet(found \cup {Visitor, current})
      <4>1. IsFiniteSet(found \cup {Visitor})
        BY <1>2, FS_AddElement
      <4>2. IsFiniteSet((found \cup {Visitor}) \cup {current})
        BY <4>1, FS_AddElement
      <4>3. (found \cup {Visitor}) \cup {current} = found \cup {Visitor, current}
        OBVIOUS
      <4> QED BY <4>2, <4>3
    <3>3. found' \in SUBSET (found \cup {Visitor, current})
      BY <3>1
    <3>4. IsFiniteSet(found')
      BY <3>2, <3>3, FS_Subset
    <3>5. ASSUME NEW z \in found' PROVE z \in Scored /\ Matches(pass, z.doc)
      BY <1>2, <1>4, <1>5, <2>1, <3>1, <3>5
    <3> QED BY <2>1, <3>1, <3>4, <3>5
  <2>2. CASE ~Considered
    BY <1>1, <1>2, <1>4, <2>2
  <2> QED BY <1>5, <2>1, <2>2
<1>13. \A d \in seen' : Matches(pass, d) =>
          \/ d \in Returned
          \/ \E z \in found' : z.doc = d
          \/ IF Considered THEN Leader.doc = d ELSE current # Nil /\ current.doc = d
  <2> SUFFICES ASSUME NEW d \in seen', Matches(pass, d), d \notin Returned,
                      ~\E z \in found' : z.doc = d
               PROVE  IF Considered THEN Leader.doc = d ELSE current # Nil /\ current.doc = d
    BY <1>5
  <2>1. CASE d \in seen
    <3>1. InFound(d) \/ (current # Nil /\ current.doc = d)
      BY <1>4, <2>1
    <3>2. CASE Considered
      BY <1>12, <3>1, <3>2, NilIs, <1>2 DEF InFound
    <3>3. CASE ~Considered
      BY <1>12, <3>1, <3>3 DEF InFound
    <3> QED BY <1>5, <3>2, <3>3
  <2>2. CASE d \notin seen
    <3>1. Visited # Nil /\ d = Visited.doc
      BY <1>1, <2>2
    <3>2. Considered
      BY <1>5, <1>7, <2>2, <3>1
    <3>3. Visitor.doc = d /\ Visitor # Nil
      BY <1>5, <3>1, <3>2 DEF Visitor
    <3> QED BY <1>12, <3>2, <3>3
  <2> QED BY <2>1, <2>2
<1> QED BY <1>8, <1>10, <1>11, <1>12, <1>13

\* The plan invariant survives a turn of MergeTopK.
LEMMA TopVisitStep == ASSUME PlanIInv, TopVisit PROVE PlanIInv'
<1>1. /\ plan.name = "topK" /\ step = "loop"
      /\ turn' = (turn % Cardinality(Term)) + 1
      /\ \E y \in Item : Read(turn, y) /\ ahead' = [ahead EXCEPT ![turn] = y]
      /\ seen' = IF Visited = Nil THEN seen ELSE seen \cup {Visited.doc}
      /\ more' = (more /\ Visited # Nil /\ (Considered => Unread(ahead')))
      /\ found' = IF Considered THEN (found \cup {Visitor, current}) \ {Leader, Nil} ELSE found
      /\ IF Visited = Nil THEN Return(current, "call") /\ current' = Nil
         ELSE IF Considered /\ (~Unread(ahead') \/ BoundBelow(ahead', Leader))
         THEN Return(Leader, "call") /\ current' = Nil
         ELSE /\ current' = IF Considered THEN Leader ELSE current
              /\ UNCHANGED <<step, results, pass, plan>>
      /\ UNCHANGED query
  BY TopVisitIs
<1>2. /\ kind = "and" /\ pass # "done" /\ pass \in {"exact", "fuzzy", "done"} /\ turn \in Term
      /\ more \in BOOLEAN /\ found \subseteq Scored /\ IsFiniteSet(found) /\ seen \subseteq Docs
      /\ results \in Seq(Result)
  BY <1>1, VisitFrom
<1>3. /\ ahead \in [Term -> Item] /\ Visited \in Item /\ (Visited # Nil => Visited \in Items(pass, turn) /\ Visited.doc \in Docs)
      /\ Visited = Nil => input[turn] = {}
  BY <1>1, VisitFrom
<1>4. /\ current # Nil => current \in Scored /\ Matches(pass, current.doc)
      /\ current = Nil => found = {}
      /\ ~more => \E u \in Term : ahead[u] = Nil
      /\ \A d \in seen : Matches(pass, d) => d \in Returned \/ InFound(d) \/ (current # Nil /\ current.doc = d)
      /\ \A y \in found : Matches(pass, y.doc)
  BY <1>1, VisitFrom
<1>5. Considered \in BOOLEAN /\ (Considered => Visitor \in Scored /\ Matches(pass, Visitor.doc) /\ Visitor # Nil)
  BY <1>1, VisitFrom
<1>6. Considered => Leader \in Scored /\ Matches(pass, Leader.doc) /\ Leader # Nil /\ (Leader = Visitor \/ Leader = current)
  BY <1>1, VisitFrom
<1>7. Visited # Nil /\ ~Considered /\ Visited.doc \notin seen => ~Matches(pass, Visited.doc)
  BY <1>1, VisitFrom
<1>8. seen \subseteq seen' /\ seen' \subseteq Docs /\ turn' \in Term /\ more' \in BOOLEAN
  BY VisitTo
<1>11. ~more' => \E u \in Term : ahead'[u] = Nil
  BY VisitTo
<1>12. /\ found' \subseteq Scored /\ IsFiniteSet(found')
       /\ \A z \in found' : Matches(pass, z.doc)
       /\ ~Considered => found' = found
       /\ Considered => \A z \in found \cup {Visitor, current} : z \in found' \/ z = Leader \/ z = Nil
  BY VisitTo
<1>13. \A d \in seen' : Matches(pass, d) =>
          \/ d \in Returned
          \/ \E z \in found' : z.doc = d
          \/ IF Considered THEN Leader.doc = d ELSE current # Nil /\ current.doc = d
  BY VisitTo
<1>10. /\ pass' = pass /\ plan' = plan => ChildrenInv'
  BY VisitTo
<1>14. /\ kind' = kind /\ all' = all /\ static' = static
       /\ \A d : pass' = pass => (Matches(pass, d)' <=> Matches(pass, d))
  BY <1>1, SameQuery, SamePass
<1>15. ASSUME results' \in Seq(Result), pass' \in {"exact", "fuzzy", "done"},
              step' \in {"plan", "call", "loop"}
       PROVE  QueryTyped'
  <2>1. kind' \in {"and", "or"} /\ all' \in BOOLEAN /\ static' \in [Term -> [Docs -> Matching]]
    BY <1>14 DEF PlanIInv, QueryTyped
  <2> QED BY <1>8, <1>12, <1>15, <2>1 DEF QueryTyped
<1>16. ASSUME pass' = pass, plan' = plan, step' \in {"call", "loop"}
       PROVE  /\ ChildrenInv' /\ FoundInv' /\ ShortestInv' /\ ByIdInv' /\ UnionInv' /\ SortedInv'
              /\ PlanInv'
  <2>1. FoundInv'
    BY <1>12, <1>14, <1>16 DEF FoundInv
  <2> QED BY <1>1, <1>2, <1>10, <1>14, <1>16, <2>1
          DEF ShortestInv, ByIdInv, UnionInv, SortedInv, PlanIInv, PlanInv
\* A record r is returned that leaves only what found' has.
<1>17. ASSUME NEW r \in Scored, Matches(pass, r.doc), Return(r, "call"), current' = Nil,
              IF Considered THEN Leader = r ELSE current = r
       PROVE  PlanIInv'
  <2>1. /\ results' \in Seq(Result) /\ ResultsInv' /\ ExactInv'
        /\ Returned' = Returned \cup {r.doc}
        /\ \/ pass' = "done" /\ step' = "plan" /\ PlanInv'
           \/ pass' = pass /\ step' = "call" /\ plan' = plan
    BY <1>1, <1>2, <1>17, ReturnSome DEF PlanIInv
  <2>2. QueryTyped'
    BY <1>2, <1>15, <2>1
  <2>3. CASE step' = "plan"
    BY <2>1, <2>2, <2>3, NoPlanRuns DEF PlanIInv
  <2>4. CASE step' = "call" /\ pass' = pass /\ plan' = plan
    <3>1. TopInv'
      <4>1. \A d \in seen' : Matches(pass, d)' => d \in Returned' \/ InFound(d)'
        BY <1>5, <1>13, <1>14, <1>17, <2>1, <2>4 DEF InFound
      <4> QED BY <1>11, <1>17, <2>4, <4>1 DEF TopInv
    <3> QED BY <1>16, <2>1, <2>2, <2>4, <3>1 DEF PlanIInv
  <2> QED BY <2>1, <2>3, <2>4
<1>18. CASE Visited = Nil
  <2>1. Return(current, "call") /\ current' = Nil /\ ~Considered
    BY <1>1, <1>18 DEF Considered
  <2>2. CASE current = Nil
    <3>1. \A d \in Docs : Matches(pass, d) => d \in Returned
      BY <1>1, <1>2, <1>4, <1>18, <2>2, TopRunsOut DEF Visited
    <3>2. Return(Nil, "call")
      BY <2>1, <2>2
    <3>3. /\ results' = results /\ step' = "plan" /\ pass' \in {"fuzzy", "done"}
          /\ PlanInv' /\ ResultsInv' /\ ExactInv'
      BY <1>1, <1>2, <3>1, <3>2, ReturnNil DEF PlanIInv
    <3>4. QueryTyped'
      BY <1>2, <1>15, <3>3
    <3> QED BY <3>3, <3>4, NoPlanRuns DEF PlanIInv
  <2>3. CASE current # Nil
    BY <1>4, <1>17, <2>1, <2>3
  <2> QED BY <2>2, <2>3
<1>19. CASE Visited # Nil /\ Considered /\ (~Unread(ahead') \/ BoundBelow(ahead', Leader))
  <2>1. Return(Leader, "call") /\ current' = Nil
    BY <1>1, <1>19
  <2> QED BY <1>6, <1>17, <1>19, <2>1
<1>20. CASE Visited # Nil /\ ~(Considered /\ (~Unread(ahead') \/ BoundBelow(ahead', Leader)))
  <2>1. /\ current' = IF Considered THEN Leader ELSE current
        /\ step' = "loop" /\ results' = results /\ pass' = pass /\ plan' = plan
    BY <1>1, <1>20
  <2>2. ResultsInv' /\ ExactInv' /\ Returned' = Returned
    BY <1>1, <2>1, SameResults DEF PlanIInv
  <2>3. QueryTyped'
    BY <1>2, <1>15, <2>1
  <2>4. TopInv'
    <3>1. current' # Nil => current' \in Scored /\ Matches(pass, current.doc)'
      <4>1. current' # Nil => current' \in Scored /\ Matches(pass, current'.doc)
        BY <1>4, <1>5, <1>6, <2>1
      <4> QED BY <1>14, <2>1, <4>1 DEF Matches, Hits, Words
    <3>2. current' = Nil => found' = {}
      BY <1>4, <1>5, <1>6, <1>12, <2>1
    <3>3. \A d \in seen' : Matches(pass, d)' =>
             d \in Returned' \/ InFound(d)' \/ (current' # Nil /\ current'.doc = d)
      BY <1>5, <1>6, <1>13, <1>14, <2>1, <2>2 DEF InFound
    <3> QED BY <1>11, <2>1, <3>1, <3>2, <3>3 DEF TopInv
  <2> QED BY <1>16, <2>1, <2>2, <2>3, <2>4 DEF PlanIInv
<1> QED BY <1>5, <1>18, <1>19, <1>20

-----------------------------------------------------------------------------
(* SortByScore over MergeByShortestList *)

\* A step of an operator below SortByScore keeps the invariants that are not
\* about this operator.
LEMMA DrainKeeps ==
  ASSUME PlanIInv, step = "drain", step' = "drain", UNCHANGED query,
         pass' = pass, plan' = plan, turn' = turn, more' = more, results' = results,
         found' \subseteq Scored, IsFiniteSet(found'), seen' \subseteq Docs,
         \A x \in found' : Matches(pass, x.doc)
  PROVE  /\ QueryTyped' /\ PlanInv' /\ ResultsInv' /\ ExactInv' /\ FoundInv' /\ TopInv' /\ SortedInv'
         /\ \A d : Matches(pass, d)' <=> Matches(pass, d)
         /\ \A t : Items(pass, t)' = Items(pass, t)
<1>1. /\ kind' = kind /\ all' = all /\ static' = static
      /\ \A d : Matches(pass, d)' <=> Matches(pass, d)
      /\ \A t : Items(pass, t)' = Items(pass, t)
  BY SameQuery, SamePass
<1>2. QueryTyped'
  BY <1>1 DEF PlanIInv, QueryTyped
<1>3. PlanInv'
  BY <1>1 DEF PlanIInv, PlanInv
<1>4. ResultsInv' /\ ExactInv'
  BY SameResults DEF PlanIInv
<1>5. FoundInv' /\ TopInv' /\ SortedInv'
  BY <1>1 DEF FoundInv, TopInv, SortedInv
<1> QED BY <1>1, <1>2, <1>3, <1>4, <1>5

\* SortByScore has all records that match.
LEMMA SortStep ==
  ASSUME PlanIInv, step = "drain", Sort, \A d \in Docs : Matches(pass, d) => InFound(d)
  PROVE  PlanIInv'
<1>1. /\ step' = "sorted" /\ UNCHANGED query /\ pass' = pass /\ plan' = plan /\ input' = input
      /\ ahead' = ahead /\ turn' = turn /\ current' = current /\ seen' = seen /\ more' = more
      /\ found' = found /\ results' = results
  BY DEF Sort
<1>2. /\ kind' = kind /\ all' = all /\ static' = static
      /\ \A d : Matches(pass, d)' <=> Matches(pass, d)
  BY <1>1, SameQuery, SamePass
<1>3. QueryTyped' /\ PlanInv'
  BY <1>1, <1>2 DEF PlanIInv, QueryTyped, PlanInv
<1>4. ResultsInv' /\ ExactInv'
  BY <1>1, SameResults DEF PlanIInv
<1>5. FoundInv' /\ SortedInv'
  BY <1>1, <1>2 DEF PlanIInv, FoundInv, SortedInv, InFound
<1>6. ChildrenInv' /\ TopInv' /\ ShortestInv' /\ ByIdInv' /\ UnionInv'
  BY <1>1 DEF ChildrenInv, TopInv, ShortestInv, ByIdInv, UnionInv
<1> QED BY <1>3, <1>4, <1>5, <1>6 DEF PlanIInv

\* A child of a plan that reads none ahead returns an item.
LEMMA ReadItem ==
  ASSUME PlanIInv, step = "drain", NEW t \in Term, NEW x \in Item, Read(t, x), input[t] # {},
         UNCHANGED query, pass' = pass, plan' = plan, step' = step, ahead' = ahead,
         plan.name \notin {"topK", "union"}
  PROVE  /\ ChildrenInv' /\ x \in input[t] /\ x \in Items(pass, t)
         /\ x \in [doc : Docs, word : Word] /\ x.doc \in Docs
         /\ Returns(plan, t, input[t], x)
         /\ input'[t] = input[t] \ {x} /\ \A u \in Term : u # t => input'[u] = input[u]
<1>1. /\ input \in [Term -> SUBSET [doc : Docs, word : Word]] /\ ahead \in [Term -> Item]
      /\ \A u \in Term : input[u] \subseteq Items(pass, u) /\ (ahead[u] # Nil => ahead[u] \in Items(pass, u))
  BY DEF PlanIInv, ChildrenInv
<1>2. Returns(plan, t, input[t], x) /\ input' = [input EXCEPT ![t] = @ \ {x}]
  BY DEF Read
<1>3. x \in input[t]
  BY <1>2 DEF Returns
<1>4. input'[t] = input[t] \ {x} /\ \A u \in Term : u # t => input'[u] = input[u]
  BY <1>1, <1>2
<1>5. input' \in [Term -> SUBSET [doc : Docs, word : Word]]
  BY <1>1, <1>2
<1>6. \A u \in Term : input'[u] \subseteq Items(pass, u)
  BY <1>1, <1>4
<1>7. \A u : Items(pass, u)' = Items(pass, u)
  BY SamePass
<1>8. ChildrenInv'
  BY <1>1, <1>5, <1>6, <1>7 DEF ChildrenInv
<1>9. x \in Items(pass, t) /\ x \in [doc : Docs, word : Word] /\ x.doc \in Docs
  BY <1>1, <1>3, ItemsAre
<1> QED BY <1>2, <1>3, <1>4, <1>8, <1>9

\* The plan invariant survives a turn of MergeByShortestList ...
LEMMA ShortestNextStep == ASSUME PlanIInv, ShortestNext PROVE PlanIInv'
<1> DEFINE t == plan.scan
<1>1. /\ plan.name = "shortest" /\ step = "drain" /\ input[t] # {}
      /\ UNCHANGED query /\ pass' = pass /\ plan' = plan /\ step' = step /\ ahead' = ahead
      /\ turn' = turn /\ current' = current /\ seen' = seen /\ more' = more /\ results' = results
  BY DEF ShortestNext, Drain
<1>2. PICK x \in Item :
        /\ Read(t, x)
        /\ found' = IF \A u \in Term \ {t} : Verified(u, x.doc)
                    THEN found \cup {[doc |-> x.doc, score |-> AndScore(t, x)]}
                    ELSE found
  BY DEF ShortestNext
<1>3. t \in Term /\ kind = "and"
  BY <1>1 DEF PlanIInv, PlanInv
<1>4. /\ ChildrenInv' /\ x \in input[t] /\ x \in Items(pass, t)
      /\ x \in [doc : Docs, word : Word] /\ x.doc \in Docs
      /\ input'[t] = input[t] \ {x} /\ \A u \in Term : u # t => input'[u] = input[u]
  BY <1>1, <1>2, <1>3, ReadItem
<1> HIDE DEF t
<1>5. /\ found' \subseteq Scored /\ IsFiniteSet(found') /\ found \subseteq found'
      /\ \A y \in found' : Matches(pass, y.doc)
      /\ Matches(pass, x.doc) => \E y \in found' : y.doc = x.doc
  <2>1. found \subseteq Scored /\ IsFiniteSet(found) /\ \A y \in found : Matches(pass, y.doc)
    BY <1>1 DEF PlanIInv, QueryTyped, FoundInv
  <2>2. CASE \A u \in Term \ {t} : Verified(u, x.doc)
    <3> DEFINE new == [doc |-> x.doc, score |-> AndScore(t, x)]
    <3>1. AndScore(t, x) \in Nat
      BY <1>3, <1>4, <2>2, AndScoreType DEF PlanIInv
    <3>2. new \in Scored /\ new.doc = x.doc
      BY <1>4, <3>1 DEF Scored
    <3>3. Matches(pass, x.doc)
      BY <1>3, <1>4, <2>2, VerifiedMatches
    <3>4. found' = found \cup {new}
      BY <1>2, <2>2
    <3> HIDE DEF new
    <3>5. IsFiniteSet(found')
      BY <2>1, <3>4, FS_AddElement
    <3> QED BY <2>1, <3>2, <3>3, <3>4, <3>5
  <2>3. CASE ~\A u \in Term \ {t} : Verified(u, x.doc)
    <3>1. ~Matches(pass, x.doc)
      BY <1>3, <2>3 DEF Matches, Verified
    <3> QED BY <1>2, <2>1, <2>3, <3>1
  <2> QED BY <2>2, <2>3
<1>6. seen' \subseteq Docs
  BY <1>1 DEF PlanIInv, QueryTyped
<1>7. /\ QueryTyped' /\ PlanInv' /\ ResultsInv' /\ ExactInv' /\ FoundInv' /\ TopInv' /\ SortedInv'
      /\ \A d : Matches(pass, d)' <=> Matches(pass, d)
      /\ \A u : Items(pass, u)' = Items(pass, u)
  BY <1>1, <1>5, <1>6, DrainKeeps
<1>8. ShortestInv'
  <2>1. ASSUME NEW y \in Items(pass, t), y \notin input'[t], Matches(pass, y.doc)
        PROVE  \E z \in found' : z.doc = y.doc
    <3>1. CASE y = x
      BY <1>5, <2>1, <3>1
    <3>2. CASE y # x
      <4>1. y \notin input[t]
        BY <1>4, <2>1, <3>2
      <4>2. InFound(y.doc)
        BY <1>1, <2>1, <4>1 DEF PlanIInv, ShortestInv, t
      <4> QED BY <1>5, <4>2 DEF InFound
    <3> QED BY <3>1, <3>2
  <2> QED BY <1>1, <1>7, <2>1 DEF ShortestInv, InFound, t
<1>9. ByIdInv' /\ UnionInv'
  BY <1>1 DEF ByIdInv, UnionInv
<1> QED BY <1>4, <1>7, <1>8, <1>9 DEF PlanIInv

\* ... and the end of its list.
LEMMA ShortestEndStep == ASSUME PlanIInv, ShortestEnd PROVE PlanIInv'
<1>1. plan.name = "shortest" /\ step = "drain" /\ input[plan.scan] = {} /\ Sort
  BY DEF ShortestEnd, Drain
<1>2. plan.scan \in Term /\ kind = "and"
  BY <1>1 DEF PlanIInv, PlanInv
<1>3. ASSUME NEW d \in Docs, Matches(pass, d) PROVE InFound(d)
  <2>1. Hits(pass, plan.scan, d) # {}
    BY <1>2, <1>3 DEF Matches
  <2>2. PICK x \in Items(pass, plan.scan) : x.doc = d
    BY <1>2, <2>1, ItemsAre
  <2> QED BY <1>1, <1>3, <2>2 DEF PlanIInv, ShortestInv
<1> QED BY <1>1, <1>3, SortStep

-----------------------------------------------------------------------------
(* SortByScore over MergeSortedByID *)

\* SortById returns the lowest id first.
LEMMA LowestFirst ==
  ASSUME NEW p, p.name = "byId", NEW t, NEW S, S \subseteq [doc : Docs, word : Word], S # {},
         NEW x, Returns(p, t, S, x)
  PROVE  \A y \in S : x.doc <= y.doc
<1> SUFFICES ASSUME NEW y \in S PROVE x.doc <= y.doc
  OBVIOUS
<1>1. x \in S /\ Precedes(p, t, x, y)
  BY DEF Returns
<1>2. x.doc \in Nat /\ y.doc \in Nat
  BY <1>1, PlanConstants
<1>3. x.doc < y.doc \/ x.doc = y.doc
  BY <1>1 DEF Precedes
<1> QED BY <1>2, <1>3

\* MergeSortedByID and its children in a step that finds nothing.
LEMMA ByIdKeeps ==
  ASSUME PlanIInv, plan.name = "byId", step = "drain",
         UNCHANGED <<query, pass, plan, step, ahead, turn, seen, more, found, results>>
  PROVE  /\ QueryTyped' /\ PlanInv' /\ ResultsInv' /\ ExactInv' /\ FoundInv' /\ TopInv' /\ SortedInv'
         /\ ShortestInv' /\ UnionInv'
         /\ \A d : Matches(pass, d)' <=> Matches(pass, d)
         /\ \A t : Items(pass, t)' = Items(pass, t)
         /\ kind = "and"
         /\ \A d \in seen' : InFound(d)'
         /\ \A d \in Docs : Matches(pass, d) => InFound(d)' \/ Reachable(d)
<1>1. /\ UNCHANGED query /\ pass' = pass /\ plan' = plan /\ step' = step /\ turn' = turn
      /\ seen' = seen /\ more' = more /\ found' = found /\ results' = results
  OBVIOUS
<1>2. /\ found' \subseteq Scored /\ IsFiniteSet(found') /\ seen' \subseteq Docs
      /\ \A x \in found' : Matches(pass, x.doc)
  BY <1>1 DEF PlanIInv, QueryTyped, FoundInv
<1>3. /\ QueryTyped' /\ PlanInv' /\ ResultsInv' /\ ExactInv' /\ FoundInv' /\ TopInv' /\ SortedInv'
      /\ \A d : Matches(pass, d)' <=> Matches(pass, d)
      /\ \A t : Items(pass, t)' = Items(pass, t)
  BY <1>1, <1>2, DrainKeeps
<1>4. ShortestInv' /\ UnionInv'
  BY <1>1 DEF ShortestInv, UnionInv
<1>5. kind = "and"
  BY DEF PlanIInv, PlanInv
<1>6. /\ \A d \in seen' : InFound(d)'
      /\ \A d \in Docs : Matches(pass, d) => InFound(d)' \/ Reachable(d)
  BY <1>1 DEF PlanIInv, ByIdInv, InFound
<1> QED BY <1>3, <1>4, <1>5, <1>6

\* The plan invariant survives the next record of the first child of
\* MergeSortedByID ...
LEMMA ByIdStartStep == ASSUME PlanIInv, ByIdStart PROVE PlanIInv'
<1>1. /\ plan.name = "byId" /\ step = "drain" /\ current = Nil /\ input[1] # {}
      /\ UNCHANGED <<query, pass, plan, step, ahead, turn, seen, more, found, results>>
  BY DEF ByIdStart, Drain
<1>2. PICK x \in Item :
        /\ Read(1, x)
        /\ current' = IF x.doc \in seen THEN Nil ELSE [doc |-> x.doc, items |-> [u \in {1} |-> x]]
  BY DEF ByIdStart
<1>3. 1 \in Term /\ Docs \subseteq Nat
  BY PlanConstants
<1>4. /\ ChildrenInv' /\ x \in input[1] /\ x \in Items(pass, 1)
      /\ x \in [doc : Docs, word : Word] /\ x.doc \in Docs
      /\ Returns(plan, 1, input[1], x)
      /\ input'[1] = input[1] \ {x} /\ \A u \in Term : u # 1 => input'[u] = input[u]
  BY <1>1, <1>2, <1>3, ReadItem
<1>5. /\ QueryTyped' /\ PlanInv' /\ ResultsInv' /\ ExactInv' /\ FoundInv' /\ TopInv' /\ SortedInv'
      /\ ShortestInv' /\ UnionInv'
      /\ \A d : Matches(pass, d)' <=> Matches(pass, d)
      /\ \A t : Items(pass, t)' = Items(pass, t)
      /\ \A d \in seen' : InFound(d)'
      /\ \A d \in Docs : Matches(pass, d) => InFound(d)' \/ Reachable(d)
  BY <1>1, ByIdKeeps
<1>6. \A y \in input[1] : x.doc <= y.doc
  <2>1. input[1] \subseteq [doc : Docs, word : Word]
    BY <1>1, <1>3 DEF PlanIInv, ChildrenInv
  <2> QED BY <1>1, <1>4, <2>1, LowestFirst
<1>7. ASSUME NEW d \in Docs, Matches(pass, d), ~InFound(d)'
      PROVE  Reachable(d)'
  <2>1. \A t \in Term : \E y \in input[t] : y.doc = d
    BY <1>1, <1>5, <1>7 DEF Reachable, Waits
  <2>2. x.doc <= d
    BY <1>3, <1>6, <2>1
  <2>3. \A t \in Term : (\E y \in input'[t] : y.doc = d) \/ (t = 1 /\ x.doc = d)
    BY <1>4, <2>1
  <2>4. CASE x.doc \in seen
    <3>1. x.doc # d
      BY <1>1, <1>5, <1>7, <2>4
    <3> QED BY <1>2, <2>3, <2>4, <3>1 DEF Reachable, Waits
  <2>5. CASE x.doc \notin seen
    <3>1. current' = [doc |-> x.doc, items |-> [u \in {1} |-> x]] /\ current'.doc = x.doc
          /\ DOMAIN current'.items = {1} /\ current' # Nil
      <4>1. current' = [doc |-> x.doc, items |-> [u \in {1} |-> x]]
        BY <1>2, <2>5
      <4>2. current'.doc = x.doc /\ DOMAIN current'.items = {1}
        BY <4>1
      <4>3. current' # Nil
        BY <1>3, <1>4, <4>2, NilIs
      <4> QED BY <4>1, <4>2, <4>3
    <3> QED BY <2>2, <2>3, <3>1 DEF Reachable, Waits
  <2> QED BY <2>4, <2>5
<1>8. ByIdInv'
  <2>1. ASSUME current' # Nil
        PROVE  /\ current'.doc \in Docs /\ DOMAIN current'.items \subseteq Term
               /\ current' = [doc |-> current'.doc, items |-> current'.items]
               /\ current'.items = [t \in DOMAIN current'.items |-> current'.items[t]]
               /\ \A t \in DOMAIN current'.items :
                    current'.items[t] \in Items(pass, t) /\ current'.items[t].doc = current'.doc
    <3>1. current' = [doc |-> x.doc, items |-> [u \in {1} |-> x]]
      BY <1>2, <2>1
    <3>2. /\ current'.doc = x.doc /\ current'.items = [u \in {1} |-> x]
          /\ DOMAIN current'.items = {1} /\ current'.items[1] = x
      BY <3>1
    <3> QED BY <1>3, <1>4, <3>1, <3>2
  <2> QED BY <1>1, <1>5, <1>7, <2>1 DEF ByIdInv
<1> QED BY <1>4, <1>5, <1>8 DEF PlanIInv

\* A child lags behind unless all have the record.
LEMMA LaggingIs ==
  ASSUME DOMAIN current.items \subseteq Term, DOMAIN current.items # Term
  PROVE  Lagging \in Term /\ Lagging \notin DOMAIN current.items
<1> DEFINE S == Term \ DOMAIN current.items
<1>1. S \subseteq Nat /\ S # {}
  BY PlanConstants
<1>2. Lagging = Min(S)
  BY DEF Lagging
<1> HIDE DEF S
<1>3. Lagging \in S
  BY <1>1, <1>2, LeastNumber
<1> QED BY <1>3 DEF S

\* ... the search for it in another child ...
LEMMA ByIdNextStep == ASSUME PlanIInv, ByIdNext PROVE PlanIInv'
<1> DEFINE t == Lagging
<1>1. /\ plan.name = "byId" /\ step = "drain" /\ current # Nil /\ DOMAIN current.items # Term
      /\ input[t] # {}
      /\ UNCHANGED <<query, pass, plan, step, ahead, turn, seen, more, found, results>>
  BY DEF ByIdNext, Drain
<1>2. PICK x \in Item : Read(t, x) /\ current' = ByIdSkip(t, x)
  BY DEF ByIdNext
<1>3. /\ current.doc \in Docs /\ DOMAIN current.items \subseteq Term
      /\ current = [doc |-> current.doc, items |-> current.items]
      /\ current.items = [u \in DOMAIN current.items |-> current.items[u]]
      /\ \A u \in DOMAIN current.items : current.items[u] \in Items(pass, u) /\ current.items[u].doc = current.doc
  BY <1>1 DEF PlanIInv, ByIdInv
<1>4. t \in Term /\ t \notin DOMAIN current.items
  BY <1>1, <1>3, LaggingIs
<1> HIDE DEF t
<1>5. /\ ChildrenInv' /\ x \in input[t] /\ x \in Items(pass, t)
      /\ x \in [doc : Docs, word : Word] /\ x.doc \in Docs
      /\ Returns(plan, t, input[t], x)
      /\ input'[t] = input[t] \ {x} /\ \A u \in Term : u # t => input'[u] = input[u]
  BY <1>1, <1>2, <1>4, ReadItem
<1>6. /\ QueryTyped' /\ PlanInv' /\ ResultsInv' /\ ExactInv' /\ FoundInv' /\ TopInv' /\ SortedInv'
      /\ ShortestInv' /\ UnionInv'
      /\ \A d : Matches(pass, d)' <=> Matches(pass, d)
      /\ \A u : Items(pass, u)' = Items(pass, u)
      /\ \A d \in seen' : InFound(d)'
      /\ \A d \in Docs : Matches(pass, d) => InFound(d)' \/ Reachable(d)
  BY <1>1, ByIdKeeps
<1>7. \A y \in input[t] : x.doc <= y.doc
  <2>1. input[t] \subseteq [doc : Docs, word : Word]
    BY <1>1, <1>4 DEF PlanIInv, ChildrenInv
  <2> QED BY <1>1, <1>5, <2>1, LowestFirst
<1>8. x.doc \in Nat /\ current.doc \in Nat
  BY <1>3, <1>5, PlanConstants
\* The three cases of ByIdSkip.
<1>9. /\ current' # Nil /\ current'.doc \in Docs /\ DOMAIN current'.items \subseteq Term
      /\ current' = [doc |-> current'.doc, items |-> current'.items]
      /\ current'.items = [u \in DOMAIN current'.items |-> current'.items[u]]
      /\ \A u \in DOMAIN current'.items :
           current'.items[u] \in Items(pass, u) /\ current'.items[u].doc = current'.doc
      /\ \/ /\ x.doc = current.doc /\ current'.doc = current.doc
            /\ DOMAIN current'.items = DOMAIN current.items \cup {t}
         \/ /\ x.doc > current.doc /\ current'.doc = x.doc /\ DOMAIN current'.items = {t}
         \/ /\ x.doc < current.doc /\ current' = current
  <2>1. CASE x.doc = current.doc
    <3> DEFINE f == Joined(current.items, t, x)
    <3>1. current' = [current EXCEPT !.items = f]
      BY <1>2, <1>8, <2>1 DEF ByIdSkip
    <3>2. current' = [doc |-> current.doc, items |-> f]
      BY <1>3, <3>1
    <3>3. /\ DOMAIN f = DOMAIN current.items \cup {t}
          /\ \A u \in DOMAIN f : f[u] = IF u = t THEN x ELSE current.items[u]
          /\ f = [u \in DOMAIN f |-> f[u]]
      BY DEF Joined
    <3> HIDE DEF f
    <3>4. current'.doc = current.doc /\ current'.items = f
      BY <3>2
    <3>5. current' # Nil
      BY <1>8, <3>4, NilIs
    <3>6. \A u \in DOMAIN f : f[u] \in Items(pass, u) /\ f[u].doc = current.doc
      BY <1>3, <1>4, <1>5, <2>1, <3>3
    <3>7. DOMAIN f \subseteq Term
      BY <1>3, <1>4, <3>3
    <3>8. current' = [doc |-> current'.doc, items |-> current'.items]
      BY <3>2, <3>4
    <3>9. current'.items = [u \in DOMAIN current'.items |-> current'.items[u]]
      BY <3>3, <3>4
    <3> QED BY <1>3, <2>1, <3>3, <3>4, <3>5, <3>6, <3>7, <3>8, <3>9
  <2>2. CASE x.doc > current.doc
    <3>1. current' = [doc |-> x.doc, items |-> [u \in {t} |-> x]]
      BY <1>2, <1>8, <2>2 DEF ByIdSkip
    <3>2. /\ current'.doc = x.doc /\ current'.items = [u \in {t} |-> x]
          /\ DOMAIN current'.items = {t} /\ current'.items[t] = x
      BY <3>1
    <3>3. current' # Nil
      BY <1>8, <3>2, NilIs
    <3> QED BY <1>4, <1>5, <2>2, <3>1, <3>2, <3>3
  <2>3. CASE x.doc < current.doc
    <3>1. current' = current
      BY <1>2, <1>8, <2>3 DEF ByIdSkip
    <3> QED BY <1>1, <1>3, <2>3, <3>1
  <2> QED BY <1>8, <2>1, <2>2, <2>3
<1>10. ASSUME NEW d \in Docs, Matches(pass, d), ~InFound(d)'
       PROVE  Reachable(d)'
  <2>1. /\ current.doc <= d
        /\ \A u \in Term : (\E y \in input[u] : y.doc = d) \/ (current.doc = d /\ u \in DOMAIN current.items)
    BY <1>1, <1>6, <1>10 DEF Reachable, Waits
  <2>2. PICK y \in input[t] : y.doc = d
    BY <1>4, <2>1
  <2>3. x.doc <= d /\ d \in Nat
    BY <1>7, <2>2, PlanConstants
  <2>4. \A u \in Term : (\E z \in input[u] : z.doc = d) =>
           (\E z \in input'[u] : z.doc = d) \/ (u = t /\ x.doc = d)
    BY <1>5
  <2>5. /\ current'.doc <= d
        /\ \A u \in Term : (\E z \in input'[u] : z.doc = d) \/ (current'.doc = d /\ u \in DOMAIN current'.items)
    <3>1. CASE x.doc = current.doc
      BY <1>8, <1>9, <2>1, <2>3, <2>4, <3>1
    <3>2. CASE x.doc > current.doc
      BY <1>8, <1>9, <2>1, <2>3, <2>4, <3>2
    <3>3. CASE x.doc < current.doc
      BY <1>8, <1>9, <2>1, <2>3, <2>4, <3>3
    <3> QED BY <1>8, <3>1, <3>2, <3>3
  <2> QED BY <1>9, <2>5 DEF Reachable, Waits
<1>11. ByIdInv'
  BY <1>1, <1>6, <1>9, <1>10 DEF ByIdInv
<1> QED BY <1>5, <1>6, <1>11 DEF PlanIInv

\* ... its being found in all of them ...
LEMMA ByIdFoundStep == ASSUME PlanIInv, ByIdFound PROVE PlanIInv'
<1> DEFINE f == [t \in Term |-> Sequential(t, current.items[t])]
           new == [doc |-> current.doc, score |-> SumFunction(f)]
<1>1. /\ plan.name = "byId" /\ step = "drain" /\ current # Nil /\ DOMAIN current.items = Term
      /\ found' = found \cup {new} /\ seen' = seen \cup {current.doc} /\ current' = Nil
      /\ UNCHANGED query /\ pass' = pass /\ plan' = plan /\ step' = step /\ input' = input
      /\ ahead' = ahead /\ turn' = turn /\ more' = more /\ results' = results
  BY DEF ByIdFound, Drain
<1>2. /\ kind = "and" /\ current.doc \in Docs
      /\ \A t \in Term : current.items[t] \in Items(pass, t) /\ current.items[t].doc = current.doc
  BY <1>1 DEF PlanIInv, PlanInv, ByIdInv
<1>3. SumFunction(f) \in Nat
  <2>1. \A t \in Term : f[t] \in Nat
    BY <1>2, ItemsAre, SequentialType DEF PlanIInv
  <2>2. DOMAIN f = Term /\ SumFunction(f) = SumFunctionOnSet(f, DOMAIN f)
    BY DEF SumFunction
  <2> HIDE DEF f
  <2> QED BY <2>1, <2>2, PlanConstants, SumType
<1>4. new \in Scored /\ new.doc = current.doc
  BY <1>2, <1>3 DEF Scored
<1> HIDE DEF f, new
<1>5. Matches(pass, current.doc)
  BY <1>2, ItemsAre DEF Matches
<1>6. /\ found' \subseteq Scored /\ IsFiniteSet(found') /\ seen' \subseteq Docs
      /\ \A x \in found' : Matches(pass, x.doc)
  <2>1. IsFiniteSet(found')
    BY <1>1, FS_AddElement DEF PlanIInv, QueryTyped
  <2> QED BY <1>1, <1>2, <1>4, <1>5, <2>1 DEF PlanIInv, QueryTyped, FoundInv
<1>7. /\ QueryTyped' /\ PlanInv' /\ ResultsInv' /\ ExactInv' /\ FoundInv' /\ TopInv' /\ SortedInv'
      /\ \A d : Matches(pass, d)' <=> Matches(pass, d)
      /\ \A t : Items(pass, t)' = Items(pass, t)
  BY <1>1, <1>6, DrainKeeps
<1>8. ChildrenInv' /\ ShortestInv' /\ UnionInv'
  BY <1>1, <1>7 DEF PlanIInv, ChildrenInv, ShortestInv, UnionInv
<1>9. \A d : InFound(d) \/ d = current.doc => InFound(d)'
  BY <1>1, <1>4 DEF InFound
<1>10. ASSUME NEW d \in Docs, Matches(pass, d), ~InFound(d)' PROVE Reachable(d)'
  <2>1. ~InFound(d) /\ d # current.doc
    BY <1>9, <1>10
  <2>2. \A t \in Term : \E x \in input[t] : x.doc = d
    BY <1>1, <1>10, <2>1 DEF PlanIInv, ByIdInv, Reachable, Waits
  <2> QED BY <1>1, <2>2 DEF Reachable, Waits
<1>11. \A d \in seen' : InFound(d)'
  BY <1>1, <1>9 DEF PlanIInv, ByIdInv
<1>12. ByIdInv'
  BY <1>1, <1>7, <1>10, <1>11 DEF ByIdInv
<1> QED BY <1>7, <1>8, <1>12 DEF PlanIInv

\* ... and the end of a child.
LEMMA ByIdEndStep == ASSUME PlanIInv, ByIdEnd PROVE PlanIInv'
<1>1. /\ plan.name = "byId" /\ step = "drain" /\ Sort
      /\ IF current = Nil THEN input[1] = {}
         ELSE DOMAIN current.items # Term /\ input[Lagging] = {}
  BY DEF ByIdEnd, Drain
<1>2. ASSUME NEW d \in Docs, Reachable(d) PROVE FALSE
  <2>1. CASE current = Nil
    BY <1>1, <1>2, <2>1, PlanConstants DEF Reachable, Waits
  <2>2. CASE current # Nil
    <3>1. DOMAIN current.items \subseteq Term
      BY <1>1, <2>2 DEF PlanIInv, ByIdInv
    <3>2. Lagging \in Term /\ Lagging \notin DOMAIN current.items
      BY <1>1, <2>2, <3>1, LaggingIs
    <3> QED BY <1>1, <1>2, <2>2, <3>2 DEF Reachable, Waits
  <2> QED BY <2>1, <2>2
<1>3. \A d \in Docs : Matches(pass, d) => InFound(d)
  BY <1>1, <1>2 DEF PlanIInv, ByIdInv
<1> QED BY <1>1, <1>3, SortStep

-----------------------------------------------------------------------------
(* SortByScore over UnionSortedByID, and what the invariant is for *)

\* The plan invariant survives UnionSortedByID passing over a record ...
LEMMA UnionSkipStep == ASSUME PlanIInv, UnionSkip PROVE PlanIInv'
<1>1. /\ plan.name = "union" /\ step = "drain"
      /\ UNCHANGED query /\ pass' = pass /\ plan' = plan /\ step' = step /\ turn' = turn
      /\ current' = current /\ seen' = seen /\ more' = more /\ found' = found /\ results' = results
  BY DEF UnionSkip, Drain
<1>2. PICK t \in Term, x \in Item :
        /\ ahead[t] # Nil /\ ahead[t].doc \in seen
        /\ Read(t, x)
        /\ ahead' = [ahead EXCEPT ![t] = x]
  BY DEF UnionSkip
<1>3. ChildrenInv'
  BY <1>1, <1>2, ReadKeepsChildren
<1>4. /\ found' \subseteq Scored /\ IsFiniteSet(found') /\ seen' \subseteq Docs
      /\ \A y \in found' : Matches(pass, y.doc)
  BY <1>1 DEF PlanIInv, QueryTyped, FoundInv
<1>5. QueryTyped' /\ PlanInv' /\ ResultsInv' /\ ExactInv' /\ FoundInv' /\ TopInv' /\ SortedInv'
  BY <1>1, <1>4, DrainKeeps
<1>6. UnionInv' /\ ShortestInv' /\ ByIdInv'
  BY <1>1 DEF PlanIInv, UnionInv, ShortestInv, ByIdInv, InFound
<1> QED BY <1>3, <1>5, <1>6 DEF PlanIInv

\* The highest score of a record, of those that its terms give it.
LEMMA HighestScore ==
  ASSUME NEW S, S \subseteq Term, S # {}, NEW f, \A t \in S : f[t] \in Nat
  PROVE  Max({f[t] : t \in S}) \in Nat
<1> DEFINE T == {f[t] : t \in S}
           g == [t \in S |-> f[t]]
<1>1. IsFiniteSet(S)
  BY PlanConstants, FS_Subset
<1>2. g \in Surjection(S, T)
  BY DEF Surjection
<1>3. T \subseteq Nat /\ T # {}
  OBVIOUS
<1> HIDE DEF T, g
<1>4. IsFiniteSet(T)
  BY <1>1, <1>2, FS_Surjection DEF ExistsSurjection
<1>5. Max(T) \in T
  BY <1>3, <1>4, GreatestNumber
<1> QED BY <1>3, <1>5 DEF T

\* ... returning the record with the lowest id ...
LEMMA UnionNextStep == ASSUME PlanIInv, UnionNext PROVE PlanIInv'
<1> DEFINE docs == {ahead[t].doc : t \in Term} \ {Nil.doc}
           d == Min(docs)
           having == {t \in Term : ahead[t].doc = d}
           new == [doc |-> d, score |-> Max({Sequential(t, ahead[t]) : t \in having})]
<1>1. /\ plan.name = "union" /\ step = "drain" /\ docs # {}
      /\ found' = found \cup {new} /\ seen' = seen \cup {d}
      /\ UNCHANGED query /\ pass' = pass /\ plan' = plan /\ step' = step /\ turn' = turn
      /\ current' = current /\ more' = more /\ results' = results
  BY DEF UnionNext, Drain
<1>2. PICK a \in [having -> Item] :
        /\ \A t \in having : Returns(plan, t, input[t], a[t])
        /\ ahead' = [t \in Term |-> IF t \in having THEN a[t] ELSE ahead[t]]
        /\ input' = [t \in Term |-> IF t \in having THEN input[t] \ {a[t]} ELSE input[t]]
  BY DEF UnionNext
<1>3. /\ kind = "or"
      /\ input \in [Term -> SUBSET [doc : Docs, word : Word]] /\ ahead \in [Term -> Item]
      /\ \A t \in Term : input[t] \subseteq Items(pass, t) /\ (ahead[t] # Nil => ahead[t] \in Items(pass, t))
      /\ \A t \in Term :
           /\ ahead[t] = Nil => input[t] = {}
           /\ \A x \in Items(pass, t) : x \in input[t] \/ x = ahead[t] \/ x.doc \in seen
  BY <1>1 DEF PlanIInv, PlanInv, ChildrenInv
<1>4. docs \subseteq Docs
  BY <1>3, NilIs
<1>5. d \in docs
  BY <1>1, <1>4, PlanConstants, LeastNumber
<1>6. d \in Docs /\ d # Nil.doc /\ having \subseteq Term /\ having # {}
      /\ \A t \in having : ahead[t] # Nil /\ ahead[t] \in Items(pass, t) /\ ahead[t].doc = d
  BY <1>3, <1>4, <1>5
<1>7. new \in Scored /\ new.doc = d
  <2> DEFINE f == [t \in Term |-> Sequential(t, ahead[t])]
  <2>1. \A t \in having : f[t] \in Nat
    BY <1>6, ItemsAre, SequentialType DEF PlanIInv
  <2>2. {f[t] : t \in having} = {Sequential(t, ahead[t]) : t \in having}
    BY <1>6
  <2>3. Max({f[t] : t \in having}) \in Nat
    <3>1. having \subseteq Term /\ having # {}
      BY <1>6
    <3> HIDE DEF f, having
    <3> QED BY ONLY <2>1, <3>1, HighestScore
  <2>4. Max({Sequential(t, ahead[t]) : t \in having}) \in Nat
    BY <2>2, <2>3
  <2>5. d \in Docs
    BY <1>6
  <2> HIDE DEF d, having
  <2> QED BY <2>4, <2>5 DEF Scored
<1>8. Matches(pass, d)
  <2>1. PICK t \in Term : ahead[t] \in Items(pass, t) /\ ahead[t].doc = d
    BY <1>6
  <2> HIDE DEF d
  <2>2. Hits(pass, t, d) # {}
    BY <2>1, ItemsAre
  <2> QED BY <1>3, <2>2 DEF Matches
<1> HIDE DEF new, d, having
<1>9. ASSUME NEW t \in Term
      PROVE  /\ input'[t] \subseteq Items(pass, t)
             /\ ahead'[t] \in Item
             /\ ahead'[t] # Nil => ahead'[t] \in Items(pass, t)
             /\ ahead'[t] = Nil => input'[t] = {}
             /\ \A x \in Items(pass, t) : x \in input'[t] \/ x = ahead'[t] \/ x.doc \in seen'
  <2>1. CASE t \in having
    <3>1. ahead'[t] = a[t] /\ input'[t] = input[t] \ {a[t]} /\ a[t] \in Item
      BY <1>2, <2>1
    <3>2. Nil \notin input[t]
      BY <1>3, ItemsAre
    <3>3. (a[t] = Nil <=> input[t] = {}) /\ (a[t] # Nil => a[t] \in input[t])
      BY <1>2, <2>1, <3>2 DEF Returns
    <3>4. ASSUME NEW x \in Items(pass, t) PROVE x \in input'[t] \/ x = ahead'[t] \/ x.doc \in seen'
      <4>1. x \in input[t] \/ x = ahead[t] \/ x.doc \in seen
        BY <1>3
      <4> QED BY <1>1, <1>6, <2>1, <3>1, <4>1
    <3> QED BY <1>3, <3>1, <3>3, <3>4
  <2>2. CASE t \notin having
    <3>1. ahead'[t] = ahead[t] /\ input'[t] = input[t]
      BY <1>2, <2>2
    <3>2. ahead[t] \in Item /\ seen \subseteq seen'
      BY <1>1, <1>3
    <3> QED BY <1>3, <3>1, <3>2
  <2> QED BY <2>1, <2>2
<1>10. /\ found' \subseteq Scored /\ IsFiniteSet(found') /\ seen' \subseteq Docs
       /\ \A y \in found' : Matches(pass, y.doc)
  <2>1. IsFiniteSet(found')
    BY <1>1, FS_AddElement DEF PlanIInv, QueryTyped
  <2> QED BY <1>1, <1>6, <1>7, <1>8, <2>1 DEF PlanIInv, QueryTyped, FoundInv
<1>11. /\ QueryTyped' /\ PlanInv' /\ ResultsInv' /\ ExactInv' /\ FoundInv' /\ TopInv' /\ SortedInv'
       /\ \A t : Items(pass, t)' = Items(pass, t)
  BY <1>1, <1>10, DrainKeeps
<1>12. ChildrenInv'
  <2>1. ahead' \in [Term -> Item]
    BY <1>2, <1>9
  <2>2. input' \in [Term -> SUBSET [doc : Docs, word : Word]]
    <3>1. \A t \in Term : input'[t] \subseteq [doc : Docs, word : Word]
      BY <1>9, ItemsAre
    <3> QED BY <1>2, <3>1
  <2> QED BY <1>1, <1>9, <1>11, <2>1, <2>2 DEF ChildrenInv
<1>13. UnionInv'
  BY <1>1, <1>7 DEF PlanIInv, UnionInv, InFound
<1>14. ShortestInv' /\ ByIdInv'
  BY <1>1 DEF ShortestInv, ByIdInv
<1> QED BY <1>11, <1>12, <1>13, <1>14 DEF PlanIInv

\* ... and the end of its children.
LEMMA UnionEndStep == ASSUME PlanIInv, UnionEnd PROVE PlanIInv'
<1>1. plan.name = "union" /\ step = "drain" /\ (\A t \in Term : ahead[t] = Nil) /\ Sort
  BY DEF UnionEnd, Drain
<1>2. kind = "or"
  BY <1>1 DEF PlanIInv, PlanInv
<1>3. ASSUME NEW d \in Docs, Matches(pass, d) PROVE InFound(d)
  <2>1. PICK t \in Term : Hits(pass, t, d) # {}
    BY <1>2, <1>3 DEF Matches
  <2>2. d \in seen
    BY <1>1, <2>1, AllSeen
  <2> QED BY <1>1, <2>2 DEF PlanIInv, UnionInv
<1> QED BY <1>1, <1>3, SortStep

\* The plan invariant survives a call of SortByScore.
LEMMA SortedNextStep == ASSUME PlanIInv, SortedNext PROVE PlanIInv'
<1> DEFINE x == IF found = {} THEN Nil ELSE Best(found)
<1>1. /\ step = "sorted" /\ found' = found \ {x} /\ Return(x, "sorted") /\ UNCHANGED query
      /\ input' = input /\ ahead' = ahead /\ turn' = turn /\ current' = current /\ seen' = seen
      /\ more' = more
  BY DEF SortedNext
<1>2. pass # "done" /\ plan.name \in {"shortest", "byId", "union"}
  BY <1>1 DEF PlanIInv, PlanInv
<1>3. found # {} => x \in found /\ x \in Scored /\ x # Nil /\ Matches(pass, x.doc)
  <2>1. found # {} => x \in found
    <3>1. IsFiniteSet(found) /\ \A y \in found : y \in [doc : Nat, score : Nat]
      BY PlanConstants DEF PlanIInv, QueryTyped, Scored
    <3> QED BY <3>1, BestExists
  <2> HIDE DEF x
  <2> QED BY <1>1, <2>1, NilIs DEF PlanIInv, QueryTyped, FoundInv
<1>4. found = {} => x = Nil
  OBVIOUS
<1> HIDE DEF x
<1>5. /\ kind' = kind /\ all' = all /\ static' = static
      /\ \A d : pass' = pass => (Matches(pass, d)' <=> Matches(pass, d))
  BY <1>1, SameQuery, SamePass
<1>6. /\ found' \subseteq found /\ IsFiniteSet(found')
      /\ \A y \in found : y \in found' \/ y = x
  BY <1>1, FS_RemoveElement DEF PlanIInv, QueryTyped
<1>7. CASE found = {}
  <2>1. \A d \in Docs : Matches(pass, d) => d \in Returned
    BY <1>1, <1>7 DEF PlanIInv, SortedInv, InFound
  <2>2. Return(Nil, "sorted")
    BY <1>1, <1>4, <1>7
  <2>3. /\ results' = results /\ step' = "plan" /\ pass' \in {"fuzzy", "done"}
        /\ PlanInv' /\ ResultsInv' /\ ExactInv'
    BY <1>1, <1>2, <2>1, <2>2, ReturnNil DEF PlanIInv
  <2>4. QueryTyped'
    BY <1>1, <1>5, <1>6, <2>3 DEF PlanIInv, QueryTyped
  <2> QED BY <2>3, <2>4, NoPlanRuns DEF PlanIInv
<1>8. CASE found # {}
  <2>1. /\ results' \in Seq(Result) /\ ResultsInv' /\ ExactInv'
        /\ Returned' = Returned \cup {x.doc}
        /\ \/ pass' = "done" /\ step' = "plan" /\ PlanInv'
           \/ pass' = pass /\ step' = "sorted" /\ plan' = plan
    BY <1>1, <1>2, <1>3, <1>8, ReturnSome DEF PlanIInv
  <2>2. QueryTyped'
    BY <1>1, <1>5, <1>6, <2>1 DEF PlanIInv, QueryTyped
  <2>3. CASE step' = "plan"
    BY <2>1, <2>2, <2>3, NoPlanRuns DEF PlanIInv
  <2>4. CASE step' = "sorted" /\ pass' = pass /\ plan' = plan
    <3>1. SortedInv'
      <4> SUFFICES ASSUME NEW d \in Docs, Matches(pass, d) PROVE d \in Returned' \/ InFound(d)'
        BY <1>5, <2>4 DEF SortedInv
      <4>1. d \in Returned \/ \E y \in found : y.doc = d
        BY <1>1 DEF PlanIInv, SortedInv, InFound
      <4> QED BY <1>6, <2>1, <4>1 DEF InFound
    <3>2. FoundInv'
      BY <1>1, <1>5, <1>6, <2>4 DEF PlanIInv, FoundInv
    <3>3. PlanInv'
      BY <1>1, <1>2, <1>5, <2>4 DEF PlanIInv, PlanInv
    <3>4. ChildrenInv' /\ TopInv' /\ ShortestInv' /\ ByIdInv' /\ UnionInv'
      BY <2>4 DEF ChildrenInv, TopInv, ShortestInv, ByIdInv, UnionInv
    <3> QED BY <2>1, <2>2, <3>1, <3>2, <3>3, <3>4 DEF PlanIInv
  <2> QED BY <2>1, <2>3, <2>4
<1> QED BY <1>7, <1>8

\* A step that leaves the plan alone keeps its invariant.
LEMMA PlanRests == ASSUME PlanIInv, UNCHANGED planVars PROVE PlanIInv'
<1>1. /\ UNCHANGED query /\ pass' = pass /\ plan' = plan /\ step' = step /\ input' = input
      /\ ahead' = ahead /\ turn' = turn /\ current' = current /\ seen' = seen /\ more' = more
      /\ found' = found /\ results' = results
  BY DEF planVars
<1>2. kind' = kind /\ all' = all /\ static' = static
  BY <1>1 DEF query
<1>3. /\ \A d : Matches(pass, d)' <=> Matches(pass, d)
      /\ \A t : Items(pass, t)' = Items(pass, t)
  BY <1>1, SamePass
<1>4. QueryTyped' /\ PlanInv'
  BY <1>1, <1>2 DEF PlanIInv, QueryTyped, PlanInv
<1>5. ResultsInv' /\ ExactInv' /\ Returned' = Returned
  BY <1>1, SameResults DEF PlanIInv
<1>6. ChildrenInv' /\ FoundInv'
  BY <1>1, <1>3 DEF PlanIInv, ChildrenInv, FoundInv
<1>7. \A d : InFound(d)' <=> InFound(d)
  BY <1>1 DEF InFound
<1>8. TopInv'
  <2>1. Matches(pass, current.doc)' <=> Matches(pass, current.doc)
    BY <1>1, <1>2 DEF Matches, Hits, Words
  <2> QED BY <1>1, <1>3, <1>5, <1>7, <2>1 DEF PlanIInv, TopInv
<1>9. ShortestInv' /\ UnionInv' /\ SortedInv'
  <2>1. Items(pass, plan.scan)' = Items(pass, plan.scan)
    BY <1>1, <1>2 DEF Items, Hits, Words
  <2> QED BY <1>1, <1>3, <1>5, <1>7, <2>1 DEF PlanIInv, ShortestInv, UnionInv, SortedInv
<1>10. ByIdInv'
  <2>1. \A d : Reachable(d)' <=> Reachable(d)
    BY <1>1 DEF Reachable, Waits
  <2> QED BY <1>1, <1>3, <1>7, <2>1 DEF PlanIInv, ByIdInv
<1> QED BY <1>4, <1>5, <1>6, <1>8, <1>9, <1>10 DEF PlanIInv

\* Every step of every plan keeps the invariant.
LEMMA PlanStep == PlanIInv /\ [PlanNext]_planVars => PlanIInv'
<1> SUFFICES ASSUME PlanIInv, [PlanNext]_planVars PROVE PlanIInv'
  OBVIOUS
<1> QED
  BY OpenStep, TopCallStep, TopVisitStep, ShortestNextStep, ShortestEndStep, ByIdStartStep,
     ByIdNextStep, ByIdFoundStep, ByIdEndStep, UnionSkipStep, UnionNextStep, UnionEndStep,
     SortedNextStep, PlanRests DEF PlanNext

\* Every result is another record.
LEMMA ResultsCounted ==
  ASSUME QueryTyped, ResultsInv PROVE Cardinality(Returned) = Len(results)
<1> DEFINE n == Len(results)
           f == [i \in 1 .. n |-> results[i].doc]
<1>1. n \in Nat
  BY DEF QueryTyped
<1>2. f \in Bijection(1 .. n, Returned)
  <2>1. f \in [1 .. n -> Returned] /\ \A d \in Returned : \E i \in 1 .. n : f[i] = d
    BY DEF Returned
  <2>2. \A i, j \in 1 .. n : f[i] = f[j] => i = j
    BY DEF ResultsInv
  <2> HIDE DEF f, n
  <2>3. IsInjective(f)
    <3>1. DOMAIN f = 1 .. n
      BY <2>1
    <3> QED BY <2>2, <3>1 DEF IsInjective
  <2>4. f \in Injection(1 .. n, Returned)
    BY <2>1, <2>3 DEF Injection
  <2>5. f \in Surjection(1 .. n, Returned)
    BY <2>1 DEF Surjection
  <2> QED BY <2>4, <2>5 DEF Bijection
<1>3. IsFiniteSet(1 .. n) /\ Cardinality(1 .. n) = n
  <2>1. IsFiniteSet(1 .. n) /\ Cardinality(1 .. n) = IF 1 > n THEN 0 ELSE n - 1 + 1
    BY <1>1, FS_Interval
  <2> QED BY <1>1, <2>1
<1> HIDE DEF f
<1>4. ExistsBijection(1 .. n, Returned)
  BY <1>2 DEF ExistsBijection
<1> QED BY <1>3, <1>4, FS_Bijection

\* What the invariant is for.
LEMMA PlanAnswers == PlanIInv => PlanTypeOK /\ AnswersQuery
<1> SUFFICES ASSUME PlanIInv PROVE PlanTypeOK /\ AnswersQuery
  OBVIOUS
<1>1. PlanTypeOK
  BY DEF PlanIInv, QueryTyped, ResultsInv, PlanTypeOK, Scored
<1>2. AnswersQuery
  BY ResultsCounted DEF PlanIInv, ResultsInv, AnswersQuery
<1> QED BY <1>1, <1>2

\* The exact matches are not left out for fuzzy ones.
LEMMA PlanExactFirst == PlanIInv => ExactFirst
<1> SUFFICES ASSUME PlanIInv, ~all, NEW i \in 1 .. Len(results), ~Matches("exact", results[i].doc),
                    NEW d \in Docs, Matches("exact", d)
             PROVE  \E j \in 1 .. i - 1 : results[j].doc = d
  BY DEF ExactFirst
<1>1. results[i].pass \in {"exact", "fuzzy"}
  <2>1. results[i] \in Result
    BY DEF PlanIInv, QueryTyped
  <2> QED BY <2>1 DEF Result
<1>2. results[i].pass # "exact"
  BY DEF PlanIInv, ResultsInv
<1> QED BY <1>1, <1>2 DEF PlanIInv, ExactInv

-----------------------------------------------------------------------------
(* The order of the results: its inductive invariant *)

\* What MergeTopK compares the best candidate with.
Bound(a) == SumFunction([t \in Term |-> Sequential(t, a[t])])

\* The boost of a term does not raise the score of a distant keyword.
MildBoosts == \A t \in Term, w \in Word : Boost[t] = 1 \/ Distance[w] <= 1

\* The results of the pass that runs.
OfPass(i) == i \in 1 .. Len(results) /\ results[i].pass = pass

PassInv ==
  /\ pass = "exact" => \A i \in 1 .. Len(results) : results[i].pass = "exact"
  /\ step \in {"plan", "drain"} /\ pass # "done" => \A i : ~OfPass(i)

\* No candidate has less than its least score, or more than a result of its pass.
CandidatesInv ==
  step # "plan" =>
    \A y \in found : /\ Least(pass, y.doc) <= y.score
                     /\ step # "drain" => \A i \in 1 .. Len(results) : OfPass(i) => y.score <= results[i].score

\* MergeTopK: what the children have read ahead is the best they have, and bounds
\* what has not been seen.
BoundInv ==
  step \in {"call", "loop"} =>
    /\ \A t \in Term : \A y \in input[t] : Sequential(t, y) <= Sequential(t, ahead[t])
    /\ current # Nil =>
         /\ Least(pass, current.doc) <= current.score
         /\ \A y \in found : y.score <= current.score
         /\ \A i \in 1 .. Len(results) : OfPass(i) => current.score <= results[i].score
    /\ Unread(ahead) => \A i \in 1 .. Len(results) : OfPass(i) => Bound(ahead) <= results[i].score

\* UnionSortedByID: what the children have read ahead has the lowest ids.
LowestInv ==
  step = "drain" /\ plan.name = "union" =>
    \A t \in Term : \A y \in input[t] : ahead[t].doc <= y.doc

\* NoneBetter, pass by pass.
RanksInv ==
  /\ \A i, j \in 1 .. Len(results) :
       i < j /\ results[i].pass = results[j].pass => results[i].score >= results[j].score
  /\ \A i \in 1 .. Len(results), d \in Docs \ Returned, p \in {"exact", "fuzzy"} :
       results[i].pass = p /\ Matches(p, d) => Least(p, d) <= results[i].score

OrderInv == PassInv /\ CandidatesInv /\ BoundInv /\ LowestInv /\ RanksInv

-----------------------------------------------------------------------------
(* Scores and their bounds *)

\* A greater factor makes no lesser product.
LEMMA ProductMonotone ==
  ASSUME NEW a \in Nat, NEW b \in Nat, NEW c \in Nat, NEW e \in Nat, c <= e
  PROVE  a * b * c <= a * b * e /\ a * b * c \in Nat /\ a * b * e \in Nat
<1> DEFINE m == a * b
           r == e - c
<1>1. m \in Nat /\ r \in Nat /\ e = c + r
  OBVIOUS
<1> HIDE DEF m, r
<1>2. m * (c + r) = m * c + m * r
  BY <1>1
<1>3. m * r \in Nat /\ m * c \in Nat
  BY <1>1
<1>4. m * c <= m * e /\ m * c \in Nat /\ m * e \in Nat
  BY <1>1, <1>2, <1>3
<1> QED BY <1>4 DEF m

\* The least score of a record for a term is no more than what the lists and
\* random access give it.
LEMMA LowBelow ==
  ASSUME QueryTyped, NEW p, NEW t \in Term, NEW x \in Items(p, t)
  PROVE  /\ Low(p, t, x.doc) \in Nat
         /\ Low(p, t, x.doc) <= Sequential(t, x)
         /\ kind = "and" =>
              Low(p, t, x.doc) <= static[t][x.doc][x.word] * Similarity[Distance[x.word]]
                                    * Power(Boost[t], Distance[x.word])
<1> DEFINE d == x.doc
           a(w) == static[t][d][w]
           b(w) == Similarity[Distance[w]]
           e(w) == Power(Boost[t], Distance[w])
           c(w) == IF kind = "and" THEN Min({Boost[t], e(w)}) ELSE Boost[t]
           S == {a(w) * b(w) * c(w) : w \in Hits(p, t, d)}
<1>1. d \in Docs /\ x.word \in Hits(p, t, d) /\ Hits(p, t, d) \subseteq Word
  BY ItemsAre, HitsAre
<1>2. Boost[t] \in Nat
  BY PlanConstants
<1>3. ASSUME NEW w \in Word
      PROVE  /\ a(w) \in Nat /\ b(w) \in Nat /\ e(w) \in Nat /\ c(w) \in Nat
             /\ c(w) <= Boost[t] /\ (kind = "and" => c(w) <= e(w))
  <2>1. a(w) \in Nat /\ b(w) \in Nat
    BY <1>1, HitsAre, PlanConstants
  <2>2. e(w) \in Nat
    BY <1>2, PlanConstants, PowerType
  <2> HIDE DEF e
  <2>3. {Boost[t], e(w)} \subseteq Nat /\ {Boost[t], e(w)} # {}
    BY <1>2, <2>2
  <2>4. Min({Boost[t], e(w)}) \in {Boost[t], e(w)} /\ \A y \in {Boost[t], e(w)} : Min({Boost[t], e(w)}) <= y
    BY <2>3, LeastNumber
  <2> HIDE DEF a, b
  <2> QED BY <1>2, <2>1, <2>2, <2>4
<1>4. Low(p, t, d) = Min(S)
  BY DEF Low
<1>5. Sequential(t, x) = a(x.word) * b(x.word) * Boost[t]
  BY DEF Sequential
<1>6. static[t][x.doc][x.word] * Similarity[Distance[x.word]] * Power(Boost[t], Distance[x.word])
        = a(x.word) * b(x.word) * e(x.word)
  OBVIOUS
<1> HIDE DEF a, b, c, e
<1>7. ASSUME NEW w \in Word PROVE a(w) * b(w) * c(w) \in Nat
  <2>1. a(w) * b(w) \in Nat
    BY <1>3
  <2> QED BY <1>3, <2>1
<1>8. S \subseteq Nat /\ a(x.word) * b(x.word) * c(x.word) \in S
  BY <1>1, <1>7
<1> HIDE DEF S
<1>9. Min(S) \in Nat /\ Min(S) <= a(x.word) * b(x.word) * c(x.word)
  BY <1>8, LeastNumber
<1>10. x.word \in Word
  BY <1>1
<1>11. /\ a(x.word) * b(x.word) * c(x.word) <= a(x.word) * b(x.word) * Boost[t]
       /\ a(x.word) * b(x.word) * Boost[t] \in Nat
  BY <1>2, <1>3, <1>10, ProductMonotone
<1>12. kind = "and" => /\ a(x.word) * b(x.word) * c(x.word) <= a(x.word) * b(x.word) * e(x.word)
                       /\ a(x.word) * b(x.word) * e(x.word) \in Nat
  BY <1>3, <1>10, ProductMonotone
<1>13. a(x.word) * b(x.word) * c(x.word) \in Nat
  BY <1>7, <1>10
<1>14. Min(S) <= a(x.word) * b(x.word) * Boost[t]
  BY <1>9, <1>11, <1>13
<1>15. kind = "and" => Min(S) <= a(x.word) * b(x.word) * e(x.word)
  BY <1>9, <1>12, <1>13
<1> QED BY <1>4, <1>5, <1>6, <1>9, <1>14, <1>15 DEF d

\* Random access looks at the first word, ...
LEMMA RandomAccessIs ==
  ASSUME QueryTyped, NEW t \in Term, NEW d \in Docs, Verified(t, d)
  PROVE  \E x \in Items(pass, t) :
           /\ x.doc = d /\ x.word \in Word
           /\ RandomAccess(t, d) = static[t][d][x.word] * Similarity[Distance[x.word]]
                                     * Power(Boost[t], Distance[x.word])
<1> DEFINE w == Min(Hits(pass, t, d))
           x == [doc |-> d, word |-> w]
<1>1. w \in Hits(pass, t, d)
  BY HitsAre, LeastNumber DEF Verified
<1>2. w \in Word
  BY <1>1, HitsAre
<1>3. RandomAccess(t, d) = static[t][d][w] * Similarity[Distance[w]] * Power(Boost[t], Distance[w])
  BY DEF RandomAccess
<1> HIDE DEF w
<1>4. x \in [doc : Docs, word : Word] /\ x.doc = d /\ x.word = w
  BY <1>2
<1>5. x \in Items(pass, t)
  BY <1>1, <1>4 DEF Items
<1> QED BY <1>2, <1>3, <1>4, <1>5

\* ... gives no less than the least score ...
LEMMA RandomAccessAbove ==
  ASSUME QueryTyped, kind = "and", NEW t \in Term, NEW d \in Docs, Verified(t, d)
  PROVE  Low(pass, t, d) <= RandomAccess(t, d)
BY RandomAccessIs, LowBelow

\* ... and, with mild boosts, no more than the lists do.
LEMMA RandomAccessBelow ==
  ASSUME QueryTyped, MildBoosts, NEW t \in Term, NEW d \in Docs, Verified(t, d)
  PROVE  \E x \in Items(pass, t) : x.doc = d /\ RandomAccess(t, d) <= Sequential(t, x)
<1>1. PICK x \in Items(pass, t) :
        /\ x.doc = d /\ x.word \in Word
        /\ RandomAccess(t, d) = static[t][d][x.word] * Similarity[Distance[x.word]]
                                  * Power(Boost[t], Distance[x.word])
  BY RandomAccessIs
<1> DEFINE n == Distance[x.word]
<1>2. Boost[t] \in Nat \ {0} /\ n \in Nat /\ Similarity[n] \in Nat
  BY <1>1, PlanConstants
<1>3. Power(Boost[t], n) \in Nat /\ Power(Boost[t], n) <= Boost[t]
  <2>0. /\ Power(Boost[t], n) \in Nat /\ (n = 0 => Power(Boost[t], n) = 1)
        /\ (n = 1 => Power(Boost[t], n) = Boost[t])
    <3> HIDE DEF n
    <3> QED BY <1>2, PowerType
  <2>1. CASE n = 0
    BY <1>2, <2>0, <2>1
  <2>2. CASE n = 1
    BY <1>2, <2>0, <2>2
  <2>3. CASE n # 0 /\ n # 1
    <3>1. Boost[t] = 1
      BY <1>1, <1>2, <2>3 DEF MildBoosts
    <3>2. Power(1, n) = 1
      BY <1>2, PowerOfOne
    <3> QED BY <3>1, <3>2
  <2> QED BY <2>1, <2>2, <2>3
<1>4. static[t][d][x.word] \in Nat
  BY <1>1, HitsAre
<1>5. Sequential(t, x) = static[t][d][x.word] * Similarity[n] * Boost[t]
  BY <1>1 DEF Sequential
<1>6. static[t][d][x.word] * Similarity[n] * Power(Boost[t], n)
        <= static[t][d][x.word] * Similarity[n] * Boost[t]
  BY <1>2, <1>3, <1>4, ProductMonotone
<1> QED BY <1>1, <1>5, <1>6

\* Sums over the terms.
LEMMA SumOverTerms ==
  ASSUME NEW f, \A t \in Term : f[t] \in Nat, NEW g, \A t \in Term : g[t] \in Nat
  PROVE  /\ SumFunctionOnSet(f, Term) \in Nat
         /\ (\A t \in Term : f[t] <= g[t]) => SumFunctionOnSet(f, Term) <= SumFunctionOnSet(g, Term)
<1>1. IsFiniteSet(Term)
  BY PlanConstants
<1>2. SumFunctionOnSet(f, Term) \in Nat
  BY <1>1, SumType
<1>3. ASSUME \A t \in Term : f[t] <= g[t] PROVE SumFunctionOnSet(f, Term) <= SumFunctionOnSet(g, Term)
  BY <1>1, <1>3, SumMonotone
<1> QED BY <1>2, <1>3

\* The least score of a record that matches every term.
LEMMA LeastBelow ==
  ASSUME QueryTyped, kind = "and", NEW p, NEW d \in Docs, \A t \in Term : Hits(p, t, d) # {},
         NEW g, \A t \in Term : g[t] \in Nat /\ Low(p, t, d) <= g[t]
  PROVE  Least(p, d) \in Nat /\ Least(p, d) <= SumFunctionOnSet(g, Term)
<1> DEFINE f == [t \in Term |-> Low(p, t, d)]
<1>1. ASSUME NEW t \in Term PROVE Low(p, t, d) \in Nat
  <2>1. PICK x \in Items(p, t) : x.doc = d
    BY ItemsAre
  <2> QED BY <2>1, LowBelow
<1>2. Least(p, d) = SumFunctionOnSet(f, Term)
  BY DEF Least, SumFunction
<1>3. \A t \in Term : f[t] \in Nat /\ f[t] <= g[t]
  BY <1>1
<1> HIDE DEF f
<1> QED BY <1>2, <1>3, SumOverTerms

\* The score of a record of child t, as a sum over the terms.
Score(t, x) == [u \in Term |-> IF u = t THEN Sequential(t, x) ELSE RandomAccess(u, x.doc)]

\* The score of a record is the sum of its scores for the terms.
LEMMA AndScoreIs ==
  ASSUME QueryTyped, NEW t \in Term, NEW x \in [doc : Docs, word : Word],
         \A u \in Term \ {t} : Verified(u, x.doc)
  PROVE  /\ AndScore(t, x) = SumFunctionOnSet(Score(t, x), Term)
         /\ \A u \in Term : Score(t, x)[u] \in Nat
<1> DEFINE g == Score(t, x)
           f == [u \in Term \ {t} |-> RandomAccess(u, x.doc)]
           T == Term \ {t}
<1>1. x.doc \in Docs /\ Sequential(t, x) \in Nat /\ \A u \in T : RandomAccess(u, x.doc) \in Nat
  BY SequentialType, RandomAccessType
<1>2. /\ g[t] = Sequential(t, x) /\ \A u \in T : g[u] = RandomAccess(u, x.doc)
      /\ \A u \in Term : g[u] \in Nat
  BY <1>1 DEF Score
<1>3. \A u \in T : f[u] \in Nat /\ f[u] = g[u] /\ g[u] \in Nat
  BY <1>1, <1>2
<1>4. AndScore(t, x) = Sequential(t, x) + SumFunctionOnSet(f, T)
  BY DEF AndScore, SumFunction
<1>5. IsFiniteSet(Term) /\ IsFiniteSet(T)
  BY PlanConstants, FS_RemoveElement
<1> HIDE DEF f, g
<1>6. SumFunctionOnSet(g, Term) = g[t] + SumFunctionOnSet(g, T)
  BY <1>2, <1>5, SumRemove
<1> HIDE DEF T
<1>7. SumFunctionOnSet(f, T) = SumFunctionOnSet(g, T)
  <2>1. SumFunctionOnSet(f, T) \in Nat /\ SumFunctionOnSet(g, T) \in Nat
    BY <1>3, <1>5, SumType
  <2>2. SumFunctionOnSet(f, T) <= SumFunctionOnSet(g, T)
    <3>1. \A u \in T : f[u] \in Nat /\ g[u] \in Nat /\ f[u] <= g[u]
      BY <1>3
    <3> QED BY <1>5, <3>1, SumMonotone
  <2>3. SumFunctionOnSet(g, T) <= SumFunctionOnSet(f, T)
    <3>1. \A u \in T : f[u] \in Nat /\ g[u] \in Nat /\ g[u] <= f[u]
      BY <1>3
    <3> QED BY <1>5, <3>1, SumMonotone
  <2> QED BY <2>1, <2>2, <2>3
<1> QED BY <1>2, <1>4, <1>6, <1>7 DEF g

\* It is no less than the least one, ...
LEMMA AndScoreAbove ==
  ASSUME QueryTyped, kind = "and", NEW t \in Term, NEW x \in Items(pass, t),
         \A u \in Term \ {t} : Verified(u, x.doc)
  PROVE  Least(pass, x.doc) \in Nat /\ Least(pass, x.doc) <= AndScore(t, x)
<1>1. x \in [doc : Docs, word : Word] /\ x.doc \in Docs /\ Hits(pass, t, x.doc) # {}
  BY ItemsAre
<1>2. /\ AndScore(t, x) = SumFunctionOnSet(Score(t, x), Term)
      /\ \A u \in Term : Score(t, x)[u] \in Nat
  BY <1>1, AndScoreIs
<1>3. \A u \in Term : Hits(pass, u, x.doc) # {}
  BY <1>1 DEF Verified
<1>4. \A u \in Term : Low(pass, u, x.doc) <= Score(t, x)[u]
  <2>1. Low(pass, t, x.doc) <= Sequential(t, x)
    BY LowBelow
  <2>2. \A u \in Term \ {t} : Low(pass, u, x.doc) <= RandomAccess(u, x.doc)
    BY <1>1, RandomAccessAbove
  <2> QED BY <2>1, <2>2 DEF Score
<1> QED BY <1>1, <1>2, <1>3, <1>4, LeastBelow

\* ... and no more than the bound of a record that no child has shown before.
LEMMA AndScoreBelow ==
  ASSUME QueryTyped, MildBoosts, NEW t \in Term, NEW x \in Items(pass, t),
         \A u \in Term \ {t} : Verified(u, x.doc),
         NEW a, a[t] = x, \A u \in Term : a[u] \in [doc : Docs, word : Word],
         \A u \in Term : \A y \in Items(pass, u) : y.doc = x.doc => Sequential(u, y) <= Sequential(u, a[u])
  PROVE  AndScore(t, x) <= Bound(a)
<1> DEFINE f == [u \in Term |-> Sequential(u, a[u])]
<1>1. x \in [doc : Docs, word : Word] /\ x.doc \in Docs
  BY ItemsAre
<1>2. /\ AndScore(t, x) = SumFunctionOnSet(Score(t, x), Term)
      /\ \A u \in Term : Score(t, x)[u] \in Nat
  BY <1>1, AndScoreIs
<1>3. \A u \in Term : f[u] \in Nat
  BY SequentialType
<1>4. \A u \in Term : Score(t, x)[u] <= f[u]
  <2> SUFFICES ASSUME NEW u \in Term PROVE Score(t, x)[u] <= f[u]
    OBVIOUS
  <2>1. CASE u = t
    BY <1>1, <2>1, SequentialType DEF Score
  <2>2. CASE u # t
    <3>1. Verified(u, x.doc)
      BY <2>2
    <3>2. PICK y \in Items(pass, u) : y.doc = x.doc /\ RandomAccess(u, x.doc) <= Sequential(u, y)
      BY <1>1, <3>1, RandomAccessBelow
    <3>3. Sequential(u, y) <= Sequential(u, a[u])
      BY <3>2
    <3>4. RandomAccess(u, x.doc) \in Nat /\ Sequential(u, y) \in Nat /\ Sequential(u, a[u]) \in Nat
      BY <1>1, <3>1, ItemsAre, SequentialType, RandomAccessType
    <3>5. Score(t, x)[u] = RandomAccess(u, x.doc)
      BY <2>2 DEF Score
    <3> QED BY <3>2, <3>3, <3>4, <3>5
  <2> QED BY <2>1, <2>2
<1>5. Bound(a) = SumFunctionOnSet(f, Term)
  BY DEF Bound, SumFunction
<1> HIDE DEF f
<1> QED BY <1>2, <1>3, <1>4, <1>5, SumOverTerms

\* The bound falls as the children go on, ...
LEMMA BoundFalls ==
  ASSUME QueryTyped, NEW a, NEW b,
         \A u \in Term : /\ a[u] \in [doc : Docs, word : Word] /\ b[u] \in [doc : Docs, word : Word]
                         /\ Sequential(u, b[u]) <= Sequential(u, a[u])
  PROVE  Bound(a) \in Nat /\ Bound(b) \in Nat /\ Bound(b) <= Bound(a)
<1> DEFINE f == [u \in Term |-> Sequential(u, a[u])]
           g == [u \in Term |-> Sequential(u, b[u])]
<1>1. \A u \in Term : f[u] \in Nat /\ g[u] \in Nat /\ g[u] <= f[u]
  BY SequentialType
<1>2. Bound(a) = SumFunctionOnSet(f, Term) /\ Bound(b) = SumFunctionOnSet(g, Term)
  BY DEF Bound, SumFunction
<1> HIDE DEF f, g
<1> QED BY <1>1, <1>2, SumOverTerms

\* ... and is no less than the least score of a record that has not been seen.
LEMMA LeastBelowBound ==
  ASSUME QueryTyped, kind = "and", NEW d \in Docs, Matches(pass, d),
         NEW a, \A u \in Term : a[u] \in [doc : Docs, word : Word],
         \A u \in Term : \A y \in Items(pass, u) : y.doc = d => Sequential(u, y) <= Sequential(u, a[u])
  PROVE  Least(pass, d) \in Nat /\ Bound(a) \in Nat /\ Least(pass, d) <= Bound(a)
<1> DEFINE f == [u \in Term |-> Sequential(u, a[u])]
<1>1. \A u \in Term : Hits(pass, u, d) # {}
  BY DEF Matches
<1>2. \A u \in Term : f[u] \in Nat
  BY SequentialType
<1>3. \A u \in Term : Low(pass, u, d) <= f[u]
  <2> SUFFICES ASSUME NEW u \in Term PROVE Low(pass, u, d) <= Sequential(u, a[u])
    OBVIOUS
  <2>1. PICK y \in Items(pass, u) : y.doc = d
    BY <1>1, ItemsAre
  <2>2. Low(pass, u, d) \in Nat /\ Low(pass, u, d) <= Sequential(u, y)
    BY <2>1, LowBelow
  <2>3. Sequential(u, y) \in Nat /\ Sequential(u, a[u]) \in Nat /\ Sequential(u, y) <= Sequential(u, a[u])
    BY <2>1, ItemsAre, SequentialType
  <2> QED BY <2>2, <2>3
<1>4. Bound(a) = SumFunctionOnSet(f, Term)
  BY DEF Bound, SumFunction
<1> HIDE DEF f
<1>5. Least(pass, d) \in Nat /\ Least(pass, d) <= SumFunctionOnSet(f, Term)
  BY <1>1, <1>2, <1>3, LeastBelow
<1>6. SumFunctionOnSet(f, Term) \in Nat
  BY <1>2, SumOverTerms
<1> QED BY <1>4, <1>5, <1>6

\* The least score of a record that matches one term or another.
LEMMA LeastOr ==
  ASSUME QueryTyped, kind = "or", NEW p, NEW d \in Docs, Matches(p, d)
  PROVE  /\ Least(p, d) \in Nat
         /\ \E t \in Term : \E x \in Items(p, t) : x.doc = d /\ Least(p, d) = Low(p, t, d)
<1> DEFINE S == {u \in Term : Hits(p, u, d) # {}}
           f == [t \in Term |-> Low(p, t, d)]
           T == {Low(p, t, d) : t \in S}
<1>1. S \subseteq Term /\ S # {}
  BY DEF Matches
<1>2. \A t \in S : Low(p, t, d) \in Nat
  BY ItemsAre, LowBelow
<1>3. Least(p, d) = Max(T)
  BY DEF Least
<1>4. T \subseteq Nat /\ T # {}
  BY <1>1, <1>2
<1>5. IsFiniteSet(T)
  <2>1. IsFiniteSet(S)
    BY <1>1, PlanConstants, FS_Subset
  <2> DEFINE g == [t \in S |-> Low(p, t, d)]
  <2>2. g \in Surjection(S, T)
    <3> HIDE DEF S
    <3> QED BY DEF Surjection
  <2> HIDE DEF S, T, g
  <2> QED BY <2>1, <2>2, FS_Surjection
<1>6. Max(T) \in T
  <2> HIDE DEF T
  <2> QED BY <1>4, <1>5, GreatestNumber
<1>7. PICK t \in S : Max(T) = Low(p, t, d)
  BY <1>6
<1>8. \E x \in Items(p, t) : x.doc = d
  BY <1>7, ItemsAre
<1> QED BY <1>2, <1>3, <1>7, <1>8

\* The least score of a record that matches is a number.
LEMMA LeastType ==
  ASSUME QueryTyped, NEW p, NEW d \in Docs, Matches(p, d)
  PROVE  Least(p, d) \in Nat
<1>1. CASE kind = "and"
  <2> DEFINE f == [t \in Term |-> Low(p, t, d)]
  <2>1. \A t \in Term : Hits(p, t, d) # {}
    BY <1>1 DEF Matches
  <2>2. ASSUME NEW t \in Term PROVE f[t] \in Nat /\ Low(p, t, d) <= f[t]
    <3>1. PICK x \in Items(p, t) : x.doc = d
      BY <2>1, ItemsAre
    <3> QED BY <3>1, LowBelow
  <2> HIDE DEF f
  <2> QED BY <1>1, <2>1, <2>2, LeastBelow
<1>2. CASE kind = "or"
  BY <1>2, LeastOr
<1> QED BY <1>1, <1>2 DEF QueryTyped

-----------------------------------------------------------------------------
(* The order is kept *)

\* A step keeps the query: the least scores are the same, that of the record at
\* hand too ...
LEMMA SameLeast ==
  ASSUME kind' = kind, static' = static
  PROVE  /\ \A p, d : Least(p, d)' = Least(p, d)
         /\ pass' = pass => \A d : Least(pass, d)' = Least(pass, d)
         /\ pass' = pass => Least(pass, current.doc)' = Least(pass, current'.doc)
<1>1. ASSUME NEW p, NEW d PROVE Least(p, d)' = Least(p, d)
  <2>1. ASSUME NEW t PROVE Hits(p, t, d)' = Hits(p, t, d) /\ Low(p, t, d)' = Low(p, t, d)
    <3>1. Hits(p, t, d)' = Hits(p, t, d)
      BY DEF Hits, Words
    <3> QED BY <3>1, ZenonT(30) DEF Low
  <2> QED BY <2>1, ZenonT(30) DEF Least
<1>2. ASSUME pass' = pass, NEW d PROVE Least(pass, d)' = Least(pass, d)
  <2>1. ASSUME NEW t PROVE Hits(pass, t, d)' = Hits(pass, t, d) /\ Low(pass, t, d)' = Low(pass, t, d)
    <3>1. Hits(pass, t, d)' = Hits(pass, t, d)
      BY <1>2 DEF Hits, Words
    <3> QED BY <3>1, ZenonT(30) DEF Low
  <2> QED BY <2>1, ZenonT(30) DEF Least
<1>3. ASSUME pass' = pass PROVE Least(pass, current.doc)' = Least(pass, current'.doc)
  <2>1. ASSUME NEW t
        PROVE  /\ Hits(pass, t, current.doc)' = Hits(pass, t, current'.doc)
               /\ Low(pass, t, current.doc)' = Low(pass, t, current'.doc)
    <3>1. Hits(pass, t, current.doc)' = Hits(pass, t, current'.doc)
      BY <1>3 DEF Hits, Words
    <3> QED BY <3>1, ZenonT(30) DEF Low
  <2> QED BY <2>1, ZenonT(30) DEF Least
<1> QED BY <1>1, <1>2, <1>3

\* ... and so are the scores of items.
LEMMA SameScores ==
  ASSUME UNCHANGED query
  PROVE  /\ \A p, d : Least(p, d)' = Least(p, d)
         /\ \A t, x : Sequential(t, x)' = Sequential(t, x)
         /\ pass' = pass => \A d : Least(pass, d)' = Least(pass, d)
<1>1. kind' = kind /\ static' = static
  BY DEF query
<1> QED BY <1>1, SameLeast DEF Sequential

\* A step that returns nothing leaves the results in order.
LEMMA SameOrder ==
  ASSUME RanksInv, UNCHANGED query, results' = results PROVE RanksInv'
<1>1. Returned' = Returned /\ \A p, d : (Matches(p, d)' <=> Matches(p, d)) /\ Least(p, d)' = Least(p, d)
  BY SameQuery, SameScores DEF Returned
<1> QED BY <1>1 DEF RanksInv

\* A record is returned that is worse than none before it and that nothing left
\* out is better than.
LEMMA OrderReturn ==
  ASSUME PlanIInv, PassInv, RanksInv, pass # "done", UNCHANGED query,
         NEW onward, onward \in {"call", "sorted"}, NEW x \in Scored, Return(x, onward), Matches(pass, x.doc),
         \A i \in 1 .. Len(results) : OfPass(i) => x.score <= results[i].score,
         \A d \in Docs : Matches(pass, d) /\ d \notin Returned /\ d # x.doc => Least(pass, d) <= x.score
  PROVE  /\ RanksInv' /\ PassInv'
         /\ \A i \in 1 .. Len(results') : results'[i].pass = pass =>
              \/ i \in 1 .. Len(results) /\ OfPass(i) /\ results'[i] = results[i]
              \/ results'[i].score = x.score
<1> DEFINE n == Len(results)
           new == [doc |-> x.doc, score |-> x.score, pass |-> pass]
<1>1. /\ pass \in {"exact", "fuzzy"} /\ results \in Seq(Result) /\ n \in Nat
      /\ x # Nil /\ x.doc \in Docs /\ x.score \in Nat /\ new \in Result
  BY NilIs DEF PlanIInv, QueryTyped, Scored, Result
<1>2. results' = IF x.doc \in Returned THEN results ELSE Append(results, new)
  BY <1>1 DEF Return, Returned
<1>3. /\ Len(results') \in Nat /\ n <= Len(results')
      /\ \A i \in 1 .. n : results'[i] = results[i]
      /\ \A i \in 1 .. Len(results') : i \in 1 .. n \/ (i = n + 1 /\ results'[i] = new)
  BY <1>1, <1>2
<1>4. /\ Returned' = Returned \cup {x.doc}
      /\ \/ pass' = "done" /\ step' = "plan"
         \/ pass' = pass /\ step' = onward
  BY ReturnSome DEF PlanIInv
<1>5. \A p, d : (Matches(p, d)' <=> Matches(p, d)) /\ Least(p, d)' = Least(p, d)
  BY SameQuery, SameScores
<1>6. \A i \in 1 .. n : results[i].score \in Nat
  <2>1. \A i \in 1 .. n : results[i] \in Result
    BY <1>1
  <2> QED BY <2>1 DEF Result
<1>7. ASSUME NEW i \in 1 .. Len(results'), NEW j \in 1 .. Len(results'), i < j,
             results'[i].pass = results'[j].pass
      PROVE  results'[i].score >= results'[j].score
  <2>1. i \in 1 .. n
    BY <1>1, <1>3, <1>7
  <2>2. CASE j \in 1 .. n
    BY <1>3, <1>7, <2>1, <2>2 DEF RanksInv
  <2>3. CASE j \notin 1 .. n
    <3>1. results'[j] = new
      BY <1>3, <2>3
    <3>2. results[i].pass = pass
      BY <1>3, <1>7, <2>1, <3>1
    <3>3. x.score <= results[i].score
      BY <2>1, <3>2 DEF OfPass
    <3> QED BY <1>1, <1>3, <1>6, <2>1, <3>1, <3>3
  <2> QED BY <2>2, <2>3
<1>8. ASSUME NEW i \in 1 .. Len(results'), NEW d \in Docs \ Returned', NEW p \in {"exact", "fuzzy"},
             results'[i].pass = p, Matches(p, d)'
      PROVE  Least(p, d)' <= results'[i].score
  <2>1. Matches(p, d) /\ Least(p, d)' = Least(p, d)
    BY <1>5, <1>8
  <2>2. d \notin Returned /\ d # x.doc
    BY <1>4, <1>8
  <2>3. CASE i \in 1 .. n
    BY <1>3, <1>8, <2>1, <2>2, <2>3 DEF RanksInv
  <2>4. CASE i \notin 1 .. n
    <3>1. results'[i] = new
      BY <1>3, <2>4
    <3>2. p = pass
      BY <1>8, <3>1
    <3> QED BY <2>1, <2>2, <3>1, <3>2
  <2> QED BY <2>3, <2>4
<1>9. RanksInv'
  BY <1>7, <1>8 DEF RanksInv
<1>10. PassInv'
  <2>1. pass' = "exact" => \A i \in 1 .. Len(results') : results'[i].pass = "exact"
    BY <1>3, <1>4 DEF PassInv
  <2>2. ~(step' \in {"plan", "drain"} /\ pass' # "done")
    BY <1>1, <1>4
  <2> QED BY <2>1, <2>2 DEF PassInv
<1>11. \A i \in 1 .. Len(results') : results'[i].pass = pass =>
         \/ i \in 1 .. Len(results) /\ OfPass(i) /\ results'[i] = results[i]
         \/ results'[i].score = x.score
  BY <1>3 DEF OfPass
<1> QED BY <1>9, <1>10, <1>11

\* A plan that has run out returns nothing.
LEMMA OrderNil ==
  ASSUME PlanIInv, PassInv, RanksInv, pass # "done", UNCHANGED query, NEW onward, Return(Nil, onward)
  PROVE  OrderInv'
<1>1. /\ results' = results /\ step' = "plan"
      /\ pass' = IF pass = "exact" /\ Len(results) < K THEN "fuzzy" ELSE "done"
  BY DEF Return, End
<1>2. PassInv'
  BY <1>1 DEF PassInv, OfPass
<1>3. RanksInv'
  BY <1>1, SameOrder
<1> QED BY <1>1, <1>2, <1>3 DEF OrderInv, CandidatesInv, BoundInv, LowestInv

\* What a child of MergeTopK or of UnionSortedByID returns comes before what it
\* has left.
LEMMA ReturnsFirst ==
  ASSUME QueryTyped, NEW p, NEW t \in Term, NEW S, S \subseteq [doc : Docs, word : Word],
         NEW x, Returns(p, t, S, x)
  PROVE  \A y \in S : /\ p.name = "topK" => Sequential(t, y) <= Sequential(t, x)
                      /\ p.name = "union" => x.doc <= y.doc
<1> SUFFICES ASSUME NEW y \in S
             PROVE  /\ p.name = "topK" => Sequential(t, y) <= Sequential(t, x)
                    /\ p.name = "union" => x.doc <= y.doc
  OBVIOUS
<1>1. x \in S /\ Precedes(p, t, x, y)
  BY DEF Returns
<1>2. Sequential(t, x) \in Nat /\ Sequential(t, y) \in Nat
  BY <1>1, SequentialType
<1>3. x.doc \in Nat /\ y.doc \in Nat
  BY <1>1, PlanConstants
<1>4. p.name = "topK" => Sequential(t, x) > Sequential(t, y) \/ Sequential(t, x) = Sequential(t, y)
  BY <1>1 DEF Precedes
<1>5. p.name = "union" => x.doc < y.doc \/ x.doc = y.doc
  BY <1>1 DEF Precedes
<1> QED BY <1>2, <1>3, <1>4, <1>5

\* A query starts without a result out of order.
LEMMA OrderStarts == PlanInit => OrderInv
<1> SUFFICES ASSUME PlanInit PROVE OrderInv
  OBVIOUS
<1>1. step = "plan" /\ results = <<>>
  BY DEF PlanInit
<1>2. 1 .. Len(results) = {}
  BY <1>1
<1> QED BY <1>1, <1>2 DEF OrderInv, PassInv, CandidatesInv, BoundInv, LowestInv, RanksInv, OfPass

\* A plan that is opened keeps the order.
LEMMA OpenOrder == ASSUME PlanIInv, OrderInv, Open PROVE OrderInv'
<1>1. /\ step = "plan" /\ pass # "done" /\ UNCHANGED query /\ pass' = pass /\ results' = results
      /\ current' = Nil /\ found' = {}
      /\ step' = IF plan'.name = "topK" THEN "call" ELSE "drain"
  BY DEF Open
<1>2. PICK a \in [Term -> Item] :
        /\ IF plan'.name \in {"topK", "union"}
           THEN \A t \in Term : Returns(plan', t, Items(pass, t), a[t])
           ELSE a = [t \in Term |-> Nil]
        /\ ahead' = a
        /\ input' = [t \in Term |-> Items(pass, t) \ {a[t]}]
  BY DEF Open
<1>3. \A i : ~OfPass(i)
  BY <1>1 DEF OrderInv, PassInv
<1>4. \A i : ~OfPass(i)'
  BY <1>1, <1>3 DEF OfPass
<1>5. PassInv'
  BY <1>1, <1>4 DEF OrderInv, PassInv
<1>6. RanksInv'
  BY <1>1, SameOrder DEF OrderInv
<1>7. ASSUME NEW t \in Term, NEW y \in input'[t]
      PROVE  /\ plan'.name = "topK" => Sequential(t, y) <= Sequential(t, a[t])
             /\ plan'.name = "union" => a[t].doc <= y.doc
  <2>1. y \in Items(pass, t)
    BY <1>2, <1>7
  <2>2. Items(pass, t) \subseteq [doc : Docs, word : Word]
    BY ItemsAre
  <2>3. plan'.name \in {"topK", "union"} => Returns(plan', t, Items(pass, t), a[t])
    BY <1>2
  <2> DEFINE q == plan'
  <2> HIDE DEF q
  <2>4. q.name \in {"topK", "union"} => Returns(q, t, Items(pass, t), a[t])
    BY <2>3 DEF q
  <2>5. /\ q.name = "topK" => Sequential(t, y) <= Sequential(t, a[t])
        /\ q.name = "union" => a[t].doc <= y.doc
    BY <2>1, <2>2, <2>4, ReturnsFirst DEF PlanIInv
  <2> QED BY <2>5 DEF q
<1>8. BoundInv'
  <2>1. \A t \in Term : \A y \in input'[t] : plan'.name = "topK" => Sequential(t, y)' <= Sequential(t, ahead[t])'
    BY <1>1, <1>2, <1>7 DEF Sequential, query
  <2> QED BY <1>1, <1>4, <2>1 DEF BoundInv
<1>9. CandidatesInv' /\ LowestInv'
  BY <1>1, <1>2, <1>7 DEF CandidatesInv, LowestInv
<1> QED BY <1>5, <1>6, <1>8, <1>9 DEF OrderInv

\* An operator below SortByScore finds records, none with less than its least
\* score.
LEMMA DrainOrder ==
  ASSUME PlanIInv, OrderInv, step = "drain", step' = "drain", UNCHANGED query,
         pass' = pass, plan' = plan, results' = results,
         \A y \in found' : y \in found \/ Least(pass, y.doc) <= y.score,
         LowestInv'
  PROVE  OrderInv'
<1>1. PassInv'
  BY DEF OrderInv, PassInv, OfPass
<1>2. RanksInv'
  BY SameOrder DEF OrderInv
<1>3. CandidatesInv'
  <2>1. \A y \in found' : Least(pass, y.doc) <= y.score
    BY DEF OrderInv, CandidatesInv
  <2>2. \A d : Least(pass, d)' = Least(pass, d)
    BY SameScores
  <2> QED BY <2>1, <2>2 DEF CandidatesInv
<1>4. BoundInv'
  BY DEF BoundInv
<1> QED BY <1>1, <1>2, <1>3, <1>4 DEF OrderInv

\* The records are sorted; none has been returned.
LEMMA SortOrder == ASSUME PlanIInv, OrderInv, step = "drain", Sort PROVE OrderInv'
<1>1. /\ step' = "sorted" /\ UNCHANGED query /\ pass' = pass /\ plan' = plan
      /\ found' = found /\ results' = results
  BY DEF Sort
<1>2. \A i : ~OfPass(i) /\ ~OfPass(i)'
  <2>1. pass # "done"
    BY DEF PlanIInv, PlanInv
  <2> QED BY <1>1, <2>1 DEF OrderInv, PassInv, OfPass
<1>3. PassInv'
  BY <1>1 DEF OrderInv, PassInv
<1>4. RanksInv'
  BY <1>1, SameOrder DEF OrderInv
<1>5. CandidatesInv'
  <2>1. \A d : Least(pass, d)' = Least(pass, d)
    BY <1>1, SameScores
  <2> QED BY <1>1, <1>2, <2>1 DEF OrderInv, CandidatesInv
<1>6. BoundInv' /\ LowestInv'
  BY <1>1 DEF BoundInv, LowestInv
<1> QED BY <1>3, <1>4, <1>5, <1>6 DEF OrderInv

\* MergeByShortestList adds no record below its least score.
LEMMA ShortestNextOrder == ASSUME PlanIInv, OrderInv, ShortestNext PROVE OrderInv'
<1> DEFINE t == plan.scan
<1>1. /\ plan.name = "shortest" /\ step = "drain" /\ input[t] # {}
      /\ UNCHANGED query /\ pass' = pass /\ plan' = plan /\ step' = step /\ ahead' = ahead
      /\ results' = results
  BY DEF ShortestNext, Drain
<1>2. PICK x \in Item :
        /\ Read(t, x)
        /\ found' = IF \A u \in Term \ {t} : Verified(u, x.doc)
                    THEN found \cup {[doc |-> x.doc, score |-> AndScore(t, x)]}
                    ELSE found
  BY DEF ShortestNext
<1>3. t \in Term /\ kind = "and"
  BY <1>1 DEF PlanIInv, PlanInv
<1>4. x \in Items(pass, t)
  BY <1>1, <1>2, <1>3, ReadItem
<1> HIDE DEF t
<1>5. ASSUME NEW y \in found' PROVE y \in found \/ Least(pass, y.doc) <= y.score
  <2>1. CASE \A u \in Term \ {t} : Verified(u, x.doc)
    <3>1. Least(pass, x.doc) <= AndScore(t, x)
      BY <1>3, <1>4, <2>1, AndScoreAbove DEF PlanIInv
    <3> QED BY <1>2, <1>5, <2>1, <3>1
  <2>2. CASE ~\A u \in Term \ {t} : Verified(u, x.doc)
    BY <1>2, <1>5, <2>2
  <2> QED BY <2>1, <2>2
<1>6. LowestInv'
  BY <1>1 DEF LowestInv
<1> QED BY <1>1, <1>5, <1>6, DrainOrder

\* MergeSortedByID adds nothing while it looks for a record ...
LEMMA ByIdOrder == ASSUME PlanIInv, OrderInv, ByIdStart \/ ByIdNext PROVE OrderInv'
<1>1. /\ plan.name = "byId" /\ step = "drain" /\ UNCHANGED query /\ pass' = pass /\ plan' = plan
      /\ step' = step /\ found' = found /\ results' = results
  BY DEF ByIdStart, ByIdNext, Drain
<1>2. LowestInv'
  BY <1>1 DEF LowestInv
<1> QED BY <1>1, <1>2, DrainOrder

\* ... and no record below its least score once it is found.
LEMMA ByIdFoundOrder == ASSUME PlanIInv, OrderInv, ByIdFound PROVE OrderInv'
<1> DEFINE f == [t \in Term |-> Sequential(t, current.items[t])]
           new == [doc |-> current.doc, score |-> SumFunction(f)]
<1>1. /\ plan.name = "byId" /\ step = "drain" /\ current # Nil /\ DOMAIN current.items = Term
      /\ found' = found \cup {new}
      /\ UNCHANGED query /\ pass' = pass /\ plan' = plan /\ step' = step /\ results' = results
  BY DEF ByIdFound, Drain
<1>2. /\ kind = "and" /\ current.doc \in Docs
      /\ \A t \in Term : current.items[t] \in Items(pass, t) /\ current.items[t].doc = current.doc
  BY <1>1 DEF PlanIInv, PlanInv, ByIdInv
<1>3. SumFunction(f) = SumFunctionOnSet(f, Term)
  BY DEF SumFunction
<1>4. \A t \in Term : f[t] \in Nat
  BY <1>2, ItemsAre, SequentialType DEF PlanIInv
<1>5. \A t \in Term : Low(pass, t, current.doc) <= f[t]
  BY <1>2, LowBelow DEF PlanIInv
<1>6. \A t \in Term : Hits(pass, t, current.doc) # {}
  BY <1>2, ItemsAre
<1>7. new.doc = current.doc /\ new.score = SumFunction(f)
  OBVIOUS
<1> HIDE DEF f, new
<1>8. Least(pass, current.doc) <= SumFunctionOnSet(f, Term)
  BY <1>2, <1>4, <1>5, <1>6, LeastBelow DEF PlanIInv
<1>9. \A y \in found' : y \in found \/ Least(pass, y.doc) <= y.score
  BY <1>1, <1>3, <1>7, <1>8
<1>10. LowestInv'
  BY <1>1 DEF LowestInv
<1> QED BY <1>1, <1>9, <1>10, DrainOrder

\* UnionSortedByID: a child goes on.
LEMMA UnionReads ==
  ASSUME PlanIInv, LowestInv, plan.name = "union", step = "drain", NEW t \in Term, NEW x,
         Returns(plan, t, input[t], x), NEW S, S = input[t] \ {x}
  PROVE  \A y \in S : x.doc <= y.doc
<1>1. input[t] \subseteq [doc : Docs, word : Word]
  BY DEF PlanIInv, ChildrenInv
<1> QED BY <1>1, ReturnsFirst DEF PlanIInv

\* UnionSortedByID keeps the lowest ids ahead when it passes over a record ...
LEMMA UnionSkipOrder == ASSUME PlanIInv, OrderInv, UnionSkip PROVE OrderInv'
<1>1. /\ plan.name = "union" /\ step = "drain"
      /\ UNCHANGED query /\ pass' = pass /\ plan' = plan /\ step' = step
      /\ found' = found /\ results' = results
  BY DEF UnionSkip, Drain
<1>2. PICK t \in Term, x \in Item : Read(t, x) /\ ahead' = [ahead EXCEPT ![t] = x]
  BY DEF UnionSkip
<1>3. /\ Returns(plan, t, input[t], x) /\ input' = [input EXCEPT ![t] = @ \ {x}]
      /\ input \in [Term -> SUBSET [doc : Docs, word : Word]] /\ ahead \in [Term -> Item]
  BY <1>1, <1>2 DEF Read, PlanIInv, ChildrenInv
<1>4. /\ input'[t] = input[t] \ {x} /\ ahead'[t] = x
      /\ \A u \in Term : u # t => input'[u] = input[u] /\ ahead'[u] = ahead[u]
  BY <1>2, <1>3
<1>5. \A y \in input'[t] : x.doc <= y.doc
  BY <1>1, <1>3, <1>4, UnionReads DEF OrderInv
<1>6. LowestInv'
  BY <1>1, <1>4, <1>5 DEF OrderInv, LowestInv
<1> QED BY <1>1, <1>6, DrainOrder

\* ... and gives the record with the lowest id the highest of its scores.
LEMMA UnionNextOrder == ASSUME PlanIInv, OrderInv, UnionNext PROVE OrderInv'
<1> DEFINE docs == {ahead[t].doc : t \in Term} \ {Nil.doc}
           d == Min(docs)
           having == {t \in Term : ahead[t].doc = d}
           T == {Sequential(t, ahead[t]) : t \in having}
           new == [doc |-> d, score |-> Max(T)]
<1>1. /\ plan.name = "union" /\ step = "drain" /\ docs # {} /\ docs \cap seen = {}
      /\ found' = found \cup {new}
      /\ UNCHANGED query /\ pass' = pass /\ plan' = plan /\ step' = step /\ results' = results
  BY DEF UnionNext, Drain
<1>2. PICK a \in [having -> Item] :
        /\ \A t \in having : Returns(plan, t, input[t], a[t])
        /\ ahead' = [t \in Term |-> IF t \in having THEN a[t] ELSE ahead[t]]
        /\ input' = [t \in Term |-> IF t \in having THEN input[t] \ {a[t]} ELSE input[t]]
  BY DEF UnionNext
<1>3. /\ kind = "or"
      /\ input \in [Term -> SUBSET [doc : Docs, word : Word]] /\ ahead \in [Term -> Item]
      /\ \A t \in Term : ahead[t] # Nil => ahead[t] \in Items(pass, t)
      /\ \A t \in Term :
           /\ ahead[t] = Nil => input[t] = {}
           /\ \A x \in Items(pass, t) : x \in input[t] \/ x = ahead[t] \/ x.doc \in seen
  BY <1>1 DEF PlanIInv, PlanInv, ChildrenInv
<1>4. docs \subseteq Docs /\ docs \subseteq Nat
  <2>1. \A t \in Term : ahead[t] \in Item
    BY <1>3
  <2>2. docs \subseteq Docs
    BY <2>1, NilIs
  <2> QED BY <2>2, PlanConstants
<1>5. d \in docs /\ \A e \in docs : d <= e
  BY <1>1, <1>4, LeastNumber
<1>6. /\ d \in Docs /\ d \in Nat /\ d # Nil.doc /\ d \notin seen /\ having \subseteq Term
      /\ \A t \in having : ahead[t] \in Items(pass, t) /\ ahead[t].doc = d
  BY <1>1, <1>3, <1>4, <1>5
\* Every child that has the record has read it ahead.
<1>7. ASSUME NEW t \in Term, NEW x \in Items(pass, t), x.doc = d PROVE t \in having
  <2>1. CASE x = ahead[t]
    BY <1>7, <2>1
  <2>2. CASE x # ahead[t]
    <3>1. x \in input[t]
      BY <1>3, <1>6, <1>7, <2>2
    <3>2. ahead[t].doc <= d
      BY <1>1, <1>7, <3>1 DEF OrderInv, LowestInv
    <3>3. ahead[t] # Nil
      BY <1>3, <3>1
    <3>4. ahead[t].doc \in docs
      BY <1>3, <3>3, NilIs
    <3>5. ahead[t].doc \in Nat /\ d <= ahead[t].doc
      BY <1>4, <1>5, <3>4
    <3> QED BY <1>6, <3>2, <3>5
  <2> QED BY <2>1, <2>2
<1>8. Matches(pass, d)
  <2>1. PICK t \in Term : ahead[t].doc = d
    BY <1>5
  <2>2. ahead[t] # Nil
    BY <1>6, <2>1
  <2> QED BY <1>3, <1>6, <2>1, <2>2, ItemsAre DEF Matches
<1>9. new.doc = d /\ new.score = Max(T)
  OBVIOUS
<1>10. T \subseteq Nat /\ IsFiniteSet(T)
  <2>1. \A t \in having : Sequential(t, ahead[t]) \in Nat
    BY <1>6, ItemsAre, SequentialType DEF PlanIInv
  <2>2. IsFiniteSet(having)
    BY <1>6, PlanConstants, FS_Subset
  <2> DEFINE g == [t \in having |-> Sequential(t, ahead[t])]
  <2>3. g \in Surjection(having, T)
    <3> HIDE DEF having
    <3> QED BY DEF Surjection
  <2>4. T \subseteq Nat
    BY <2>1
  <2> HIDE DEF having, T, g
  <2> QED BY <2>2, <2>3, <2>4, FS_Surjection
<1>11. Least(pass, d) <= Max(T)
  <2>1. PICK t \in Term : \E x \in Items(pass, t) : x.doc = d /\ Least(pass, d) = Low(pass, t, d)
    BY <1>3, <1>6, <1>8, LeastOr DEF PlanIInv
  <2>2. t \in having /\ Least(pass, d) = Low(pass, t, d)
    BY <1>7, <2>1
  <2>3. Low(pass, t, d) \in Nat /\ Low(pass, t, d) <= Sequential(t, ahead[t])
    BY <1>6, <2>2, LowBelow DEF PlanIInv
  <2>4. Sequential(t, ahead[t]) \in T
    BY <2>2
  <2> HIDE DEF T
  <2>5. Max(T) \in Nat /\ Sequential(t, ahead[t]) \in Nat /\ Sequential(t, ahead[t]) <= Max(T)
    BY <1>10, <2>4, GreatestNumber
  <2> QED BY <2>2, <2>3, <2>5
<1> HIDE DEF new, T, having, d, docs
<1>12. \A y \in found' : y \in found \/ Least(pass, y.doc) <= y.score
  BY <1>1, <1>9, <1>11
<1>13. LowestInv'
  <2> SUFFICES ASSUME NEW t \in Term, NEW y \in input'[t] PROVE ahead'[t].doc <= y.doc
    BY <1>1 DEF LowestInv
  <2>1. CASE t \in having
    <3>1. /\ ahead'[t] = a[t] /\ input'[t] = input[t] \ {a[t]}
          /\ Returns(plan, t, input[t], a[t])
      BY <1>2, <2>1
    <3> QED BY <1>1, <3>1, UnionReads DEF OrderInv
  <2>2. CASE t \notin having
    BY <1>1, <1>2, <2>2 DEF OrderInv, LowestInv
  <2> QED BY <2>1, <2>2
<1> QED BY <1>1, <1>12, <1>13, DrainOrder

\* The order survives the end of a list.
LEMMA EndsOrder ==
  ASSUME PlanIInv, OrderInv, ShortestEnd \/ ByIdEnd \/ UnionEnd PROVE OrderInv'
BY SortOrder DEF ShortestEnd, ByIdEnd, UnionEnd, Drain

\* SortByScore returns the best record left.
LEMMA SortedNextOrder == ASSUME PlanIInv, OrderInv, SortedNext PROVE OrderInv'
<1> DEFINE x == IF found = {} THEN Nil ELSE Best(found)
<1>1. step = "sorted" /\ found' = found \ {x} /\ Return(x, "sorted") /\ UNCHANGED query
  BY DEF SortedNext
<1>2. pass # "done"
  BY <1>1 DEF PlanIInv, PlanInv
<1>3. found # {} => /\ x \in found /\ x \in Scored /\ Matches(pass, x.doc)
                    /\ \A y \in found : y.score <= x.score
  <2>1. found # {} => x \in found /\ \A y \in found : y.score <= x.score
    <3>1. IsFiniteSet(found) /\ \A y \in found : y \in [doc : Nat, score : Nat]
      BY PlanConstants DEF PlanIInv, QueryTyped, Scored
    <3> QED BY <3>1, BestExists
  <2> HIDE DEF x
  <2> QED BY <1>1, <2>1 DEF PlanIInv, QueryTyped, FoundInv
<1>4. found = {} => x = Nil
  OBVIOUS
<1> HIDE DEF x
<1>5. CASE found = {}
  <2>1. Return(Nil, "sorted")
    BY <1>1, <1>4, <1>5
  <2> QED BY <1>1, <1>2, <2>1, OrderNil DEF OrderInv
<1>6. CASE found # {}
  <2>1. \A i \in 1 .. Len(results) : OfPass(i) => x.score <= results[i].score
    BY <1>1, <1>3, <1>6 DEF OrderInv, CandidatesInv
  <2>2. ASSUME NEW d \in Docs, Matches(pass, d), d \notin Returned, d # x.doc
        PROVE  Least(pass, d) <= x.score
    <3>1. PICK y \in found : y.doc = d
      BY <1>1, <2>2 DEF PlanIInv, SortedInv, InFound
    <3>2. Least(pass, d) <= y.score /\ y.score <= x.score
      BY <1>1, <1>3, <1>6, <3>1 DEF OrderInv, CandidatesInv
    <3>3. Least(pass, d) \in Nat /\ y.score \in Nat /\ x.score \in Nat
      BY <1>3, <1>6, <2>2, <3>1, LeastType DEF PlanIInv, QueryTyped, Scored
    <3> QED BY <3>2, <3>3
  <2>3. /\ RanksInv' /\ PassInv'
        /\ \A i \in 1 .. Len(results') : results'[i].pass = pass =>
             \/ i \in 1 .. Len(results) /\ OfPass(i) /\ results'[i] = results[i]
             \/ results'[i].score = x.score
    BY <1>1, <1>2, <1>3, <1>6, <2>1, <2>2, OrderReturn DEF OrderInv
  <2>4. \/ pass' = "done" /\ step' = "plan"
        \/ pass' = pass /\ step' = "sorted"
    BY <1>1, <1>2, <1>3, <1>6, ReturnSome DEF PlanIInv
  <2>5. CandidatesInv'
    <3> SUFFICES ASSUME step' = "sorted", pass' = pass, NEW y \in found'
                 PROVE  /\ Least(pass, y.doc)' <= y.score
                        /\ \A i \in 1 .. Len(results') : OfPass(i)' => y.score <= results'[i].score
      BY <2>4 DEF CandidatesInv
    <3>1. y \in found /\ Least(pass, y.doc) <= y.score
      BY <1>1 DEF OrderInv, CandidatesInv
    <3>2. Least(pass, y.doc)' = Least(pass, y.doc)
      BY <1>1, SameScores
    <3>3. ASSUME NEW i \in 1 .. Len(results'), OfPass(i)' PROVE y.score <= results'[i].score
      <4>1. results'[i].pass = pass
        BY <3>3 DEF OfPass
      <4> QED BY <1>1, <1>3, <1>6, <2>3, <3>1, <4>1 DEF OrderInv, CandidatesInv
    <3> QED BY <3>1, <3>2, <3>3
  <2>6. BoundInv' /\ LowestInv'
    BY <2>4 DEF BoundInv, LowestInv
  <2> QED BY <2>3, <2>5, <2>6 DEF OrderInv
<1> QED BY <1>5, <1>6

\* What children of MergeTopK have read ahead (a), have left (in) and have shown
\* (s): every item is in one of these, the best ones ahead.
Ranked(a, in, s) ==
  \A u \in Term :
    /\ a[u] \in Item /\ in[u] \subseteq Items(pass, u)
    /\ a[u] = Nil => in[u] = {}
    /\ a[u] # Nil => a[u] \in Items(pass, u)
    /\ \A x \in Items(pass, u) : x \in in[u] \/ x = a[u] \/ x.doc \in s
    /\ \A y \in in[u] : Sequential(u, y) <= Sequential(u, a[u])

\* MergeTopK keeps its children in that order.
LEMMA TopRanked ==
  ASSUME PlanIInv, OrderInv, step \in {"call", "loop"} PROVE Ranked(ahead, input, seen)
<1>1. plan.name = "topK"
  BY DEF PlanIInv, PlanInv
<1> QED BY <1>1 DEF PlanIInv, ChildrenInv, OrderInv, BoundInv, Ranked

\* A child reads on.
LEMMA RankedStep ==
  ASSUME PlanIInv, NEW a, NEW in, NEW s, Ranked(a, in, s),
         NEW p, p.name = "topK", NEW t \in Term, NEW y \in Item, Returns(p, t, in[t], y),
         NEW b, NEW jn, NEW r, s \subseteq r, a[t] # Nil => a[t].doc \in r,
         b[t] = y /\ jn[t] = in[t] \ {y}, \A u \in Term : u # t => b[u] = a[u] /\ jn[u] = in[u]
  PROVE  /\ Ranked(b, jn, r)
         /\ b[t] # Nil => a[t] # Nil /\ Sequential(t, b[t]) <= Sequential(t, a[t])
<1>1. /\ a[t] \in Item /\ in[t] \subseteq Items(pass, t)
      /\ a[t] = Nil => in[t] = {}
      /\ a[t] # Nil => a[t] \in Items(pass, t)
      /\ \A x \in Items(pass, t) : x \in in[t] \/ x = a[t] \/ x.doc \in s
      /\ \A z \in in[t] : Sequential(t, z) <= Sequential(t, a[t])
  BY DEF Ranked
<1>2. in[t] \subseteq [doc : Docs, word : Word] /\ Nil \notin in[t] /\ Nil \notin Items(pass, t)
  BY <1>1, ItemsAre
<1>3. (y = Nil <=> in[t] = {}) /\ (y # Nil => y \in in[t])
  BY <1>2 DEF Returns
<1>4. \A z \in in[t] : Sequential(t, z) <= Sequential(t, y)
  BY <1>2, ReturnsFirst DEF PlanIInv
<1>5. /\ b[t] \in Item /\ jn[t] \subseteq Items(pass, t)
      /\ b[t] = Nil => jn[t] = {}
      /\ b[t] # Nil => b[t] \in Items(pass, t)
      /\ \A x \in Items(pass, t) : x \in jn[t] \/ x = b[t] \/ x.doc \in r
      /\ \A z \in jn[t] : Sequential(t, z) <= Sequential(t, b[t])
  <2>1. ASSUME NEW x \in Items(pass, t) PROVE x \in jn[t] \/ x = b[t] \/ x.doc \in r
    <3>1. x # Nil
      BY <1>2
    <3> QED BY <1>1, <3>1
  <2> QED BY <1>1, <1>3, <1>4, <2>1
<1>6. ASSUME NEW u \in Term, u # t
      PROVE  /\ b[u] \in Item /\ jn[u] \subseteq Items(pass, u)
             /\ b[u] = Nil => jn[u] = {}
             /\ b[u] # Nil => b[u] \in Items(pass, u)
             /\ \A x \in Items(pass, u) : x \in jn[u] \/ x = b[u] \/ x.doc \in r
             /\ \A z \in jn[u] : Sequential(u, z) <= Sequential(u, b[u])
  <2>1. b[u] = a[u] /\ jn[u] = in[u]
    BY <1>6
  <2> QED BY <2>1 DEF Ranked
<1>7. Ranked(b, jn, r)
  BY <1>5, <1>6 DEF Ranked
<1>8. b[t] # Nil => a[t] # Nil /\ Sequential(t, b[t]) <= Sequential(t, a[t])
  BY <1>1, <1>3
<1> QED BY <1>7, <1>8

\* A record that matches and that no child has shown is worth no more than the
\* bound.
LEMMA Unseen ==
  ASSUME QueryTyped, kind = "and", NEW a, NEW in, NEW s, Ranked(a, in, s),
         NEW d \in Docs, Matches(pass, d), d \notin s
  PROVE  /\ Unread(a)
         /\ \A u \in Term : a[u] \in [doc : Docs, word : Word]
         /\ \A u \in Term : \A y \in Items(pass, u) : y.doc = d => Sequential(u, y) <= Sequential(u, a[u])
         /\ Least(pass, d) \in Nat /\ Bound(a) \in Nat /\ Least(pass, d) <= Bound(a)
<1>1. ASSUME NEW u \in Term PROVE a[u] # Nil /\ a[u] \in [doc : Docs, word : Word]
  <2>1. Hits(pass, u, d) # {}
    BY DEF Matches
  <2>2. PICK x \in Items(pass, u) : x.doc = d
    BY <2>1, ItemsAre
  <2>3. x \in in[u] \/ x = a[u]
    BY <2>2 DEF Ranked
  <2>4. a[u] # Nil
    BY <2>2, <2>3, ItemsAre DEF Ranked
  <2>5. a[u] \in Items(pass, u)
    BY <2>4 DEF Ranked
  <2> QED BY <2>4, <2>5, ItemsAre
<1>2. ASSUME NEW u \in Term, NEW y \in Items(pass, u), y.doc = d
      PROVE  Sequential(u, y) <= Sequential(u, a[u])
  <2>1. y \in in[u] \/ y = a[u]
    BY <1>2 DEF Ranked
  <2>2. y \in [doc : Docs, word : Word]
    BY ItemsAre
  <2>3. Sequential(u, y) \in Nat
    BY <2>2, SequentialType
  <2>4. CASE y = a[u]
    BY <2>3, <2>4
  <2>5. CASE y \in in[u]
    BY <2>5 DEF Ranked
  <2> QED BY <2>1, <2>4, <2>5
<1>3. Unread(a)
  BY <1>1 DEF Unread
<1>4. Least(pass, d) \in Nat /\ Bound(a) \in Nat /\ Least(pass, d) <= Bound(a)
  BY <1>1, <1>2, LeastBelowBound
<1> QED BY <1>1, <1>2, <1>3, <1>4

\* BoundBelow() is about the bound.
LEMMA BoundBelowIs == \A a, x : BoundBelow(a, x) <=> Bound(a) < x.score
BY DEF BoundBelow, Bound

\* The order survives a call of MergeTopK: a candidate above the bound is
\* better than what no child has shown.
LEMMA TopCallOrder == ASSUME PlanIInv, OrderInv, TopCall PROVE OrderInv'
<1> DEFINE x == IF found = {} THEN Nil ELSE Best(found)
           left == IF found = {} THEN more ELSE more /\ Unread(ahead)
<1>1. /\ plan.name = "topK" /\ step = "call" /\ found' = found \ {x} /\ more' = left
      /\ IF ~left \/ (x # Nil /\ BoundBelow(ahead, x))
         THEN Return(x, "call") /\ UNCHANGED current
         ELSE step' = "loop" /\ current' = x /\ UNCHANGED <<results, pass, plan>>
      /\ UNCHANGED query /\ input' = input /\ ahead' = ahead /\ seen' = seen
  BY DEF TopCall
<1>2. /\ kind = "and" /\ pass # "done" /\ current = Nil /\ more \in BOOLEAN /\ QueryTyped
      /\ static' = static /\ kind' = kind
  BY <1>1, SameQuery DEF PlanIInv, PlanInv, TopInv, QueryTyped
<1>3. found # {} => /\ x \in found /\ x \in Scored /\ x # Nil /\ Matches(pass, x.doc)
                    /\ \A y \in found : y.score <= x.score
  <2>1. found # {} => x \in found /\ \A y \in found : y.score <= x.score
    <3>1. IsFiniteSet(found) /\ \A y \in found : y \in [doc : Nat, score : Nat]
      BY PlanConstants DEF PlanIInv, QueryTyped, Scored
    <3> QED BY <3>1, BestExists
  <2> HIDE DEF x
  <2> QED BY <1>1, <2>1, NilIs DEF PlanIInv, QueryTyped, FoundInv
<1>4. found = {} => x = Nil
  OBVIOUS
<1>5. found # {} /\ ~left => ~Unread(ahead)
  BY <1>1, <1>2 DEF PlanIInv, TopInv, Unread
<1> HIDE DEF x, left
<1>6. \A y \in found : /\ Least(pass, y.doc) <= y.score
                       /\ \A i \in 1 .. Len(results) : OfPass(i) => y.score <= results[i].score
  BY <1>1 DEF OrderInv, CandidatesInv
<1>7. /\ \A t \in Term : \A y \in input[t] : Sequential(t, y) <= Sequential(t, ahead[t])
      /\ Unread(ahead) => \A i \in 1 .. Len(results) : OfPass(i) => Bound(ahead) <= results[i].score
  BY <1>1 DEF OrderInv, BoundInv
<1>8. /\ \A t \in Term : \A y \in input'[t] : Sequential(t, y)' <= Sequential(t, ahead[t])'
      /\ Bound(ahead)' = Bound(ahead) /\ (Unread(ahead)' <=> Unread(ahead))
  <2>1. \A t \in Term : Sequential(t, ahead[t])' = Sequential(t, ahead[t])
    BY <1>1, <1>2 DEF Sequential
  <2>2. \A t, y : Sequential(t, y)' = Sequential(t, y)
    BY <1>1, SameScores
  <2>3. Bound(ahead)' = Bound(ahead)
    BY <1>1, <1>2, Zenon DEF Bound, Sequential
  <2> QED BY <1>1, <1>7, <2>1, <2>2, <2>3 DEF Unread
<1>9. CASE ~left \/ (x # Nil /\ BoundBelow(ahead, x))
  <2>1. Return(x, "call") /\ current' = Nil
    BY <1>1, <1>2, <1>9
  <2>2. CASE found = {}
    <3>1. Return(Nil, "call")
      BY <1>4, <2>1, <2>2
    <3> QED BY <1>1, <1>2, <3>1, OrderNil DEF OrderInv
  <2>3. CASE found # {}
    <3>0. x.score \in Nat /\ \A y \in found : y.score \in Nat /\ y.doc \in Docs /\ Matches(pass, y.doc)
      BY <1>1, <1>3, <2>3 DEF PlanIInv, QueryTyped, Scored, FoundInv
    <3>1. \A i \in 1 .. Len(results) : OfPass(i) => x.score <= results[i].score
      BY <1>3, <1>6, <2>3
    <3>2. Unread(ahead) => Bound(ahead) < x.score
      BY <1>5, <1>9, <2>3, BoundBelowIs
    <3>3. ASSUME NEW d \in Docs, Matches(pass, d), d \notin Returned, d # x.doc
          PROVE  Least(pass, d) <= x.score
      <4>1. CASE d \in seen
        <5>1. PICK y \in found : y.doc = d
          BY <1>1, <1>2, <3>3, <4>1 DEF PlanIInv, TopInv, InFound
        <5>2. Least(pass, d) \in Nat
          BY <1>2, <3>3, LeastType
        <5> QED BY <1>3, <1>6, <2>3, <3>0, <5>1, <5>2
      <4>2. CASE d \notin seen
        <5>1. Ranked(ahead, input, seen)
          BY <1>1, TopRanked
        <5>2. Unread(ahead) /\ Least(pass, d) \in Nat /\ Bound(ahead) \in Nat /\ Least(pass, d) <= Bound(ahead)
          BY <1>2, <3>3, <4>2, <5>1, Unseen
        <5> QED BY <3>0, <3>2, <5>2
      <4> QED BY <4>1, <4>2
    <3>4. /\ RanksInv' /\ PassInv'
          /\ \A i \in 1 .. Len(results') : results'[i].pass = pass =>
               \/ i \in 1 .. Len(results) /\ OfPass(i) /\ results'[i] = results[i]
               \/ results'[i].score = x.score
      BY <1>1, <1>2, <1>3, <2>1, <2>3, <3>1, <3>3, OrderReturn DEF OrderInv
    <3>5. \/ pass' = "done" /\ step' = "plan"
          \/ pass' = pass /\ step' = "call" /\ plan' = plan
      BY <1>1, <1>2, <1>3, <2>1, <2>3, ReturnSome DEF PlanIInv
    <3>6. CandidatesInv'
      <4> SUFFICES ASSUME step' = "call", pass' = pass, NEW y \in found'
                   PROVE  /\ Least(pass, y.doc)' <= y.score
                          /\ \A i \in 1 .. Len(results') : OfPass(i)' => y.score <= results'[i].score
        BY <3>5 DEF CandidatesInv
      <4>1. y \in found /\ Least(pass, y.doc) <= y.score /\ Least(pass, y.doc)' = Least(pass, y.doc)
        BY <1>1, <1>6, SameScores
      <4>2. ASSUME NEW i \in 1 .. Len(results'), OfPass(i)' PROVE y.score <= results'[i].score
        <5>1. results'[i].pass = pass
          BY <4>2 DEF OfPass
        <5> QED BY <1>3, <1>6, <2>3, <3>4, <4>1, <5>1
      <4> QED BY <4>1, <4>2
    <3>7. BoundInv'
      <4> SUFFICES ASSUME step' = "call", pass' = pass, Unread(ahead),
                          NEW i \in 1 .. Len(results'), OfPass(i)'
                   PROVE  Bound(ahead) <= results'[i].score
        BY <1>8, <2>1, <3>5 DEF BoundInv
      <4>1. results'[i].pass = pass
        BY DEF OfPass
      <4>2. CASE results'[i].score = x.score
        <5>1. Bound(ahead) \in Nat
          <6>1. \A u \in Term : ahead[u] \in [doc : Docs, word : Word]
            BY <1>1, NilIs DEF Unread, PlanIInv, ChildrenInv
          <6>2. \A u \in Term : Sequential(u, ahead[u]) <= Sequential(u, ahead[u])
            BY <1>2, <6>1, SequentialType
          <6> QED BY <1>2, <6>1, <6>2, BoundFalls
        <5> QED BY <3>0, <3>2, <4>2, <5>1
      <4>3. CASE i \in 1 .. Len(results) /\ OfPass(i) /\ results'[i] = results[i]
        BY <1>7, <4>3
      <4> QED BY <3>4, <4>1, <4>2, <4>3
    <3>8. LowestInv'
      BY <3>5 DEF LowestInv
    <3> QED BY <3>4, <3>6, <3>7, <3>8 DEF OrderInv
  <2> QED BY <2>2, <2>3
<1>10. CASE ~(~left \/ (x # Nil /\ BoundBelow(ahead, x)))
  <2>1. step' = "loop" /\ current' = x /\ results' = results /\ pass' = pass /\ plan' = plan
    BY <1>1, <1>10
  <2>2. RanksInv' /\ PassInv'
    BY <1>1, <2>1, SameOrder DEF OrderInv, PassInv, OfPass
  <2>3. /\ \A d : Least(pass, d)' = Least(pass, d)
        /\ \A i : OfPass(i)' <=> OfPass(i)
    BY <1>1, <2>1, SameScores DEF OfPass
  <2>4. CandidatesInv'
    BY <1>1, <1>6, <2>1, <2>3 DEF CandidatesInv
  <2>5. BoundInv'
    <3>1. ASSUME current' # Nil
          PROVE  /\ Least(pass, current.doc)' <= current'.score
                 /\ \A y \in found' : y.score <= current'.score
                 /\ \A i \in 1 .. Len(results') : OfPass(i)' => current'.score <= results'[i].score
      <4>1. found # {} /\ x \in found
        BY <1>3, <1>4, <2>1, <3>1
      <4>2. Least(pass, current.doc)' = Least(pass, x.doc)
        <5>1. Least(pass, current.doc)' = Least(pass, current'.doc)
          BY <1>2, <2>1, SameLeast
        <5> QED BY <2>1, <5>1
      <4> QED BY <1>1, <1>3, <1>6, <2>1, <2>3, <4>1, <4>2
    <3> QED BY <1>7, <1>8, <2>1, <2>3, <3>1 DEF BoundInv
  <2>6. LowestInv'
    BY <2>1 DEF LowestInv
  <2> QED BY <2>2, <2>4, <2>5, <2>6 DEF OrderInv
<1> QED BY <1>9, <1>10

\* The order survives a turn of MergeTopK: the record of the turn is worth no more
\* than the bound that every result of the pass reached, and the bound falls.
LEMMA TopVisitOrder == ASSUME PlanIInv, OrderInv, MildBoosts, TopVisit PROVE OrderInv'
<1>1. /\ plan.name = "topK" /\ step = "loop"
      /\ \E y \in Item : Read(turn, y) /\ ahead' = [ahead EXCEPT ![turn] = y]
      /\ seen' = IF Visited = Nil THEN seen ELSE seen \cup {Visited.doc}
      /\ found' = IF Considered THEN (found \cup {Visitor, current}) \ {Leader, Nil} ELSE found
      /\ IF Visited = Nil THEN Return(current, "call") /\ current' = Nil
         ELSE IF Considered /\ (~Unread(ahead') \/ BoundBelow(ahead', Leader))
         THEN Return(Leader, "call") /\ current' = Nil
         ELSE /\ current' = IF Considered THEN Leader ELSE current
              /\ UNCHANGED <<step, results, pass, plan>>
      /\ UNCHANGED query
  BY TopVisitIs
<1>2. /\ kind = "and" /\ pass # "done" /\ turn \in Term /\ QueryTyped
      /\ found \subseteq Scored /\ results \in Seq(Result)
      /\ ahead \in [Term -> Item] /\ (Visited # Nil => Visited \in Items(pass, turn))
      /\ Visited = Nil => input[turn] = {}
      /\ current # Nil => current \in Scored /\ Matches(pass, current.doc)
      /\ current = Nil => found = {}
      /\ Considered => Visitor \in Scored /\ Matches(pass, Visitor.doc) /\ Visitor # Nil
      /\ Considered => /\ Leader \in Scored /\ Matches(pass, Leader.doc) /\ Leader # Nil
                       /\ Leader = Visitor \/ Leader = current
  BY <1>1, VisitFrom DEF PlanIInv
<1>3. /\ seen \subseteq seen' /\ found' \subseteq Scored
      /\ \A z \in found' : Matches(pass, z.doc)
      /\ \A d \in seen' : Matches(pass, d) =>
           \/ d \in Returned
           \/ \E z \in found' : z.doc = d
           \/ IF Considered THEN Leader.doc = d ELSE current # Nil /\ current.doc = d
  BY VisitTo
<1>4. /\ kind' = kind /\ static' = static
      /\ \A i \in 1 .. Len(results) : results[i].score \in Nat
      /\ \A z \in Scored : z.score \in Nat /\ z.doc \in Docs
  <2>1. kind' = kind /\ static' = static
    BY <1>1, SameQuery
  <2>2. \A i \in 1 .. Len(results) : results[i] \in Result
    BY <1>2
  <2> QED BY <2>1, <2>2 DEF Result, Scored
<1>5. /\ \A z \in found : /\ Least(pass, z.doc) <= z.score
                          /\ \A i \in 1 .. Len(results) : OfPass(i) => z.score <= results[i].score
      /\ current # Nil =>
           /\ Least(pass, current.doc) <= current.score
           /\ \A z \in found : z.score <= current.score
           /\ \A i \in 1 .. Len(results) : OfPass(i) => current.score <= results[i].score
      /\ Unread(ahead) => \A i \in 1 .. Len(results) : OfPass(i) => Bound(ahead) <= results[i].score
  BY <1>1 DEF OrderInv, CandidatesInv, BoundInv
<1>6. PICK y \in Item : Read(turn, y) /\ ahead' = [ahead EXCEPT ![turn] = y]
  BY <1>1
<1>7. PICK b, jn, s : b = ahead' /\ jn = input' /\ s = seen'
  OBVIOUS
<1>8. /\ Returns(plan, turn, input[turn], y)
      /\ b[turn] = y /\ jn[turn] = input[turn] \ {y}
      /\ \A u \in Term : u # turn => b[u] = ahead[u] /\ jn[u] = input[u]
  <2>1. input \in [Term -> SUBSET [doc : Docs, word : Word]]
    BY <1>1 DEF PlanIInv, ChildrenInv
  <2> QED BY <1>2, <1>6, <1>7, <2>1 DEF Read
<1>9. Ranked(ahead, input, seen)
  BY <1>1, TopRanked
<1>10. /\ Ranked(b, jn, s)
       /\ \A u \in Term : b[u] # Nil => ahead[u] # Nil /\ Sequential(u, b[u]) <= Sequential(u, ahead[u])
  <2>1. seen \subseteq s /\ (ahead[turn] # Nil => ahead[turn].doc \in s)
    BY <1>1, <1>3, <1>7 DEF Visited
  <2>2. /\ Ranked(b, jn, s)
        /\ b[turn] # Nil => ahead[turn] # Nil /\ Sequential(turn, b[turn]) <= Sequential(turn, ahead[turn])
    <3>1. plan.name = "topK" /\ turn \in Term
      BY <1>1, <1>2
    <3> QED BY ONLY PlanIInv, <1>6, <1>8, <1>9, <2>1, <3>1, RankedStep
  <2>3. ASSUME NEW u \in Term, u # turn, b[u] # Nil
        PROVE  ahead[u] # Nil /\ Sequential(u, b[u]) <= Sequential(u, ahead[u])
    <3>1. b[u] = ahead[u]
      BY <1>8, <2>3
    <3>2. ahead[u] \in [doc : Docs, word : Word]
      BY <1>2, <2>3, <3>1, NilIs
    <3>3. Sequential(u, ahead[u]) \in Nat
      BY <1>2, <3>2, SequentialType
    <3> QED BY <2>3, <3>1, <3>3
  <2> QED BY <1>2, <2>2, <2>3
<1>11. ASSUME Considered
       PROVE  /\ Least(pass, Visitor.doc) <= Visitor.score
              /\ \A i \in 1 .. Len(results) : OfPass(i) => Visitor.score <= results[i].score
  <2>1. /\ Visited # Nil /\ Visited.doc \notin seen /\ Visited \in Items(pass, turn)
        /\ \A u \in Term \ {turn} : Verified(u, Visited.doc)
        /\ Visitor.doc = Visited.doc /\ Visitor.score = AndScore(turn, Visited)
        /\ Visited.doc \in Docs /\ Matches(pass, Visited.doc)
    BY <1>2, <1>4, <1>11 DEF Considered, Visitor
  <2>2. Least(pass, Visited.doc) <= AndScore(turn, Visited)
    BY <1>2, <2>1, AndScoreAbove
  <2>3. /\ Unread(ahead) /\ Bound(ahead) \in Nat
        /\ \A u \in Term : ahead[u] \in [doc : Docs, word : Word]
        /\ \A u \in Term : \A z \in Items(pass, u) : z.doc = Visited.doc => Sequential(u, z) <= Sequential(u, ahead[u])
    BY <1>2, <1>9, <2>1, Unseen
  <2>4. AndScore(turn, Visited) <= Bound(ahead)
    BY <1>2, <2>1, <2>3, AndScoreBelow DEF Visited
  <2>5. Visitor.score \in Nat
    BY <1>2, <1>4, <1>11
  <2> QED BY <1>4, <1>5, <2>1, <2>2, <2>3, <2>4, <2>5
<1>12. ASSUME Unread(b)
       PROVE  Bound(b) \in Nat /\ \A i \in 1 .. Len(results) : OfPass(i) => Bound(b) <= results[i].score
  <2>1. \A u \in Term : /\ b[u] # Nil /\ ahead[u] # Nil /\ b[u] \in Item /\ ahead[u] \in Item
                        /\ Sequential(u, b[u]) <= Sequential(u, ahead[u])
    BY <1>9, <1>10, <1>12 DEF Unread, Ranked
  <2>2. Unread(ahead) /\ \A u \in Term : /\ ahead[u] \in [doc : Docs, word : Word] /\ b[u] \in [doc : Docs, word : Word]
                        /\ Sequential(u, b[u]) <= Sequential(u, ahead[u])
    BY <2>1, NilIs DEF Unread
  <2>3. Bound(ahead) \in Nat /\ Bound(b) \in Nat /\ Bound(b) <= Bound(ahead)
    BY <1>2, <2>2, BoundFalls
  <2> QED BY <1>4, <1>5, <2>2, <2>3
<1>13. ASSUME Considered
       PROVE  /\ Least(pass, Leader.doc) <= Leader.score
              /\ \A i \in 1 .. Len(results) : OfPass(i) => Leader.score <= results[i].score
              /\ Visitor.score <= Leader.score
              /\ current # Nil => current.score <= Leader.score
              /\ \A z \in found : z.score <= Leader.score
  <2>1. Visitor.score \in Nat /\ (current # Nil => current.score \in Nat) /\ \A z \in found : z.score \in Nat
    BY <1>2, <1>4, <1>13
  <2>2. CASE current = Nil \/ current.score < Visitor.score
    <3>1. Leader = Visitor
      BY <2>2 DEF Leader
    <3>2. \A z \in found : z.score <= Visitor.score
      BY <1>2, <1>5, <2>1, <2>2
    <3> QED BY <1>11, <1>13, <2>1, <2>2, <3>1, <3>2
  <2>3. CASE ~(current = Nil \/ current.score < Visitor.score)
    <3>1. Leader = current
      BY <2>3 DEF Leader
    <3> QED BY <1>5, <2>1, <2>3, <3>1
  <2> QED BY <2>2, <2>3
<1>14. ASSUME NEW z \in found'
       PROVE  /\ Least(pass, z.doc) <= z.score
              /\ \A i \in 1 .. Len(results) : OfPass(i) => z.score <= results[i].score
              /\ Considered => z.score <= Leader.score
              /\ ~Considered /\ current # Nil => z.score <= current.score
  <2>1. CASE Considered
    <3>1. z \in found \/ z = Visitor \/ (z = current /\ current # Nil)
      BY <1>1, <1>14, <2>1
    <3> QED BY <1>5, <1>11, <1>13, <2>1, <3>1
  <2>2. CASE ~Considered
    BY <1>1, <1>5, <1>14, <2>2
  <2> QED BY <2>1, <2>2
<1>15. /\ \A t \in Term : \A z \in input'[t] : Sequential(t, z)' <= Sequential(t, ahead[t])'
       /\ Bound(ahead)' = Bound(b) /\ (Unread(ahead)' <=> Unread(b))
       /\ \A d : pass' = pass => Least(pass, d)' = Least(pass, d)
  <2>1. \A t, z : Sequential(t, z)' = Sequential(t, z)
    BY <1>1, SameScores
  <2>2. \A t \in Term : Sequential(t, ahead[t])' = Sequential(t, b[t])
    BY <1>4, <1>7 DEF Sequential
  <2>3. Bound(ahead)' = Bound(b)
    BY <1>4, <1>7, Zenon DEF Bound, Sequential
  <2>4. Unread(ahead)' <=> Unread(b)
    BY <1>7 DEF Unread
  <2>5. \A t \in Term : \A z \in jn[t] : Sequential(t, z) <= Sequential(t, b[t])
    BY <1>10 DEF Ranked
  <2>6. \A d : pass' = pass => Least(pass, d)' = Least(pass, d)
    BY <1>1, SameScores
  <2> QED BY <1>7, <2>1, <2>2, <2>3, <2>4, <2>5, <2>6
\* Record r, which is better than what is left, is returned.
<1>16. ASSUME NEW r \in Scored, Matches(pass, r.doc), Return(r, "call"), current' = Nil,
              IF Considered THEN Leader = r ELSE current = r /\ current # Nil,
              Unread(b) => Bound(b) < r.score
       PROVE  OrderInv'
  <2>1. /\ r.score \in Nat /\ r # Nil
        /\ \A i \in 1 .. Len(results) : OfPass(i) => r.score <= results[i].score
        /\ \A z \in found' : z.score <= r.score
    BY <1>4, <1>5, <1>13, <1>14, <1>16, NilIs
  <2>2. ASSUME NEW d \in Docs, Matches(pass, d), d \notin Returned, d # r.doc
        PROVE  Least(pass, d) <= r.score
    <3>1. Least(pass, d) \in Nat
      BY <1>2, <2>2, LeastType
    <3>2. CASE d \in seen'
      <4>1. PICK z \in found' : z.doc = d
        BY <1>3, <1>16, <2>2, <3>2
      <4>2. z.score \in Nat
        BY <1>3, <1>4
      <4> QED BY <1>14, <2>1, <3>1, <4>1, <4>2
    <3>3. CASE d \notin seen'
      <4>1. Unread(b) /\ Bound(b) \in Nat /\ Least(pass, d) <= Bound(b)
        BY <1>2, <1>7, <1>10, <2>2, <3>3, Unseen
      <4> QED BY <1>16, <2>1, <3>1, <4>1
    <3> QED BY <3>2, <3>3
  <2>3. /\ RanksInv' /\ PassInv'
        /\ \A i \in 1 .. Len(results') : results'[i].pass = pass =>
             \/ i \in 1 .. Len(results) /\ OfPass(i) /\ results'[i] = results[i]
             \/ results'[i].score = r.score
    BY <1>1, <1>2, <1>16, <2>1, <2>2, OrderReturn DEF OrderInv
  <2>4. \/ pass' = "done" /\ step' = "plan"
        \/ pass' = pass /\ step' = "call" /\ plan' = plan
    BY <1>1, <1>2, <1>16, ReturnSome DEF PlanIInv
  <2>5. CandidatesInv'
    <3> SUFFICES ASSUME step' = "call", pass' = pass, NEW z \in found'
                 PROVE  /\ Least(pass, z.doc)' <= z.score
                        /\ \A i \in 1 .. Len(results') : OfPass(i)' => z.score <= results'[i].score
      BY <2>4 DEF CandidatesInv
    <3>1. ASSUME NEW i \in 1 .. Len(results'), OfPass(i)' PROVE z.score <= results'[i].score
      <4>1. results'[i].pass = pass
        BY <3>1 DEF OfPass
      <4> QED BY <1>14, <2>1, <2>3, <4>1
    <3> QED BY <1>14, <1>15, <3>1
  <2>6. BoundInv'
    <3> SUFFICES ASSUME step' = "call", pass' = pass, Unread(b),
                        NEW i \in 1 .. Len(results'), OfPass(i)'
                 PROVE  Bound(b) <= results'[i].score
      BY <1>15, <1>16, <2>4 DEF BoundInv
    <3>1. results'[i].pass = pass
      BY DEF OfPass
    <3>2. Bound(b) \in Nat /\ \A j \in 1 .. Len(results) : OfPass(j) => Bound(b) <= results[j].score
      BY <1>12
    <3> QED BY <1>16, <2>1, <2>3, <3>1, <3>2
  <2>7. LowestInv'
    BY <2>4 DEF LowestInv
  <2> QED BY <2>3, <2>5, <2>6, <2>7 DEF OrderInv
<1>17. CASE Visited = Nil
  <2>1. Return(current, "call") /\ current' = Nil /\ ~Considered
    BY <1>1, <1>17 DEF Considered
  <2>2. CASE current = Nil
    <3>1. Return(Nil, "call")
      BY <2>1, <2>2
    <3> QED BY <1>1, <1>2, <3>1, OrderNil DEF OrderInv
  <2>3. CASE current # Nil
    <3>1. y = Nil
      BY <1>2, <1>8, <1>17 DEF Returns
    <3>2. ~Unread(b)
      BY <1>2, <1>8, <3>1 DEF Unread
    <3> QED BY <1>2, <1>16, <2>1, <2>3, <3>2
  <2> QED BY <2>2, <2>3
<1>18. CASE Visited # Nil /\ Considered /\ (~Unread(ahead') \/ BoundBelow(ahead', Leader))
  <2>1. Return(Leader, "call") /\ current' = Nil
    BY <1>1, <1>18
  <2>2. Unread(b) => Bound(b) < Leader.score
    <3>1. ~Unread(b) \/ BoundBelow(b, Leader)
      BY <1>7, <1>18
    <3> QED BY <3>1, BoundBelowIs
  <2> QED BY <1>2, <1>16, <1>18, <2>1, <2>2
<1>19. CASE Visited # Nil /\ ~(Considered /\ (~Unread(ahead') \/ BoundBelow(ahead', Leader)))
  <2>1. /\ current' = IF Considered THEN Leader ELSE current
        /\ step' = "loop" /\ results' = results /\ pass' = pass /\ plan' = plan
    BY <1>1, <1>19
  <2>2. RanksInv' /\ PassInv'
    BY <1>1, <2>1, SameOrder DEF OrderInv, PassInv, OfPass
  <2>3. \A i : OfPass(i)' <=> OfPass(i)
    BY <2>1 DEF OfPass
  <2>4. CandidatesInv'
    BY <1>14, <1>15, <2>1, <2>3 DEF CandidatesInv
  <2>5. BoundInv'
    <3>1. ASSUME current' # Nil
          PROVE  /\ Least(pass, current.doc)' <= current'.score
                 /\ \A z \in found' : z.score <= current'.score
                 /\ \A i \in 1 .. Len(results') : OfPass(i)' => current'.score <= results'[i].score
      <4>1. PICK c : c = current'
        OBVIOUS
      <4>2. Least(pass, current.doc)' = Least(pass, c.doc)
        <5>1. kind' = kind /\ static' = static /\ pass' = pass
          BY <1>4, <2>1
        <5>2. Least(pass, current.doc)' = Least(pass, current'.doc)
          BY <5>1, SameLeast
        <5> QED BY <4>1, <5>2
      <4>3. /\ Least(pass, c.doc) <= c.score
            /\ \A z \in found' : z.score <= c.score
            /\ \A i \in 1 .. Len(results) : OfPass(i) => c.score <= results[i].score
        BY <1>5, <1>13, <1>14, <2>1, <3>1, <4>1
      <4> QED BY <2>1, <2>3, <4>1, <4>2, <4>3
    <3>2. Unread(ahead)' => \A i \in 1 .. Len(results') : OfPass(i)' => Bound(ahead)' <= results'[i].score
      BY <1>12, <1>15, <2>1, <2>3
    <3> QED BY <1>15, <3>1, <3>2 DEF BoundInv
  <2>6. LowestInv'
    BY <2>1 DEF LowestInv
  <2> QED BY <2>2, <2>4, <2>5, <2>6 DEF OrderInv
<1> QED BY <1>17, <1>18, <1>19

\* A step that leaves the plan alone keeps the order.
LEMMA OrderRests == ASSUME OrderInv, UNCHANGED planVars PROVE OrderInv'
<1>1. /\ UNCHANGED query /\ pass' = pass /\ plan' = plan /\ step' = step /\ input' = input
      /\ ahead' = ahead /\ current' = current /\ found' = found /\ results' = results
  BY DEF planVars
<1>2. kind' = kind /\ static' = static
  BY <1>1 DEF query
<1>3. /\ \A d : Least(pass, d)' = Least(pass, d)
      /\ \A t, x : Sequential(t, x)' = Sequential(t, x)
  BY <1>1, SameScores
<1>4. \A i : OfPass(i)' <=> OfPass(i)
  BY <1>1 DEF OfPass
<1>5. RanksInv' /\ PassInv'
  BY <1>1, <1>4, SameOrder DEF OrderInv, PassInv
<1>6. CandidatesInv' /\ LowestInv'
  BY <1>1, <1>3, <1>4 DEF OrderInv, CandidatesInv, LowestInv
<1>7. BoundInv'
  <2>1. Least(pass, current.doc)' = Least(pass, current.doc)
    <3>1. Least(pass, current.doc)' = Least(pass, current'.doc)
      <4>1. kind' = kind /\ static' = static /\ pass' = pass
        BY <1>1, <1>2
      <4> QED BY <4>1, SameLeast
    <3> QED BY <1>1, <3>1
  <2>2. Bound(ahead)' = Bound(ahead)
    <3>1. static' = static /\ ahead' = ahead
      BY <1>1, <1>2
    <3> QED BY ONLY <3>1, Zenon DEF Bound, Sequential
  <2>3. \A t \in Term : Sequential(t, ahead[t])' = Sequential(t, ahead[t])
    BY <1>1, <1>2 DEF Sequential
  <2>4. Unread(ahead)' <=> Unread(ahead)
    BY <1>1 DEF Unread
  <2> QED BY <1>1, <1>3, <1>4, <2>1, <2>2, <2>3, <2>4 DEF OrderInv, BoundInv
<1> QED BY <1>5, <1>6, <1>7 DEF OrderInv

\* No step of a plan puts a record behind a worse one.
LEMMA OrderStep == MildBoosts /\ PlanIInv /\ OrderInv /\ [PlanNext]_planVars => OrderInv'
<1> SUFFICES ASSUME MildBoosts, PlanIInv, OrderInv, [PlanNext]_planVars PROVE OrderInv'
  OBVIOUS
<1> QED
  BY OpenOrder, TopCallOrder, TopVisitOrder, ShortestNextOrder, ByIdOrder, ByIdFoundOrder,
     UnionSkipOrder, UnionNextOrder, EndsOrder, SortedNextOrder, OrderRests DEF PlanNext

\* What the order is for.
LEMMA OrderRanks == PlanIInv /\ OrderInv => NoneBetter
<1> SUFFICES ASSUME PlanIInv, OrderInv PROVE NoneBetter
  OBVIOUS
<1>1. \A i \in 1 .. Len(results) : results[i].pass \in {"exact", "fuzzy"}
  <2>1. \A i \in 1 .. Len(results) : results[i] \in Result
    BY DEF PlanIInv, QueryTyped
  <2> QED BY <2>1 DEF Result
<1>2. results \in Seq(Result) /\ Len(results) \in Nat
  BY DEF PlanIInv, QueryTyped
<1> QED BY <1>1, <1>2 DEF OrderInv, RanksInv, NoneBetter

-----------------------------------------------------------------------------
(* The linked list of the cache *)

\* s lists n hashes, none of them twice.
Lists(s, n) ==
  /\ n \in Nat
  /\ s \in [1 .. n -> Hashed]
  /\ \A i, j \in 1 .. n : s[i] = s[j] => i = j

Elements(s, n) == {s[i] : i \in 1 .. n}

\* The linked list l has the elements of s, in this order.
Linked(l, s, n) ==
  /\ l.first = IF n = 0 THEN Null ELSE s[1]
  /\ l.final = IF n = 0 THEN Null ELSE s[n]
  /\ l.next \in [Elements(s, n) -> Hashed \cup {Null}]
  /\ l.previous \in [Elements(s, n) -> Hashed \cup {Null}]
  /\ \A i \in 1 .. n : /\ l.next[s[i]] = IF i = n THEN Null ELSE s[i + 1]
                       /\ l.previous[s[i]] = IF i = 1 THEN Null ELSE s[i - 1]

\* Null is no hash.
LEMMA NullIsNone == Null \notin Hashed
BY LruAssumption DEF Hashed

\* s without its first element, with one more, and with the one at a place
\* moved to the end.
Rest(s, n) == [i \in 1 .. n - 1 |-> s[i + 1]]
Longer(s, n, h) == [i \in 1 .. n + 1 |-> IF i = n + 1 THEN h ELSE s[i]]
Moved(s, n, p) ==
  [i \in 1 .. n |-> IF i < p THEN s[i] ELSE IF i < n THEN s[i + 1] ELSE s[p]]

\* removeTheOldestElementFromLinkList() takes the first element away.
LEMMA RemoveOldestLinks ==
  ASSUME NEW s, NEW n, Lists(s, n), n # 0, NEW l, Linked(l, s, n)
  PROVE  /\ Lists(Rest(s, n), n - 1)
         /\ Elements(Rest(s, n), n - 1) = Elements(s, n) \ {s[1]}
         /\ Linked(RemoveOldest(l), Rest(s, n), n - 1)
<1> DEFINE r == Rest(s, n)
           m == n - 1
<1>1. n \in Nat /\ m \in Nat /\ n = m + 1 /\ s \in [1 .. n -> Hashed] /\ 1 \in 1 .. n /\ n \in 1 .. n
  BY DEF Lists
<1>2. \A i \in 1 .. m : r[i] = s[i + 1] /\ i + 1 \in 1 .. n /\ i + 1 # 1
  BY <1>1 DEF Rest
<1>3. Lists(r, m)
  <2>1. r \in [1 .. m -> Hashed]
    BY <1>1, <1>2 DEF Rest
  <2>2. ASSUME NEW i \in 1 .. m, NEW j \in 1 .. m, r[i] = r[j] PROVE i = j
    <3>1. i + 1 = j + 1
      BY <1>2, <2>2 DEF Lists
    <3> QED BY <1>1, <3>1
  <2> QED BY <1>1, <2>1, <2>2 DEF Lists
<1>4. Elements(r, m) = Elements(s, n) \ {s[1]}
  <2>1. ASSUME NEW i \in 1 .. m PROVE r[i] \in Elements(s, n) /\ r[i] # s[1]
    <3>1. r[i] = s[i + 1] /\ i + 1 \in 1 .. n /\ i + 1 # 1
      BY <1>2
    <3> QED BY <1>1, <3>1 DEF Elements, Lists
  <2>2. ASSUME NEW i \in 1 .. n, s[i] # s[1] PROVE s[i] \in Elements(r, m)
    <3>1. i # 1 /\ i - 1 \in 1 .. m /\ (i - 1) + 1 = i
      BY <1>1, <2>2
    <3>2. r[i - 1] = s[i]
      BY <1>2, <3>1
    <3> QED BY <3>1, <3>2 DEF Elements
  <2> HIDE DEF r, m
  <2> QED BY <2>1, <2>2 DEF Elements
<1>5. l.first = s[1] /\ l.final = s[n]
  BY <1>1 DEF Linked
<1>6. l.first = l.final <=> m = 0
  BY <1>1, <1>5 DEF Lists
<1>7. CASE m = 0
  <2>1. RemoveOldest(l) = [first |-> Null, final |-> Null, next |-> <<>>, previous |-> <<>>]
    BY <1>6, <1>7 DEF RemoveOldest
  <2>2. Elements(r, m) = {} /\ 1 .. m = {}
    BY <1>7 DEF Elements
  <2> HIDE DEF r, m
  <2>3. <<>> \in [{} -> Hashed \cup {Null}]
    OBVIOUS
  <2>4. Linked(RemoveOldest(l), r, m)
    BY <1>7, <2>1, <2>2, <2>3 DEF Linked
  <2> QED BY <1>3, <1>4, <2>4 DEF r, m
<1>8. CASE m # 0
  <2> DEFINE k == RemoveOldest(l)
             E == Elements(s, n)
  <2>1. 2 \in 1 .. n /\ l.next[s[1]] = s[2] /\ s[2] # s[1] /\ s[2] \in E /\ s[1] \in E
        /\ r[1] = s[2] /\ r[m] = s[n]
    <3>1. 2 \in 1 .. n /\ 1 \in 1 .. m /\ m \in 1 .. m /\ 1 # n
      BY <1>1, <1>8
    <3>2. l.next[s[1]] = s[1 + 1]
      BY <1>1, <3>1 DEF Linked
    <3>3. r[1] = s[1 + 1] /\ r[m] = s[m + 1]
      BY <1>2, <3>1
    <3> QED BY <1>1, <3>1, <3>2, <3>3 DEF Lists, Elements
  <2>2. k = [first |-> s[2], final |-> s[n], next |-> Drop(l.next, s[1]),
             previous |-> Drop([l.previous EXCEPT ![s[2]] = Null], s[1])]
    BY <1>5, <1>6, <1>8, <2>1 DEF RemoveOldest
  <2>3. /\ k.first = r[1] /\ k.final = r[m]
        /\ k.next = [z \in E \ {s[1]} |-> l.next[z]]
        /\ k.previous = [z \in E \ {s[1]} |-> IF z = s[2] THEN Null ELSE l.previous[z]]
    <3>1. l.next \in [E -> Hashed \cup {Null}] /\ l.previous \in [E -> Hashed \cup {Null}]
      BY DEF Linked
    <3> HIDE DEF E, r, m, k
    <3> QED BY <2>1, <2>2, <3>1 DEF Drop
  <2>4. k.next \in [E \ {s[1]} -> Hashed \cup {Null}] /\ k.previous \in [E \ {s[1]} -> Hashed \cup {Null}]
    <3>1. l.next \in [E -> Hashed \cup {Null}] /\ l.previous \in [E -> Hashed \cup {Null}]
      BY DEF Linked
    <3> HIDE DEF E, r, m, k
    <3> QED BY <2>3, <3>1
  <2>5. ASSUME NEW i \in 1 .. m
        PROVE  /\ k.next[r[i]] = IF i = m THEN Null ELSE r[i + 1]
               /\ k.previous[r[i]] = IF i = 1 THEN Null ELSE r[i - 1]
    <3>1. r[i] = s[i + 1] /\ i + 1 \in 1 .. n /\ r[i] \in E \ {s[1]}
      BY <1>2, <1>4 DEF Elements
    <3>2. l.next[s[i + 1]] = (IF i + 1 = n THEN Null ELSE s[(i + 1) + 1])
          /\ l.previous[s[i + 1]] = (IF i + 1 = 1 THEN Null ELSE s[(i + 1) - 1])
      BY <3>1 DEF Linked
    <3>3. s[i + 1] = s[2] <=> i = 1
      BY <2>1, <3>1 DEF Lists
    <3>4. i # m => r[i + 1] = s[(i + 1) + 1]
      BY <1>1, <1>2
    <3>5. i # 1 => r[i - 1] = s[i] /\ (i + 1) - 1 = i
      <4>1. i # 1 => i - 1 \in 1 .. m /\ (i - 1) + 1 = i
        BY <1>1
      <4> QED BY <1>2, <4>1
    <3>6. i + 1 = n <=> i = m
      BY <1>1
    <3> HIDE DEF E, r, m, k
    <3> QED BY <2>3, <3>1, <3>2, <3>3, <3>4, <3>5, <3>6
  <2> HIDE DEF r, m, k
  <2>6. Linked(k, r, m)
    BY <1>4, <1>8, <2>3, <2>4, <2>5 DEF Linked
  <2> QED BY <1>3, <1>4, <2>6 DEF r, m, k
<1> QED BY <1>7, <1>8

\* addNewElementToLinkList() puts a new hash at the end.
LEMMA AddElementLinks ==
  ASSUME NEW s, NEW n, Lists(s, n), NEW l, Linked(l, s, n), NEW h \in Hashed, h \notin Elements(s, n)
  PROVE  /\ Lists(Longer(s, n, h), n + 1)
         /\ Elements(Longer(s, n, h), n + 1) = Elements(s, n) \cup {h}
         /\ Linked(AddElement(l, h), Longer(s, n, h), n + 1)
<1> DEFINE r == Longer(s, n, h)
           m == n + 1
           E == Elements(s, n)
           k == AddElement(l, h)
<1>1. n \in Nat /\ m \in Nat /\ m # 0 /\ m \notin 1 .. n /\ m \in 1 .. m /\ s \in [1 .. n -> Hashed]
  BY DEF Lists
<1>2. /\ r[m] = h
      /\ \A i \in 1 .. m : r[i] = (IF i = m THEN h ELSE s[i]) /\ (i # m => i \in 1 .. n)
      /\ \A i \in 1 .. n : i \in 1 .. m /\ i # m /\ r[i] = s[i] /\ s[i] # h /\ s[i] \in E
  BY <1>1 DEF Longer, Elements
<1>3. Lists(r, m)
  <2>1. r \in [1 .. m -> Hashed]
    BY <1>1, <1>2 DEF Longer
  <2>2. ASSUME NEW i \in 1 .. m, NEW j \in 1 .. m, r[i] = r[j] PROVE i = j
    BY <1>2, <2>2 DEF Lists
  <2> QED BY <1>1, <2>1, <2>2 DEF Lists
<1>4. Elements(r, m) = E \cup {h}
  <2> HIDE DEF r, m
  <2> QED BY <1>1, <1>2 DEF Elements
<1>5. l.next \in [E -> Hashed \cup {Null}] /\ l.previous \in [E -> Hashed \cup {Null}]
  BY DEF Linked
<1>6. CASE n = 0
  <2>1. l.first = Null /\ E = {} /\ 1 .. n = {}
    BY <1>6 DEF Linked, Elements
  <2>2. k.first = h /\ k.final = h /\ k.next = Set(l.next, h, Null) /\ k.previous = Set(l.previous, h, Null)
    BY <2>1 DEF AddElement
  <2> HIDE DEF E, k
  <2>3. /\ k.next \in [{h} -> Hashed \cup {Null}] /\ k.previous \in [{h} -> Hashed \cup {Null}]
        /\ k.next[h] = Null /\ k.previous[h] = Null
    BY <1>5, <2>1, <2>2 DEF Set
  <2>4. m = 1 /\ Elements(r, m) = {h} /\ \A i \in 1 .. m : i = 1
    BY <1>4, <1>6, <2>1
  <2> HIDE DEF m, r
  <2>5. Linked(k, r, m)
    BY <1>2, <2>2, <2>3, <2>4 DEF Linked
  <2> QED BY <1>3, <1>4, <2>5 DEF r, m, E, k
<1>7. CASE n # 0
  <2>1. /\ 1 \in 1 .. n /\ n \in 1 .. n /\ l.first = s[1] /\ l.final = s[n]
        /\ s[1] # Null /\ s[n] \in E /\ s[n] # h /\ s[n] \in Hashed
    BY <1>1, <1>2, <1>7, NullIsNone DEF Linked
  <2>2. /\ k.first = s[1] /\ k.final = h
        /\ k.next = Set([l.next EXCEPT ![s[n]] = h], h, Null)
        /\ k.previous = Set(l.previous, h, s[n])
    BY <2>1 DEF AddElement
  <2>3. /\ k.next = [z \in E \cup {h} |-> IF z = h THEN Null ELSE IF z = s[n] THEN h ELSE l.next[z]]
        /\ k.previous = [z \in E \cup {h} |-> IF z = h THEN s[n] ELSE l.previous[z]]
    <3> HIDE DEF E, k
    <3> QED BY <1>5, <2>1, <2>2 DEF Set
  <2>4. k.next \in [E \cup {h} -> Hashed \cup {Null}] /\ k.previous \in [E \cup {h} -> Hashed \cup {Null}]
    <3> HIDE DEF E, k
    <3> QED BY <1>5, <2>1, <2>3
  <2>5. ASSUME NEW i \in 1 .. m
        PROVE  /\ k.next[r[i]] = IF i = m THEN Null ELSE r[i + 1]
               /\ k.previous[r[i]] = IF i = 1 THEN Null ELSE r[i - 1]
    <3>1. CASE i = m
      <4>1. r[i] = h /\ i # 1 /\ i - 1 = n /\ r[i - 1] = s[n]
        BY <1>1, <1>2, <1>7, <2>1, <3>1
      <4> HIDE DEF E, k, r, m
      <4> QED BY <2>3, <3>1, <4>1
    <3>2. CASE i # m
      <4>1. i \in 1 .. n /\ r[i] = s[i] /\ s[i] # h /\ s[i] \in E
        BY <1>2, <3>2
      <4>2. l.next[s[i]] = (IF i = n THEN Null ELSE s[i + 1])
            /\ l.previous[s[i]] = (IF i = 1 THEN Null ELSE s[i - 1])
        BY <4>1 DEF Linked
      <4>3. s[i] = s[n] <=> i = n
        BY <2>1, <4>1 DEF Lists
      <4>4. (i = n => r[i + 1] = h) /\ (i # n => r[i + 1] = s[i + 1])
        BY <1>1, <1>2, <4>1
      <4>5. i # 1 => r[i - 1] = s[i - 1]
        BY <1>1, <1>2, <4>1
      <4> HIDE DEF E, k, r, m
      <4> QED BY <2>3, <3>2, <4>1, <4>2, <4>3, <4>4, <4>5
    <3> QED BY <3>1, <3>2
  <2>6. r[1] = s[1]
    BY <1>2, <2>1
  <2> HIDE DEF r, m, k, E
  <2>7. Linked(k, r, m)
    BY <1>1, <1>2, <1>4, <2>2, <2>4, <2>5, <2>6 DEF Linked
  <2> QED BY <1>3, <1>4, <2>7 DEF r, m, E, k
<1> QED BY <1>6, <1>7

\* moveLinkedListElementToLast() moves the element at place p to the end.
LEMMA MoveToLastLinks ==
  ASSUME NEW s, NEW n, Lists(s, n), NEW l, Linked(l, s, n), NEW p \in 1 .. n
  PROVE  /\ Lists(Moved(s, n, p), n)
         /\ Elements(Moved(s, n, p), n) = Elements(s, n)
         /\ Linked(MoveToLast(l, s[p]), Moved(s, n, p), n)
<1> DEFINE r == Moved(s, n, p)
           E == Elements(s, n)
           k == MoveToLast(l, s[p])
<1>1. n \in Nat /\ n # 0 /\ s \in [1 .. n -> Hashed] /\ 1 \in 1 .. n /\ n \in 1 .. n /\ p \in Nat
  BY DEF Lists
<1>2. \A i \in 1 .. n : s[i] \in E /\ s[i] \in Hashed
  BY <1>1 DEF Elements
<1>3. \A i, j \in 1 .. n : s[i] = s[j] => i = j
  BY DEF Lists
<1>4. /\ \A i \in 1 .. n : i < p => r[i] = s[i]
      /\ \A i \in 1 .. n : p <= i /\ i < n => r[i] = s[i + 1]
      /\ r[n] = s[p]
  BY <1>1 DEF Moved
<1>5. Lists(r, n)
  <2>1. ASSUME NEW i \in 1 .. n PROVE r[i] \in Hashed
    <3>1. i < n => i + 1 \in 1 .. n
      BY <1>1
    <3> QED BY <1>1, <1>2, <3>1 DEF Moved
  <2>2. r \in [1 .. n -> Hashed]
    BY <2>1 DEF Moved
  <2>3. ASSUME NEW i \in 1 .. n, NEW j \in 1 .. n, r[i] = r[j] PROVE i = j
    <3> DEFINE place(x) == IF x < p THEN x ELSE IF x < n THEN x + 1 ELSE p
    <3>1. \A x \in 1 .. n : place(x) \in 1 .. n /\ r[x] = s[place(x)]
      BY <1>1, <1>4
    <3>2. place(i) = place(j)
      BY <1>3, <2>3, <3>1
    <3> QED BY <1>1, <3>2
  <2> QED BY <1>1, <2>2, <2>3 DEF Lists
<1>6. Elements(r, n) = E
  <2>1. ASSUME NEW i \in 1 .. n PROVE r[i] \in E
    <3>1. i < n => i + 1 \in 1 .. n
      BY <1>1
    <3> QED BY <1>1, <1>2, <3>1 DEF Moved
  <2>2. ASSUME NEW i \in 1 .. n PROVE \E j \in 1 .. n : r[j] = s[i]
    <3>1. CASE i < p
      BY <1>4, <3>1
    <3>2. CASE i = p
      BY <1>1, <1>4, <3>2
    <3>3. CASE i > p
      <4>1. i - 1 \in 1 .. n /\ p <= i - 1 /\ i - 1 < n /\ (i - 1) + 1 = i
        BY <1>1, <3>3
      <4> QED BY <1>4, <4>1
    <3> QED BY <1>1, <3>1, <3>2, <3>3
  <2> HIDE DEF r
  <2> QED BY <2>1, <2>2 DEF Elements
<1>7. /\ l.first = s[1] /\ l.final = s[n]
      /\ l.next \in [E -> Hashed \cup {Null}] /\ l.previous \in [E -> Hashed \cup {Null}]
      /\ \A i \in 1 .. n : /\ l.next[s[i]] = IF i = n THEN Null ELSE s[i + 1]
                           /\ l.previous[s[i]] = IF i = 1 THEN Null ELSE s[i - 1]
  BY <1>1 DEF Linked
<1> SUFFICES Linked(k, r, n)
  BY <1>5, <1>6
<1>8. CASE p = n
  <2>1. k = l
    BY <1>7, <1>8 DEF MoveToLast
  <2>2. r = s
    BY <1>1, <1>8 DEF Moved
  <2> QED BY <2>1, <2>2
<1>9. CASE p # n
  <2>1. p < n /\ p + 1 \in 1 .. n /\ n # 1 /\ s[1] # s[n] /\ s[p] # s[n] /\ l.next[s[p]] = s[p + 1]
    BY <1>1, <1>3, <1>7, <1>9
  <2>2. s[p + 1] # s[p]
    BY <1>1, <1>3, <2>1
  <2>3. CASE p = 1
    <3>1. /\ k.first = s[2] /\ k.final = s[1]
          /\ k.next = [[l.next EXCEPT ![s[n]] = s[1]] EXCEPT ![s[1]] = Null]
          /\ k.previous = [[l.previous EXCEPT ![s[2]] = Null] EXCEPT ![s[1]] = s[n]]
      BY <1>7, <2>1, <2>3 DEF MoveToLast
    <3>2. s[1] \in E /\ s[2] \in E /\ s[n] \in E /\ s[2] # s[1]
      BY <1>1, <1>2, <2>1, <2>2, <2>3
    <3>3. /\ k.next = [z \in E |-> IF z = s[1] THEN Null ELSE IF z = s[n] THEN s[1] ELSE l.next[z]]
          /\ k.previous = [z \in E |-> IF z = s[1] THEN s[n] ELSE IF z = s[2] THEN Null ELSE l.previous[z]]
      <4> HIDE DEF k, E, r
      <4> QED BY <1>7, <2>1, <3>1, <3>2
    <3>4. k.next \in [E -> Hashed \cup {Null}] /\ k.previous \in [E -> Hashed \cup {Null}]
      <4> HIDE DEF k, E, r
      <4> QED BY <1>1, <1>2, <1>7, <3>3
    <3>5. ASSUME NEW i \in 1 .. n
          PROVE  /\ k.next[r[i]] = IF i = n THEN Null ELSE r[i + 1]
                 /\ k.previous[r[i]] = IF i = 1 THEN Null ELSE r[i - 1]
      <4>1. CASE i = n
        <5>1. r[i] = s[1] /\ i # 1 /\ r[i - 1] = s[n]
          <6>1. i - 1 \in 1 .. n /\ p <= i - 1 /\ i - 1 < n /\ (i - 1) + 1 = n
            BY <1>1, <2>1, <2>3, <4>1
          <6> QED BY <1>4, <2>1, <2>3, <4>1, <6>1
        <5> HIDE DEF k, E, r
        <5> QED BY <3>2, <3>3, <4>1, <5>1
      <4>2. CASE i # n
        <5>1. i + 1 \in 1 .. n /\ i < n /\ p <= i /\ r[i] = s[i + 1] /\ i + 1 # 1 /\ (i + 1) - 1 = i
          BY <1>1, <1>4, <2>3, <4>2
        <5>2. s[i + 1] # s[1] /\ s[i + 1] \in E /\ (s[i + 1] = s[n] <=> i + 1 = n)
              /\ (s[i + 1] = s[2] <=> i = 1)
          BY <1>1, <1>2, <1>3, <2>1, <5>1
        <5>3. l.next[s[i + 1]] = (IF i + 1 = n THEN Null ELSE s[(i + 1) + 1])
              /\ l.previous[s[i + 1]] = s[i]
          BY <1>7, <5>1
        <5>4. r[i + 1] = IF i + 1 = n THEN s[1] ELSE s[(i + 1) + 1]
          BY <1>1, <1>4, <2>3, <5>1
        <5>5. i # 1 => r[i - 1] = s[i]
          <6>1. i # 1 => i - 1 \in 1 .. n /\ p <= i - 1 /\ i - 1 < n /\ (i - 1) + 1 = i
            BY <1>1, <2>3, <5>1
          <6> QED BY <1>4, <6>1
        <5> HIDE DEF k, E, r
        <5>6. k.next[s[i + 1]] = IF i + 1 = n THEN s[1] ELSE s[(i + 1) + 1]
          BY <3>3, <5>2, <5>3
        <5>7. k.previous[s[i + 1]] = IF i = 1 THEN Null ELSE s[i]
          BY <3>3, <5>2, <5>3
        <5> QED BY <4>2, <5>1, <5>4, <5>5, <5>6, <5>7
      <4> QED BY <4>1, <4>2
    <3>6. r[1] = s[2] /\ r[n] = s[1]
      BY <1>1, <1>4, <2>1, <2>3
    <3> HIDE DEF k, E, r
    <3> QED BY <1>1, <1>6, <3>1, <3>4, <3>5, <3>6 DEF Linked
  <2>4. CASE p # 1
    <3>1. p - 1 \in 1 .. n /\ l.previous[s[p]] = s[p - 1] /\ s[1] # s[p] /\ (p - 1) + 1 = p
      BY <1>1, <1>3, <1>7, <2>4
    <3>2. /\ k.first = s[1] /\ k.final = s[p]
          /\ k.next = [[[l.next EXCEPT ![s[p - 1]] = s[p + 1]] EXCEPT ![s[p]] = Null] EXCEPT ![s[n]] = s[p]]
          /\ k.previous = [[l.previous EXCEPT ![s[p + 1]] = s[p - 1]] EXCEPT ![s[p]] = s[n]]
      BY <1>7, <2>1, <3>1 DEF MoveToLast
    <3>3. s[p] \in E /\ s[p - 1] \in E /\ s[p + 1] \in E /\ s[n] \in E /\ s[p - 1] # s[p] /\ s[p - 1] # s[n]
      BY <1>1, <1>2, <1>3, <2>1, <3>1
    <3>4. /\ k.next = [z \in E |-> IF z = s[n] THEN s[p] ELSE IF z = s[p] THEN Null
                                   ELSE IF z = s[p - 1] THEN s[p + 1] ELSE l.next[z]]
          /\ k.previous = [z \in E |-> IF z = s[p] THEN s[n] ELSE IF z = s[p + 1] THEN s[p - 1]
                                       ELSE l.previous[z]]
      <4> HIDE DEF k, E, r
      <4> QED BY <1>7, <2>1, <3>2, <3>3
    <3>5. k.next \in [E -> Hashed \cup {Null}] /\ k.previous \in [E -> Hashed \cup {Null}]
      <4>1. s[p] \in Hashed /\ s[n] \in Hashed /\ s[p - 1] \in Hashed /\ s[p + 1] \in Hashed
        BY <1>1, <1>2, <2>1, <3>1
      <4> HIDE DEF k, E, r
      <4> QED BY <1>7, <3>4, <4>1
    <3>6. ASSUME NEW i \in 1 .. n
          PROVE  /\ k.next[r[i]] = IF i = n THEN Null ELSE r[i + 1]
                 /\ k.previous[r[i]] = IF i = 1 THEN Null ELSE r[i - 1]
      <4>1. CASE i = n
        <5>1. r[i] = s[p] /\ i # 1 /\ r[i - 1] = s[n]
          <6>1. i - 1 \in 1 .. n /\ p <= i - 1 /\ i - 1 < n /\ (i - 1) + 1 = n
            BY <1>1, <2>1, <4>1
          <6> QED BY <1>4, <2>1, <4>1, <6>1
        <5> HIDE DEF k, E, r
        <5> QED BY <2>1, <3>3, <3>4, <4>1, <5>1
      <4>2. CASE i < p
        <5>1. i # n /\ i + 1 \in 1 .. n /\ r[i] = s[i] /\ (i + 1 < p \/ i = p - 1)
          BY <1>1, <1>4, <2>1, <4>2
        <5>2. /\ s[i] \in E /\ s[i] # s[p] /\ s[i] # s[n] /\ s[i] # s[p + 1]
              /\ (s[i] = s[p - 1] <=> i = p - 1)
          <6>1. i # p /\ i # n /\ i # p + 1
            BY <1>1, <4>2, <5>1
          <6> QED BY <1>1, <1>2, <1>3, <2>1, <3>1, <6>1
        <5>3. l.next[s[i]] = s[i + 1] /\ l.previous[s[i]] = IF i = 1 THEN Null ELSE s[i - 1]
          BY <1>7, <5>1
        <5>4. r[i + 1] = IF i = p - 1 THEN s[p + 1] ELSE s[i + 1]
          <6>1. CASE i = p - 1
            <7>1. i + 1 = p
              BY <1>1, <6>1
            <7> QED BY <1>4, <2>1, <6>1, <7>1, <1>1
          <6>2. CASE i # p - 1
            BY <1>4, <5>1, <6>2
          <6> QED BY <6>1, <6>2
        <5>5. i # 1 => r[i - 1] = s[i - 1]
          <6>1. i # 1 => i - 1 \in 1 .. n /\ i - 1 < p
            BY <1>1, <4>2
          <6> QED BY <1>4, <6>1
        <5> HIDE DEF k, E, r
        <5>6. k.next[s[i]] = IF i = p - 1 THEN s[p + 1] ELSE s[i + 1]
          BY <3>4, <5>2, <5>3
        <5>7. k.previous[s[i]] = IF i = 1 THEN Null ELSE s[i - 1]
          BY <3>4, <5>2, <5>3
        <5> QED BY <5>1, <5>4, <5>5, <5>6, <5>7
      <4>3. CASE p <= i /\ i < n
        <5>1. i # n /\ i # 1 /\ i + 1 \in 1 .. n /\ r[i] = s[i + 1] /\ i + 1 # 1 /\ (i + 1) - 1 = i
              /\ i + 1 # p /\ i + 1 # p - 1
          BY <1>1, <1>4, <2>4, <4>3
        <5>2. /\ s[i + 1] \in E /\ s[i + 1] # s[p] /\ s[i + 1] # s[p - 1]
              /\ (s[i + 1] = s[n] <=> i + 1 = n) /\ (s[i + 1] = s[p + 1] <=> i = p)
          <6>1. i + 1 = p + 1 <=> i = p
            BY <1>1
          <6> QED BY <1>1, <1>2, <1>3, <2>1, <3>1, <5>1, <6>1
        <5>3. l.next[s[i + 1]] = (IF i + 1 = n THEN Null ELSE s[(i + 1) + 1])
              /\ l.previous[s[i + 1]] = s[i]
          BY <1>7, <5>1
        <5>4. r[i + 1] = IF i + 1 = n THEN s[p] ELSE s[(i + 1) + 1]
          BY <1>1, <1>4, <4>3, <5>1
        <5>5. r[i - 1] = IF i = p THEN s[p - 1] ELSE s[i]
          <6>1. CASE i = p
            BY <1>1, <1>4, <3>1, <6>1
          <6>2. CASE i # p
            <7>1. i - 1 \in 1 .. n /\ p <= i - 1 /\ i - 1 < n /\ (i - 1) + 1 = i
              BY <1>1, <4>3, <6>2
            <7> QED BY <1>4, <6>2, <7>1
          <6> QED BY <6>1, <6>2
        <5> HIDE DEF k, E, r
        <5>6. k.next[s[i + 1]] = IF i + 1 = n THEN s[p] ELSE s[(i + 1) + 1]
          BY <3>4, <5>2, <5>3
        <5>7. k.previous[s[i + 1]] = IF i = p THEN s[p - 1] ELSE s[i]
          BY <3>4, <5>2, <5>3
        <5> QED BY <5>1, <5>4, <5>5, <5>6, <5>7
      <4> QED BY <1>1, <4>1, <4>2, <4>3
    <3>7. r[1] = s[1] /\ r[n] = s[p]
      BY <1>1, <1>4, <2>4
    <3> HIDE DEF k, E, r
    <3> QED BY <1>1, <1>6, <3>2, <3>5, <3>6, <3>7 DEF Linked
  <2> QED BY <2>3, <2>4
<1> QED BY <1>8, <1>9

\* As many hashes are listed as there are elements.
LEMMA ElementsCounted ==
  ASSUME NEW s, NEW n, Lists(s, n)
  PROVE  IsFiniteSet(Elements(s, n)) /\ Cardinality(Elements(s, n)) = n
<1> DEFINE E == Elements(s, n)
<1>1. n \in Nat /\ s \in [1 .. n -> E] /\ \A x \in E : \E i \in 1 .. n : s[i] = x
  BY DEF Lists, Elements
<1>2. \A i, j \in 1 .. n : s[i] = s[j] => i = j
  BY DEF Lists
<1> HIDE DEF E
<1>3. s \in Bijection(1 .. n, E)
  BY <1>1, <1>2 DEF Bijection, Injection, Surjection, IsInjective
<1>4. ExistsBijection(1 .. n, E)
  BY <1>3 DEF ExistsBijection
<1> QED BY <1>1, <1>4, FS_NatBijection, FS_CountingElements DEF E

\* The linked list as it is.
TheList == [first |-> first, final |-> final, next |-> next, previous |-> previous]

\* b, and the element that follows if there is one.
Follow(b) ==
  LET h == IF b = <<>> THEN first ELSE next[b[Len(b)]]
  IN  IF h = Null THEN b ELSE Append(b, h)

ChainsOn(c, top) == c = [m \in 0 .. top |-> IF m = 0 THEN <<>> ELSE Follow(c[m - 1])]

\* Following the links gives the hashes in their order.
LEMMA ChainIs ==
  ASSUME NEW s, NEW n, Lists(s, n), Linked(TheList, s, n)
  PROVE  Chain = s
<1> DEFINE top == n + 1
           AtMost(m) == IF m <= n THEN m ELSE n
           Prefix(m) == [i \in 1 .. m |-> s[i]]
           p == [m \in 0 .. top |-> Prefix(AtMost(m))]
<1>1. n \in Nat /\ s \in [1 .. n -> Hashed]
  BY DEF Lists
<1>2. /\ first = IF n = 0 THEN Null ELSE s[1]
      /\ next \in [Elements(s, n) -> Hashed \cup {Null}]
      /\ \A i \in 1 .. n : next[s[i]] = IF i = n THEN Null ELSE s[i + 1]
  BY DEF Linked, TheList
<1>3. ASSUME NEW m \in 0 .. n
      PROVE  Prefix(m) \in Seq(Hashed) /\ Len(Prefix(m)) = m /\ (Prefix(m) = <<>> <=> m = 0)
  <2>1. m \in Nat /\ Prefix(m) \in [1 .. m -> Hashed]
    BY <1>1
  <2> HIDE DEF Prefix
  <2> QED BY <2>1
<1>4. ASSUME NEW m \in 0 .. n
      PROVE  Follow(Prefix(m)) = Prefix(AtMost(m + 1))
  <2> DEFINE b == Prefix(m)
             h == IF b = <<>> THEN first ELSE next[b[Len(b)]]
  <2>1. h = IF m = n THEN Null ELSE s[m + 1]
    <3>1. CASE m = 0
      BY <1>2, <1>3, <3>1
    <3>2. CASE m # 0
      <4>1. m \in 1 .. n /\ b[m] = s[m] /\ Len(b) = m /\ b # <<>>
        BY <1>1, <1>3, <3>2
      <4> QED BY <1>2, <4>1
    <3> QED BY <3>1, <3>2
  <2>2. CASE m = n
    <3>1. AtMost(m + 1) = m
      BY <1>1, <2>2
    <3> HIDE DEF Prefix, AtMost, h
    <3> QED BY <2>1, <2>2, <3>1 DEF h, Follow
  <2>3. CASE m # n
    <3>1. m + 1 \in 1 .. n /\ AtMost(m + 1) = m + 1 /\ s[m + 1] # Null /\ s[m + 1] \in Hashed
      BY <1>1, <2>3, NullIsNone
    <3>2. Append(b, s[m + 1]) = Prefix(m + 1)
      <4>1. b \in Seq(Hashed) /\ Len(b) = m
        BY <1>3
      <4>2. /\ Append(b, s[m + 1]) \in Seq(Hashed) /\ Len(Append(b, s[m + 1])) = m + 1
            /\ \A i \in 1 .. m + 1 : Append(b, s[m + 1])[i] = IF i = m + 1 THEN s[m + 1] ELSE b[i]
        <5> HIDE DEF b
        <5> QED BY <3>1, <4>1
      <4>3. Append(b, s[m + 1]) = [i \in 1 .. m + 1 |-> Append(b, s[m + 1])[i]]
        <5> HIDE DEF b
        <5> QED BY <4>2
      <4>4. \A i \in 1 .. m + 1 : Append(b, s[m + 1])[i] = s[i]
        BY <4>2
      <4> HIDE DEF b
      <4> QED BY <4>3, <4>4
    <3>3. Follow(b) = IF h = Null THEN b ELSE Append(b, h)
      BY DEF Follow
    <3>4. h = s[m + 1]
      BY <2>1, <2>3
    <3> HIDE DEF Prefix, AtMost, h, b
    <3>5. Follow(b) = Prefix(AtMost(m + 1))
      BY <3>1, <3>2, <3>3, <3>4
    <3> QED BY <3>5 DEF b
  <2> QED BY <2>2, <2>3
<1>5. ASSUME NEW m \in 0 .. top, m # 0
      PROVE  p[m - 1] = Prefix(AtMost(m - 1)) /\ Follow(p[m - 1]) = p[m] /\ m - 1 \in 0 .. top
  <2>1. m - 1 \in 0 .. top /\ m - 1 \in 0 .. n /\ AtMost(m - 1) = m - 1 /\ (m - 1) + 1 = m
    BY <1>1, <1>5
  <2>2. Follow(Prefix(m - 1)) = Prefix(AtMost(m))
    BY <1>4, <2>1
  <2> HIDE DEF Prefix, AtMost
  <2> QED BY <2>1, <2>2
<1>6. p[0] = <<>>
  BY <1>1, <1>3
<1>7. ChainsOn(p, top)
  <2>1. \A m \in 0 .. top : p[m] = IF m = 0 THEN <<>> ELSE Follow(p[m - 1])
    <3> HIDE DEF p, top
    <3> QED BY <1>5, <1>6
  <2>2. p = [m \in 0 .. top |-> p[m]]
    OBVIOUS
  <2> HIDE DEF p
  <2> QED BY <2>1, <2>2 DEF ChainsOn
<1> DEFINE c == CHOOSE q : ChainsOn(q, top)
<1>8. ChainsOn(c, top)
  BY <1>7
<1>9. Chain = c[top]
  <2>1. DOMAIN next = Elements(s, n)
    BY <1>2
  <2>2. Cardinality(DOMAIN next) + 1 = top
    BY <2>1, ElementsCounted
  <2> QED BY <2>2 DEF Chain, ChainsOn, Follow
<1> HIDE DEF c
<1>10. \A m \in 0 .. top : c[m] = IF m = 0 THEN <<>> ELSE Follow(c[m - 1])
  BY <1>8 DEF ChainsOn
<1> DEFINE same == {m \in Nat : m \in 0 .. top => c[m] = p[m]}
<1>11. 0 \in same
  BY <1>1, <1>6, <1>10
<1>12. ASSUME NEW m \in Nat, m \in same PROVE m + 1 \in same
  <2> SUFFICES ASSUME m + 1 \in 0 .. top PROVE c[m + 1] = p[m + 1]
    OBVIOUS
  <2>1. m \in 0 .. top /\ (m + 1) - 1 = m /\ m + 1 # 0
    BY <1>1
  <2>2. c[m] = p[m]
    BY <1>12, <2>1
  <2>3. c[m + 1] = Follow(c[m])
    BY <1>10, <2>1
  <2>4. Follow(p[m]) = p[m + 1]
    <3>1. Follow(p[(m + 1) - 1]) = p[m + 1]
      <4> HIDE DEF p, top
      <4> QED BY <1>5, <2>1
    <3> QED BY <2>1, <3>1
  <2> HIDE DEF p
  <2> QED BY <2>2, <2>3, <2>4
<1>13. \A m \in Nat : m \in same
  <2> HIDE DEF same
  <2> QED BY <1>11, <1>12, NumberInduction
<1>14. top \in Nat /\ top \in 0 .. top /\ AtMost(top) = n
  BY <1>1
<1>15. c[top] = p[top]
  <2> HIDE DEF p, top
  <2> QED BY <1>13, <1>14
<1>16. Prefix(n) = s
  BY <1>1
<1> QED BY <1>9, <1>14, <1>15, <1>16

-----------------------------------------------------------------------------
(* The entries of the cache and their sizes *)

CacheEntry == [key : CacheKey, bytes : Bytes]

\* The bytes of the entries e.
Size(e) == SumFunction([h \in DOMAIN e |-> e[h].bytes])

\* What leaves gives its bytes back.
LEMMA SizeDrop ==
  ASSUME NEW D, IsFiniteSet(D), NEW e, e \in [D -> CacheEntry], NEW h \in D
  PROVE  /\ Size(e) \in Nat /\ Size(Drop(e, h)) \in Nat /\ e[h].bytes \in Nat
         /\ Size(e) = e[h].bytes + Size(Drop(e, h))
<1> DEFINE f == [x \in D |-> e[x].bytes]
           g == [x \in D \ {h} |-> e[x].bytes]
<1>1. \A x \in D : f[x] \in Nat /\ f[x] = e[x].bytes
  BY LruAssumption DEF CacheEntry
<1>2. \A x \in D \ {h} : Drop(e, h)[x] = e[x]
  BY DEF Drop
<1>3. Size(e) = SumFunctionOnSet(f, D)
  BY DEF Size, SumFunction
<1>4. Size(Drop(e, h)) = SumFunctionOnSet(g, D \ {h})
  <2>1. DOMAIN Drop(e, h) = D \ {h}
    BY DEF Drop
  <2>2. [x \in DOMAIN Drop(e, h) |-> Drop(e, h)[x].bytes] = g
    BY <1>2, <2>1
  <2>3. DOMAIN g = D \ {h}
    OBVIOUS
  <2> HIDE DEF g
  <2> QED BY <2>2, <2>3 DEF Size, SumFunction
<1>5. IsFiniteSet(D \ {h})
  BY FS_RemoveElement
<1>6. \A x \in D \ {h} : g[x] = f[x]
  OBVIOUS
<1> HIDE DEF f, g
<1>7. SumFunctionOnSet(g, D \ {h}) = SumFunctionOnSet(f, D \ {h})
  BY <1>5, <1>6, SumSame
<1>8. SumFunctionOnSet(f, D) = f[h] + SumFunctionOnSet(f, D \ {h})
  BY <1>1, SumRemove
<1>9. SumFunctionOnSet(f, D) \in Nat /\ SumFunctionOnSet(f, D \ {h}) \in Nat
  BY <1>1, <1>5, SumType
<1> QED BY <1>1, <1>2, <1>3, <1>4, <1>7, <1>8, <1>9

\* What comes takes its bytes, and what it replaces gives them back.
LEMMA SizeSet ==
  ASSUME NEW D, IsFiniteSet(D), NEW e, e \in [D -> CacheEntry], NEW h, NEW x \in CacheEntry
  PROVE  /\ Size(e) \in Nat /\ x.bytes \in Nat
         /\ Size(Set(e, h, x)) = (Size(e) + x.bytes) - (IF h \in D THEN e[h].bytes ELSE 0)
<1> DEFINE a == Set(e, h, x)
<1>1. /\ a \in [D \cup {h} -> CacheEntry] /\ a[h] = x /\ DOMAIN a = D \cup {h}
      /\ \A y \in D \ {h} : a[y] = e[y]
  BY DEF Set
<1>2. IsFiniteSet(D \cup {h}) /\ h \in D \cup {h}
  BY FS_AddElement
<1> HIDE DEF a
<1>3. Size(a) = x.bytes + Size(Drop(a, h)) /\ Size(Drop(a, h)) \in Nat /\ x.bytes \in Nat
  <2> DEFINE B == D \cup {h}
  <2>1. IsFiniteSet(B) /\ h \in B /\ a \in [B -> CacheEntry] /\ a[h] = x
    BY <1>1, <1>2
  <2> HIDE DEF B
  <2>2. Size(a) = a[h].bytes + Size(Drop(a, h)) /\ Size(Drop(a, h)) \in Nat /\ a[h].bytes \in Nat
    BY <2>1, SizeDrop
  <2> QED BY <2>1, <2>2
<1>4. CASE h \in D
  <2>1. Drop(a, h) = Drop(e, h)
    <3>1. DOMAIN a \ {h} = D \ {h} /\ DOMAIN e = D
      BY <1>1
    <3>2. Drop(a, h) = [y \in D \ {h} |-> a[y]] /\ Drop(e, h) = [y \in D \ {h} |-> e[y]]
      BY ONLY <3>1 DEF Drop
    <3>3. [y \in D \ {h} |-> a[y]] = [y \in D \ {h} |-> e[y]]
      BY <1>1
    <3> QED BY <3>2, <3>3
  <2>2. Size(e) \in Nat /\ e[h].bytes \in Nat /\ Size(e) = e[h].bytes + Size(Drop(e, h))
    BY <1>4, SizeDrop
  <2> QED BY <1>1, <1>3, <1>4, <2>1, <2>2 DEF a
<1>5. CASE h \notin D
  <2>1. Drop(a, h) = e
    <3>1. DOMAIN a \ {h} = D /\ D \ {h} = D
      BY <1>1, <1>5
    <3>2. Drop(a, h) = [y \in D |-> a[y]]
      BY ONLY <3>1 DEF Drop
    <3>3. \A y \in D : a[y] = e[y]
      BY <1>1, <3>1
    <3>4. [y \in D |-> a[y]] = [y \in D |-> e[y]]
      BY <3>3
    <3> QED BY <3>2, <3>4
  <2> QED BY <1>1, <1>3, <1>5, <2>1 DEF a
<1> QED BY <1>4, <1>5

\* The state c of put(), its list, entries and bytes, is that of the hashes s.
Holds(c, s, n) ==
  /\ Lists(s, n)
  /\ Linked(c.list, s, n)
  /\ c.entries \in [Elements(s, n) -> CacheEntry]
  /\ \A h \in Elements(s, n) : Hash[c.entries[h].key] = h
  /\ c.used = Size(c.entries)

\* The first element leaves with its entry.
LEMMA KickOutHolds ==
  ASSUME NEW s, NEW n, NEW c, Holds(c, s, n), n # 0
  PROVE  Holds(KickOut(c), Rest(s, n), n - 1)
<1> DEFINE E == Elements(s, n)
           h == s[1]
           k == KickOut(c)
<1>1. Lists(s, n) /\ Linked(c.list, s, n) /\ c.entries \in [E -> CacheEntry]
  BY DEF Holds
<1>2. h \in E /\ c.list.first = h
  <2>1. n \in Nat /\ 1 \in 1 .. n
    BY <1>1 DEF Lists
  <2> QED BY <1>1, <2>1 DEF Linked, Elements
<1>3. /\ k.list = RemoveOldest(c.list) /\ k.entries = Drop(c.entries, h)
      /\ k.used = c.used - c.entries[h].bytes
  BY <1>2 DEF KickOut
<1>4. /\ Lists(Rest(s, n), n - 1)
      /\ Elements(Rest(s, n), n - 1) = E \ {h}
      /\ Linked(RemoveOldest(c.list), Rest(s, n), n - 1)
  BY <1>1, RemoveOldestLinks
<1>5. IsFiniteSet(E)
  BY <1>1, ElementsCounted
<1> HIDE DEF E, h, k
<1>6. /\ Size(c.entries) \in Nat /\ Size(Drop(c.entries, h)) \in Nat /\ c.entries[h].bytes \in Nat
      /\ Size(c.entries) = c.entries[h].bytes + Size(Drop(c.entries, h))
  BY <1>1, <1>2, <1>5, SizeDrop
<1>7. k.used = Size(k.entries)
  BY <1>3, <1>6 DEF Holds
<1>8. k.entries \in [E \ {h} -> CacheEntry] /\ \A x \in E \ {h} : k.entries[x] = c.entries[x]
  BY <1>1, <1>3 DEF Drop
<1>9. \A x \in E \ {h} : Hash[k.entries[x].key] = x
  BY <1>8 DEF Holds, E
<1>10. Holds(k, Rest(s, n), n - 1)
  BY <1>3, <1>4, <1>7, <1>8, <1>9 DEF Holds
<1> QED BY <1>10 DEF k

\* s without its first m elements.
Suffix(s, n, m) == [i \in 1 .. n - m |-> s[i + m]]

\* One round of the loop that makes room for b bytes.
OneRound(b, c) == IF b <= Budget - c.used \/ c.list.first = Null THEN c ELSE KickOut(c)

TheCache == [list |-> TheList, entries |-> entries, used |-> used]

RoundsOn(r, b, top) == r = [i \in 0 .. top |-> OneRound(b, IF i = 0 THEN TheCache ELSE r[i - 1])]

\* The recursion of the loop has a solution.
LEMMA RoundsExist ==
  ASSUME NEW b, NEW top \in Nat
  PROVE  \E r : RoundsOn(r, b, top)
<1> DEFINE good == {m \in Nat : \E r : RoundsOn(r, b, m)}
<1>1. 0 \in good
  <2> DEFINE r == [i \in 0 .. 0 |-> OneRound(b, TheCache)]
  <2>1. \A i \in 0 .. 0 : i = 0
    OBVIOUS
  <2>2. RoundsOn(r, b, 0)
    BY <2>1 DEF RoundsOn
  <2> QED BY <2>2
<1>2. ASSUME NEW m \in Nat, m \in good PROVE m + 1 \in good
  <2>1. PICK r : RoundsOn(r, b, m)
    BY <1>2
  <2> DEFINE q == [i \in 0 .. m + 1 |-> OneRound(b, IF i = 0 THEN TheCache ELSE r[i - 1])]
  <2>2. ASSUME NEW i \in 0 .. m + 1, i # 0 PROVE q[i - 1] = r[i - 1]
    <3>1. i - 1 \in 0 .. m /\ i - 1 \in 0 .. m + 1
      BY <2>2
    <3>2. r[i - 1] = OneRound(b, IF i - 1 = 0 THEN TheCache ELSE r[(i - 1) - 1])
      BY <2>1, <3>1 DEF RoundsOn
    <3> QED BY <3>1, <3>2
  <2>3. q = [i \in 0 .. m + 1 |-> OneRound(b, IF i = 0 THEN TheCache ELSE q[i - 1])]
    BY <2>2
  <2> HIDE DEF q
  <2> QED BY <2>3 DEF RoundsOn
<1>3. \A m \in Nat : m \in good
  <2> HIDE DEF good
  <2> QED BY <1>1, <1>2, NumberInduction
<1> QED BY <1>3

\* Nothing left out, and one more left out.
LEMMA SuffixSteps ==
  ASSUME NEW s, NEW n, Lists(s, n)
  PROVE  /\ Suffix(s, n, 0) = s /\ n - 0 = n
         /\ \A m \in 0 .. n : m # n => /\ Rest(Suffix(s, n, m), n - m) = Suffix(s, n, m + 1)
                                       /\ (n - m) - 1 = n - (m + 1)
<1>1. n \in Nat /\ s \in [1 .. n -> Hashed]
  BY DEF Lists
<1>2. Suffix(s, n, 0) = s /\ n - 0 = n
  <2>1. \A i \in 1 .. n : i + 0 = i
    BY <1>1
  <2>2. n - 0 = n
    BY <1>1
  <2> QED BY <1>1, <2>1, <2>2 DEF Suffix
<1>3. ASSUME NEW m \in 0 .. n, m # n
      PROVE  Rest(Suffix(s, n, m), n - m) = Suffix(s, n, m + 1) /\ (n - m) - 1 = n - (m + 1)
  <2>1. (n - m) - 1 = n - (m + 1)
    BY <1>1
  <2>2. ASSUME NEW i \in 1 .. n - (m + 1) PROVE Suffix(s, n, m)[i + 1] = s[i + (m + 1)]
    <3>1. i + 1 \in 1 .. n - m /\ (i + 1) + m = i + (m + 1)
      BY <1>1
    <3> QED BY <3>1 DEF Suffix
  <2> QED BY <2>1, <2>2 DEF Rest, Suffix
<1> QED BY <1>2, <1>3

\* The bytes of the entries of no hash.
LEMMA SizeOfNothing ==
  ASSUME NEW c, NEW s, Holds(c, s, 0)
  PROVE  c.used = 0 /\ c.list.first = Null
<1>1. Elements(s, 0) = {}
  BY DEF Elements
<1>2. c.entries \in [{} -> CacheEntry]
  BY <1>1 DEF Holds
<1>3. DOMAIN c.entries = {}
  BY <1>2
<1>4. IsFiniteSet({})
  BY FS_EmptySet
<1>5. \A f : SumFunctionOnSet(f, {}) = 0
  BY <1>4, SumStep
<1>6. DOMAIN [h \in DOMAIN c.entries |-> c.entries[h].bytes] = {}
  BY <1>3
<1>7. Size(c.entries) = 0
  BY <1>5, <1>6 DEF Size, SumFunction
<1> QED BY <1>7 DEF Holds, Linked

\* put() makes room by letting the oldest entries go, and there is room then.
LEMMA MakeRoomHolds ==
  ASSUME NEW s, NEW n, Holds(TheCache, s, n), NEW b \in Nat, b <= Budget
  PROVE  \E m \in 0 .. n : /\ Holds(MakeRoom(b), Suffix(s, n, m), n - m)
                           /\ b <= Budget - MakeRoom(b).used
<1>1. Lists(s, n) /\ n \in Nat
  BY DEF Holds, Lists
<1> DEFINE r == CHOOSE q : RoundsOn(q, b, n)
<1>2. RoundsOn(r, b, n)
  BY <1>1, RoundsExist
<1>3. MakeRoom(b) = r[n]
  <2>1. DOMAIN entries = Elements(s, n)
    <3>1. TheCache.entries = entries
      BY DEF TheCache
    <3> QED BY <3>1 DEF Holds
  <2>2. Cardinality(DOMAIN entries) = n
    BY <1>1, <2>1, ElementsCounted
  <2> QED BY <2>2 DEF MakeRoom, RoundsOn, OneRound, TheCache, TheList
<1> HIDE DEF r
<1>4. \A i \in 0 .. n : r[i] = OneRound(b, IF i = 0 THEN TheCache ELSE r[i - 1])
  BY <1>2 DEF RoundsOn
<1> DEFINE Roomy(c) == b <= Budget - c.used
           At(c, m) == Holds(c, Suffix(s, n, m), n - m)
           Gone(c, i) == \E m \in 0 .. n : At(c, m) /\ (Roomy(c) \/ m = n \/ m >= i)
<1>5. ASSUME NEW c, NEW i \in Nat, Gone(c, i) PROVE Gone(OneRound(b, c), i + 1)
  <2>1. PICK m \in 0 .. n : At(c, m) /\ (Roomy(c) \/ m = n \/ m >= i)
    BY <1>5
  <2>2. CASE Roomy(c)
    <3>1. OneRound(b, c) = c
      BY <2>2 DEF OneRound
    <3> HIDE DEF Roomy, At
    <3> QED BY <2>1, <2>2, <3>1
  <2>3. CASE m = n
    <3>1. n - n = 0
      BY <1>1
    <3>2. c.list.first = Null
      BY <2>1, <2>3, <3>1, SizeOfNothing
    <3>3. OneRound(b, c) = c
      BY <3>2 DEF OneRound
    <3> HIDE DEF Roomy, At
    <3> QED BY <2>1, <2>3, <3>3
  <2>4. CASE ~Roomy(c) /\ m # n
    <3>1. n - m \in Nat /\ n - m # 0 /\ 1 \in 1 .. n - m /\ m >= i /\ m \in Nat
      BY <1>1, <2>1, <2>4
    <3>2. c.list.first # Null
      <4>1. c.list.first = Suffix(s, n, m)[1]
        BY <2>1, <3>1 DEF Holds, Linked
      <4>2. Suffix(s, n, m)[1] \in Hashed
        BY <2>1, <3>1 DEF Holds, Lists
      <4> QED BY <4>1, <4>2, NullIsNone
    <3>3. OneRound(b, c) = KickOut(c)
      BY <2>4, <3>2 DEF OneRound
    <3>4. Holds(KickOut(c), Rest(Suffix(s, n, m), n - m), (n - m) - 1)
      BY <2>1, <3>1, KickOutHolds
    <3>5. At(KickOut(c), m + 1)
      BY <1>1, <2>4, <3>4, SuffixSteps
    <3>6. m + 1 \in 0 .. n /\ m + 1 >= i + 1
      BY <1>1, <2>4, <3>1
    <3> HIDE DEF Roomy, At
    <3> QED BY <3>3, <3>5, <3>6
  <2> QED BY <2>1, <2>2, <2>3, <2>4
<1>6. Gone(TheCache, 0)
  <2>1. At(TheCache, 0)
    BY <1>1, SuffixSteps
  <2>2. 0 \in 0 .. n /\ 0 >= 0
    BY <1>1
  <2> HIDE DEF At, Roomy
  <2> QED BY <2>1, <2>2
<1> HIDE DEF Gone
<1> DEFINE good == {i \in Nat : i \in 0 .. n => Gone(r[i], i + 1)}
<1>7. 0 \in good
  <2>1. 0 \in 0 .. n /\ r[0] = OneRound(b, TheCache)
    BY <1>1, <1>4
  <2> QED BY <1>5, <1>6, <2>1
<1>8. ASSUME NEW i \in Nat, i \in good PROVE i + 1 \in good
  <2> SUFFICES ASSUME i + 1 \in 0 .. n PROVE Gone(r[i + 1], (i + 1) + 1)
    OBVIOUS
  <2>1. i \in 0 .. n /\ (i + 1) - 1 = i /\ i + 1 # 0
    BY <1>1
  <2>2. r[i + 1] = OneRound(b, r[i])
    BY <1>4, <2>1
  <2>3. Gone(r[i], i + 1)
    BY <1>8, <2>1
  <2> QED BY <1>5, <2>2, <2>3
<1>9. \A i \in Nat : i \in good
  <2> HIDE DEF good
  <2> QED BY <1>7, <1>8, NumberInduction
<1>10. Gone(r[n], n + 1)
  <2>1. n \in 0 .. n
    BY <1>1
  <2> QED BY <1>1, <1>9, <2>1
<1>11. PICK m \in 0 .. n : At(r[n], m) /\ (Roomy(r[n]) \/ m = n \/ m >= n + 1)
  BY <1>10 DEF Gone
<1>12. Roomy(r[n])
  <2>1. CASE m = n
    <3>1. n - n = 0
      BY <1>1
    <3>2. r[n].used = 0
      BY <1>11, <2>1, <3>1, SizeOfNothing
    <3> QED BY <3>2, LruAssumption
  <2>2. ~(m >= n + 1)
    BY <1>1
  <2> QED BY <1>11, <2>1, <2>2
<1> QED BY <1>3, <1>11, <1>12

-----------------------------------------------------------------------------
(* The steps of the cache *)

\* t, of j hashes, is s with h made the newest.
Newest(h, s, n, t, j) ==
  IF h \in Elements(s, n)
  THEN j = n /\ \E p \in 1 .. n : s[p] = h /\ t = Moved(s, n, p)
  ELSE j = n + 1 /\ t = Longer(s, n, h)

\* The list of get() and put(), once h is used.
Touched(c, h) == IF h \in DOMAIN c.entries THEN MoveToLast(c.list, h) ELSE AddElement(c.list, h)

\* Using h makes it the newest of the list.
LEMMA TouchedLinks ==
  ASSUME NEW s, NEW n, NEW c, Holds(c, s, n), NEW h \in Hashed
  PROVE  \E t, j : /\ Lists(t, j) /\ Linked(Touched(c, h), t, j)
                   /\ Elements(t, j) = Elements(s, n) \cup {h}
                   /\ Newest(h, s, n, t, j)
<1>1. Lists(s, n) /\ Linked(c.list, s, n) /\ DOMAIN c.entries = Elements(s, n)
  BY DEF Holds
<1>2. CASE h \in Elements(s, n)
  <2>1. PICK p \in 1 .. n : s[p] = h
    BY <1>2 DEF Elements
  <2>2. /\ Lists(Moved(s, n, p), n) /\ Elements(Moved(s, n, p), n) = Elements(s, n)
        /\ Linked(MoveToLast(c.list, s[p]), Moved(s, n, p), n)
    BY <1>1, MoveToLastLinks
  <2>3. Touched(c, h) = MoveToLast(c.list, s[p])
    BY <1>1, <1>2, <2>1 DEF Touched
  <2>4. Newest(h, s, n, Moved(s, n, p), n)
    BY <1>2, <2>1 DEF Newest
  <2>5. Elements(s, n) \cup {h} = Elements(s, n)
    BY <1>2
  <2> QED BY <2>2, <2>3, <2>4, <2>5
<1>3. CASE h \notin Elements(s, n)
  <2>1. /\ Lists(Longer(s, n, h), n + 1) /\ Elements(Longer(s, n, h), n + 1) = Elements(s, n) \cup {h}
        /\ Linked(AddElement(c.list, h), Longer(s, n, h), n + 1)
    BY <1>1, <1>3, AddElementLinks
  <2>2. Touched(c, h) = AddElement(c.list, h)
    BY <1>1, <1>3 DEF Touched
  <2>3. Newest(h, s, n, Longer(s, n, h), n + 1)
    BY <1>3 DEF Newest
  <2> QED BY <2>1, <2>2, <2>3
<1> QED BY <1>2, <1>3

\* put() makes room, and makes its entry the newest.
LEMMA PutHolds ==
  ASSUME NEW s, NEW n, Holds(TheCache, s, n), NEW k \in CacheKey, NEW b \in Bytes, Put(k, b)
  PROVE  /\ used' <= Budget /\ last' = Hash[k] /\ Hash[k] \in Hashed
         /\ \E m \in 0 .. n : \E t, j : /\ Holds(TheCache', t, j)
                                        /\ Newest(Hash[k], Suffix(s, n, m), n - m, t, j)
<1> DEFINE h == Hash[k]
           c == MakeRoom(b)
           x == [key |-> k, bytes |-> b]
           old == IF h \in DOMAIN c.entries THEN c.entries[h].bytes ELSE 0
<1>1. h \in Hashed /\ b \in Nat /\ b <= Budget /\ x \in CacheEntry /\ x.bytes = b /\ x.key = k /\ Budget \in Nat
  BY LruAssumption DEF Hashed, Put, CacheEntry
<1>2. /\ entries' = Set(c.entries, h, x) /\ used' = (c.used + b) - old /\ last' = h
      /\ TheList' = [first |-> Touched(c, h).first, final |-> Touched(c, h).final,
                     next |-> Touched(c, h).next, previous |-> Touched(c, h).previous]
  BY DEF Put, Becomes, TheList, Touched
<1>3. PICK m \in 0 .. n : Holds(c, Suffix(s, n, m), n - m) /\ b <= Budget - c.used
  BY <1>1, MakeRoomHolds
<1> DEFINE S == Suffix(s, n, m)
           e == n - m
           E == Elements(S, e)
<1> HIDE DEF c, x, h, S, e
<1>4. Holds(c, S, e)
  BY <1>3 DEF S, e
<1>5. PICK t, j : /\ Lists(t, j) /\ Linked(Touched(c, h), t, j)
                  /\ Elements(t, j) = E \cup {h} /\ Newest(h, S, e, t, j)
  BY <1>1, <1>4, TouchedLinks
<1>6. /\ c.entries \in [E -> CacheEntry] /\ DOMAIN c.entries = E /\ c.used = Size(c.entries)
      /\ \A y \in E : Hash[c.entries[y].key] = y
  BY <1>4 DEF Holds
<1>7. IsFiniteSet(E)
  BY <1>4, ElementsCounted DEF Holds
<1> HIDE DEF E
<1>8. /\ Size(c.entries) \in Nat
      /\ Size(Set(c.entries, h, x)) = (Size(c.entries) + x.bytes) - (IF h \in E THEN c.entries[h].bytes ELSE 0)
  BY <1>1, <1>6, <1>7, SizeSet
<1>9. used' = Size(entries')
  BY <1>1, <1>2, <1>6, <1>8
<1>10. old \in Nat
  <2>1. h \in E => c.entries[h].bytes \in Nat
    BY <1>6, LruAssumption DEF CacheEntry
  <2> QED BY <1>6, <2>1
<1>11. used' <= Budget
  <2> HIDE DEF old
  <2> QED BY <1>1, <1>2, <1>3, <1>6, <1>8, <1>10
<1>12. entries' \in [E \cup {h} -> CacheEntry] /\ \A y \in E \cup {h} : Hash[entries'[y].key] = y
  <2>1. Set(c.entries, h, x) = [y \in E \cup {h} |-> IF y = h THEN x ELSE c.entries[y]]
    BY <1>6 DEF Set
  <2>2. entries' \in [E \cup {h} -> CacheEntry]
    BY <1>1, <1>2, <1>6, <2>1
  <2>3. ASSUME NEW y \in E \cup {h} PROVE Hash[entries'[y].key] = y
    <3>1. entries'[y] = IF y = h THEN x ELSE c.entries[y]
      BY <1>2, <2>1
    <3>2. y # h => y \in E
      OBVIOUS
    <3>3. Hash[x.key] = h
      BY <1>1 DEF h
    <3> QED BY <1>6, <3>1, <3>2, <3>3
  <2> QED BY <2>2, <2>3
<1>13. /\ TheCache'.entries = entries' /\ TheCache'.used = used' /\ TheCache'.list = TheList'
  BY DEF TheCache
<1>14. Linked(TheList', t, j)
  BY <1>2, <1>5 DEF Linked
<1>15. Holds(TheCache', t, j)
  BY <1>5, <1>9, <1>12, <1>13, <1>14 DEF Holds
<1> QED BY <1>1, <1>2, <1>5, <1>11, <1>15 DEF S, e, h

\* get() makes the entry it finds the newest.
LEMMA GetHolds ==
  ASSUME NEW s, NEW n, Holds(TheCache, s, n), NEW k \in CacheKey, Get(k)
  PROVE  /\ used' = used /\ last' = Hash[k] /\ Hash[k] \in Hashed
         /\ \E t, j : Holds(TheCache', t, j) /\ Newest(Hash[k], s, n, t, j)
<1> DEFINE h == Hash[k]
<1>1. h \in Hashed
  BY DEF Hashed
<1>2. TheCache.list = TheList /\ TheCache.entries = entries /\ TheCache.used = used
  BY DEF TheCache
<1>3. /\ h \in DOMAIN entries /\ entries' = entries /\ used' = used /\ last' = h
      /\ TheList' = [first |-> Touched(TheCache, h).first, final |-> Touched(TheCache, h).final,
                     next |-> Touched(TheCache, h).next, previous |-> Touched(TheCache, h).previous]
  BY <1>2 DEF Get, Becomes, TheList, Touched
<1> HIDE DEF h
<1>4. PICK t, j : /\ Lists(t, j) /\ Linked(Touched(TheCache, h), t, j)
                  /\ Elements(t, j) = Elements(s, n) \cup {h} /\ Newest(h, s, n, t, j)
  BY <1>1, TouchedLinks
<1>5. /\ entries \in [Elements(s, n) -> CacheEntry] /\ used = Size(entries)
      /\ \A y \in Elements(s, n) : Hash[entries[y].key] = y
  BY <1>2 DEF Holds
<1>6. Elements(t, j) = Elements(s, n)
  BY <1>3, <1>4, <1>5
<1>7. /\ TheCache'.entries = entries' /\ TheCache'.used = used' /\ TheCache'.list = TheList'
  BY DEF TheCache
<1>8. Linked(TheList', t, j)
  BY <1>3, <1>4 DEF Linked
<1>9. Holds(TheCache', t, j)
  BY <1>3, <1>4, <1>5, <1>6, <1>7, <1>8 DEF Holds
<1> QED BY <1>1, <1>3, <1>4, <1>9 DEF h

\* An empty cache.
LEMMA EmptyHolds ==
  ASSUME NEW c, c.list.first = Null, c.list.final = Null, c.list.next = <<>>, c.list.previous = <<>>,
         c.entries = <<>>, c.used = 0
  PROVE  Holds(c, <<>>, 0)
<1>1. 1 .. 0 = {} /\ Elements(<<>>, 0) = {}
  BY DEF Elements
<1>2. \A T : <<>> \in [{} -> T]
  OBVIOUS
<1>3. Lists(<<>>, 0)
  BY <1>1, <1>2 DEF Lists
<1>4. Size(<<>>) = 0
  <2>1. DOMAIN [h \in DOMAIN <<>> |-> <<>>[h].bytes] = {}
    OBVIOUS
  <2>2. IsFiniteSet({})
    BY FS_EmptySet
  <2>3. \A f : SumFunctionOnSet(f, {}) = 0
    BY <2>2, SumStep
  <2> QED BY <2>1, <2>3 DEF Size, SumFunction
<1>5. Linked(c.list, <<>>, 0)
  BY <1>1, <1>2 DEF Linked
<1> QED BY <1>1, <1>2, <1>3, <1>4, <1>5 DEF Holds

\* A list of hashes is a sequence of them.
LEMMA ListsAre ==
  ASSUME NEW s, NEW n, Lists(s, n)
  PROVE  s \in Seq(Hashed) /\ Len(s) = n /\ n \in Nat /\ s = [i \in 1 .. n |-> s[i]]
BY DEF Lists

\* What the first m elements leave behind.
LEMMA SuffixIs ==
  ASSUME NEW s, NEW n, Lists(s, n), NEW m \in 0 .. n
  PROVE  SubSeq(s, m + 1, Len(s)) = Suffix(s, n, m) /\ Lists(Suffix(s, n, m), n - m)
<1>1. s \in Seq(Hashed) /\ Len(s) = n /\ n \in Nat /\ m \in Nat /\ s \in [1 .. n -> Hashed]
  BY ListsAre DEF Lists
<1>2. SubSeq(s, m + 1, n) = [i \in 1 .. (n - (m + 1)) + 1 |-> s[(i + (m + 1)) - 1]]
  BY <1>1
<1>3. (n - (m + 1)) + 1 = n - m /\ n - m \in Nat
  BY <1>1
<1>4. \A i \in 1 .. n - m : (i + (m + 1)) - 1 = i + m /\ i + m \in 1 .. n
  BY <1>1
<1>5. Lists(Suffix(s, n, m), n - m)
  <2>1. ASSUME NEW i \in 1 .. n - m, NEW j \in 1 .. n - m, s[i + m] = s[j + m] PROVE i = j
    <3>1. i + m = j + m
      BY <1>4, <2>1 DEF Lists
    <3> QED BY <1>1, <3>1
  <2> QED BY <1>1, <1>3, <1>4, <2>1 DEF Lists, Suffix
<1> QED BY <1>1, <1>2, <1>3, <1>4, <1>5 DEF Suffix

\* Appending to a list.
LEMMA AppendIs ==
  ASSUME NEW s, NEW n \in Nat, s \in [1 .. n -> Hashed], NEW h \in Hashed
  PROVE  Append(s, h) = Longer(s, n, h)
<1>1. s \in Seq(Hashed) /\ Len(s) = n
  OBVIOUS
<1>2. /\ Append(s, h) \in Seq(Hashed) /\ Len(Append(s, h)) = n + 1
      /\ \A i \in 1 .. n + 1 : Append(s, h)[i] = IF i = n + 1 THEN h ELSE s[i]
  BY <1>1
<1>3. Append(s, h) = [i \in 1 .. n + 1 |-> Append(s, h)[i]]
  <2> DEFINE a == Append(s, h)
  <2>1. a \in Seq(Hashed) /\ Len(a) = n + 1
    BY <1>2
  <2> HIDE DEF a
  <2>2. a = [i \in 1 .. n + 1 |-> a[i]]
    BY <2>1
  <2> QED BY <2>2 DEF a
<1> QED BY <1>2, <1>3 DEF Longer

\* To use h is to take it out, if it is there, and to append it.
LEMMA NewestIs ==
  ASSUME NEW s, NEW n, Lists(s, n), NEW h \in Hashed, NEW t, NEW j, Newest(h, s, n, t, j)
  PROVE  t = Append(Recency!Without(s, h), h)
<1>1. s \in Seq(Hashed) /\ Len(s) = n /\ n \in Nat /\ s \in [1 .. n -> Hashed]
  BY ListsAre DEF Lists
<1>2. CASE h \in Elements(s, n)
  <2>1. PICK p \in 1 .. n : s[p] = h /\ t = Moved(s, n, p)
    BY <1>2 DEF Newest
  <2>2. p = CHOOSE i \in 1 .. n : s[i] = h
    BY <2>1 DEF Lists
  <2> DEFINE r == [i \in 1 .. n - 1 |-> IF i < p THEN s[i] ELSE s[i + 1]]
  <2>3. Recency!Without(s, h) = r
    <3>1. \E i \in 1 .. Len(s) : s[i] = h
      BY <1>1, <2>1
    <3>2. Recency!Without(s, h) = Recency!RemoveAt(s, CHOOSE i \in 1 .. Len(s) : s[i] = h)
      BY <3>1 DEF Recency!Without
    <3>3. Recency!Without(s, h) = Recency!RemoveAt(s, p)
      BY <1>1, <2>2, <3>2
    <3> QED BY <1>1, <3>3 DEF Recency!RemoveAt
  <2>4. n - 1 \in Nat /\ r \in [1 .. n - 1 -> Hashed] /\ (n - 1) + 1 = n
    <3>1. \A i \in 1 .. n - 1 : i \in 1 .. n /\ i + 1 \in 1 .. n
      BY <1>1
    <3> QED BY <1>1, <2>1, <3>1
  <2> HIDE DEF r
  <2>5. Append(r, h) = Longer(r, n - 1, h)
    BY <2>4, AppendIs
  <2>6. Longer(r, n - 1, h) = Moved(s, n, p)
    <3>1. ASSUME NEW i \in 1 .. n
          PROVE  (IF i = n THEN h ELSE r[i]) = IF i < p THEN s[i] ELSE IF i < n THEN s[i + 1] ELSE s[p]
      <4>1. i # n => i \in 1 .. n - 1 /\ i < n
        BY <1>1
      <4>2. i = n => ~(i < p) /\ ~(i < n)
        BY <1>1
      <4> QED BY <2>1, <4>1, <4>2 DEF r
    <3> QED BY <2>4, <3>1 DEF Longer, Moved
  <2> QED BY <2>1, <2>3, <2>5, <2>6
<1>3. CASE h \notin Elements(s, n)
  <2>1. t = Longer(s, n, h)
    BY <1>3 DEF Newest
  <2>2. ~\E i \in 1 .. Len(s) : s[i] = h
    BY <1>1, <1>3 DEF Elements
  <2>3. Recency!Without(s, h) = s
    BY <2>2 DEF Recency!Without
  <2> QED BY <1>1, <2>1, <2>3, AppendIs
<1> QED BY <1>2, <1>3

-----------------------------------------------------------------------------
(* The cache: its inductive invariant *)

\* Some list of hashes is behind the links, the entries and the bytes used.
CacheIInv ==
  /\ \E s, n : Holds(TheCache, s, n)
  /\ used <= Budget
  /\ last \in Hashed \cup {Null}

LEMMA CacheStarts == CacheInit => CacheIInv /\ Chain = <<>>
<1> SUFFICES ASSUME CacheInit PROVE CacheIInv /\ Chain = <<>>
  OBVIOUS
<1>1. Holds(TheCache, <<>>, 0)
  BY EmptyHolds DEF CacheInit, TheCache, TheList
<1>2. used <= Budget /\ last \in Hashed \cup {Null}
  BY LruAssumption DEF CacheInit
<1>3. Chain = <<>>
  BY <1>1, ChainIs DEF Holds, TheCache
<1> QED BY <1>1, <1>2, <1>3 DEF CacheIInv

\* What the chain is before and after a step.
LEMMA ChainNow == \A s, n : Holds(TheCache, s, n) => Chain = s
BY ChainIs DEF Holds, TheCache

LEMMA ChainThen == \A s, n : Holds(TheCache', s, n) => Chain' = s
<1>1. (\A s, n : Holds(TheCache, s, n) => Chain = s)'
  BY ChainNow, PTL
<1> QED BY <1>1

\* Letting the oldest go and making h the newest is to use h.
LEMMA UseIs ==
  ASSUME NEW s, NEW n, Holds(TheCache, s, n), NEW m \in 0 .. n, NEW h \in Hashed,
         NEW t, NEW j, Holds(TheCache', t, j), Newest(h, Suffix(s, n, m), n - m, t, j), last' = h
  PROVE  Recency!Use(h)
<1>1. Chain = s /\ Chain' = t
  BY ChainNow, ChainThen
<1>2. Lists(s, n) /\ Len(s) = n
  BY ListsAre DEF Holds
<1>3. SubSeq(s, m + 1, Len(s)) = Suffix(s, n, m) /\ Lists(Suffix(s, n, m), n - m)
  BY <1>2, SuffixIs
<1>4. t = Append(Recency!Without(Suffix(s, n, m), h), h)
  BY <1>3, NewestIs
<1>5. m \in 0 .. Len(s) /\ t = Append(Recency!Without(SubSeq(s, m + 1, Len(s)), h), h)
  BY <1>2, <1>3, <1>4
<1> QED BY <1>1, <1>5 DEF Recency!Use

\* put() keeps the invariant, and uses the hash of its key.
LEMMA PutStep ==
  ASSUME CacheIInv, NEW k \in CacheKey, NEW b \in Bytes, Put(k, b)
  PROVE  CacheIInv' /\ Recency!Use(Hash[k]) /\ Hash[k] \in Hashed
<1>1. PICK s, n : Holds(TheCache, s, n)
  BY DEF CacheIInv
<1>2. used' <= Budget /\ last' = Hash[k] /\ Hash[k] \in Hashed
  BY <1>1, PutHolds
<1>3. PICK m \in 0 .. n : \E t, j : /\ Holds(TheCache', t, j)
                                   /\ Newest(Hash[k], Suffix(s, n, m), n - m, t, j)
  BY <1>1, PutHolds
<1>4. PICK t, j : Holds(TheCache', t, j) /\ Newest(Hash[k], Suffix(s, n, m), n - m, t, j)
  BY <1>3
<1>5. CacheIInv'
  BY <1>2, <1>4 DEF CacheIInv
<1>6. Recency!Use(Hash[k])
  BY <1>1, <1>2, <1>4, UseIs
<1> QED BY <1>2, <1>5, <1>6

\* get() keeps the invariant, and uses the hash of its key.
LEMMA GetStep ==
  ASSUME CacheIInv, NEW k \in CacheKey, Get(k)
  PROVE  CacheIInv' /\ Recency!Use(Hash[k]) /\ Hash[k] \in Hashed
<1>1. PICK s, n : Holds(TheCache, s, n)
  BY DEF CacheIInv
<1>2. used' = used /\ last' = Hash[k] /\ Hash[k] \in Hashed
  BY <1>1, GetHolds
<1>3. PICK t, j : Holds(TheCache', t, j) /\ Newest(Hash[k], s, n, t, j)
  BY <1>1, GetHolds
<1>4. CacheIInv'
  BY <1>2, <1>3 DEF CacheIInv
<1>5. Suffix(s, n, 0) = s /\ n - 0 = n /\ 0 \in 0 .. n
  <2>1. Lists(s, n) /\ n \in Nat
    BY <1>1 DEF Holds, Lists
  <2> QED BY <2>1, SuffixSteps
<1>6. Recency!Use(Hash[k])
  <2>1. Newest(Hash[k], Suffix(s, n, 0), n - 0, t, j)
    BY <1>3, <1>5
  <2> QED BY <1>1, <1>2, <1>3, <1>5, <2>1, UseIs
<1> QED BY <1>2, <1>4, <1>6

\* clear() empties the cache.
LEMMA ClearStep ==
  ASSUME CacheIInv, ClearCache
  PROVE  CacheIInv' /\ Recency!Clear
<1>1. Holds(TheCache', <<>>, 0)
  <2> DEFINE c == TheCache'
  <2>1. /\ c.list.first = Null /\ c.list.final = Null /\ c.list.next = <<>> /\ c.list.previous = <<>>
        /\ c.entries = <<>> /\ c.used = 0
    BY DEF ClearCache, TheCache, TheList
  <2> HIDE DEF c
  <2>2. Holds(c, <<>>, 0)
    BY <2>1, EmptyHolds
  <2> QED BY <2>2 DEF c
<1>2. used' <= Budget /\ last' = Null
  BY LruAssumption DEF ClearCache
<1>3. Chain' = <<>>
  BY <1>1, ChainThen
<1> QED BY <1>1, <1>2, <1>3 DEF CacheIInv, Recency!Clear

\* A step that changes nothing of the cache.
LEMMA CacheRests == ASSUME CacheIInv, UNCHANGED cacheVars PROVE CacheIInv' /\ Chain' = Chain
<1>1. TheCache' = TheCache /\ used' = used /\ last' = last
  BY DEF cacheVars, TheCache, TheList
<1>2. PICK s, n : Holds(TheCache, s, n)
  BY DEF CacheIInv
<1>3. Holds(TheCache', s, n)
  BY <1>1, <1>2
<1>4. Chain' = Chain
  BY <1>2, <1>3, ChainNow, ChainThen
<1> QED BY <1>1, <1>3, <1>4 DEF CacheIInv

\* Every step keeps the invariant, and is one of RecencyList.
LEMMA CacheStep ==
  CacheIInv /\ [CacheNext]_cacheVars => CacheIInv' /\ [Recency!Next]_<<Chain, last>>
<1> SUFFICES ASSUME CacheIInv, [CacheNext]_cacheVars
             PROVE  CacheIInv' /\ [Recency!Next]_<<Chain, last>>
  OBVIOUS
<1>1. ASSUME NEW k \in CacheKey, NEW b \in Bytes, Put(k, b)
      PROVE  CacheIInv' /\ Recency!Next
  BY <1>1, PutStep DEF Recency!Next
<1>2. ASSUME NEW k \in CacheKey, Get(k) PROVE CacheIInv' /\ Recency!Next
  BY <1>2, GetStep DEF Recency!Next
<1>3. ASSUME ClearCache PROVE CacheIInv' /\ Recency!Next
  BY <1>3, ClearStep DEF Recency!Next
<1>4. ASSUME UNCHANGED cacheVars PROVE CacheIInv' /\ Chain' = Chain /\ last' = last
  BY <1>4, CacheRests DEF cacheVars
<1> QED BY <1>1, <1>2, <1>3, <1>4 DEF CacheNext

\* The consistency check that the code has commented out.
LEMMA CacheAgrees == CacheIInv => CacheConsistent /\ CacheTypeOK
<1> SUFFICES ASSUME CacheIInv PROVE CacheConsistent /\ CacheTypeOK
  OBVIOUS
<1>1. PICK s, n : Holds(TheCache, s, n)
  BY DEF CacheIInv
<1> DEFINE E == Elements(s, n)
<1>2. Chain = s
  BY <1>1, ChainNow
<1>3. Lists(s, n) /\ Len(s) = n /\ n \in Nat /\ s \in [1 .. n -> Hashed]
  BY <1>1, ListsAre DEF Holds, Lists
<1>4. /\ entries \in [E -> CacheEntry] /\ \A h \in E : Hash[entries[h].key] = h
      /\ used = Size(entries) /\ DOMAIN entries = E
  BY <1>1 DEF Holds, TheCache
<1>5. /\ first = IF n = 0 THEN Null ELSE s[1]
      /\ final = IF n = 0 THEN Null ELSE s[n]
      /\ next \in [E -> Hashed \cup {Null}] /\ previous \in [E -> Hashed \cup {Null}]
      /\ \A i \in 1 .. n : previous[s[i]] = IF i = 1 THEN Null ELSE s[i - 1]
  BY <1>1 DEF Holds, TheCache, TheList, Linked
<1>6. E \subseteq Hashed /\ IsFiniteSet(E) /\ Cardinality(E) = n
  BY <1>3, ElementsCounted DEF Elements
<1>7. E = {s[i] : i \in 1 .. Len(s)}
  BY <1>3 DEF Elements
<1>8. used \in Nat
  <2> DEFINE f == [h \in E |-> entries[h].bytes]
  <2>1. \A h \in E : f[h] \in Nat
    BY <1>4, LruAssumption DEF CacheEntry
  <2>2. used = SumFunctionOnSet(f, E)
    BY <1>4 DEF Size, SumFunction
  <2> HIDE DEF f, E
  <2> QED BY <1>6, <2>1, <2>2, SumType
<1> HIDE DEF E
<1>9. CacheConsistent
  <2>1. /\ {s[i] : i \in 1 .. Len(s)} = DOMAIN entries
        /\ Len(s) = Cardinality(DOMAIN entries)
        /\ DOMAIN next = DOMAIN entries /\ DOMAIN previous = DOMAIN entries
        /\ \A h \in DOMAIN entries : Hash[entries[h].key] = h
    BY <1>3, <1>4, <1>5, <1>6, <1>7
  <2>2. \A i \in 1 .. Len(s) : previous[s[i]] = (IF i = 1 THEN Null ELSE s[i - 1])
    BY <1>3, <1>5
  <2>3. s # <<>> => final = s[Len(s)]
    BY <1>3, <1>5
  <2>4. used = SumFunction([h \in DOMAIN entries |-> entries[h].bytes]) /\ used <= Budget
    BY <1>4 DEF Size, CacheIInv
  <2> QED BY <1>2, <2>1, <2>2, <2>3, <2>4 DEF CacheConsistent
<1>10. CacheTypeOK
  <2>1. first \in Hashed \cup {Null} /\ final \in Hashed \cup {Null}
    BY <1>3, <1>5
  <2> QED BY <1>4, <1>5, <1>6, <1>8, <2>1 DEF CacheTypeOK, CacheIInv, CacheEntry
<1> QED BY <1>9, <1>10

-----------------------------------------------------------------------------
(* The scenarios: their inductive invariant *)

ScenariosInv ==
  /\ scenario \in {"room", "tight", "plan", "cache"}
  /\ scenario = "room" => IInv /\ RoomInv /\ SoundInv /\ OwedInv
  /\ scenario = "tight" => TP!IInv
  /\ IF scenario = "plan" THEN PlanIInv ELSE results = <<>> /\ pass = "exact"
  /\ CacheIInv

\* Every scenario starts with it.
LEMMA ScenariosInit == MCInit => ScenariosInv
<1> SUFFICES ASSUME MCInit PROVE ScenariosInv
  OBVIOUS
<1> USE CacheStarts DEF MCInit
<1>1. CASE scenario = "room" /\ Init /\ PlanRest
  BY <1>1, InitInv, AnswersInit DEF ScenariosInv, PlanRest
<1>2. CASE scenario = "tight" /\ Tight!Init /\ PlanRest
  BY <1>2, SameInit, TP!InitInv, TightConstants DEF ScenariosInv, PlanRest
<1>3. CASE scenario = "plan" /\ Init /\ PlanInit
  BY <1>3, PlanStarts DEF ScenariosInv
<1>4. CASE scenario = "cache" /\ Init /\ PlanRest
  BY <1>4 DEF ScenariosInv, PlanRest
<1> QED BY <1>1, <1>2, <1>3, <1>4

\* A step of a scenario is one of its own specification, and leaves the others alone.
LEMMA ScenarioMoves ==
  ASSUME [MCNext]_everything
  PROVE  /\ scenario' = scenario
         /\ scenario = "room" => [Next]_vars
         /\ scenario = "tight" => [TP!Next]_(TP!vars)
         /\ IF scenario = "plan" THEN [PlanNext]_planVars
            ELSE scenario \in {"room", "tight", "cache"} => results' = results /\ pass' = pass
         /\ [CacheNext]_cacheVars
<1> USE DEF MCNext, QueryAnswered, everything
<1>1. scenario = "tight" => [TP!Next]_(TP!vars)
  BY SameNext DEF TP!vars, vars, TP!indexVars, indexVars, TP!readVars, readVars, TP!mergeVars, mergeVars
<1>2. scenario' = scenario /\ (scenario = "room" => [Next]_vars)
  OBVIOUS
<1>3. scenario = "plan" => [PlanNext]_planVars
  OBVIOUS
<1>4. scenario \in {"room", "tight", "cache"} => results' = results /\ pass' = pass
  <2>1. UNCHANGED planVars => results' = results /\ pass' = pass
    BY DEF planVars
  <2> QED BY <2>1
<1>5. [CacheNext]_cacheVars
  OBVIOUS
<1> QED BY <1>1, <1>2, <1>3, <1>4, <1>5

\* Every step of every scenario keeps it.
LEMMA ScenariosStep == ScenariosInv /\ [MCNext]_everything => ScenariosInv'
<1> SUFFICES ASSUME ScenariosInv, [MCNext]_everything PROVE ScenariosInv'
  OBVIOUS
<1>1. scenario' = scenario
  BY ScenarioMoves
<1>2. CacheIInv'
  BY ScenarioMoves, CacheStep DEF ScenariosInv
<1>3. CASE scenario = "room"
  <2>1. [Next]_vars /\ results' = results /\ pass' = pass
    BY <1>3, ScenarioMoves
  <2>2. IInv /\ RoomInv /\ SoundInv /\ OwedInv
    BY <1>3 DEF ScenariosInv
  <2>3. IInv' /\ RoomInv' /\ SoundInv' /\ OwedInv'
    BY <2>1, <2>2, NextInv, RoomStep, SoundStep, OwedStep, ScenarioAssumption
  <2> QED BY <1>1, <1>2, <1>3, <2>1, <2>3 DEF ScenariosInv
<1>4. CASE scenario = "tight"
  <2>1. [TP!Next]_(TP!vars) /\ results' = results /\ pass' = pass
    BY <1>4, ScenarioMoves
  <2>2. TP!IInv'
    BY <1>4, <2>1, TP!NextInv, TightConstants DEF ScenariosInv
  <2> QED BY <1>1, <1>2, <1>4, <2>1, <2>2 DEF ScenariosInv
<1>5. CASE scenario = "plan"
  <2>1. PlanIInv /\ [PlanNext]_planVars
    BY <1>5, ScenarioMoves DEF ScenariosInv
  <2>2. PlanIInv'
    BY <2>1, PlanStep
  <2> QED BY <1>1, <1>2, <1>5, <2>2 DEF ScenariosInv
<1>6. CASE scenario = "cache"
  <2>1. results' = results /\ pass' = pass
    BY <1>6, ScenarioMoves
  <2> QED BY <1>1, <1>2, <1>6, <2>1 DEF ScenariosInv
<1> QED BY <1>3, <1>4, <1>5, <1>6 DEF ScenariosInv

\* The order of the results, in every scenario.
RanksScenarios == IF scenario = "plan" THEN OrderInv ELSE results = <<>>

-----------------------------------------------------------------------------
(* The properties of the run *)

(* Every scenario keeps its types.                                          *)
THEOREM TypesCorrect == MCSpec => []TypesOK
<1>1. ScenariosInv => TypesOK
  <2>1. TP!IInv => TP!TypeOK
    BY DEF TP!IInv, TP!Shape
  <2>2. TP!TypeOK => Tight!TypeOK
    BY SameCardinality DEF TP!TypeOK, Tight!TypeOK, TP!PartialFunction, Tight!PartialFunction,
       TP!Record, Tight!Record, TP!Node, Tight!Node, TP!size, Tight!size, TP!dir, Tight!dir,
       TP!Pc, Tight!Pc
  <2>3. IInv => TypeOK
    BY DEF IInv, Shape
  <2> QED BY <2>1, <2>2, <2>3, PlanAnswers, CacheAgrees DEF ScenariosInv, TypesOK
<1> QED BY <1>1, ScenariosInit, ScenariosStep, PTL DEF MCSpec

(* With ids to spare a search misses no record that the merge had published *)
(* when the search started and that nobody has deleted since.               *)
THEOREM RoomAlwaysComplete == MCSpec => []RoomComplete
<1>1. ScenariosInv => RoomComplete
  BY DEF ScenariosInv, RoomComplete, OwedInv
<1> QED BY <1>1, ScenariosInit, ScenariosStep, PTL DEF MCSpec

(* With ids to spare a search returns only records that match its keyword.  *)
THEOREM RoomAlwaysSound == MCSpec => []RoomSound
<1>1. ScenariosInv => RoomSound
  BY DEF ScenariosInv, RoomSound, SoundInv, AnswerSound
<1> QED BY <1>1, ScenariosInit, ScenariosStep, PTL DEF MCSpec

(* Where ids run out and results are cached, the trie of a search still     *)
(* leads into its directory of inverted lists.                              *)
THEOREM TightAlwaysInDirectory == MCSpec => []TightOffsets
<1>1. ScenariosInv => TightOffsets
  BY DEF ScenariosInv, TightOffsets, TP!IInv, TP!ViewsInv, TP!HasTrie,
     Tight!OffsetsInDirectory
<1> QED BY <1>1, ScenariosInit, ScenariosStep, PTL DEF MCSpec

(* Whatever plans the optimizer picks for the two passes of                 *)
(* KeywordSearchOperator, a search returns only records that match, each    *)
(* once, and all of them if there are fewer than it was asked for.          *)
THEOREM QueryAlwaysAnswered == MCSpec => []AnswersQuery
<1>1. results = <<>> /\ pass = "exact" => AnswersQuery
  <2> SUFFICES ASSUME results = <<>>, pass = "exact" PROVE AnswersQuery
    OBVIOUS
  <2>1. Len(results) = 0 /\ Returned = {}
    BY DEF Returned
  <2> QED BY <2>1, FS_EmptySet DEF AnswersQuery
<1>2. ScenariosInv => AnswersQuery
  BY <1>1, PlanAnswers DEF ScenariosInv
<1> QED BY <1>2, ScenariosInit, ScenariosStep, PTL DEF MCSpec

(* A query for k results is given its exact matches before any fuzzy one,   *)
(* whatever the boosts.                                                     *)
THEOREM ExactAlwaysFirst == MCSpec => []ExactFirst
<1>1. results = <<>> => ExactFirst
  BY DEF ExactFirst
<1>2. ScenariosInv => ExactFirst
  BY <1>1, PlanExactFirst DEF ScenariosInv
<1> QED BY <1>2, ScenariosInit, ScenariosStep, PTL DEF MCSpec

(* The results of a pass come by falling score and no record left out has a *)
(* higher one, although MergeTopKOperator stops early: as long as random    *)
(* access and the lists of a term agree on what its boost is worth.         *)
THEOREM BestAlwaysFirst == MildBoosts /\ MCSpec => []BestFirst
<1> DEFINE Ordered == MildBoosts /\ ScenariosInv /\ RanksScenarios
<1>1. MildBoosts /\ MCInit => Ordered
  BY ScenariosInit, OrderStarts DEF MCInit, PlanRest, RanksScenarios
<1>2. Ordered /\ [MCNext]_everything => Ordered'
  <2> SUFFICES ASSUME Ordered, [MCNext]_everything PROVE Ordered'
    OBVIOUS
  <2>1. ScenariosInv' /\ MildBoosts'
    BY ScenariosStep DEF MildBoosts
  <2>2. CASE scenario = "plan"
    <3>1. scenario' = scenario /\ [PlanNext]_planVars
      BY <2>2, ScenarioMoves
    <3>2. OrderInv'
      BY <2>2, <3>1, OrderStep DEF ScenariosInv, RanksScenarios
    <3> QED BY <2>1, <2>2, <3>1, <3>2 DEF RanksScenarios
  <2>3. CASE scenario # "plan"
    <3>1. scenario' = scenario /\ results' = results
      BY <2>3, ScenarioMoves DEF ScenariosInv
    <3> QED BY <2>1, <2>3, <3>1 DEF RanksScenarios
  <2> QED BY <2>2, <2>3
<1>3. Ordered => BestFirst
  <2> SUFFICES ASSUME Ordered PROVE NoneBetter /\ ExactFirst
    BY DEF BestFirst
  <2>1. CASE scenario = "plan"
    BY <2>1, OrderRanks, PlanExactFirst DEF ScenariosInv, RanksScenarios
  <2>2. CASE scenario # "plan"
    BY <2>2 DEF RanksScenarios, NoneBetter, ExactFirst
  <2> QED BY <2>1, <2>2
<1> QED BY <1>1, <1>2, <1>3, PTL DEF MCSpec

(* Map, linked list and bytes used of the cache agree after every put(),    *)
(* get() and clear(), and the bytes stay within the budget: what            *)
(* checkCacheConsistency(), which the code has commented out, would check.  *)
THEOREM CacheAlwaysConsistent == MCSpec => []CacheConsistent
<1>1. ScenariosInv => CacheConsistent
  BY CacheAgrees DEF ScenariosInv
<1> QED BY <1>1, ScenariosInit, ScenariosStep, PTL DEF MCSpec

(* The cache replaces by last use: entries leave only from the old end of   *)
(* the order that put() and get() make, whatever the keys, their hashes,    *)
(* the sizes of the objects and the budget.                                 *)
THEOREM CacheKeepsRecency == MCSpec => ImplementsRecency
<1>1. MCInit => Recency!Init
  BY CacheStarts DEF MCInit, CacheInit, Recency!Init
<1>2. ScenariosInv /\ [MCNext]_everything => [Recency!Next]_<<Chain, last>>
  BY ScenarioMoves, CacheStep DEF ScenariosInv
<1> QED
  BY <1>1, <1>2, ScenariosInit, ScenariosStep, PTL DEF MCSpec, ImplementsRecency, Recency!Spec
=============================================================================
