---------------------------- MODULE MCStructures ----------------------------
(* Five parts of the engine that share no state, one after the other in one
   run: the variable part says which of them is running, the others keep still.
     "ids"       KeywordIds, the keyword ids of the trie
     "feedback"  FeedbackIndex
     "fuzzy"     ActiveNodes, the keywords within an edit distance
     "geo1", "geo2"  QuadTree, with leaves of one and of two elements *)
EXTENDS KeywordIds, TLC

CONSTANTS
  None,
  Query, Record, Searcher, MaxQueries, MaxInfo, Capacity, MaxAdds,
  Char, Wide, MaxTyped, Thresholds,
  Child, MaxDepth, MaxMade, MaxNodes

VARIABLES
  part,
  node, terminal, copied, nodeRead, empty, terminals, total, head, tail, age,
  array, arrayRead, sizeRead, lists, toMerge, pending, stage, search, adds,
  keywords, threshold, swaps, typed, pans,
  nodes, made, dropped, loaded, required, writeRoot, readRoot, free, twice, queue, held,
  splitting

\* Queries of one and two characters, one a prefix of another.
Queries == {<<"a">>, <<"a", "b">>, <<"b">>, <<"c">>}

\* Words of one to three characters, a few with the wide one.
FuzzyWords == UNION {[1..n -> Char \ Wide] : n \in 1..3} \cup {<<"w">>, <<"a", "w">>, <<"w", "a">>, <<"a", "w", "b">>}

\* Three records in one half of the map: two close to each other, below where an
\* insertion copies, or two in the same place.
Places1 == <<<<0, 0, 0, 0>>, <<0, 0, 0, 1>>, <<0, 1, 0, 0>>>>
Places2 == <<<<0, 0>>, <<0, 1>>, <<0, 0>>>>

Feedback == INSTANCE FeedbackIndex
Fuzzy == INSTANCE ActiveNodes WITH Words <- FuzzyWords
Geo1 == INSTANCE QuadTree WITH Reader <- Searcher, NoNode <- None, Location <- Places1, LeafSize <- 1
Geo2 == INSTANCE QuadTree WITH Reader <- Searcher, NoNode <- None, Location <- Places2, LeafSize <- 2,
                               MaxDepth <- 2, MaxNodes <- 7

ASSUME PartsAssumption ==
  /\ Feedback!FeedbackAssumption
  /\ Fuzzy!ActiveNodesAssumption
  /\ Geo1!QuadTreeAssumption /\ Geo2!QuadTreeAssumption

IdsRest ==
  /\ id = <<>> /\ lefts = <<>> /\ rights = <<>> /\ waiting = {} /\ counter = 0
  /\ shrunk = FALSE /\ cramped = FALSE

FuzzyRest == keywords = {} /\ threshold = 0 /\ swaps = FALSE /\ typed = <<>> /\ pans = <<>>

MCInit ==
  /\ part \in {"ids", "feedback", "fuzzy", "geo1", "geo2"}
  /\ IF part = "ids" THEN Init ELSE IdsRest
  /\ Feedback!Init
  /\ IF part = "fuzzy" THEN Fuzzy!Init ELSE FuzzyRest
  /\ Geo1!Init

feedbackVars == <<node, terminal, copied, nodeRead, empty, terminals, total, head, tail, age, array,
                  arrayRead, sizeRead, lists, toMerge, pending, stage, search, adds>>
fuzzyVars == <<keywords, threshold, swaps, typed, pans>>
geoVars == <<nodes, made, dropped, loaded, required, writeRoot, readRoot, free, twice, queue, held, splitting>>
everything == <<part, vars, feedbackVars, fuzzyVars, geoVars>>

Runs(p) ==
  /\ part = p /\ UNCHANGED part
  /\ p # "ids" => UNCHANGED vars
  /\ p # "feedback" => UNCHANGED feedbackVars
  /\ p # "fuzzy" => UNCHANGED fuzzyVars
  /\ p \notin {"geo1", "geo2"} => UNCHANGED geoVars

MCNext ==
  \/ Runs("ids") /\ Next
  \/ Runs("feedback") /\ Feedback!Next
  \/ Runs("fuzzy") /\ Fuzzy!Next
  \/ Runs("geo1") /\ Geo1!Next
  \/ Runs("geo2") /\ Geo2!Next

MCSpec == MCInit /\ [][MCNext]_everything

-----------------------------------------------------------------------------
(* Properties: those of the parts, which their modules explain.  The keyword  *)
(* ids at rest satisfy OrderPreserved and RoomUntilRemoval.                   *)

\* The type invariant of the part that runs.
TypesOK ==
  CASE part = "ids" -> TypeOK
    [] part = "feedback" -> Feedback!TypeOK
    [] part = "fuzzy" -> Fuzzy!TypeOK
    [] part = "geo1" -> Geo1!TypeOK
    [] part = "geo2" -> Geo2!TypeOK
    [] OTHER -> TRUE

\* The linked list of addFeedback() is in the order of the last feedback.
AgeOrder == part = "feedback" => Feedback!AgeOrder

\* The keywords found are the ones within the edit distance, without swaps;
\* with them, a prefix search takes no keyword to be closer than it is.
SearchExact == part = "fuzzy" => Fuzzy!SearchExact

\* Whatever the writer does, the views of the geo index, and the searches on their
\* way through them, reach nothing that was deleted.
ViewsIntact == (part = "geo1" => Geo1!ViewsIntact) /\ (part = "geo2" => Geo2!ViewsIntact)

\* The write view of the geo index has every element in its place.
WriteExact == (part = "geo1" => Geo1!WriteExact) /\ (part = "geo2" => Geo2!WriteExact)
=============================================================================
