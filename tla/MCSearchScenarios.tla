-------------------------- MODULE MCSearchScenarios --------------------------
(* Searches, in four scenarios of one run: in "room" and in "tight" they run
   while records are written and merged (SearchViews), in "room" with the
   constants of the configuration (ids to spare, no cache), in "tight" with ids
   that run out, so that keywords are given new ones, and with the cache on; in
   "plan" a query is answered by physical plans (SearchPlans), and in "cache"
   the container of the caches is put to and read (LruCache). *)
EXTENDS SearchViews, SearchPlans, LruCache, TLC

CONSTANTS TightReader, TightRecords
VARIABLE scenario

ASSUME ScenarioAssumption == Room /\ ~CacheResults /\ TightRecords \in Nat

Tight == INSTANCE SearchViews
         WITH Reader <- TightReader, MaxRecords <- TightRecords, Room <- FALSE, CacheResults <- TRUE

\* Word 1 matches exactly, word 2 within one edit.
Distances == <<0, 1>>
Similarities == (0 :> 2) @@ (1 :> 1)
Boosts == <<1, 3>>
Matchings == {<<0, 0>>, <<2, 0>>, <<0, 3>>, <<1, 5>>}

\* Keys c and d have the same hash.
Hashes == [k \in CacheKey |-> IF k = "d" THEN "c" ELSE k]

\* No query is put.
PlanRest ==
  /\ kind = "and" /\ all = FALSE /\ static = <<>> /\ pass = "exact" /\ plan = NoPlan
  /\ step = "plan" /\ input = <<>> /\ ahead = <<>> /\ turn = 1 /\ current = Nil
  /\ seen = {} /\ more = FALSE /\ found = {} /\ results = <<>>

MCInit ==
  /\ CacheInit
  /\ \/ scenario = "room" /\ Init /\ PlanRest
     \/ scenario = "tight" /\ Tight!Init /\ PlanRest
     \/ scenario = "plan" /\ Init /\ PlanInit
     \/ scenario = "cache" /\ Init /\ PlanRest

\* The query has been answered.
QueryAnswered == scenario = "plan" /\ pass = "done" /\ UNCHANGED <<vars, planVars, cacheVars>>

MCNext ==
  /\ UNCHANGED scenario
  /\ \/ scenario = "room" /\ Next /\ UNCHANGED <<planVars, cacheVars>>
     \/ scenario = "tight" /\ Tight!Next /\ UNCHANGED <<planVars, cacheVars>>
     \/ scenario = "plan" /\ PlanNext /\ UNCHANGED <<vars, cacheVars>>
     \/ QueryAnswered
     \/ scenario = "cache" /\ CacheNext /\ UNCHANGED <<vars, planVars>>

everything == <<vars, planVars, cacheVars, scenario>>

MCSpec == MCInit /\ [][MCNext]_everything

\* Readers are interchangeable; keywords are not, they are in order.
Symmetry == Permutations(Reader)

\* The type invariant of the scenario.
TypesOK == CASE scenario = "room" -> TypeOK
             [] scenario = "tight" -> Tight!TypeOK
             [] scenario = "plan" -> PlanTypeOK
             [] scenario = "cache" -> CacheTypeOK

\* AnswerComplete with ids to spare: a search finds every record that was there
\* throughout it.
RoomComplete == scenario = "room" => AnswerComplete

\* AnswerSound with ids to spare: a search returns only records that match.
RoomSound == scenario = "room" => AnswerSound

\* OffsetsInDirectory, where keywords are given new ids and results are cached.
TightOffsets == scenario = "tight" => Tight!OffsetsInDirectory

=============================================================================
