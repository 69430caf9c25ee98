------------------------ MODULE RecordScenariosProofs ------------------------
(* The theorems about RecordStore for the two scenarios of                  *)
(* MCRecordScenarios, whatever their sets of keys, clients and searches.    *)
EXTENDS MCRecordScenarios, RecordStoreProofs

RP == INSTANCE RecordStoreProofs
      WITH Key <- RecoverKey, Client <- RecoverClient, Reader <- RecoverReader,
           DocumentLimit <- RecoverLimit,
           Upsert <- FALSE, Overlap <- FALSE

-----------------------------------------------------------------------------
(* The scenario "recover" is the instance the theorems are about *)

\* Two instances of one module with the same constants: their definitions are
\* the same once expanded.
LEMMA SameInit == Recover!Init => RP!Init
BY DEF Recover!Init, RP!Init, Recover!Id, RP!Id, Recover!Null, RP!Null, Recover!NoCommand,
   RP!NoCommand, Recover!NoSearch, RP!NoSearch

LEMMA SameNext == Recover!Next => RP!Next
BY DEF Recover!Next, RP!Next, Recover!FinishBulkLoad, RP!FinishBulkLoad, Recover!Merge,
   RP!Merge, Recover!MergeForward, RP!MergeForward, Recover!PublishForward, RP!PublishForward,
   Recover!LockExclusive, RP!LockExclusive, Recover!FreeDeleted, RP!FreeDeleted,
   Recover!MergeRest, RP!MergeRest, Recover!ClientStep, RP!ClientStep, Recover!ReaderStep,
   RP!ReaderStep, Recover!InsertCheck, RP!InsertCheck, Recover!Delete, RP!Delete,
   Recover!UpdateDelete, RP!UpdateDelete, Recover!UpdateAbsent, RP!UpdateAbsent,
   Recover!InsertAdd, RP!InsertAdd, Recover!UpdateCheck, RP!UpdateCheck, Recover!UpdateAdd,
   RP!UpdateAdd, Recover!UpdateRecover, RP!UpdateRecover, Recover!ReaderPreEnter,
   RP!ReaderPreEnter, Recover!ReaderPreExit, RP!ReaderPreExit, Recover!UseRecord, RP!UseRecord,
   Recover!AddRecord, RP!AddRecord, Recover!DeleteRecord, RP!DeleteRecord,
   Recover!RecoverRecord, RP!RecoverRecord, Recover!AppendToIdMap, RP!AppendToIdMap,
   Recover!AddForwardList, RP!AddForwardList, Recover!DeleteForwardList, RP!DeleteForwardList,
   Recover!RecoverForwardList, RP!RecoverForwardList, Recover!SetValid, RP!SetValid,
   Recover!WriteCell, RP!WriteCell, Recover!GrownCapacity, RP!GrownCapacity, Recover!cells,
   RP!cells, Recover!With, RP!With, Recover!Without, RP!Without, Recover!Id, RP!Id,
   Recover!Null, RP!Null, Recover!NoCommand, RP!NoCommand, Recover!NoSearch, RP!NoSearch,
   Recover!LockFree, RP!LockFree, Recover!Shows, RP!Shows, Recover!Goto, RP!Goto,
   Recover!Finish, RP!Finish, Recover!operationUnchanged, RP!operationUnchanged,
   Recover!storeUnchanged, RP!storeUnchanged, Recover!writersUnchanged, RP!writersUnchanged,
   Recover!storeVars, RP!storeVars, Recover!viewVars, RP!viewVars, Recover!flagVars, RP!flagVars

LEMMA SameCardinality ==
  /\ \A S : RP!Cardinality(S) = Cardinality(S) /\ Recover!Cardinality(S) = Cardinality(S)
  /\ \A S : RP!IsFiniteSet(S) <=> IsFiniteSet(S)
BY DEF RP!Cardinality, Recover!Cardinality, Cardinality, RP!IsFiniteSet, IsFiniteSet

LEMMA RecoverConstants == RP!RecordStoreAssumption
BY RecordStoreAssumption, RecoverAssumption DEF RP!RecordStoreAssumption

-----------------------------------------------------------------------------
(* The inductive invariant *)

ScenariosInv ==
  /\ scenario \in {"search", "recover"}
  /\ scenario = "search" => TypeInv /\ StoreInv /\ SearchInv /\ NoFailedUpdate
  /\ scenario = "recover" => RP!TypeInv /\ RP!StoreInv /\ RP!UpdatesInv /\ RP!LimitInv

LEMMA ScenariosInit == MCInit => ScenariosInv
<1> SUFFICES ASSUME MCInit PROVE ScenariosInv
  OBVIOUS
<1>1. CASE scenario = "search" /\ Init
  BY <1>1, TypeInit, StoreInvInit, SearchInvInit, NoFailedUpdateInit DEF ScenariosInv
<1>2. CASE scenario = "recover" /\ Recover!Init
  <2>1. RP!Init
    BY <1>2, SameInit
  <2>2. RP!LimitInv
    BY <2>1, RP!LimitInvInit, RecoverAssumption, RecoverConstants, SameCardinality
  <2> QED
    BY <1>2, <2>1, <2>2, RecoverConstants, RP!TypeInit, RP!StoreInvInit, RP!UpdatesInvInit
       DEF ScenariosInv
<1> QED
  BY <1>1, <1>2 DEF MCInit

LEMMA ScenariosStep == ScenariosInv /\ [MCNext]_<<vars, scenario>> => ScenariosInv'
<1> SUFFICES ASSUME ScenariosInv, [MCNext]_<<vars, scenario>> PROVE ScenariosInv'
  OBVIOUS
<1>1. scenario' = scenario
  BY DEF MCNext
<1>2. CASE scenario = "search"
  <2>1. [Next]_vars
    BY <1>2 DEF MCNext
  <2>2. PICK a \in Client : Client = {a}
    BY SearchAssumption
  <2>3. TypeInv /\ StoreInv /\ SearchInv /\ NoFailedUpdate /\ RecoverSound
    BY <1>2, NoFailedUpdateRecovers DEF ScenariosInv
  <2>4. TypeInv' /\ StoreInv' /\ SearchInv'
    BY <2>1, <2>3, TypeStep, StoreInvStep, SearchInvStep
  <2>5. NoFailedUpdate'
    BY <2>1, <2>2, <2>3, NoFailedUpdateStep, SearchAssumption
  <2> QED
    BY <1>1, <1>2, <2>4, <2>5 DEF ScenariosInv
<1>3. CASE scenario = "recover"
  <2>1. [RP!Next]_(RP!vars)
    <3>1. CASE UNCHANGED vars
      BY <3>1 DEF RP!vars, vars, RP!storeVars, storeVars, RP!viewVars, viewVars, RP!flagVars,
         flagVars
    <3>2. CASE Recover!Next
      BY <3>2, SameNext
    <3> QED
      BY <1>3, <3>1, <3>2 DEF MCNext
  <2>2. RP!TypeInv /\ RP!StoreInv /\ RP!UpdatesInv /\ RP!LimitInv
    BY <1>3 DEF ScenariosInv
  <2>3. RP!RecoverSound
    BY <2>2, RP!UpdatesRecoverable, RecoverConstants
  <2>4. RP!TypeInv'
    BY <2>1, <2>2, RP!TypeStep, RecoverConstants
  <2>5. RP!StoreInv'
    BY <2>1, <2>2, <2>3, RP!StoreInvStep, RecoverConstants
  <2>6. RP!UpdatesInv'
    BY <2>1, <2>2, RP!UpdatesInvStep, RecoverConstants
  <2>7. RP!LimitInv'
    BY <2>1, <2>2, RP!LimitInvStep, RecoverAssumption, RecoverConstants, SameCardinality
  <2> QED
    BY <1>1, <1>3, <2>4, <2>5, <2>6, <2>7 DEF ScenariosInv
<1> QED
  BY <1>2, <1>3 DEF ScenariosInv

-----------------------------------------------------------------------------
(* The properties of the run *)

\* Both scenarios keep the types.
THEOREM TypesCorrect == MCSpec => []TypesOK
<1>1. ScenariosInv => TypesOK
  <2>1. RP!TypeInv => Recover!TypeOK
    BY DEF RP!TypeInv, RP!TypeOK, Recover!TypeOK, RP!Id, Recover!Id, RP!Directory,
       Recover!Directory, RP!Cell, Recover!Cell, RP!Command, Recover!Command, RP!Search,
       Recover!Search
  <2> QED
    BY <2>1 DEF ScenariosInv, TypesOK, TypeInv
<1> QED
  BY <1>1, ScenariosInit, ScenariosStep, PTL DEF MCSpec

\* No search meets a forward list that has been freed, although commands and
\* merges overlap it.
THEOREM OverlapAlwaysSafe == MCSpec => []OverlapSafe
<1>1. ScenariosInv => OverlapSafe
  BY SafeViews DEF ScenariosInv, OverlapSafe
<1> QED
  BY <1>1, ScenariosInit, ScenariosStep, PTL DEF MCSpec

\* No search finds two records with one key.
THEOREM OverlapKeysDistinct == MCSpec => []OverlapKeys
<1>1. ScenariosInv => OverlapKeys
  BY SafeViews DEF ScenariosInv, OverlapKeys
<1> QED
  BY <1>1, ScenariosInit, ScenariosStep, PTL DEF MCSpec

\* After every operation, failed updates included, the map, the flags, the
\* lists, the deleted ids and the counter agree.
THEOREM RecoveredAlwaysConsistent == MCSpec => []RecoveredConsistent
<1>1. ScenariosInv => RecoveredConsistent
  <2>1. RP!StoreInv => Recover!MapSound /\ Recover!DeletedSound
    BY DEF RP!StoreInv, RP!MapSound, Recover!MapSound, RP!DeletedSound, Recover!DeletedSound,
       RP!cells, Recover!cells, RP!Id, Recover!Id
  <2>2. RP!TypeInv => CountAgrees
    BY SameCardinality DEF RP!TypeInv, RP!StoreTyped, RP!CountAgrees, CountAgrees
  <2> QED
    BY <2>1, <2>2 DEF ScenariosInv, RecoveredConsistent
<1> QED
  BY <1>1, ScenariosInit, ScenariosStep, PTL DEF MCSpec

\* The clients together exceed the limit by less than their number.
THEOREM RecoveredWithinLimit == MCSpec => []RecoveredLimit
<1>1. ScenariosInv => RecoveredLimit
  <2>1. RP!TypeInv /\ RP!LimitInv => RP!WithinLimit
    BY RP!LimitInvLimit, RecoverAssumption, RecoverConstants, SameCardinality
  <2>2. RP!WithinLimit => Recover!WithinLimit
    BY SameCardinality DEF RP!WithinLimit, Recover!WithinLimit
  <2> QED
    BY <2>1, <2>2 DEF ScenariosInv, RecoveredLimit
<1> QED
  BY <1>1, ScenariosInit, ScenariosStep, PTL DEF MCSpec

-----------------------------------------------------------------------------

=============================================================================
