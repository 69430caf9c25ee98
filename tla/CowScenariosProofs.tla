------------------------- MODULE CowScenariosProofs -------------------------
(* The theorems about CowVector for the three scenarios of MCCowVector,     *)
(* whatever their sets of readers, views and arrays.                        *)
EXTENDS MCCowVector, CowVectorProofs

AP == INSTANCE CowVectorProofs
      WITH Value <- {1, 2}, MaxLen <- 2, MaxStored <- 1, InPlace <- FALSE

CP == INSTANCE CowVectorProofs
      WITH Value <- {1, 2}, MaxLen <- 2, MaxStored <- 1, InPlace <- FALSE,
           Usage <- "copied"

-----------------------------------------------------------------------------
(* The scenarios are the instances the theorems are about *)

LEMMA ScenarioConstants == AP!ParamAssumption /\ CP!ParamAssumption
BY ParamAssumption, ScenarioAssumption DEF AP!ParamAssumption, CP!ParamAssumption

LEMMA SameCardinality ==
  \A S : AP!Cardinality(S) = Appended!Cardinality(S) /\ CP!Cardinality(S) = Copied!Cardinality(S)
BY DEF AP!Cardinality, CP!Cardinality, Appended!Cardinality, Copied!Cardinality

\* Two instances of one module with the same constants: their definitions are
\* the same once expanded.
LEMMA SameInit == (Appended!Init => AP!Init) /\ (Copied!Init => CP!Init)
BY DEF Appended!Init, AP!Init, Copied!Init, CP!Init, Appended!Index, AP!Index, Copied!Index,
   CP!Index

LEMMA AppendedNext == Appended!Next => AP!Next
BY SameCardinality DEF
   Appended!Next, AP!Next, Appended!At, AP!At, Appended!AtInCapacity, AP!AtInCapacity,
   Appended!AtReallocating, AP!AtReallocating, Appended!Commit, AP!Commit,
   Appended!Load, AP!Load, Appended!SortAndMerge, AP!SortAndMerge,
   Appended!MergeClassify, AP!MergeClassify, Appended!CleanGeneration, AP!CleanGeneration,
   Appended!CleanDone, AP!CleanDone, Appended!MergePublish, AP!MergePublish,
   Appended!MergeFork, AP!MergeFork, Appended!Destroy, AP!Destroy,
   Appended!GetReadView, AP!GetReadView, Appended!ReleaseReadView, AP!ReleaseReadView,
   Appended!Merging, AP!Merging, Appended!WriterStep, AP!WriterStep,
   Appended!ReaderStep, AP!ReaderStep, Appended!MoveWriteView, AP!MoveWriteView,
   Appended!ForkOf, AP!ForkOf, Appended!FreedBy, AP!FreedBy,
   Appended!DeleteViews, AP!DeleteViews, Appended!GrownCapacity, AP!GrownCapacity,
   Appended!CopyOf, AP!CopyOf, Appended!Unique, AP!Unique, Appended!Stored, AP!Stored,
   Appended!SpinLocked, AP!SpinLocked, Appended!With, AP!With,
   Appended!Without, AP!Without, Appended!Index, AP!Index, Appended!live, AP!live,
   Appended!heap, AP!heap, Appended!mgrVars, AP!mgrVars

LEMMA CopiedNext == Copied!Next => CP!Next
BY SameCardinality DEF
   Copied!Next, CP!Next, Copied!At, CP!At, Copied!AtInCapacity, CP!AtInCapacity,
   Copied!AtReallocating, CP!AtReallocating, Copied!Commit, CP!Commit,
   Copied!Load, CP!Load, Copied!SortAndMerge, CP!SortAndMerge,
   Copied!MergeClassify, CP!MergeClassify, Copied!CleanGeneration, CP!CleanGeneration,
   Copied!CleanDone, CP!CleanDone, Copied!MergePublish, CP!MergePublish,
   Copied!MergeFork, CP!MergeFork, Copied!Destroy, CP!Destroy,
   Copied!GetReadView, CP!GetReadView, Copied!ReleaseReadView, CP!ReleaseReadView,
   Copied!Merging, CP!Merging, Copied!WriterStep, CP!WriterStep,
   Copied!ReaderStep, CP!ReaderStep, Copied!MoveWriteView, CP!MoveWriteView,
   Copied!ForkOf, CP!ForkOf, Copied!FreedBy, CP!FreedBy,
   Copied!DeleteViews, CP!DeleteViews, Copied!GrownCapacity, CP!GrownCapacity,
   Copied!CopyOf, CP!CopyOf, Copied!Unique, CP!Unique, Copied!Stored, CP!Stored,
   Copied!SpinLocked, CP!SpinLocked, Copied!With, CP!With, Copied!Without, CP!Without,
   Copied!Index, CP!Index, Copied!live, CP!live, Copied!heap, CP!heap,
   Copied!mgrVars, CP!mgrVars

-----------------------------------------------------------------------------
(* The inductive invariant *)

ScenariosInv ==
  /\ scenario \in {"managed", "append", "copied"}
  /\ scenario = "managed" => IInv
  /\ scenario = "append" => AP!IInv /\ AP!SharedPrefix
  /\ scenario = "copied" => CP!IInv /\ CP!SharedPrefix

LEMMA ScenariosInit == MCInit => ScenariosInv
BY ScenarioConstants, SameInit, InitInv, AP!InitInv, CP!InitInv, AP!SnapshotInit,
   CP!SnapshotInit DEF MCInit, ScenariosInv

LEMMA ScenariosStep == ScenariosInv /\ [MCNext]_<<vars, scenario>> => ScenariosInv'
<1> SUFFICES ASSUME ScenariosInv, [MCNext]_<<vars, scenario>> PROVE ScenariosInv'
  OBVIOUS
<1>1. scenario' = scenario
  BY DEF MCNext
<1>2. CASE scenario = "managed"
  <2>1. [Next]_vars
    BY <1>2 DEF MCNext
  <2> QED BY <1>1, <1>2, <2>1, NextInv, ScenarioAssumption DEF ScenariosInv
<1>3. CASE scenario = "append"
  <2>1. [AP!Next]_(AP!vars)
    BY <1>3, AppendedNext DEF MCNext, AP!vars, vars, AP!mgrVars, mgrVars
  <2>2. AP!IInv'
    BY <1>3, <2>1, AP!NextInv, ScenarioConstants, ScenarioAssumption DEF ScenariosInv
  <2>3. AP!SharedPrefix'
    BY <1>3, <2>1, AP!StepRefines, ScenarioConstants, ScenarioAssumption DEF ScenariosInv
  <2> QED BY <1>1, <1>3, <2>2, <2>3 DEF ScenariosInv
<1>4. CASE scenario = "copied"
  <2>1. [CP!Next]_(CP!vars)
    BY <1>4, CopiedNext DEF MCNext, CP!vars, vars, CP!mgrVars, mgrVars
  <2>2. CP!IInv'
    BY <1>4, <2>1, CP!NextInv, ScenarioConstants, ScenarioAssumption DEF ScenariosInv
  <2>3. CP!SharedPrefix'
    BY <1>4, <2>1, CP!StepRefines, ScenarioConstants, ScenarioAssumption DEF ScenariosInv
  <2> QED BY <1>1, <1>4, <2>2, <2>3 DEF ScenariosInv
<1> QED BY <1>2, <1>3, <1>4 DEF ScenariosInv

-----------------------------------------------------------------------------
(* The refinement, in the scenarios that are not written in place *)

\* The mapping of MCCowVector.
SeenCommitted == scenario # "managed" /\ pc \notin {"bulk", "destroyed"}

SeenSnap == [r \in Reader |-> IF scenario = "managed" \/ held[r] = None THEN None
                              ELSE Seen(held[r])]

SeenStep ==
  StepBetween(SeenCommitted, Seen(readView), Seen(writeView), SeenSnap,
              SeenCommitted', Seen(readView)', Seen(writeView)', SeenSnap')

LEMMA SeenStepMaps == SeenStep => [Snapshots!Next]_(Snapshots!vars)
BY DEF SeenStep, StepBetween, Snapshots!Next, Snapshots!BulkLoad, Snapshots!Write,
   Snapshots!Publish, Snapshots!Close, Snapshots!Acquire, Snapshots!Release, Snapshots!vars,
   SeenCommitted, SeenSnap

\* What is seen in the scenarios is what the instances show.
LEMMA SeenNow ==
  /\ scenario = "append" =>
       /\ SeenCommitted <=> AP!Committed
       /\ Seen(readView) = AP!Contents(readView)
       /\ Seen(writeView) = AP!Contents(writeView)
       /\ SeenSnap = AP!Snap
  /\ scenario = "copied" =>
       /\ SeenCommitted <=> CP!Committed
       /\ Seen(readView) = CP!Contents(readView)
       /\ Seen(writeView) = CP!Contents(writeView)
       /\ SeenSnap = CP!Snap
BY DEF SeenCommitted, Seen, SeenSnap, Appended!Contents, Appended!Index, Appended!live,
   AP!Committed, AP!Contents, AP!Index, AP!live, AP!Snap,
   CP!Committed, CP!Contents, CP!Index, CP!live, CP!Snap

LEMMA SeenNext ==
  /\ scenario' = "append" =>
       /\ SeenCommitted' <=> AP!Committed'
       /\ Seen(readView)' = AP!Contents(readView)'
       /\ Seen(writeView)' = AP!Contents(writeView)'
       /\ SeenSnap' = AP!Snap'
  /\ scenario' = "copied" =>
       /\ SeenCommitted' <=> CP!Committed'
       /\ Seen(readView)' = CP!Contents(readView)'
       /\ Seen(writeView)' = CP!Contents(writeView)'
       /\ SeenSnap' = CP!Snap'
BY DEF SeenCommitted, Seen, SeenSnap, Appended!Contents, Appended!Index, Appended!live,
   AP!Committed, AP!Contents, AP!Index, AP!live, AP!Snap,
   CP!Committed, CP!Contents, CP!Index, CP!live, CP!Snap

LEMMA SeenStepAlways ==
  ASSUME ScenariosInv, [MCNext]_<<vars, scenario>>
  PROVE  [Snapshots!Next]_(Snapshots!vars)
<1>1. scenario' = scenario
  BY DEF MCNext
<1>2. CASE scenario = "managed"
  BY <1>1, <1>2 DEF Snapshots!vars, Seen
<1>3. CASE scenario = "append"
  <2>1. [AP!Next]_(AP!vars)
    BY <1>3, AppendedNext DEF MCNext, AP!vars, vars, AP!mgrVars, mgrVars
  <2>2. AP!SnapshotStep
    BY <1>3, <2>1, AP!StepRefines, ScenarioConstants, ScenarioAssumption DEF ScenariosInv
  <2>3. /\ SeenCommitted' <=> AP!Committed'
        /\ Seen(readView)' = AP!Contents(readView)'
        /\ Seen(writeView)' = AP!Contents(writeView)'
        /\ SeenSnap' = AP!Snap'
    BY <1>1, <1>3, SeenNext
  <2>4. SeenStep
    BY <1>3, <2>2, <2>3, SeenNow DEF AP!SnapshotStep, AP!StepBetween, SeenStep, StepBetween
  <2> QED BY <2>4, SeenStepMaps
<1>4. CASE scenario = "copied"
  <2>1. [CP!Next]_(CP!vars)
    BY <1>4, CopiedNext DEF MCNext, CP!vars, vars, CP!mgrVars, mgrVars
  <2>2. CP!SnapshotStep
    BY <1>4, <2>1, CP!StepRefines, ScenarioConstants, ScenarioAssumption DEF ScenariosInv
  <2>3. /\ SeenCommitted' <=> CP!Committed'
        /\ Seen(readView)' = CP!Contents(readView)'
        /\ Seen(writeView)' = CP!Contents(writeView)'
        /\ SeenSnap' = CP!Snap'
    BY <1>1, <1>4, SeenNext
  <2>4. SeenStep
    BY <1>4, <2>2, <2>3, SeenNow DEF CP!SnapshotStep, CP!StepBetween, SeenStep, StepBetween
  <2> QED BY <2>4, SeenStepMaps
<1> QED BY <1>2, <1>3, <1>4 DEF ScenariosInv

-----------------------------------------------------------------------------
(* The properties of the run *)

(* Every vector of the three scenarios keeps its type.                      *)
THEOREM TypesCorrect == MCSpec => []TypesOK
<1>1. ScenariosInv => TypesOK
  BY DEF ScenariosInv, TypesOK, IInv, AP!IInv, CP!IInv, AP!TypeOK, CP!TypeOK,
     Appended!TypeOK, AP!ViewRecord, CP!ViewRecord, Appended!ViewRecord, AP!ArrayRecord,
     CP!ArrayRecord, Appended!ArrayRecord, AP!Index, CP!Index, Appended!Index, AP!live,
     CP!live, Appended!live, AP!heap, CP!heap, Appended!heap, AP!WriterState,
     CP!WriterState, Appended!WriterState
<1> QED BY <1>1, ScenariosInit, ScenariosStep, PTL DEF MCSpec

(* A vector that is only appended to, and one that is sorted and cut down   *)
(* before each merge, give their readers snapshots: what a reader sees      *)
(* from getReadView() on does not change, whatever at(), sortAndMerge(),    *)
(* merge() and the readers that come and go do to the arrays.               *)
THEOREM SnapshotsImplemented == MCSpec => ImplementsSnapshots
<1>1. MCInit => Snapshots!Init
  <2> SUFFICES ASSUME MCInit PROVE Snapshots!Init
    OBVIOUS
  <2>1. CASE scenario = "managed" /\ Init
    BY <2>1 DEF Snapshots!Init, Seen
  <2>2. CASE scenario = "append" /\ Appended!Init
    BY <2>2, SameInit, AP!SnapshotInit, SeenNow, ScenarioConstants
       DEF Snapshots!Init, SeenCommitted, SeenSnap
  <2>3. CASE scenario = "copied" /\ Copied!Init
    BY <2>3, SameInit, CP!SnapshotInit, SeenNow, ScenarioConstants
       DEF Snapshots!Init, SeenCommitted, SeenSnap
  <2> QED BY <2>1, <2>2, <2>3 DEF MCInit
<1>2. ScenariosInv /\ [MCNext]_<<vars, scenario>> => [Snapshots!Next]_(Snapshots!vars)
  BY SeenStepAlways
<1> QED
  BY <1>1, <1>2, ScenariosInit, ScenariosStep, PTL
     DEF MCSpec, ImplementsSnapshots, Snapshots!Spec
=============================================================================
