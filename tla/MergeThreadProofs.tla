-------------------------- MODULE MergeThreadProofs --------------------------
(***************************************************************************)
(* Proofs about the merge thread and save(), for every threshold and every *)
(* bound on the writes.                                                    *)
(*                                                                         *)
(* None of the three properties is inductive.  That no signal is missed    *)
(* rests on where the main thread is when the loop starts: the counter is  *)
(* then 0, because the commit or the load has just reset it.  That the     *)
(* counter is exact rests on mergeRequired being up whenever a change is   *)
(* pending, since _merge() does nothing otherwise.  That everything is     *)
(* saved rests on needToSaveIndexes being up whenever the files are old,   *)
(* and on nobody but save() working between its steps.                     *)
(***************************************************************************)
EXTENDS MergeThread, TLAPS

\* The thread does not exist before it is created, and does not wait before
\* the main thread polls for it.
Startup ==
  /\ main \in {"loading", "committed"} => thread = "none" /\ ~mergeThreadStarted
  /\ thread = "created" => main = "starting" /\ ~mergeThreadStarted
  /\ main \in {"committed", "starting"} => writesCounterForMerge = 0

\* What a merge would have to show makes it required.
Required ==
  /\ pending > 0 => mergeRequired
  /\ idsWait => mergeRequired

\* Who may be in save(), and what the flag says of the files.
Saving ==
  /\ save # "none" => main \in {"committed", "serving", "stopping"}
  /\ dirty => needToSaveIndexes
  /\ save = "end" => ~dirty
  /\ main \in {"saved", "exited"} => ~dirty

IInv ==
  /\ TypeOK
  /\ Startup
  /\ Required
  /\ Saving
  /\ CounterExact
  /\ NoMissedSignal

\* The initial states, a new index and a loaded one, satisfy the invariant.
LEMMA InitIInv == Init => IInv
<1> SUFFICES ASSUME Init PROVE IInv
  OBVIOUS
<1> USE MergeThreadAssumption
<1>1. /\ main \in MainState /\ thread \in ThreadState /\ save \in SaveState
      /\ writesCounterForMerge \in 0 .. MaxWrites /\ pending \in Nat
  BY DEF Init, MainState, ThreadState, SaveState
<1>2. TypeOK
  BY <1>1 DEF Init, TypeOK
<1>3. Startup /\ Required /\ Saving /\ CounterExact /\ NoMissedSignal
  BY DEF Init, Startup, Required, Saving, CounterExact, NoMissedSignal
<1> QED
  BY <1>2, <1>3 DEF IInv

\* A merge shows everything and resets the counter: what it would leave out
\* when no merge is required is empty then.
LEMMA MergeEffect ==
  ASSUME IInv, MergeAndReset
  PROVE  /\ ~mergeRequired' /\ ~idsWait' /\ ~feedbackRequired'
         /\ mergeRequired' \in BOOLEAN /\ idsWait' \in BOOLEAN /\ feedbackRequired' \in BOOLEAN
         /\ pending' = 0 /\ writesCounterForMerge' = 0
<1>1. pending' = 0
  BY DEF IInv, TypeOK, Required, MergeAndReset, MergeIndex
<1>2. ~idsWait' /\ idsWait' \in BOOLEAN
  <2>1. ~(idsWait /\ ~mergeRequired)
    BY DEF IInv, Required
  <2> QED
    BY <2>1, Zenon DEF MergeAndReset, MergeIndex
<1>3. mergeRequired' \in BOOLEAN /\ feedbackRequired' \in BOOLEAN
  BY Zenon DEF MergeAndReset, MergeFeedback, MergeIndex
<1> QED
  BY <1>1, <1>2, <1>3 DEF MergeAndReset, MergeFeedback, MergeIndex

\* Every step keeps the invariant.
LEMMA StepIInv == IInv /\ [Next]_vars => IInv'
<1> SUFFICES ASSUME IInv, [Next]_vars PROVE IInv'
  OBVIOUS
<1>1. TypeOK /\ Startup /\ Required /\ Saving /\ CounterExact /\ NoMissedSignal
  BY DEF IInv
<1> USE MergeThreadAssumption, <1>1
    DEF TypeOK, MainState, ThreadState, SaveState, lifeVars, threadVars, recordVars,
        saveVars, diskVars, feedbackVars
<1>2. CASE FirstCommit
  <2>1. TypeOK'
    BY <1>2 DEF FirstCommit, Startup, Required
  <2>2. Startup' /\ Required'
    BY <1>2 DEF FirstCommit, Startup, Required, Saving, CounterExact
  <2>3. Saving'
    BY <1>2 DEF FirstCommit, Saving
  <2>4. CounterExact' /\ NoMissedSignal'
    BY <1>2 DEF FirstCommit, CounterExact, NoMissedSignal, Startup, Required
  <2> QED
    BY <2>1, <2>2, <2>3, <2>4 DEF IInv
<1>3. CASE CreateMergeThread
  <2>1. TypeOK'
    BY <1>3 DEF CreateMergeThread, LockFree, Startup, Required
  <2>2. Startup' /\ Required'
    BY <1>3 DEF CreateMergeThread, LockFree, Startup, Required, Saving, CounterExact
  <2>3. Saving'
    BY <1>3 DEF CreateMergeThread, LockFree, Saving
  <2>4. CounterExact' /\ NoMissedSignal'
    BY <1>3 DEF CreateMergeThread, LockFree, CounterExact, NoMissedSignal, Startup, Required
  <2> QED
    BY <2>1, <2>2, <2>3, <2>4 DEF IInv
<1>4. CASE MergeThreadReady
  <2>1. TypeOK'
    BY <1>4 DEF MergeThreadReady, Startup, Required
  <2>2. Startup' /\ Required'
    BY <1>4 DEF MergeThreadReady, Startup, Required, Saving, CounterExact
  <2>3. Saving'
    BY <1>4 DEF MergeThreadReady, Saving
  <2>4. CounterExact' /\ NoMissedSignal'
    BY <1>4 DEF MergeThreadReady, CounterExact, NoMissedSignal, Startup, Required
  <2> QED
    BY <2>1, <2>2, <2>3, <2>4 DEF IInv
<1>5. CASE Join
  <2>1. TypeOK'
    BY <1>5 DEF Join, Startup, Required
  <2>2. Startup' /\ Required'
    BY <1>5 DEF Join, Startup, Required, Saving, CounterExact
  <2>3. Saving'
    BY <1>5 DEF Join, Saving
  <2>4. CounterExact' /\ NoMissedSignal'
    BY <1>5 DEF Join, CounterExact, NoMissedSignal, Startup, Required
  <2> QED
    BY <2>1, <2>2, <2>3, <2>4 DEF IInv
<1>6. CASE StartMergeThreadLoop
  <2>1. TypeOK'
    BY <1>6 DEF StartMergeThreadLoop, Alive, LockFree, Startup, Required
  <2>2. Startup' /\ Required'
    BY <1>6 DEF StartMergeThreadLoop, Alive, LockFree, Startup, Required, Saving, CounterExact
  <2>3. Saving'
    BY <1>6 DEF StartMergeThreadLoop, Alive, LockFree, Saving
  <2>4. CounterExact' /\ NoMissedSignal'
    BY <1>6 DEF StartMergeThreadLoop, Alive, LockFree, CounterExact, NoMissedSignal, Startup, Required
  <2> QED
    BY <2>1, <2>2, <2>3, <2>4 DEF IInv
<1>7. CASE DoMerge
  <2>1. /\ ~mergeRequired' /\ ~idsWait' /\ ~feedbackRequired'
        /\ mergeRequired' \in BOOLEAN /\ idsWait' \in BOOLEAN /\ feedbackRequired' \in BOOLEAN
        /\ pending' = 0 /\ writesCounterForMerge' = 0
    BY <1>7, MergeEffect DEF DoMerge
  <2>2. TypeOK'
    BY <2>1, <1>7 DEF DoMerge, Alive, LockFree, Startup, Required
  <2>3. Startup' /\ Required'
    BY <2>1, <1>7 DEF DoMerge, Alive, LockFree, Startup, Required, Saving, CounterExact
  <2>4. Saving'
    BY <2>1, <1>7 DEF DoMerge, Alive, LockFree, Saving
  <2>5. CounterExact' /\ NoMissedSignal'
    BY <2>1, <1>7 DEF DoMerge, Alive, LockFree, CounterExact, NoMissedSignal, Startup, Required
  <2> QED
    BY <2>2, <2>3, <2>4, <2>5 DEF IInv
<1>8. CASE LeaveLoop
  <2>1. TypeOK'
    BY <1>8 DEF LeaveLoop, Alive, LockFree, Startup, Required
  <2>2. Startup' /\ Required'
    BY <1>8 DEF LeaveLoop, Alive, LockFree, Startup, Required, Saving, CounterExact
  <2>3. Saving'
    BY <1>8 DEF LeaveLoop, Alive, LockFree, Saving
  <2>4. CounterExact' /\ NoMissedSignal'
    BY <1>8 DEF LeaveLoop, Alive, LockFree, CounterExact, NoMissedSignal, Startup, Required
  <2> QED
    BY <2>1, <2>2, <2>3, <2>4 DEF IInv
<1>9. CASE TimedOut
  <2>1. TypeOK'
    BY <1>9 DEF TimedOut, Alive, Startup, Required
  <2>2. Startup' /\ Required'
    BY <1>9 DEF TimedOut, Alive, Startup, Required, Saving, CounterExact
  <2>3. Saving'
    BY <1>9 DEF TimedOut, Alive, Saving
  <2>4. CounterExact' /\ NoMissedSignal'
    BY <1>9 DEF TimedOut, Alive, CounterExact, NoMissedSignal, Startup, Required
  <2> QED
    BY <2>1, <2>2, <2>3, <2>4 DEF IInv
<1>10. CASE SaveWrite
  <2>1. TypeOK'
    BY <1>10 DEF SaveWrite, Startup, Required
  <2>2. Startup' /\ Required'
    BY <1>10 DEF SaveWrite, Startup, Required, Saving, CounterExact
  <2>3. Saving'
    BY <1>10 DEF SaveWrite, Saving
  <2>4. CounterExact' /\ NoMissedSignal'
    BY <1>10 DEF SaveWrite, CounterExact, NoMissedSignal, Startup, Required
  <2> QED
    BY <2>1, <2>2, <2>3, <2>4 DEF IInv
<1>11. CASE SaveEnd
  <2>1. TypeOK'
    <3>1. main' \in MainState
      BY <1>11 DEF SaveEnd
    <3> QED BY <1>11, <3>1 DEF SaveEnd
  <2>2. Startup' /\ Required'
    BY <1>11 DEF SaveEnd, Startup, Required, Saving, CounterExact
  <2>3. Saving'
    BY <1>11 DEF SaveEnd, Saving
  <2>4. CounterExact' /\ NoMissedSignal'
    BY <1>11 DEF SaveEnd, CounterExact, NoMissedSignal, Startup, Required
  <2> QED
    BY <2>1, <2>2, <2>3, <2>4 DEF IInv
<1>12. CASE BulkLoad
  <2>1. TypeOK'
    BY <1>12 DEF BulkLoad, Changed, Signal, Startup, Required
  <2>2. Startup' /\ Required'
    BY <1>12 DEF BulkLoad, Changed, Signal, Startup, Required, Saving, CounterExact
  <2>3. Saving'
    BY <1>12 DEF BulkLoad, Changed, Signal, Saving
  <2>4. CounterExact' /\ NoMissedSignal'
    BY <1>12 DEF BulkLoad, Changed, Signal, CounterExact, NoMissedSignal, Startup, Required
  <2> QED
    BY <2>1, <2>2, <2>3, <2>4 DEF IInv
<1>13. CASE Write
  <2>1. idsWait' \in BOOLEAN
    BY <1>13, Zenon DEF Write
  <2>2. TypeOK'
    BY <2>1, <1>13 DEF Write, Changed, Signal, Serving, LockFree, Startup, Required
  <2>3. Startup' /\ Required'
    BY <2>1, <1>13 DEF Write, Changed, Signal, Serving, LockFree, Startup, Required, Saving, CounterExact
  <2>4. Saving'
    BY <2>1, <1>13 DEF Write, Changed, Signal, Serving, LockFree, Saving
  <2>5. CounterExact' /\ NoMissedSignal'
    BY <2>1, <1>13 DEF Write, Changed, Signal, Serving, LockFree, CounterExact, NoMissedSignal, Startup, Required
  <2> QED
    BY <2>2, <2>3, <2>4, <2>5 DEF IInv
<1>14. CASE DeleteMerging
  <2>1. CASE Changed(0, 0) /\ idsWait' = FALSE /\ feedbackRequired' = FALSE
    <3>1. idsWait' \in BOOLEAN /\ feedbackRequired' \in BOOLEAN /\ mergeRequired' \in BOOLEAN
          /\ needToSaveIndexes' \in BOOLEAN /\ dirty' \in BOOLEAN
      BY <2>1, Zenon DEF Changed
    <3> QED
      BY <1>14, <2>1, <3>1
         DEF DeleteMerging, Changed, Signal, Serving, LockFree,
             IInv, Startup, Required, Saving, CounterExact, NoMissedSignal
  <2>2. CASE MergeAndReset /\ UNCHANGED <<diskVars, thread>>
    <3>1. /\ ~mergeRequired' /\ ~idsWait' /\ ~feedbackRequired'
          /\ mergeRequired' \in BOOLEAN /\ idsWait' \in BOOLEAN /\ feedbackRequired' \in BOOLEAN
          /\ pending' = 0 /\ writesCounterForMerge' = 0
      BY <2>2, MergeEffect
    <3> QED
      BY <1>14, <2>2, <3>1
         DEF DeleteMerging, Serving, LockFree,
             IInv, Startup, Required, Saving, CounterExact, NoMissedSignal
  <2> QED
    BY <1>14, <2>1, <2>2 DEF DeleteMerging
<1>15. CASE Delete
  <2>1. TypeOK'
    BY <1>15 DEF Delete, Changed, Signal, Serving, LockFree, Startup, Required
  <2>2. Startup' /\ Required'
    BY <1>15 DEF Delete, Changed, Signal, Serving, LockFree, Startup, Required, Saving, CounterExact
  <2>3. Saving'
    BY <1>15 DEF Delete, Changed, Signal, Serving, LockFree, Saving
  <2>4. CounterExact' /\ NoMissedSignal'
    BY <1>15 DEF Delete, Changed, Signal, Serving, LockFree, CounterExact, NoMissedSignal, Startup, Required
  <2> QED
    BY <2>1, <2>2, <2>3, <2>4 DEF IInv
<1>16. CASE AclModify
  <2>1. TypeOK'
    BY <1>16 DEF AclModify, Serving, LockFree, Startup, Required
  <2>2. Startup' /\ Required'
    BY <1>16 DEF AclModify, Serving, LockFree, Startup, Required, Saving, CounterExact
  <2>3. Saving'
    BY <1>16 DEF AclModify, Serving, LockFree, Saving
  <2>4. CounterExact' /\ NoMissedSignal'
    BY <1>16 DEF AclModify, Serving, LockFree, CounterExact, NoMissedSignal, Startup, Required
  <2> QED
    BY <2>1, <2>2, <2>3, <2>4 DEF IInv
<1>17. CASE CommitOrExport
  <2>1. /\ ~mergeRequired' /\ ~idsWait' /\ ~feedbackRequired'
        /\ mergeRequired' \in BOOLEAN /\ idsWait' \in BOOLEAN /\ feedbackRequired' \in BOOLEAN
        /\ pending' = 0 /\ writesCounterForMerge' = 0
    BY <1>17, MergeEffect DEF CommitOrExport
  <2>2. TypeOK'
    BY <2>1, <1>17 DEF CommitOrExport, Serving, LockFree, Startup, Required
  <2>3. Startup' /\ Required'
    BY <2>1, <1>17 DEF CommitOrExport, Serving, LockFree, Startup, Required, Saving, CounterExact
  <2>4. Saving'
    BY <2>1, <1>17 DEF CommitOrExport, Serving, LockFree, Saving
  <2>5. CounterExact' /\ NoMissedSignal'
    BY <2>1, <1>17 DEF CommitOrExport, Serving, LockFree, CounterExact, NoMissedSignal, Startup, Required
  <2> QED
    BY <2>2, <2>3, <2>4, <2>5 DEF IInv
<1>18. CASE AddFeedback
  <2>1. TypeOK'
    BY <1>18 DEF AddFeedback, Startup, Required
  <2>2. Startup' /\ Required'
    BY <1>18 DEF AddFeedback, Startup, Required, Saving, CounterExact
  <2>3. Saving'
    BY <1>18 DEF AddFeedback, Saving
  <2>4. CounterExact' /\ NoMissedSignal'
    BY <1>18 DEF AddFeedback, CounterExact, NoMissedSignal, Startup, Required
  <2> QED
    BY <2>1, <2>2, <2>3, <2>4 DEF IInv
<1>19. CASE SaveMerge
  <2>1. /\ ~mergeRequired' /\ ~idsWait' /\ ~feedbackRequired'
        /\ mergeRequired' \in BOOLEAN /\ idsWait' \in BOOLEAN /\ feedbackRequired' \in BOOLEAN
        /\ pending' = 0 /\ writesCounterForMerge' = 0
    BY <1>19, MergeEffect DEF SaveMerge
  <2>2. TypeOK'
    BY <2>1, <1>19 DEF SaveMerge, LockFree, Startup, Required
  <2>3. Startup' /\ Required'
    BY <2>1, <1>19 DEF SaveMerge, LockFree, Startup, Required, Saving, CounterExact
  <2>4. Saving'
    BY <2>1, <1>19 DEF SaveMerge, LockFree, Saving
  <2>5. CounterExact' /\ NoMissedSignal'
    BY <2>1, <1>19 DEF SaveMerge, LockFree, CounterExact, NoMissedSignal, Startup, Required
  <2> QED
    BY <2>2, <2>3, <2>4, <2>5 DEF IInv
<1>20. CASE Kill
  <2>1. TypeOK'
    BY <1>20 DEF Kill, Serving, LockFree, Startup, Required
  <2>2. Startup' /\ Required'
    BY <1>20 DEF Kill, Serving, LockFree, Startup, Required, Saving, CounterExact
  <2>3. Saving'
    BY <1>20 DEF Kill, Serving, LockFree, Saving
  <2>4. CounterExact' /\ NoMissedSignal'
    BY <1>20 DEF Kill, Serving, LockFree, CounterExact, NoMissedSignal, Startup, Required
  <2> QED
    BY <2>1, <2>2, <2>3, <2>4 DEF IInv
<1>21. CASE NothingToSave
  <2>1. TypeOK'
    BY <1>21 DEF NothingToSave, LockFree, Startup, Required
  <2>2. Startup' /\ Required'
    BY <1>21 DEF NothingToSave, LockFree, Startup, Required, Saving, CounterExact
  <2>3. Saving'
    BY <1>21 DEF NothingToSave, LockFree, Saving
  <2>4. CounterExact' /\ NoMissedSignal'
    BY <1>21 DEF NothingToSave, LockFree, CounterExact, NoMissedSignal, Startup, Required
  <2> QED
    BY <2>1, <2>2, <2>3, <2>4 DEF IInv
<1>22. CASE Exit
  <2>1. TypeOK'
    BY <1>22 DEF Exit, Startup, Required
  <2>2. Startup' /\ Required'
    BY <1>22 DEF Exit, Startup, Required, Saving, CounterExact
  <2>3. Saving'
    BY <1>22 DEF Exit, Saving
  <2>4. CounterExact' /\ NoMissedSignal'
    BY <1>22 DEF Exit, CounterExact, NoMissedSignal, Startup, Required
  <2> QED
    BY <2>1, <2>2, <2>3, <2>4 DEF IInv
<1>23. CASE Destroy
  <2>1. TypeOK'
    BY <1>23 DEF Destroy, Serving, LockFree, Startup, Required
  <2>2. Startup' /\ Required'
    BY <1>23 DEF Destroy, Serving, LockFree, Startup, Required, Saving, CounterExact
  <2>3. Saving'
    BY <1>23 DEF Destroy, Serving, LockFree, Saving
  <2>4. CounterExact' /\ NoMissedSignal'
    BY <1>23 DEF Destroy, Serving, LockFree, CounterExact, NoMissedSignal, Startup, Required
  <2> QED
    BY <2>1, <2>2, <2>3, <2>4 DEF IInv
<1>24. CASE UNCHANGED vars
  BY <1>24 DEF vars, IInv, Startup, Required, Saving, CounterExact, NoMissedSignal
<1> QED
  BY <1>2, <1>3, <1>4, <1>5, <1>6, <1>7, <1>8, <1>9, <1>10, <1>11, <1>12,
     <1>13, <1>14, <1>15, <1>16, <1>17, <1>18, <1>19, <1>20, <1>21, <1>22, <1>23, <1>24
     DEF Next, Main, MergeLoop, SaveStep, Request

\* The invariant holds throughout: the inductive argument the theorems below
\* rest on.
THEOREM Invariance == Spec => []IInv
<1> QED
  BY InitIInv, StepIInv, PTL DEF Spec

\* The types are right, in particular the counter of writes is never negative.
THEOREM TypeCorrect == Spec => []TypeOK
<1>1. IInv => TypeOK
  BY DEF IInv
<1> QED
  BY <1>1, Invariance, PTL

\* The merge thread never sleeps on a counter that has reached its threshold,
\* nor after the destructor has asked it to leave, whatever the threshold is.
THEOREM NoSignalLost == Spec => []NoMissedSignal
<1>1. IInv => NoMissedSignal
  BY DEF IInv
<1> QED
  BY <1>1, Invariance, PTL

\* The counter of writes always equals the changes the searches do not see.
THEOREM CountsPending == Spec => []CounterExact
<1>1. IInv => CounterExact
  BY DEF IInv
<1> QED
  BY <1>1, Invariance, PTL

\* After a graceful exit the files hold all changes of the records.
THEOREM SavedBeforeExit == Spec => []SavedAtExit
<1>1. IInv => SavedAtExit
  BY DEF IInv, Saving, SavedAtExit
<1> QED
  BY <1>1, Invariance, PTL

=============================================================================
