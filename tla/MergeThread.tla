----------------------------- MODULE MergeThread -----------------------------
(***************************************************************************)
(* The life of one IndexReaderWriter (IndexerInternal.cpp): bulk load,     *)
(* first commit, start of the merge thread, writes and saves of the HTTP   *)
(* threads, and the end, by the server's graceful exit or by the           *)
(* destructor of an embedding program.                                     *)
(*                                                                         *)
(* Every operation holds lockForWriters from its first to its last         *)
(* statement, so it is one step; but for save(), which is three, because   *)
(* addFeedback() does not take that lock.  The merge thread gives the lock *)
(* up inside pthread_cond_timedwait() only.  When its wait ends, by the    *)
(* signal, the timeout or for no reason, it is "woken" and still has to    *)
(* get the lock back.                                                      *)
(*                                                                         *)
(* What the indexes hold is counted: pending are the record changes that   *)
(* the read views do not show yet, dirty and feedbackDirty say that the    *)
(* files on disk are older than the indexes; writing them succeeds.  The   *)
(* histogram counters of doMerge() steer nothing else and are left out.    *)
(***************************************************************************)
EXTENDS Integers

CONSTANTS
  MergeEveryMWrites,   \* mergeEveryMWrites
  MaxWrites            \* bound: changes between two merges

ASSUME MergeThreadAssumption ==
  /\ MergeEveryMWrites \in Nat \ {0}
  /\ MaxWrites \in Nat \ {0}

VARIABLES
  main,                \* where the program's main thread is
  bulkLoadDone,        \* IndexData::flagBulkLoadDone
  mergeThreadStarted,
  thread,              \* where the merge thread is
  writesCounterForMerge,
  mergeRequired,       \* IndexData::mergeRequired
  idsWait,             \* Trie::needToReassignKeywordIds()
  needToSaveIndexes,
  saveIndexFlag,       \* FeedbackIndex::saveIndexFlag
  feedbackRequired,    \* FeedbackIndex::mergeRequired
  save,                \* where save() is; it holds lockForWriters
  needToSaveFeedback,  \* save()'s copy of saveIndexFlag
  pending,
  dirty,
  feedbackDirty

lifeVars == <<main, bulkLoadDone>>
threadVars == <<mergeThreadStarted, thread>>
recordVars == <<writesCounterForMerge, mergeRequired, idsWait, pending>>
saveVars == <<save, needToSaveFeedback>>
diskVars == <<needToSaveIndexes, dirty>>
feedbackVars == <<saveIndexFlag, feedbackRequired, feedbackDirty>>
vars == <<lifeVars, threadVars, recordVars, saveVars, diskVars, feedbackVars>>

MainState == {"loading", "committed", "starting", "serving", "stopping",
              "saved", "exited", "joining", "deleted"}
ThreadState == {"none", "created", "waiting", "woken", "returned"}
SaveState == {"none", "write", "end"}

TypeOK ==
  /\ main \in MainState
  /\ thread \in ThreadState
  /\ save \in SaveState
  /\ writesCounterForMerge \in 0 .. MaxWrites
  /\ pending \in Nat
  /\ bulkLoadDone \in BOOLEAN /\ mergeThreadStarted \in BOOLEAN
  /\ mergeRequired \in BOOLEAN /\ idsWait \in BOOLEAN
  /\ needToSaveIndexes \in BOOLEAN /\ dirty \in BOOLEAN
  /\ saveIndexFlag \in BOOLEAN /\ feedbackRequired \in BOOLEAN
  /\ feedbackDirty \in BOOLEAN /\ needToSaveFeedback \in BOOLEAN

\* A new index, or one loaded from disk, which needs no commit.
Init ==
  /\ \/ main = "loading" /\ bulkLoadDone = FALSE
     \/ main = "committed" /\ bulkLoadDone = TRUE
  /\ mergeThreadStarted = FALSE
  /\ thread = "none"
  /\ writesCounterForMerge = 0
  /\ mergeRequired = TRUE
  /\ idsWait = FALSE
  /\ needToSaveIndexes = FALSE
  /\ saveIndexFlag = FALSE
  /\ feedbackRequired = TRUE
  /\ save = "none"
  /\ needToSaveFeedback = FALSE
  /\ pending = 0
  /\ dirty = FALSE
  /\ feedbackDirty = FALSE

-----------------------------------------------------------------------------
(* Merging, for whoever holds the lock *)

LockFree == save = "none"
Alive == main # "exited"
Serving == main = "serving" /\ LockFree

\* FeedbackIndex::merge: what it has to merge is shown.
MergeFeedback == feedbackRequired' = FALSE

\* IndexData::_merge, which does nothing unless a merge is required.
MergeIndex ==
  /\ mergeRequired' = FALSE
  /\ idsWait' = (idsWait /\ ~mergeRequired)
  /\ pending' = (IF mergeRequired THEN 0 ELSE pending)

\* Mutant: the counter runs on.
MergeUncounted ==
  /\ MergeFeedback
  /\ MergeIndex
  /\ UNCHANGED writesCounterForMerge

\* merge() and the reset after it.
MergeAndReset ==
  /\ MergeFeedback
  /\ MergeIndex
  /\ writesCounterForMerge' = 0

\* Mutant: the threshold is missed by one.
SignalLate(n) ==
  thread' = IF mergeThreadStarted /\ n > MergeEveryMWrites /\ thread = "waiting"
            THEN "woken" ELSE thread

\* The end of every write: the signal is lost unless the thread waits.
Signal(n) ==
  thread' = IF mergeThreadStarted /\ n >= MergeEveryMWrites /\ thread = "waiting"
            THEN "woken" ELSE thread

\* Mutant: the counter runs backwards, as if the change undid an earlier one.
ChangedBackwards(count, unseen) ==
  /\ writesCounterForMerge' = count - 1
  /\ pending' = unseen + 1
  /\ mergeRequired' = TRUE
  /\ needToSaveIndexes' = TRUE
  /\ dirty' = TRUE
  /\ Signal(count - 1)

\* What every successful change of a record does, from the counter and the
\* changes not shown.
Changed(count, unseen) ==
  /\ writesCounterForMerge' = count + 1
  /\ pending' = unseen + 1
  /\ mergeRequired' = TRUE
  /\ needToSaveIndexes' = TRUE
  /\ dirty' = TRUE
  /\ Signal(count + 1)

-----------------------------------------------------------------------------
(* Start *)

\* addRecord() of the bulk load; the thread is not there to be signalled.
BulkLoad ==
  /\ main = "loading"
  /\ writesCounterForMerge < MaxWrites
  /\ Changed(writesCounterForMerge, pending)
  /\ UNCHANGED <<lifeVars, mergeThreadStarted, idsWait, saveVars, feedbackVars>>

\* commit() after the bulk load: finishBulkLoad() publishes everything.
FirstCommit ==
  /\ main = "loading"
  /\ main' = "committed"
  /\ bulkLoadDone' = TRUE
  /\ pending' = 0
  /\ writesCounterForMerge' = 0
  /\ UNCHANGED <<threadVars, mergeRequired, idsWait, saveVars, diskVars, feedbackVars>>

\* createAndStartMergeThreadLoop() creates the thread ...
CreateMergeThread ==
  /\ main = "committed" /\ LockFree
  /\ main' = "starting"
  /\ thread' = "created"
  /\ UNCHANGED <<bulkLoadDone, mergeThreadStarted, recordVars, saveVars, diskVars,
                 feedbackVars>>

\* ... and polls the flag, without the lock; then the server opens its ports.
MergeThreadReady ==
  /\ main = "starting"
  /\ mergeThreadStarted
  /\ main' = "serving"
  /\ UNCHANGED <<bulkLoadDone, threadVars, recordVars, saveVars, diskVars, feedbackVars>>

-----------------------------------------------------------------------------
(* The merge thread *)

\* startMergeThreadLoop() up to its first wait.  It returns at once from an
\* index that is not committed; the server commits or loads first.
StartMergeThreadLoop ==
  /\ Alive /\ thread = "created" /\ LockFree
  /\ ~mergeThreadStarted /\ bulkLoadDone
  /\ mergeThreadStarted' = TRUE
  /\ thread' = "waiting"
  /\ UNCHANGED <<lifeVars, recordVars, saveVars, diskVars, feedbackVars>>

\* The wait ends after mergeEveryNSeconds, or spuriously.
TimedOut ==
  /\ Alive /\ thread = "waiting"
  /\ thread' = "woken"
  /\ UNCHANGED <<lifeVars, mergeThreadStarted, recordVars, saveVars, diskVars, feedbackVars>>

\* Mutant: a timeout below the threshold merges nothing.
MergeAtThreshold ==
  /\ Alive /\ thread = "woken" /\ LockFree
  /\ mergeThreadStarted
  /\ thread' = "waiting"
  /\ IF writesCounterForMerge >= MergeEveryMWrites
     THEN MergeAndReset
     ELSE UNCHANGED <<recordVars, feedbackRequired>>
  /\ UNCHANGED <<lifeVars, mergeThreadStarted, saveVars, diskVars, saveIndexFlag, feedbackDirty>>

\* With the lock again: merge, and wait again.
DoMerge ==
  /\ Alive /\ thread = "woken" /\ LockFree
  /\ mergeThreadStarted
  /\ thread' = "waiting"
  /\ MergeAndReset
  /\ UNCHANGED <<lifeVars, mergeThreadStarted, saveVars, diskVars, saveIndexFlag, feedbackDirty>>

\* The flag is down: leave the loop, destroy the condition, return.
LeaveLoop ==
  /\ Alive /\ thread = "woken" /\ LockFree
  /\ ~mergeThreadStarted
  /\ thread' = "returned"
  /\ UNCHANGED <<lifeVars, mergeThreadStarted, recordVars, saveVars, diskVars, feedbackVars>>

-----------------------------------------------------------------------------
(* The HTTP threads *)

\* addRecord() or recoverRecord(), successful; a new keyword may find no id.
Write ==
  /\ Serving
  /\ writesCounterForMerge < MaxWrites
  /\ Changed(writesCounterForMerge, pending)
  /\ idsWait' \in {idsWait, TRUE}
  /\ UNCHANGED <<lifeVars, mergeThreadStarted, saveVars, feedbackVars>>

\* deleteRecordGetInternalId().
Delete ==
  /\ Serving
  /\ ~idsWait
  /\ writesCounterForMerge < MaxWrites
  /\ Changed(writesCounterForMerge, pending)
  /\ UNCHANGED <<lifeVars, mergeThreadStarted, idsWait, saveVars, feedbackVars>>

\* The same when keyword ids wait: it merges first, also if it then finds no
\* record with the key.
DeleteMerging ==
  /\ Serving
  /\ idsWait
  /\ \/ Changed(0, 0) /\ idsWait' = FALSE /\ feedbackRequired' = FALSE
     \/ MergeAndReset /\ UNCHANGED <<diskVars, thread>>
  /\ UNCHANGED <<lifeVars, mergeThreadStarted, saveVars, saveIndexFlag, feedbackDirty>>

\* Mutant: the change of the access lists is not noted for save().
AclModifyQuietly ==
  /\ Serving
  /\ dirty' = TRUE
  /\ UNCHANGED <<lifeVars, threadVars, recordVars, saveVars, needToSaveIndexes, feedbackVars>>

\* aclRecordModifyRoles(), deleteRoleRecord(): in place, seen at once.
AclModify ==
  /\ Serving
  /\ dirty' = TRUE
  /\ needToSaveIndexes' = TRUE
  /\ UNCHANGED <<lifeVars, threadVars, recordVars, saveVars, feedbackVars>>

\* commit() after the first one, exportData().
CommitOrExport ==
  /\ Serving
  /\ MergeAndReset
  /\ UNCHANGED <<lifeVars, threadVars, saveVars, diskVars, saveIndexFlag, feedbackDirty>>

\* FeedbackIndex::addFeedback(), under its own lock.
AddFeedback ==
  /\ main = "serving"
  /\ saveIndexFlag' = TRUE
  /\ feedbackRequired' = TRUE
  /\ feedbackDirty' = TRUE
  /\ UNCHANGED <<lifeVars, threadVars, recordVars, saveVars, diskVars>>

-----------------------------------------------------------------------------
(* save(): of main after the bulk load and at the end, of HTTP threads *)

\* The flags are read, and the indexes merged.
SaveMerge ==
  /\ main \in {"committed", "serving", "stopping"} /\ LockFree
  /\ needToSaveIndexes \/ saveIndexFlag
  /\ needToSaveFeedback' = saveIndexFlag
  /\ save' = "write"
  /\ MergeAndReset
  /\ UNCHANGED <<lifeVars, threadVars, diskVars, saveIndexFlag, feedbackDirty>>

\* The files are written.
SaveWrite ==
  /\ save = "write"
  /\ save' = "end"
  /\ dirty' = (dirty /\ ~needToSaveIndexes)
  /\ feedbackDirty' = (feedbackDirty /\ ~needToSaveFeedback)
  /\ feedbackRequired' = (feedbackRequired /\ ~needToSaveFeedback)
  /\ UNCHANGED <<lifeVars, threadVars, recordVars, needToSaveFeedback, needToSaveIndexes,
                 saveIndexFlag>>

\* The flags are put down, the lock is released.
SaveEnd ==
  /\ save = "end"
  /\ save' = "none"
  /\ needToSaveIndexes' = FALSE
  /\ saveIndexFlag' = FALSE
  /\ main' = (IF main = "stopping" THEN "saved" ELSE main)
  /\ UNCHANGED <<bulkLoadDone, threadVars, recordVars, needToSaveFeedback, dirty,
                 feedbackRequired, feedbackDirty>>

-----------------------------------------------------------------------------
(* The end *)

\* killServer() and main() stop and join the HTTP threads, here between two
\* operations.
Kill ==
  /\ Serving
  /\ main' = "stopping"
  /\ UNCHANGED <<bulkLoadDone, threadVars, recordVars, saveVars, diskVars, feedbackVars>>

\* graceful_exit(): save() finds nothing to do.
NothingToSave ==
  /\ main = "stopping" /\ LockFree
  /\ ~needToSaveIndexes /\ ~saveIndexFlag
  /\ main' = "saved"
  /\ UNCHANGED <<bulkLoadDone, threadVars, recordVars, saveVars, diskVars, feedbackVars>>

\* The process ends with the merge thread in it.
Exit ==
  /\ main = "saved"
  /\ main' = "exited"
  /\ UNCHANGED <<bulkLoadDone, threadVars, recordVars, saveVars, diskVars, feedbackVars>>

\* Mutant: the flag stays up.
DestroySignalling ==
  /\ Serving
  /\ mergeThreadStarted
  /\ thread' = (IF thread = "waiting" THEN "woken" ELSE thread)
  /\ main' = "joining"
  /\ UNCHANGED <<bulkLoadDone, mergeThreadStarted, recordVars, saveVars, diskVars, feedbackVars>>

\* ~IndexReaderWriter(), once the program makes no calls: the flag, read
\* without the lock, goes down, the thread is signalled ...
Destroy ==
  /\ Serving
  /\ mergeThreadStarted
  /\ mergeThreadStarted' = FALSE
  /\ thread' = (IF thread = "waiting" THEN "woken" ELSE thread)
  /\ main' = "joining"
  /\ UNCHANGED <<bulkLoadDone, recordVars, saveVars, diskVars, feedbackVars>>

\* ... and joined, and the indexes are deleted.
Join ==
  /\ main = "joining"
  /\ thread = "returned"
  /\ main' = "deleted"
  /\ UNCHANGED <<bulkLoadDone, threadVars, recordVars, saveVars, diskVars, feedbackVars>>

-----------------------------------------------------------------------------

Main == FirstCommit \/ CreateMergeThread \/ MergeThreadReady \/ Join
MergeLoop == StartMergeThreadLoop \/ DoMerge \/ LeaveLoop
SaveStep == SaveWrite \/ SaveEnd
Request ==
  Write \/ DeleteMerging \/ Delete \/ AclModify \/ CommitOrExport \/ AddFeedback \/ SaveMerge

Next ==
  \/ Main \/ MergeLoop \/ TimedOut \/ SaveStep
  \/ BulkLoad \/ Request
  \/ Kill \/ NothingToSave \/ Exit \/ Destroy

Spec == Init /\ [][Next]_vars

\* The main thread goes on with what it has begun, a save that has begun ends,
\* the wait has a timeout, and a woken thread gets the lock if it is free from
\* then on.  Nobody has to make requests.
FairSpec ==
  /\ Spec
  /\ WF_vars(Main)
  /\ WF_vars(MergeLoop)
  /\ WF_vars(TimedOut)
  /\ WF_vars(SaveStep)

-----------------------------------------------------------------------------
(* Properties *)

\* No wake-up is missed: the merge thread never sleeps on a counter that has
\* reached mergeEveryMWrites, nor once the destructor has put the flag down,
\* although a signal reaches it only while it waits, and merges by commit,
\* export, save and delete race with its own.
NoMissedSignal ==
  thread = "waiting" =>
    mergeThreadStarted /\ writesCounterForMerge < MergeEveryMWrites

\* The counter that decides about merging counts the changes the read views
\* lack, although _merge() may do nothing and the counter is reset all the
\* same: no reset forgets a change.
CounterExact == writesCounterForMerge = pending

\* After a graceful exit the files on disk hold all changes of the records;
\* save() skips writing when its flag is down.
SavedAtExit == main = "exited" => ~dirty

\* The same for the user feedback, whose flag says "the index has changed and
\* needs to be saved to disk".
FeedbackSavedAtExit == main = "exited" => ~feedbackDirty

\* Every change of a record or of the feedback is shown to the searches at
\* last, however few there are, unless the program is ended first.
Published ==
  main = "serving" /\ (pending > 0 \/ feedbackRequired)
    ~> main # "serving" \/ (pending = 0 /\ ~feedbackRequired)

\* The destructor gets its merge thread joined.
Joined == main = "joining" ~> main = "deleted"

=============================================================================
