-------------------------- MODULE MCRecordScenarios --------------------------
(* Two instances of RecordStore side by side in one run: in "search" the
   constants of the configuration (two searches, updates of absent records,
   merges at any time), in "recover" two clients at the document limit, whose
   failed updates recover the old record before a merge may start. *)
EXTENDS RecordStore, TLC

CONSTANTS RecoverKey, RecoverClient, RecoverReader, RecoverLimit
VARIABLE scenario

\* In "search" the one client never meets the limit: no update fails there.
ASSUME SearchAssumption ==
  /\ IsFiniteSet(Key)
  /\ Cardinality(Key) < DocumentLimit
  /\ \E c \in Client : Client = {c}

ASSUME RecoverAssumption ==
  /\ None \notin RecoverKey
  /\ RecoverLimit \in Nat
  /\ IsFiniteSet(RecoverClient)
  /\ RecoverClient # {}

Recover == INSTANCE RecordStore
           WITH Key <- RecoverKey, Client <- RecoverClient, Reader <- RecoverReader,
                DocumentLimit <- RecoverLimit,
                Upsert <- FALSE, Overlap <- FALSE

MCInit == \/ scenario = "search" /\ Init
          \/ scenario = "recover" /\ Recover!Init

MCNext == \/ scenario = "search" /\ Next /\ UNCHANGED scenario
          \/ scenario = "recover" /\ Recover!Next /\ UNCHANGED scenario

\* The fairness of FairSpec in "search"; none is needed in "recover".
MCSpec ==
  /\ MCInit
  /\ [][MCNext]_<<vars, scenario>>
  /\ WF_vars(scenario = "search" /\ Merge)
  /\ \A r \in Reader : WF_vars(scenario = "search" /\ ReaderPreExit(r))

\* TypeOK, in either scenario.
TypesOK == IF scenario = "search" THEN TypeOK ELSE Recover!TypeOK

\* SearchSafe for two searches that overlap commands and merges: no search
\* meets a forward list that has been freed.
OverlapSafe == scenario = "search" => SearchSafe

\* OneRecordPerKey for two searches that overlap commands and merges.
OverlapKeys == scenario = "search" => OneRecordPerKey

\* Deleted records are released, in "search".
DeletedReleased == \A i \in Id :
  (scenario = "search" /\ bulkLoadDone /\ i \in deletedIds) ~> (i \notin deletedIds)

\* Where failed updates recover the old record, MapSound, DeletedSound and
\* CountAgrees hold after every operation: the id map, the delete flags, the
\* forward lists, the deleted ids and the document counter tell the same story.
RecoveredConsistent ==
  scenario = "recover" => Recover!MapSound /\ Recover!DeletedSound /\ CountAgrees

\* WithinLimit for two clients at the limit.
RecoveredLimit == scenario = "recover" => Recover!WithinLimit

=============================================================================
