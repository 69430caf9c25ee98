---------------------------- MODULE MCRecordStore ----------------------------
(* Instances of RecordStore for TLC. *)
EXTENDS RecordStore, TLC

\* Keys, clients and readers are interchangeable; they are used only where no
\* liveness is checked.
Symmetry == Permutations(Key) \cup Permutations(Client) \cup Permutations(Reader)

=============================================================================
