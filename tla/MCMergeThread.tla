---------------------------- MODULE MCMergeThread ----------------------------
(* Instances of MergeThread for TLC. *)
EXTENDS MergeThread

=============================================================================
