----------------------------- MODULE MCCowVector -----------------------------
(* Three uses of a cowvector side by side in one run: "managed" is a directory
   with the constants of the configuration, merged with a manager and written
   in place; "append" is one that is only appended to; "copied" is a list that
   is sorted and cut down before each merge, which takes no manager. *)
EXTENDS CowVector, TLC

CONSTANTS r1, r2, v1, v2, v3, v4, v5, a1, a2, a3
VARIABLE scenario

Readers2 == {r1, r2}
Views5 == {v1, v2, v3, v4, v5}
Arrays3 == {a1, a2, a3}

Symmetric ==
  Permutations(Reader) \cup Permutations(View) \cup Permutations(Array)

\* The first scenario is a managed vector; a cell of the two others that was
\* never written is none of their values.
ASSUME ScenarioAssumption == Usage = "managed" /\ Garbage \notin {1, 2}

Appended == INSTANCE CowVector
            WITH Value <- {1, 2}, MaxLen <- 2, MaxStored <- 1, InPlace <- FALSE

Copied == INSTANCE CowVector
          WITH Value <- {1, 2}, MaxLen <- 2, MaxStored <- 1, InPlace <- FALSE,
               Usage <- "copied"

MCInit ==
  \/ scenario = "managed" /\ Init
  \/ scenario = "append" /\ Appended!Init
  \/ scenario = "copied" /\ Copied!Init

MCNext ==
  /\ \/ scenario = "managed" /\ Next
     \/ scenario = "append" /\ Appended!Next
     \/ scenario = "copied" /\ Copied!Next
  /\ UNCHANGED scenario

MCSpec == MCInit /\ [][MCNext]_<<vars, scenario>>

\* TypeOK, in each scenario.
TypesOK == IF scenario = "managed" THEN TypeOK ELSE Appended!TypeOK

\* Without in-place writes the vector implements SnapshotVector: appends,
\* reallocations, sortAndMerge() and merges never change what a reader that
\* already holds a view sees.
Seen(v) == IF scenario = "managed" THEN <<>> ELSE Appended!Contents(v)
Snapshots == INSTANCE SnapshotVector WITH
  committed <- scenario # "managed" /\ pc \notin {"bulk", "destroyed"},
  published <- Seen(readView),
  working   <- Seen(writeView),
  snap      <- [r \in Reader |-> IF scenario = "managed" \/ held[r] = None THEN None
                                 ELSE Seen(held[r])]
ImplementsSnapshots == Snapshots!Spec
=============================================================================
