---------------------------- MODULE MCSearchViews ----------------------------
(* Instances of SearchViews for TLC. *)
EXTENDS SearchViews, TLC

\* Readers are interchangeable; keywords are not, they are in order.
Symmetry == Permutations(Reader)

=============================================================================
