---------------------------- MODULE MCActiveNodes ----------------------------
(* An instance of ActiveNodes for TLC. *)
EXTENDS ActiveNodes

FuzzyWords == UNION {[1..n -> Char] : n \in 1..3}
=============================================================================
