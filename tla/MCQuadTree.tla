----------------------------- MODULE MCQuadTree -----------------------------
(* An instance of QuadTree for TLC: three records in one half of the map. *)
EXTENDS QuadTree

Places == <<<<0, 0>>, <<0, 1>>, <<0, 0>>>>
=============================================================================
