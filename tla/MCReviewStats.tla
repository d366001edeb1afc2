---------------------------- MODULE MCReviewStats ------------------------------
(* Two order items; two creations, an update, a deletion and a reader.      *)
EXTENDS ReviewPages, TLC

CONSTANTS i1, i2, c1, c2, c3, u1, d1
Symmetric == Permutations({i1, i2}) \cup Permutations(Creates)
=============================================================================
