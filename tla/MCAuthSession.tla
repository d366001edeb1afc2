---------------------------- MODULE MCAuthSession ----------------------------
(* A small instance of AuthSession. *)
EXTENDS AuthSession, TLC

CONSTANTS l1, l2, r1, r2, r3, o1

Symmetry == Permutations(Refreshes)
=============================================================================
