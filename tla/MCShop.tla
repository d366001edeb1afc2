-------------------------------- MODULE MCShop ---------------------------------
(* A seller and a buyer; the address of the buyer is also signed up for.      *)
EXTENDS Shop, TLC

CONSTANTS seller, buyer, es, eb, u1, u2, o1, o2, l1, l2, d1, a1, x1, w1

Address == [u \in Accounts \cup SignUps |-> IF u = seller THEN es ELSE eb]
Symmetry == Permutations({u1, u2}) \cup Permutations({o1, o2}) \cup Permutations({l1, l2})
=============================================================================
