-------------------------------- MODULE MCCart ---------------------------------
(* Two sizes of one product and two of its updates, which list the sizes in*)
(* opposite order; one update of another product.  The seller gives the    *)
(* first product a discount that is about to end; that of the second is    *)
(* about to start.                                                         *)
EXTENDS Offers, TLC

CONSTANTS p1, p2, a, b, r1, r2, r3, c1, d1, e1

Target == [r \in Updates |-> IF r = r3 THEN p2 ELSE p1]
Listed3 == [r \in Updates |-> CASE r = r1 -> <<a, b>> [] r = r2 -> <<b, a>>
                                [] OTHER -> <<a>>]

Edited1 == [e \in Edits |-> p1]
Body == [e \in Edits |->
           [price |-> Omitted, rate |-> 7, from |-> Omitted, until |-> 0]]
Opening == [p \in Products |->
  IF p = p1 THEN [price |-> 35000, rate |-> 0, from |-> Null, until |-> Null]
            ELSE [price |-> 35000, rate |-> 7, from |-> 1, until |-> Null]]

\* 35000 * (1 - 7 / 100) is 32549.999... in doubles.
Floor == [q \in Prices \X Rates |->
  CASE q[2] = 0 -> q[1] [] q = <<35000, 7>> -> 32549 [] OTHER -> 9300]
=============================================================================
