------------------------------ MODULE MCDelivery -------------------------------
(* Two answers; two connections of the author, of another user or of both, *)
(* each carrying up to two requests.                                       *)
EXTENDS Delivery

CONSTANTS a1, a2, x, y
=============================================================================
