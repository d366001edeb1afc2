-------------------------------- MODULE Basket ---------------------------------
(***************************************************************************)
(* What a buyer may rely on about the cart: an update sets all its sizes   *)
(* at once or none, and nothing else changes a quantity.  Cart implements  *)
(* it.                                                                     *)
(***************************************************************************)
CONSTANTS Keys, Updates, KeysOf, NoUpdate

VARIABLES
  setBy,  \* of a key: the update its quantity is from, or NoUpdate
  told    \* updates answered with success

Init == setBy = [k \in Keys |-> NoUpdate] /\ told = {}

SetAll(r) ==
  /\ r \notin told
  /\ told' = told \cup {r}
  /\ setBy' = [k \in Keys |-> IF k \in KeysOf[r] THEN r ELSE setBy[k]]

\* An item taken out, or all the items of a product or of an account that go.
TakeOut(K) ==
  /\ setBy' = [k \in Keys |-> IF k \in K THEN NoUpdate ELSE setBy[k]]
  /\ UNCHANGED told

Next == (\E r \in Updates : SetAll(r)) \/ (\E K \in SUBSET Keys : TakeOut(K))

Spec == Init /\ [][Next]_<<setBy, told>>
=============================================================================
