------------------------------ MODULE StockLedger ------------------------------
(***************************************************************************)
(* What the stocks table promises, without the processes that use it: four *)
(* operations on the two counters of every row, and the set of payments    *)
(* whose units have left the shelf.  OrderPayment implements it.           *)
(***************************************************************************)
EXTENDS Integers, FiniteSets, Functions

CONSTANTS Items, Orders, Payments, Lines, PayFor, InitStock  \* as in OrderPayment

VARIABLES quantity, reserved, settled

ledger == <<quantity, reserved, settled>>

Init ==
  /\ quantity = InitStock
  /\ reserved = [i \in Items |-> 0]
  /\ settled = {}

\* reserveStock for every line, all or nothing.
Fits(o) == \A i \in Items : reserved[i] + Lines[o][i] <= quantity[i]

Reserve(o) ==
  /\ Fits(o)
  /\ reserved' = [i \in Items |-> reserved[i] + Lines[o][i]]
  /\ UNCHANGED <<quantity, settled>>

\* decreaseStock for every line, once for each payment.
Unsettled(p) == p \notin settled

Settle(p) ==
  /\ Unsettled(p)
  /\ \A i \in Items : Lines[PayFor[p]][i] <= reserved[i]
  /\ quantity' = [i \in Items |-> quantity[i] - Lines[PayFor[p]][i]]
  /\ reserved' = [i \in Items |-> reserved[i] - Lines[PayFor[p]][i]]
  /\ settled' = settled \cup {p}

\* increaseStock for every line, with the payment deleted.
TakeBack(p) ==
  /\ p \in settled
  /\ quantity' = [i \in Items |-> quantity[i] + Lines[PayFor[p]][i]]
  /\ settled' = settled \ {p}
  /\ UNCHANGED reserved

\* restoreReservedStock for a batch of orders: reservations only shrink.
Smaller == {f \in [Items -> UNION {0 .. reserved[i] : i \in Items}] :
              \A i \in Items : f[i] <= reserved[i]}

GiveBack ==
  /\ reserved' \in Smaller
  /\ UNCHANGED <<quantity, settled>>

Next ==
  \/ \E o \in Orders : Reserve(o)
  \/ \E p \in Payments : Settle(p) \/ TakeBack(p)
  \/ GiveBack

Spec == Init /\ [][Next]_ledger

-----------------------------------------------------------------------------
\* What has left the shelf is exactly what the settled payments bought.
Conservation ==
  \A i \in Items :
    quantity[i] + SumFunctionOnSet([p \in Payments |-> Lines[PayFor[p]][i]], settled)
      = InitStock[i]
=============================================================================
