------------------------------ MODULE MCDashboard ------------------------------
(* Two orders: one with two items of the seller and one of another seller.   *)
EXTENDS Dashboard

CONSTANTS o1, o2

Item(o, mine, price, quantity, n) ==
  [order |-> o, mine |-> mine, price |-> price, quantity |-> quantity, n |-> n]
Sold == {Item(o1, TRUE, 10000, 1, 1), Item(o1, TRUE, 30001, 1, 2),
         Item(o1, FALSE, 100001, 1, 3), Item(o2, TRUE, 100001, 2, 1)}

\* The turn of a year, and a leap February with the whole of March.
Window == (DayOf(2023, 12, 27)..DayOf(2024, 1, 6))
            \cup (DayOf(2024, 2, 26)..DayOf(2024, 3, 31))
=============================================================================
