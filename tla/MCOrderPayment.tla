---------------------------- MODULE MCOrderPayment ----------------------------
(***************************************************************************)
(* Small instances of OrderPayment.  Orders, payments and processes are    *)
(* model values; the functions over them are written here by name.         *)
(***************************************************************************)
EXTENDS OrderPayment

CONSTANTS u1, i1, i2, o1, o2, p1, p2, g1, g2, h1, h2, h3, c1, c2

\* One buyer and two orders: one unit and two units of a row of three, and the
\* only unit of another row for the second order.  Each wants the ten points
\* the buyer has, earns less than it spends, and lifts the buyer to the grade
\* that earns more.
OneBuyer     == [o \in Orders |-> u1]
Wanted       == [o \in Orders |->
                  [i \in Items |-> IF o = o2 THEN (IF i = i1 THEN 2 ELSE 1)
                                    ELSE (IF i = i1 THEN 1 ELSE 0)]]
Subtotals    == [o \in Orders |-> 20]
SpendTen     == [o \in Orders |-> 10]
Shelf        == [i \in Items |-> IF i = i1 THEN 3 ELSE 1]
TenPoints    == [u \in Users |-> 10]
LowGrade     == [u \in Users |-> g1]
Thresholds   == [g \in Grades |-> IF g = g1 THEN 0 ELSE 20]
Rates        == [g \in Grades |-> IF g = g1 THEN 10 ELSE 20]

\* A payment per order, or two payments for the first order.
OneEach      == [p \in Payments |-> IF p = p1 THEN o1 ELSE o2]
BothForFirst == [p \in Payments |-> o1]

\* The first payment's webhook is delivered twice when there are three.
HookTargets  == [h \in Hooks |-> IF h = h2 THEN p2 ELSE p1]
CancelTargets == [c \in Cancels |-> IF c = c1 THEN o1 ELSE o2]

\* Whether the seller edits the product.
NoProduct    == {}
OneProduct   == {Items}
=============================================================================
