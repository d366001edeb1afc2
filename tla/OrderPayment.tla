----------------------------- MODULE OrderPayment -----------------------------
(***************************************************************************)
(* Orders, stock reservation, payment confirmation, cancellation, expiry,  *)
(* points and grades: OrderService and PaymentService with the             *)
(* repositories they write through (src/src/domains/order, .../payment,    *)
(* UserService.updateGradeByPurchase).                                     *)
(*                                                                         *)
(* Every request, webhook and timer run is a process.  The database runs   *)
(* its transactions at PostgreSQL's default level, READ COMMITTED:         *)
(*   - a read that takes no lock is a step of its own, whether the code    *)
(*     makes it before prisma.$transaction or inside it, and what it saw   *)
(*     is kept until the process uses it;                                  *)
(*   - the writes of a transaction are one step, its commit.  An UPDATE    *)
(*     evaluates its WHERE on the last committed row and keeps the row     *)
(*     locked until COMMIT, so each guard holds at the commit as it held   *)
(*     at the statement;                                                   *)
(*   - a transaction may always fail: a guard that does not hold, a        *)
(*     deadlock the database breaks, a transaction timeout, a lost         *)
(*     connection, a crash of the server.  The *Fails actions say so.      *)
(***************************************************************************)
EXTENDS Integers, Sequences, FiniteSets, Functions

CONSTANTS
  Users, Items, Orders,  \* buyers, stock rows (product, size), order requests
  Payments,              \* rows of the payments table
  Hooks,                 \* deliveries of the payment webhook
  Cancels,               \* DELETE /orders/:id requests
  Jobs,                  \* the expiry timers of server.ts, one per server
  Grades,                \* rows of the grade table
  Buyer, Lines, Subtotal, UsePoint,  \* what each order request asks for
  PayFor,                \* the order a payment row is created for
  HookFor,               \* the payment a webhook names
  CancelFor,             \* the order a cancel request names
  MinAmount, RatePercent,            \* the columns of the grade table
  InitStock, InitPoint, InitGrade,
  MayExpire,             \* the orders whose ten minutes pass during the run
  Leavers,               \* the buyers who may delete their account
  Reviewable,            \* the orders an item of which may be reviewed
  Products,              \* the stock rows of each product, a set per product
  SellerStocks,          \* quantities a seller writes when editing a product
  NoGrade, NoPayment

Actors  == Hooks \cup Cancels \cup Jobs
Runners == Cancels \cup Jobs      \* those that call expireWaitingOrder
Graders == Hooks \cup Cancels     \* those that call updateGradeByPurchase

ASSUME RequestsAssumption ==
  /\ Buyer \in [Orders -> Users]
  /\ Lines \in [Orders -> [Items -> Nat]]
  /\ Subtotal \in [Orders -> Nat]
  /\ UsePoint \in [Orders -> Nat]

ASSUME ProcessAssumption ==
  /\ PayFor \in [Payments -> Orders]
  /\ HookFor \in [Hooks -> Payments]
  /\ CancelFor \in [Cancels -> Orders]
  /\ Hooks \cap Cancels = {}
  /\ Hooks \cap Jobs = {}
  /\ Cancels \cap Jobs = {}

ASSUME TablesAssumption ==
  /\ MinAmount \in [Grades -> Nat]
  /\ RatePercent \in [Grades -> Nat]
  /\ InitStock \in [Items -> Nat]
  /\ InitPoint \in [Users -> Nat]
  /\ InitGrade \in [Users -> Grades]
  /\ MayExpire \subseteq Orders
  /\ Leavers \subseteq Users
  /\ Reviewable \subseteq Orders
  /\ Products \subseteq SUBSET Items
  /\ SellerStocks \subseteq Nat
  /\ NoGrade \notin Grades
  /\ NoPayment \notin Payments

\* A table has finitely many rows.
ASSUME FiniteAssumption ==
  /\ IsFiniteSet(Orders)
  /\ IsFiniteSet(Payments)

VARIABLES
  quantity, reserved,  \* the two counters of a stocks row
  listed,              \* the stocks rows that exist
  order,               \* status of each order request
  expired,             \* the orders whose expiresAt has passed
  left,                \* the buyers whose users row is deleted
  reviewed,            \* the orders a reviews row refers to
  payment,             \* status of each payments row
  gateway,             \* what the payment gateway answers about a payment
  point, grade,        \* the two columns of a users row that orders change
  use, earn, refund, earnCancel,  \* the point_history rows of each order:
                       \* the amounts of EARN rows, the sum of the others
  soldOut,             \* sold-out announcements committed, per item
  pc,                  \* where each process is
  batch,               \* the orders an expiry run has read as expired
  seenGrade,           \* the grade a process has read or computed
  seenPayment,         \* the completed payment a cancel has read
  seenPoint            \* the points a cancel has read

stockVars == <<quantity, reserved, listed, soldOut>>
orderVars == <<order, expired, left, reviewed>>
historyVars == <<use, earn, refund, earnCancel>>
userVars  == <<point, grade, historyVars>>
payVars   == <<payment, gateway>>
procVars  == <<pc, batch, seenGrade, seenPayment, seenPoint>>
vars == <<stockVars, orderVars, userVars, payVars, procVars>>

-----------------------------------------------------------------------------
(* The states an order row, a payment row and a process go through.  An    *)
(* abandoned order was deleted with its buyer while it waited.  The        *)
(* status `processing' of a payment is written and overwritten inside one  *)
(* transaction, so no other process ever sees it.                          *)

Existing == {"WaitingPayment", "CompletedPayment", "Cancelled"}
OrderStates == {"none", "checked", "rejected", "deleted", "abandoned"} \cup Existing

LivePayment == {"pending", "paid", "failed", "completed"}
PaymentStates == {"none", "checked", "rejected", "deleted"} \cup LivePayment

GatewayStates == {"ready", "paid", "failed", "mismatch"}

Claimed == {"claimed", "loaded", "confirming"}
PCs == {"idle", "sawPaid", "sawFailed", "settled", "regrade", "ok", "error",
        "found", "expire", "expiring", "undo", "undoing"} \cup Claimed

-----------------------------------------------------------------------------
(* What the code computes.                                                 *)

\* The amount charged: total minus the points spent.
PriceOf(o) == Subtotal[o] - UsePoint[o]

\* Math.floor(price * grade.rate), negative values cut to zero.
EarnedPoint(o, g) ==
  IF PriceOf(o) <= 0 THEN 0 ELSE (PriceOf(o) * RatePercent[g]) \div 100

\* findUserInfo: no row, no answer, and the request ends with an error.
UserInfo(u) == [found |-> u \notin left, point |-> point[u], grade |-> grade[u]]

\* buildOrderData: compares with quantity alone, whatever is reserved.
InStock(o) ==
  \A i \in Items : Lines[o][i] > 0 => i \in listed /\ quantity[i] >= Lines[o][i]

\* reserveStock: UPDATE ... WHERE quantity - reserved_quantity >= n.
CanReserve(o) ==
  \A i \in Items :
    Lines[o][i] > 0 => i \in listed /\ quantity[i] - reserved[i] >= Lines[o][i]

\* decreaseStock: UPDATE ... WHERE reserved_quantity >= n.
CanDecrease(o) ==
  \A i \in Items : Lines[o][i] > 0 => i \in listed /\ reserved[i] >= Lines[o][i]

\* decreasePoint: an update with point >= amount in its WHERE; it throws
\* when no row matches.
Unguarded(balance, amount) == TRUE   \* faulty: the WHERE has the id only
CanSpend(balance, amount) == balance >= amount

\* getTotalPurchaseAmount: the sum of subtotal over completed orders.
TotalPurchase(u) ==
  SumFunctionOnSet(Subtotal,
    {o \in Orders : Buyer[o] = u /\ order[o] = "CompletedPayment"})

\* findGradeByAmount: the highest threshold not above the amount.
GradesBelow(amount) == {g \in Grades : MinAmount[g] <= amount}
IsGradeFor(g, amount) ==
  /\ g \in GradesBelow(amount)
  /\ \A f \in GradesBelow(amount) : MinAmount[f] <= MinAmount[g]

\* The units of item i that a set of orders holds.
Held(i, S) == SumFunctionOnSet([o \in Orders |-> Lines[o][i]], S)

\* restoreReservedStock over a batch: UPDATE ... WHERE reserved_quantity >= n,
\* its row count ignored.  The batch comes in no stated order; S are the
\* orders whose units of item i were given back, the others found too few.
Releases(i, B, S) ==
  /\ S \subseteq B
  /\ Held(i, S) \in 0 .. reserved[i]
  /\ \A o \in B \ S : Lines[o][i] > reserved[i] - Held(i, S)

\* findPointHistory: the latest EARN row of the order, 0 when it has none.
WrongType(o) ==                      \* faulty: looks up EARN_CANCEL rows
  earnCancel[o]
LastEarned(o) ==
  LET rows == earn[o] IN IF rows = << >> THEN 0 ELSE rows[Len(rows)]

\* order.payments.find(status = completed), in the snapshot of findById.
CompletedPaymentsOf(o) ==
  {p \in Payments : PayFor[p] = o /\ payment[p] = "completed"}

\* The foreign keys payments.orderId and reviews.orderItemId, ON DELETE RESTRICT.
ReferencedBy(o) == {p \in Payments : PayFor[p] = o /\ payment[p] \in LivePayment}

\* findById, and what buildPaymentStatus makes of it for every page that shows
\* an order; a payment that is claimed and not confirmed counts as failed.
OrderRow(o) == [payments |-> {payment[p] : p \in ReferencedBy(o)},
                isReviewed |-> o \in reviewed]
PendingFirst(row) ==                 \* faulty: asks for pending rows first
  CASE "pending" \in row.payments -> "pending"
    [] "completed" \in row.payments /\ "pending" \notin row.payments -> "completed"
    [] OTHER -> "failed"
ShownStatus(row) ==
  CASE "completed" \in row.payments -> "completed"
    [] "pending" \in row.payments /\ "completed" \notin row.payments -> "pending"
    [] OTHER -> "failed"

\* toOrderResponse, the same for one order and for a list of them.
OrderResponse(o) == [paymentStatus |-> ShownStatus(OrderRow(o)),
                     isReviewed |-> OrderRow(o).isReviewed]

\* findExpiredWaitingOrders: status WaitingPayment and expiresAt < now.
ExpiredUnpaid ==                     \* faulty: skips orders being paid
  {o \in expired : order[o] = "WaitingPayment" /\ ReferencedBy(o) = {}}
ExpiredWaiting == {o \in expired : order[o] = "WaitingPayment"}

Goto(a, at, to) == pc[a] = at /\ pc' = [pc EXCEPT ![a] = to]

-----------------------------------------------------------------------------
Init ==
  /\ quantity = InitStock
  /\ reserved = [i \in Items |-> 0]
  /\ listed = Items
  /\ soldOut = [i \in Items |-> 0]
  /\ order = [o \in Orders |-> "none"]
  /\ expired = {}
  /\ left = {}
  /\ reviewed = {}
  /\ payment = [p \in Payments |-> "none"]
  /\ gateway = [p \in Payments |-> "ready"]
  /\ point = InitPoint
  /\ grade = InitGrade
  /\ use = [o \in Orders |-> 0]
  /\ earn = [o \in Orders |-> << >>]
  /\ refund = [o \in Orders |-> 0]
  /\ earnCancel = [o \in Orders |-> 0]
  /\ pc = [a \in Actors |-> "idle"]
  /\ batch = [r \in Runners |-> {}]
  /\ seenGrade = [a \in Graders |-> NoGrade]
  /\ seenPayment = [c \in Cancels |-> NoPayment]
  /\ seenPoint = [c \in Cancels |-> 0]

-----------------------------------------------------------------------------
(* OrderService.createOrder: the checks on data read before the            *)
(* transaction, then the transaction that reserves every line.             *)

CreateCheck(o) ==
  /\ order[o] = "none"
  /\ UserInfo(Buyer[o]).found
  /\ UsePoint[o] <= UserInfo(Buyer[o]).point
  /\ InStock(o)
  /\ PriceOf(o) >= 0
  /\ order' = [order EXCEPT ![o] = "checked"]
  /\ UNCHANGED <<expired, left, reviewed, stockVars, userVars, payVars, procVars>>

\* The foreign key orders.buyerId.
Unreferenced(o) == TRUE              \* faulty: no foreign key
HasBuyer(o) == Buyer[o] \notin left

CreateCommit(o) ==
  /\ order[o] = "checked"
  /\ HasBuyer(o)
  /\ CanReserve(o)
  /\ reserved' = [i \in Items |-> reserved[i] + Lines[o][i]]
  /\ order' = [order EXCEPT ![o] = "WaitingPayment"]
  /\ UNCHANGED <<quantity, listed, soldOut, expired, left, reviewed,
                 userVars, payVars, procVars>>

CreateFails(o) ==
  /\ order[o] \in {"none", "checked"}
  /\ order' = [order EXCEPT ![o] = "rejected"]
  /\ UNCHANGED <<expired, left, reviewed, stockVars, userVars, payVars, procVars>>

\* The clock passes expiresAt, ten minutes after the order was created.
TimePasses(o) ==
  /\ o \in MayExpire \ expired
  /\ order[o] \in Existing
  /\ expired' = expired \cup {o}
  /\ UNCHANGED <<order, left, reviewed, stockVars, userVars, payVars, procVars>>

-----------------------------------------------------------------------------
(* PaymentService.createPayment: the status of the order is read, then the *)
(* row is inserted; the foreign key makes the insert fail when the order   *)
(* has been deleted in between.                                            *)

CreatePaymentCheck(p) ==
  /\ payment[p] = "none"
  /\ order[PayFor[p]] \in Existing \ {"CompletedPayment"}
  /\ payment' = [payment EXCEPT ![p] = "checked"]
  /\ UNCHANGED <<gateway, stockVars, orderVars, userVars, procVars>>

CreatePaymentInsert(p) ==
  /\ payment[p] = "checked"
  /\ payment' = [payment EXCEPT ![p] =
                   IF order[PayFor[p]] \in Existing THEN "pending" ELSE "rejected"]
  /\ UNCHANGED <<gateway, stockVars, orderVars, userVars, procVars>>

\* External: the buyer pays, or fails to, at the gateway, once the row's id
\* is known there.  `ready' is every status that is neither paid nor failed;
\* `mismatch' is a payment whose amount or merchant id is not the one this
\* server recorded.
GatewayDecides(p, answer) ==
  /\ payment[p] \in LivePayment
  /\ gateway[p] = "ready"
  /\ answer \in GatewayStates \ {"ready"}
  /\ gateway' = [gateway EXCEPT ![p] = answer]
  /\ UNCHANGED <<payment, stockVars, orderVars, userVars, procVars>>

-----------------------------------------------------------------------------
(* PaymentService.paymentCallback.  The controller has answered 200 before *)
(* it starts, and its catch swallows every error: whatever fails, no       *)
(* delivery of the webhook takes the work up again.                        *)

\* Token and status are fetched from the gateway; `ready' is ignored.
HookReceive(h) ==
  LET p == HookFor[h] IN
  /\ payment[p] \in LivePayment
  /\ \/ gateway[p] = "ready" /\ Goto(h, "idle", "ok")
     \/ gateway[p] = "paid" /\ Goto(h, "idle", "sawPaid")
     \/ gateway[p] \in {"failed", "mismatch"} /\ Goto(h, "idle", "sawFailed")
  /\ UNCHANGED <<batch, seenGrade, seenPayment, seenPoint,
                 stockVars, orderVars, userVars, payVars>>

\* updateFailed: UPDATE ... WHERE status = pending.
HookMarkFailed(h) ==
  LET p == HookFor[h] IN
  /\ Goto(h, "sawFailed", "ok")
  /\ payment' = [payment EXCEPT ![p] = IF @ = "pending" THEN "failed" ELSE @]
  /\ UNCHANGED <<gateway, batch, seenGrade, seenPayment, seenPoint,
                 stockVars, orderVars, userVars>>

\* updatePayment: UPDATE ... WHERE status = pending, and its row count.
GatewayPaid(p) == gateway[p] = "paid"  \* faulty: no test of the row's status
CanClaim(p) == payment[p] = "pending"

HookClaim(h) ==
  LET p == HookFor[h] IN
  /\ CanClaim(p)
  /\ Goto(h, "sawPaid", "claimed")
  /\ payment' = [payment EXCEPT ![p] = "paid"]
  /\ UNCHANGED <<gateway, batch, seenGrade, seenPayment, seenPoint,
                 stockVars, orderVars, userVars>>

HookLosesClaim(h) ==
  /\ ~ CanClaim(HookFor[h])
  /\ Goto(h, "sawPaid", "ok")
  /\ UNCHANGED <<batch, seenGrade, seenPayment, seenPoint,
                 stockVars, orderVars, userVars, payVars>>

\* findPaymentWithOrder.
OrderOf(p) == PayFor[p]

\* confirmPayment before its transaction: the order of the payment, then the
\* points and the grade of the buyer.
HookLoad(h) ==
  LET o == OrderOf(HookFor[h])  u == Buyer[o] IN
  /\ UserInfo(u).found
  /\ UsePoint[o] <= UserInfo(u).point
  /\ Goto(h, "claimed", "loaded")
  /\ seenGrade' = [seenGrade EXCEPT ![h] = UserInfo(u).grade]
  /\ UNCHANGED <<batch, seenPayment, seenPoint,
                 stockVars, orderVars, userVars, payVars>>

\* The statuses of the order and of the payment, read without a lock in the
\* transaction.
ReadsConfirmable(h) ==
  /\ order[PayFor[HookFor[h]]] \notin {"CompletedPayment", "Cancelled"}
  /\ payment[HookFor[h]] = "paid"

HookCheck(h) ==
  /\ order[PayFor[HookFor[h]]] \in Existing
  /\ IF ReadsConfirmable(h) THEN Goto(h, "loaded", "confirming")
                            ELSE Goto(h, "loaded", "ok")
  /\ seenGrade' = IF ReadsConfirmable(h) THEN seenGrade
                  ELSE [seenGrade EXCEPT ![h] = NoGrade]
  /\ UNCHANGED <<batch, seenPayment, seenPoint,
                 stockVars, orderVars, userVars, payVars>>

\* The transaction of confirmPayment.  The order's status is overwritten
\* whatever it has become since HookCheck read it.  The notification rows the
\* transaction writes and the events sent after it are not state of this
\* module, except for the sold-out announcement.
Unspent(o) == point[Buyer[o]]        \* faulty: logs USE, keeps the points
AfterSpend(o) == point[Buyer[o]] - UsePoint[o]
KeptReserved(o) == reserved          \* faulty: forgets reserved_quantity
LessReserved(o) == [i \in Items |-> reserved[i] - Lines[o][i]]
WasEmpty(o) ==                       \* faulty: looks before the decrement
  {i \in Items : Lines[o][i] > 0 /\ quantity[i] = 0}
\* getStockData, after the decrement in the same transaction.
LeftOver(o, i) == quantity[i] - Lines[o][i]
Emptied(o) == {i \in Items : Lines[o][i] > 0 /\ LeftOver(o, i) = 0}
EarnRows(rows, amount) ==
  IF amount > 0 THEN Append(rows, amount) ELSE rows

HookConfirm(h) ==
  LET p == HookFor[h]  o == PayFor[p]  u == Buyer[o]
      earned == EarnedPoint(o, seenGrade[h])
  IN
  /\ order[o] \in Existing
  /\ CanDecrease(o)
  /\ CanSpend(point[u], UsePoint[o])
  /\ Goto(h, "confirming", "settled")
  /\ point' = [point EXCEPT ![u] = AfterSpend(o) + earned]
  /\ use' = [use EXCEPT ![o] = @ + UsePoint[o]]
  /\ earn' = [earn EXCEPT ![o] = EarnRows(@, earned)]
  /\ quantity' = [i \in Items |-> quantity[i] - Lines[o][i]]
  /\ reserved' = LessReserved(o)
  /\ soldOut' = [i \in Items |-> soldOut[i] + IF i \in Emptied(o) THEN 1 ELSE 0]
  /\ payment' = [payment EXCEPT ![p] = "completed"]
  /\ order' = [order EXCEPT ![o] = "CompletedPayment"]
  /\ seenGrade' = [seenGrade EXCEPT ![h] = NoGrade]
  /\ UNCHANGED <<listed, expired, left, reviewed, gateway, grade, refund, earnCancel,
                 batch, seenPayment, seenPoint>>

\* A webhook's work ends with an error anywhere on its way: nothing is undone
\* but the open transaction, and nothing is tried again.
HookFails(h) ==
  /\ pc[h] \in {"sawPaid", "sawFailed", "settled", "regrade"} \cup Claimed
  /\ pc' = [pc EXCEPT ![h] = "error"]
  /\ seenGrade' = [seenGrade EXCEPT ![h] = NoGrade]
  /\ UNCHANGED <<batch, seenPayment, seenPoint,
                 stockVars, orderVars, userVars, payVars>>

-----------------------------------------------------------------------------
(* UserService.updateGradeByPurchase, called after a confirmation and      *)
(* after a cancellation, outside their transactions.  Reading the user's   *)
(* grade and writing it when it differs is the same as writing it.         *)

GradeRead(a) ==
  LET amount == TotalPurchase(
        IF a \in Hooks THEN Buyer[PayFor[HookFor[a]]] ELSE Buyer[CancelFor[a]])
  IN
  /\ \/ /\ GradesBelow(amount) = {}
        /\ Goto(a, "settled", "ok")
        /\ UNCHANGED seenGrade
     \/ \E g \in Grades :
          /\ IsGradeFor(g, amount)
          /\ Goto(a, "settled", "regrade")
          /\ seenGrade' = [seenGrade EXCEPT ![a] = g]
  /\ UNCHANGED <<batch, seenPayment, seenPoint,
                 stockVars, orderVars, userVars, payVars>>

GradeWrite(a) ==
  LET u == IF a \in Hooks THEN Buyer[PayFor[HookFor[a]]] ELSE Buyer[CancelFor[a]]
  IN
  /\ u \notin left
  /\ Goto(a, "regrade", "ok")
  /\ grade' = [grade EXCEPT ![u] = seenGrade[a]]
  /\ seenGrade' = [seenGrade EXCEPT ![a] = NoGrade]
  /\ UNCHANGED <<batch, seenPayment, seenPoint,
                 stockVars, orderVars, point, historyVars, payVars>>

-----------------------------------------------------------------------------
(* OrderService.deleteOrder.                                               *)

\* findById: the order with its payments; the snapshot is used to the end.
CancelLoad(c) ==
  LET o == CancelFor[c]  done == CompletedPaymentsOf(o) IN
  /\ order[o] \in Existing
  /\ Goto(c, "idle", "found")
  /\ \E p \in IF done = {} THEN {NoPayment} ELSE done :
       seenPayment' = [seenPayment EXCEPT ![c] = p]
  /\ UNCHANGED <<batch, seenGrade, seenPoint,
                 stockVars, orderVars, userVars, payVars>>

\* findStatusById: a waiting order is handed to expireWaitingOrder.
CancelCheck(c) ==
  /\ order[CancelFor[c]] \in Existing
  /\ IF order[CancelFor[c]] = "WaitingPayment" THEN Goto(c, "found", "expire")
                                               ELSE Goto(c, "found", "undo")
  /\ UNCHANGED <<batch, seenGrade, seenPayment, seenPoint,
                 stockVars, orderVars, userVars, payVars>>

\* findUserInfo in the transaction: the points before the refund.
CancelReadUser(c) ==
  /\ seenPayment[c] # NoPayment
  /\ UserInfo(Buyer[CancelFor[c]]).found
  /\ Goto(c, "undo", "undoing")
  /\ seenPoint' = [seenPoint EXCEPT ![c] = UserInfo(Buyer[CancelFor[c]]).point]
  /\ UNCHANGED <<batch, seenGrade, seenPayment,
                 stockVars, orderVars, userVars, payVars>>

\* What the writes of the transaction need: the payment row of the snapshot
\* still there, no other payment row and no review on the order, every stock
\* row.
CanUndo(c) ==
  LET o == CancelFor[c] IN
  /\ order[o] \in Existing
  /\ ReferencedBy(o) = {seenPayment[c]}
  /\ ~ OrderRow(o).isReviewed
  /\ \A i \in Items : Lines[o][i] > 0 => i \in listed

\* increaseStock: quantity alone, in units.
NotRestocked(o) == quantity          \* faulty: forgets increaseStock
Restocked(o) == [i \in Items |-> quantity[i] + Lines[o][i]]

CancelCommit(c) ==
  LET o == CancelFor[c]  u == Buyer[o]  p == seenPayment[c]
      taken == LastEarned(o)  refunded == point[u] + UsePoint[o]
  IN
  /\ CanUndo(c)
  /\ seenPoint[c] >= taken
  /\ CanSpend(refunded, taken)
  /\ Goto(c, "undoing", "settled")
  /\ quantity' = Restocked(o)
  /\ payment' = [payment EXCEPT ![p] = "deleted"]
  /\ point' = [point EXCEPT ![u] = refunded - taken]
  /\ refund' = [refund EXCEPT ![o] = @ + UsePoint[o]]
  /\ earnCancel' = [earnCancel EXCEPT ![o] = @ + taken]
  /\ order' = [order EXCEPT ![o] = "deleted"]
  /\ seenPayment' = [seenPayment EXCEPT ![c] = NoPayment]
  /\ seenPoint' = [seenPoint EXCEPT ![c] = 0]
  /\ UNCHANGED <<reserved, listed, soldOut, expired, left, reviewed, gateway, grade,
                 use, earn, batch, seenGrade>>

\* A cancel request answers an error: the order is gone, no completed
\* payment was read, too few points, the order is still referenced, ...
CancelFails(c) ==
  /\ pc[c] \in {"idle", "found", "expire", "undo", "undoing", "settled", "regrade"}
  /\ pc' = [pc EXCEPT ![c] = "error"]
  /\ seenGrade' = [seenGrade EXCEPT ![c] = NoGrade]
  /\ seenPayment' = [seenPayment EXCEPT ![c] = NoPayment]
  /\ seenPoint' = [seenPoint EXCEPT ![c] = 0]
  /\ UNCHANGED <<batch, stockVars, orderVars, userVars, payVars>>

-----------------------------------------------------------------------------
(* OrderService.expireWaitingOrder, run by the timer of server.ts (which   *)
(* starts it again every ten minutes) and by deleteOrder.                  *)

RunStart(r) == pc[r] = IF r \in Jobs THEN "idle" ELSE "expire"
RunEnd(r, how) == IF r \in Jobs THEN "idle" ELSE how

\* findExpiredWaitingOrders, outside the transaction.
ExpireFind(r) ==
  /\ RunStart(r)
  /\ batch' = [batch EXCEPT ![r] = ExpiredWaiting]
  /\ pc' = [pc EXCEPT ![r] = IF ExpiredWaiting = {} THEN RunEnd(r, "ok")
                             ELSE "expiring"]
  /\ UNCHANGED <<seenGrade, seenPayment, seenPoint,
                 stockVars, orderVars, userVars, payVars>>

\* The transaction over the whole batch.  Every status is overwritten with
\* Cancelled; an order deleted in the meantime makes the update throw.
ExpireCommit(r) ==
  /\ pc[r] = "expiring"
  /\ \A o \in batch[r] : order[o] \in Existing
  /\ \E S \in [listed -> SUBSET batch[r]] :
       /\ \A i \in listed : Releases(i, batch[r], S[i])
       /\ reserved' = [i \in Items |->
                         IF i \in listed THEN reserved[i] - Held(i, S[i])
                                         ELSE reserved[i]]
  /\ order' = [o \in Orders |->
                 IF o \in batch[r] THEN "Cancelled" ELSE order[o]]
  /\ batch' = [batch EXCEPT ![r] = {}]
  /\ pc' = [pc EXCEPT ![r] = RunEnd(r, "ok")]
  /\ UNCHANGED <<quantity, listed, soldOut, expired, left, reviewed, userVars, payVars,
                 seenGrade, seenPayment, seenPoint>>

ExpireFails(r) ==
  /\ pc[r] = "expiring"
  /\ batch' = [batch EXCEPT ![r] = {}]
  /\ pc' = [pc EXCEPT ![r] = RunEnd(r, "error")]
  /\ UNCHANGED <<seenGrade, seenPayment, seenPoint,
                 stockVars, orderVars, userVars, payVars>>

-----------------------------------------------------------------------------
(* ProductRepository.update: every stock row of the product is deleted and *)
(* the rows of the request are created, their reserved_quantity at its     *)
(* default 0.                                                              *)

FreshReserved(rows) == [i \in Items |-> IF i \in rows THEN 0 ELSE reserved[i]]

SellerReplacesStocks(rows, kept, n) ==
  /\ kept \subseteq rows
  /\ listed' = (listed \ rows) \cup kept
  /\ quantity' = [i \in Items |-> IF i \in kept THEN n
                                  ELSE IF i \in rows THEN 0 ELSE quantity[i]]
  /\ reserved' = FreshReserved(rows)
  /\ UNCHANGED <<soldOut, orderVars, userVars, payVars, procVars>>

-----------------------------------------------------------------------------
(* The account and the reviews of a buyer, as far as they bear on orders.  *)

\* ReviewRepository.create: any item of an existing order may be reviewed once
\* (ReviewStats has the details), paid or not.
Review(o) ==
  /\ o \in Reviewable \ reviewed
  /\ order[o] \in Existing
  /\ reviewed' = reviewed \cup {o}
  /\ UNCHANGED <<order, expired, left, stockVars, userVars, payVars, procVars>>

\* UserService.deleteMe.  The delete cascades to the orders and to the reviews of
\* the buyer, and to the reviews before the items they refer to (reviews.userId
\* is one reference away from users, reviews.orderItemId three); it fails when
\* a payment refers to an order.  Nothing gives the units of a waiting order back.
UnpaidOnly(o) == CompletedPaymentsOf(o) = {}   \* faulty: payments in flight go too
Deletable(o) == ReferencedBy(o) = {}

OrdersOf(u) == {o \in Orders : Buyer[o] = u /\ order[o] \in Existing}

DeleteMe(u) ==
  /\ u \in Leavers \ left
  /\ \A o \in OrdersOf(u) : Deletable(o)
  /\ left' = left \cup {u}
  /\ order' = [o \in Orders |->
                 IF o \notin OrdersOf(u) THEN order[o]
                 ELSE IF order[o] = "WaitingPayment" THEN "abandoned"
                 ELSE "deleted"]
  /\ reviewed' = reviewed \ OrdersOf(u)
  /\ UNCHANGED <<expired, stockVars, userVars, payVars, procVars>>

-----------------------------------------------------------------------------
HookStep(h) ==
  \/ HookReceive(h) \/ HookMarkFailed(h) \/ HookClaim(h) \/ HookLosesClaim(h)
  \/ HookLoad(h) \/ HookCheck(h) \/ HookConfirm(h) \/ HookFails(h)

CancelStep(c) ==
  \/ CancelLoad(c) \/ CancelCheck(c) \/ CancelReadUser(c) \/ CancelCommit(c)
  \/ CancelFails(c)

Next ==
  \/ \E o \in Orders :
       CreateCheck(o) \/ CreateCommit(o) \/ CreateFails(o) \/ TimePasses(o)
         \/ Review(o)
  \/ \E u \in Users : DeleteMe(u)
  \/ \E p \in Payments : CreatePaymentCheck(p) \/ CreatePaymentInsert(p)
  \/ \E p \in Payments, answer \in GatewayStates : GatewayDecides(p, answer)
  \/ \E h \in Hooks : HookStep(h)
  \/ \E c \in Cancels : CancelStep(c)
  \/ \E a \in Graders : GradeRead(a) \/ GradeWrite(a)
  \/ \E r \in Runners : ExpireFind(r) \/ ExpireCommit(r) \/ ExpireFails(r)
  \/ \E rows \in Products : \E kept \in SUBSET rows : \E n \in SellerStocks :
       SellerReplacesStocks(rows, kept, n)

Spec == Init /\ [][Next]_vars

\* The interval timer fires again and again, each of its transactions ends
\* one way or the other, and one that can succeed does not fail for ever.
Fairness ==
  \A j \in Jobs :
    /\ WF_vars(ExpireFind(j))
    /\ WF_vars(ExpireCommit(j) \/ ExpireFails(j))
    /\ SF_vars(ExpireCommit(j))
FairSpec == Spec /\ Fairness

-----------------------------------------------------------------------------
(* Properties.                                                             *)

\* Every column and every process variable stays in its domain; point, a
\* Nat, never goes negative.
TypeOK ==
  /\ quantity \in [Items -> Int]
  /\ reserved \in [Items -> Int]
  /\ listed \subseteq Items
  /\ soldOut \in [Items -> Nat]
  /\ order \in [Orders -> OrderStates]
  /\ expired \subseteq Orders
  /\ left \subseteq Users
  /\ reviewed \subseteq Orders
  /\ payment \in [Payments -> PaymentStates]
  /\ gateway \in [Payments -> GatewayStates]
  /\ point \in [Users -> Nat]
  /\ grade \in [Users -> Grades]
  /\ use \in [Orders -> Nat]
  /\ earn \in [Orders -> Seq(Nat)]
  /\ refund \in [Orders -> Nat]
  /\ earnCancel \in [Orders -> Nat]
  /\ pc \in [Actors -> PCs]
  /\ batch \in [Runners -> SUBSET Orders]
  /\ seenGrade \in [Graders -> Grades \cup {NoGrade}]
  /\ seenPayment \in [Cancels -> Payments \cup {NoPayment}]
  /\ seenPoint \in [Cancels -> Nat]

\* No interleaving of orders, confirmations, cancellations, expiry runs and
\* product edits sells what is not there: a stock row never has more units
\* reserved than it has, and neither counter goes negative
\* (order.repository.ts reserveStock, decreaseStock, restoreReservedStock).
StockBounds == \A i \in Items : 0 <= reserved[i] /\ reserved[i] <= quantity[i]

\* Two deliveries of the webhook for one payment never both get past the
\* conditional update pending -> paid and into confirmPayment
\* (payment.service.ts STEP 6).
OneClaimPerPayment ==
  \A g, h \in Hooks :
    /\ HookFor[g] = HookFor[h]
    /\ pc[g] \in Claimed
    /\ pc[h] \in Claimed
    => g = h

\* No payment row and no review outlives its order or refers to one that was
\* never created: the stale status read of createPayment and the physical
\* deletes of deleteOrder and of an account never leave an orphan.
NoOrphans ==
  /\ \A p \in Payments : payment[p] \in LivePayment => order[PayFor[p]] \in Existing
  /\ \A o \in reviewed : order[o] \in Existing

\* Nobody leaves in the middle of a payment: when the account is gone so are its
\* orders, and none was being paid, by then or later, whichever of an order, a
\* payment row and the deletion of the account came first
\* (user.service.ts:174, the foreign keys orders.buyerId and payments.orderId).
NobodyLeavesMidPayment ==
  \A o \in Orders :
    Buyer[o] \in left => order[o] \notin Existing /\ ReferencedBy(o) = {}

\* An order once shown as paid is shown as paid for as long as it exists,
\* although a second payment may still be created for it and an expiry run may
\* overwrite its status (order.utils.ts buildPaymentStatus).
PaidStaysShown ==
  [][\A o \in Orders :
       OrderResponse(o).paymentStatus = "completed" /\ order'[o] \in Existing
       => OrderResponse(o)'.paymentStatus = "completed"]_vars

\* The orders, payments and cancellations, seen from the stocks table alone,
\* are the four operations of StockLedger: a payment's units leave the shelf
\* once and come back once.  Product edits are outside this promise.
Ledger == INSTANCE StockLedger
            WITH settled <- {p \in Payments : payment[p] = "completed"}
LedgerSpec == Ledger!Spec

\* The sum of the rows of one order, as the buyer's balance felt them.
Total(rows) == FoldFunction(+, 0, rows)
NetPoints(o) ==
  Total(earn[o]) + refund[o] - use[o] - earnCancel[o]

\* The balance of a buyer is explained to the last point by the rows of
\* point_history, over every interleaving of confirmations and cancellations.
PointLedger ==
  \A u \in Users :
    point[u] = InitPoint[u]
      + SumFunctionOnSet([o \in Orders |-> NetPoints(o)],
                         {o \in Orders : Buyer[o] = u})

\* A deleted order leaves the buyer's points as if it had never been placed:
\* what was spent is refunded, what was earned is taken back, even when the
\* grade changed in between; and an account that can be deleted has nothing at
\* stake in the orders that go with it.
CancelIsNeutral ==
  \A o \in Orders : order[o] \in {"deleted", "abandoned"} => NetPoints(o) = 0

\* A stock row that confirmations brought to zero has been announced as sold
\* out by the one that took the last unit, and not more often than it can have
\* been emptied: once, and once more for every order that wanted it and was
\* deleted, whose units may have come back (confirmPayment 1-5-1).
DeletedWith(i) == {o \in Orders : order[o] = "deleted" /\ Lines[o][i] > 0}
SoldOutIsAnnounced ==
  \A i \in Items :
    /\ quantity[i] = 0 /\ InitStock[i] > 0 => soldOut[i] > 0
    /\ soldOut[i] <= Cardinality(DeletedWith(i)) + IF quantity[i] > 0 THEN 0 ELSE 1

\* reserved_quantity counts the units of the orders that wait for payment,
\* and no others (the comment on Stock.reservedQuantity, schema.prisma:195).
WaitingUnits(i) == Held(i, {o \in Orders : order[o] = "WaitingPayment"})
ReservedIsWaiting == \A i \in Items : reserved[i] = WaitingUnits(i)

\* Until the first order outlives its ten minutes, and while no order has two
\* payment rows, each of which would take the units of the order when it is
\* confirmed, the counter is exact but for the units of buyers who left while an
\* order waited, which nobody gives back (user.service.ts:174): confirmations,
\* cancellations and failures never disturb it, and only the expiry can release
\* units twice.
AbandonedUnits(i) == Held(i, {o \in Orders : order[o] = "abandoned"})
OnePaymentEach ==
  \A p, q \in Payments :
    /\ payment[p] \in LivePayment
    /\ payment[q] \in LivePayment
    /\ PayFor[p] = PayFor[q]
    => p = q
DriftNeedsExpiry ==
  expired = {} /\ OnePaymentEach =>
    \A i \in Items : reserved[i] = WaitingUnits(i) + AbandonedUnits(i)

\* An order whose ten minutes are over stops waiting, one way or another:
\* the timer runs until it is expired, unless it is confirmed first.
ExpiredIsReleased ==
  \A o \in Orders : (order[o] = "WaitingPayment" /\ o \in expired)
                      ~> order[o] # "WaitingPayment"
=============================================================================
