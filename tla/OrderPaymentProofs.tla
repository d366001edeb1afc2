-------------------------- MODULE OrderPaymentProofs --------------------------
(***************************************************************************)
(* Invariants of OrderPayment, and that it implements StockLedger, for any *)
(* number of buyers, stock rows, orders, payments, webhooks, cancel        *)
(* requests and timers.  Units and points are sums: see SumTheorems.       *)
(***************************************************************************)
EXTENDS OrderPayment, SumTheorems, TLAPS

\* The points earned are a natural number.
LEMMA EarnedIsNat ==
  ASSUME NEW o \in Orders, NEW g \in Grades
  PROVE  EarnedPoint(o, g) \in Nat
<1>1. Subtotal[o] \in Nat /\ UsePoint[o] \in Nat
  BY RequestsAssumption
<1>2. RatePercent[g] \in Nat
  BY TablesAssumption
<1> QED
  BY <1>1, <1>2, SMTT(30) DEF EarnedPoint, PriceOf

\* The latest EARN row is a natural number, and so is its absence.
LEMMA LastEarnedIsNat ==
  ASSUME TypeOK, NEW o \in Orders
  PROVE  LastEarned(o) \in Nat
<1>1. earn[o] \in Seq(Nat)
  BY DEF TypeOK
<1> QED
  BY <1>1 DEF LastEarned

-----------------------------------------------------------------------------
(* Type correctness.  TypeOK is not inductive: what HookConfirm earns and   *)
(* what GradeWrite stores is the grade the process has read, so it must    *)
(* have read one by then.                                                  *)

GradeTaken ==
  \A a \in Graders :
    pc[a] \in {"loaded", "confirming", "regrade"} => seenGrade[a] \in Grades

TypeInv == TypeOK /\ GradeTaken

\* Steps of a request that creates an order or a payment row, the clock's,
\* the gateway's and the seller's.
LEMMA TypeRequests ==
  ASSUME TypeInv,
         \/ \E o \in Orders :
              CreateCheck(o) \/ CreateCommit(o) \/ CreateFails(o) \/ TimePasses(o)
                \/ Review(o)
         \/ \E u \in Users : DeleteMe(u)
         \/ \E p \in Payments : CreatePaymentCheck(p) \/ CreatePaymentInsert(p)
         \/ \E p \in Payments, answer \in GatewayStates : GatewayDecides(p, answer)
         \/ \E rows \in Products : \E kept \in SUBSET rows :
              \E n \in SellerStocks : SellerReplacesStocks(rows, kept, n)
  PROVE  TypeInv'
<1> USE DEF TypeInv, TypeOK, GradeTaken, stockVars, orderVars, userVars, historyVars, payVars, procVars
<1>1. ASSUME NEW o \in Orders, CreateCheck(o)
      PROVE  TypeInv'
  BY <1>1 DEF CreateCheck, OrderStates
<1>2. ASSUME NEW o \in Orders, CreateCommit(o)
      PROVE  TypeInv'
  <2>1. Lines[o] \in [Items -> Nat]
    BY RequestsAssumption
  <2>2. reserved' \in [Items -> Int]
    BY <1>2, <2>1 DEF CreateCommit
  <2> QED
    BY <1>2, <2>2 DEF CreateCommit, OrderStates, Existing
<1>3. ASSUME NEW o \in Orders, CreateFails(o)
      PROVE  TypeInv'
  BY <1>3 DEF CreateFails, OrderStates
<1>4. ASSUME NEW o \in Orders, TimePasses(o)
      PROVE  TypeInv'
  BY <1>4 DEF TimePasses
<1>5. ASSUME NEW p \in Payments, CreatePaymentCheck(p)
      PROVE  TypeInv'
  BY <1>5 DEF CreatePaymentCheck, PaymentStates
<1>6. ASSUME NEW p \in Payments, CreatePaymentInsert(p)
      PROVE  TypeInv'
  BY <1>6 DEF CreatePaymentInsert, PaymentStates, LivePayment
<1>7. ASSUME NEW p \in Payments, NEW answer \in GatewayStates,
             GatewayDecides(p, answer)
      PROVE  TypeInv'
  BY <1>7 DEF GatewayDecides
<1>8. ASSUME NEW rows \in Products, NEW kept \in SUBSET rows, NEW n \in SellerStocks,
             SellerReplacesStocks(rows, kept, n)
      PROVE  TypeInv'
  <2>1. rows \subseteq Items /\ n \in Int
    BY TablesAssumption
  <2>2. listed' \subseteq Items
    BY <1>8, <2>1 DEF SellerReplacesStocks
  <2>3. quantity' \in [Items -> Int] /\ reserved' \in [Items -> Int]
    BY <1>8, <2>1 DEF SellerReplacesStocks, FreshReserved
  <2> QED
    BY <1>8, <2>2, <2>3 DEF SellerReplacesStocks
<1>9. ASSUME NEW o \in Orders, Review(o)
      PROVE  TypeInv'
  BY <1>9 DEF Review
<1>10. ASSUME NEW u \in Users, DeleteMe(u)
       PROVE  TypeInv'
  BY <1>10 DEF DeleteMe, OrderStates
<1> QED
  BY <1>1, <1>2, <1>3, <1>4, <1>5, <1>6, <1>7, <1>8, <1>9, <1>10

\* Steps of a webhook.
LEMMA TypeHooks ==
  ASSUME TypeInv, NEW h \in Hooks, HookStep(h)
  PROVE  TypeInv'
<1> USE DEF TypeInv, TypeOK, GradeTaken, stockVars, orderVars, userVars, historyVars, payVars, Goto
<1> DEFINE p == HookFor[h]
           o == PayFor[p]
           u == Buyer[o]
<1>0. /\ p \in Payments /\ o \in Orders /\ u \in Users
      /\ h \in Actors /\ h \in Graders
  BY ProcessAssumption, RequestsAssumption DEF Actors, Graders
<1>1. CASE HookReceive(h)
  <2>1. PICK s \in {"ok", "sawPaid", "sawFailed"} : pc' = [pc EXCEPT ![h] = s]
    BY <1>1 DEF HookReceive
  <2>2. pc' \in [Actors -> PCs] /\ GradeTaken'
    BY <1>0, <1>1, <2>1 DEF HookReceive, PCs
  <2> QED
    BY <1>1, <2>2 DEF HookReceive
<1>2. CASE HookMarkFailed(h)
  BY <1>0, <1>2 DEF HookMarkFailed, PCs, PaymentStates, LivePayment
<1>3. CASE HookClaim(h)
  BY <1>0, <1>3 DEF HookClaim, PCs, Claimed, PaymentStates, LivePayment
<1>4. CASE HookLosesClaim(h)
  BY <1>0, <1>4 DEF HookLosesClaim, PCs
<1>5. CASE HookLoad(h)
  BY <1>0, <1>5 DEF HookLoad, UserInfo, OrderOf, PCs, Claimed
<1>6. CASE HookCheck(h)
  <2>1. \/ pc' = [pc EXCEPT ![h] = "confirming"] /\ seenGrade' = seenGrade
        \/ /\ pc' = [pc EXCEPT ![h] = "ok"]
           /\ seenGrade' = [seenGrade EXCEPT ![h] = NoGrade]
    BY <1>6 DEF HookCheck
  <2>2. pc' \in [Actors -> PCs] /\ seenGrade' \in [Graders -> Grades \cup {NoGrade}]
    BY <1>0, <2>1 DEF PCs, Claimed
  <2>3. pc[h] = "loaded"
    BY <1>6 DEF HookCheck
  <2>4. GradeTaken'
    <3> SUFFICES ASSUME NEW b \in Graders,
                        pc'[b] \in {"loaded", "confirming", "regrade"}
                 PROVE  seenGrade'[b] \in Grades
      OBVIOUS
    <3>1. b \in Actors
      BY DEF Actors, Graders
    <3>2. CASE b = h
      BY <1>0, <2>1, <2>3, <3>1, <3>2
    <3>3. CASE b # h
      BY <1>0, <2>1, <3>1, <3>3
    <3> QED
      BY <3>2, <3>3
  <2> QED
    BY <1>6, <2>2, <2>4 DEF HookCheck
<1>7. CASE HookConfirm(h)
  <2> DEFINE earned == EarnedPoint(o, seenGrade[h])
  <2>1. Lines[o] \in [Items -> Nat] /\ UsePoint[o] \in Nat
    BY <1>0, RequestsAssumption
  <2>2. earned \in Nat
    BY <1>0, <1>7, EarnedIsNat DEF HookConfirm
  <2>3. AfterSpend(o) \in Nat
    BY <1>0, <1>7, <2>1 DEF HookConfirm, AfterSpend, CanSpend
  <2>4. point' \in [Users -> Nat]
    <3>1. point' = [point EXCEPT ![u] = AfterSpend(o) + earned]
      BY <1>7 DEF HookConfirm
    <3>2. AfterSpend(o) + earned \in Nat
      BY <2>2, <2>3
    <3> QED
      BY <1>0, <3>1, <3>2
  <2>5. /\ use' \in [Orders -> Nat]
        /\ earn' \in [Orders -> Seq(Nat)]
    <3>1. EarnRows(earn[o], earned) \in Seq(Nat)
      BY <1>0, <2>2 DEF EarnRows
    <3>2. earn' = [earn EXCEPT ![o] = EarnRows(earn[o], earned)]
      BY <1>7 DEF HookConfirm
    <3> QED
      BY <1>0, <1>7, <2>1, <3>1, <3>2 DEF HookConfirm
  <2>6. quantity' \in [Items -> Int] /\ reserved' \in [Items -> Int]
    BY <1>7, <2>1 DEF HookConfirm, LessReserved
  <2>7. soldOut' \in [Items -> Nat]
    BY <1>7 DEF HookConfirm
  <2> HIDE DEF o, u, p
  <2>8. /\ order' \in [Orders -> OrderStates]
        /\ payment' \in [Payments -> PaymentStates]
        /\ pc' \in [Actors -> PCs]
        /\ seenGrade' \in [Graders -> Grades \cup {NoGrade}]
        /\ GradeTaken'
    <3>1. order' = [order EXCEPT ![o] = "CompletedPayment"]
          /\ payment' = [payment EXCEPT ![p] = "completed"]
          /\ pc' = [pc EXCEPT ![h] = "settled"]
          /\ seenGrade' = [seenGrade EXCEPT ![h] = NoGrade]
      BY <1>7 DEF HookConfirm, o, p
    <3>2. order' \in [Orders -> OrderStates]
      BY <1>0, <3>1 DEF OrderStates, Existing
    <3>3. payment' \in [Payments -> PaymentStates]
      BY <1>0, <3>1 DEF PaymentStates, LivePayment
    <3>4. pc' \in [Actors -> PCs]
      BY <1>0, <3>1 DEF PCs
    <3>5. GradeTaken'
      BY <1>0, <3>1
    <3> QED
      BY <1>0, <3>1, <3>2, <3>3, <3>4, <3>5
  <2> QED
    BY <1>7, <2>4, <2>5, <2>6, <2>7, <2>8 DEF HookConfirm
<1>8. CASE HookFails(h)
  BY <1>0, <1>8 DEF HookFails, PCs
<1> QED
  BY <1>1, <1>2, <1>3, <1>4, <1>5, <1>6, <1>7, <1>8 DEF HookStep

\* The two steps of updateGradeByPurchase.
LEMMA TypeGraders ==
  ASSUME TypeInv, NEW a \in Graders, GradeRead(a) \/ GradeWrite(a)
  PROVE  TypeInv'
<1> USE DEF TypeInv, TypeOK, GradeTaken, stockVars, orderVars, userVars, historyVars,
            payVars, Goto
<1>0. a \in Actors
  BY DEF Actors, Graders
<1>1. CASE GradeRead(a)
  <2>1. pc' \in [Actors -> PCs]
    BY <1>0, <1>1 DEF GradeRead, PCs
  <2>2. CASE pc' = [pc EXCEPT ![a] = "ok"] /\ seenGrade' = seenGrade
    BY <1>0, <1>1, <2>1, <2>2 DEF GradeRead
  <2>3. CASE \E g \in Grades : /\ pc' = [pc EXCEPT ![a] = "regrade"]
                              /\ seenGrade' = [seenGrade EXCEPT ![a] = g]
    BY <1>0, <1>1, <2>1, <2>3 DEF GradeRead
  <2> QED
    BY <1>1, <2>2, <2>3 DEF GradeRead
<1>2. CASE GradeWrite(a)
  <2>1. seenGrade[a] \in Grades
    BY <1>2 DEF GradeWrite
  <2>2. grade' \in [Users -> Grades]
    BY <1>2, <2>1 DEF GradeWrite
  <2>3. pc' \in [Actors -> PCs]
    BY <1>0, <1>2 DEF GradeWrite, PCs
  <2>4. GradeTaken' /\ seenGrade' \in [Graders -> Grades \cup {NoGrade}]
    BY <1>0, <1>2, <2>1 DEF GradeWrite
  <2> QED
    BY <1>2, <2>2, <2>3, <2>4 DEF GradeWrite
<1> QED
  BY <1>1, <1>2

\* Steps of a cancel request.
LEMMA TypeCancels ==
  ASSUME TypeInv, NEW c \in Cancels, CancelStep(c)
  PROVE  TypeInv'
<1> USE DEF TypeInv, TypeOK, GradeTaken, stockVars, orderVars, userVars, historyVars,
            payVars, Goto
<1> DEFINE o == CancelFor[c]
           u == Buyer[o]
<1>0. /\ o \in Orders /\ u \in Users
      /\ c \in Actors /\ c \in Graders
  BY ProcessAssumption, RequestsAssumption DEF Actors, Graders
<1>1. CASE CancelLoad(c)
  <2>1. seenPayment' \in [Cancels -> Payments \cup {NoPayment}]
    BY <1>1 DEF CancelLoad, CompletedPaymentsOf
  <2> QED
    BY <1>0, <1>1, <2>1 DEF CancelLoad, PCs
<1>2. CASE CancelCheck(c)
  <2>1. PICK s \in {"expire", "undo"} : pc' = [pc EXCEPT ![c] = s]
    BY <1>2 DEF CancelCheck
  <2>2. pc' \in [Actors -> PCs] /\ GradeTaken'
    BY <1>0, <1>2, <2>1 DEF CancelCheck, PCs
  <2> QED
    BY <1>2, <2>2 DEF CancelCheck
<1>3. CASE CancelReadUser(c)
  BY <1>0, <1>3 DEF CancelReadUser, UserInfo, PCs
<1>4. CASE CancelCommit(c)
  <2> DEFINE taken == LastEarned(o)
             refunded == point[u] + UsePoint[o]
  <2>1. Lines[o] \in [Items -> Nat] /\ UsePoint[o] \in Nat
    BY <1>0, RequestsAssumption
  <2>2. taken \in Nat
    BY <1>0, LastEarnedIsNat
  <2>3. refunded \in Nat /\ refunded - taken \in Nat
    <3>1. CanSpend(refunded, taken)
      BY <1>4 DEF CancelCommit
    <3>2. refunded \in Nat
      BY <1>0, <2>1
    <3> HIDE DEF taken, refunded
    <3> QED
      BY <2>2, <3>1, <3>2 DEF CanSpend
  <2>4. point' \in [Users -> Nat]
    <3>1. point' = [point EXCEPT ![u] = refunded - taken]
      BY <1>4 DEF CancelCommit
    <3> QED
      BY <1>0, <2>3, <3>1
  <2>5. refund' \in [Orders -> Nat] /\ earnCancel' \in [Orders -> Nat]
    <3>1. earnCancel' = [earnCancel EXCEPT ![o] = earnCancel[o] + taken]
      BY <1>4 DEF CancelCommit
    <3>2. earnCancel[o] + taken \in Nat
      BY <1>0, <2>2
    <3>3. refund' \in [Orders -> Nat]
      BY <1>0, <1>4, <2>1 DEF CancelCommit
    <3> QED
      BY <1>0, <3>1, <3>2, <3>3
  <2>6. quantity' \in [Items -> Int]
    BY <1>4, <2>1 DEF CancelCommit, Restocked
  <2> HIDE DEF o, u
  <2>7. /\ order' \in [Orders -> OrderStates]
        /\ payment' \in [Payments -> PaymentStates]
        /\ pc' \in [Actors -> PCs]
        /\ seenPayment' \in [Cancels -> Payments \cup {NoPayment}]
        /\ seenPoint' \in [Cancels -> Nat]
        /\ GradeTaken'
    <3>1. order' = [order EXCEPT ![o] = "deleted"]
          /\ payment' = [payment EXCEPT ![seenPayment[c]] = "deleted"]
          /\ pc' = [pc EXCEPT ![c] = "settled"]
          /\ seenPayment' = [seenPayment EXCEPT ![c] = NoPayment]
          /\ seenPoint' = [seenPoint EXCEPT ![c] = 0]
          /\ seenGrade' = seenGrade
      BY <1>4 DEF CancelCommit, o
    <3>2. order' \in [Orders -> OrderStates]
      BY <1>0, <3>1 DEF OrderStates
    <3>3. payment' \in [Payments -> PaymentStates]
      BY <1>0, <3>1 DEF PaymentStates
    <3>4. pc' \in [Actors -> PCs] /\ GradeTaken'
      BY <1>0, <3>1 DEF PCs
    <3> QED
      BY <1>0, <3>1, <3>2, <3>3, <3>4
  <2> QED
    BY <1>4, <2>4, <2>5, <2>6, <2>7 DEF CancelCommit
<1>5. CASE CancelFails(c)
  BY <1>0, <1>5 DEF CancelFails, PCs
<1> QED
  BY <1>1, <1>2, <1>3, <1>4, <1>5 DEF CancelStep

\* Steps of an expiry run.
LEMMA TypeRunners ==
  ASSUME TypeInv, NEW r \in Runners,
         ExpireFind(r) \/ ExpireCommit(r) \/ ExpireFails(r)
  PROVE  TypeInv'
<1> USE DEF TypeInv, TypeOK, GradeTaken, stockVars, orderVars, userVars, historyVars,
            payVars
<1>0. r \in Actors
  BY DEF Actors, Runners
<1>1. CASE ExpireFind(r)
  <2>1. PICK s \in {"idle", "ok", "expiring"} : pc' = [pc EXCEPT ![r] = s]
    BY <1>1 DEF ExpireFind, RunEnd
  <2>2. pc' \in [Actors -> PCs] /\ GradeTaken'
    BY <1>0, <1>1, <2>1 DEF ExpireFind, PCs
  <2>3. batch' \in [Runners -> SUBSET Orders]
    BY <1>1 DEF ExpireFind, ExpiredWaiting
  <2> QED
    BY <1>1, <2>2, <2>3 DEF ExpireFind
<1>2. CASE ExpireCommit(r)
  <2>1. reserved' \in [Items -> Int]
    BY <1>2 DEF ExpireCommit, Releases
  <2>2. order' \in [Orders -> OrderStates]
    BY <1>2 DEF ExpireCommit, OrderStates, Existing
  <2>3. PICK s \in {"idle", "ok"} : pc' = [pc EXCEPT ![r] = s]
    BY <1>2 DEF ExpireCommit, RunEnd
  <2>4. pc' \in [Actors -> PCs] /\ GradeTaken'
    BY <1>0, <1>2, <2>3 DEF ExpireCommit, PCs
  <2> QED
    BY <1>2, <2>1, <2>2, <2>4 DEF ExpireCommit
<1>3. CASE ExpireFails(r)
  BY <1>0, <1>3 DEF ExpireFails, RunEnd, PCs
<1> QED
  BY <1>1, <1>2, <1>3

\* TypeInv is inductive.
LEMMA TypeInvariant == Spec => []TypeInv
<1>1. Init => TypeInv
  <2> SUFFICES ASSUME Init
               PROVE  TypeInv
    OBVIOUS
  <2> USE DEF Init
  <2>1. /\ quantity \in [Items -> Int] /\ reserved \in [Items -> Int]
        /\ listed \subseteq Items /\ soldOut \in [Items -> Nat]
    BY TablesAssumption
  <2>2. /\ order \in [Orders -> OrderStates] /\ expired \subseteq Orders
        /\ left \subseteq Users /\ reviewed \subseteq Orders
        /\ payment \in [Payments -> PaymentStates]
        /\ gateway \in [Payments -> GatewayStates]
    BY DEF OrderStates, PaymentStates, GatewayStates
  <2>3. /\ point \in [Users -> Nat] /\ grade \in [Users -> Grades]
        /\ use \in [Orders -> Nat] /\ earn \in [Orders -> Seq(Nat)]
        /\ refund \in [Orders -> Nat] /\ earnCancel \in [Orders -> Nat]
    BY TablesAssumption
  <2>4. /\ pc \in [Actors -> PCs] /\ batch \in [Runners -> SUBSET Orders]
        /\ seenGrade \in [Graders -> Grades \cup {NoGrade}]
        /\ seenPayment \in [Cancels -> Payments \cup {NoPayment}]
        /\ seenPoint \in [Cancels -> Nat]
    BY DEF PCs
  <2>5. GradeTaken
    BY DEF GradeTaken, Actors, Graders
  <2> QED
    BY <2>1, <2>2, <2>3, <2>4, <2>5 DEF TypeInv, TypeOK
<1>2. TypeInv /\ [Next]_vars => TypeInv'
  <2> SUFFICES ASSUME TypeInv, [Next]_vars
               PROVE  TypeInv'
    OBVIOUS
  <2>1. CASE Next
    BY <2>1, TypeRequests, TypeHooks, TypeGraders, TypeCancels, TypeRunners DEF Next
  <2>2. CASE UNCHANGED vars
    BY <2>2 DEF TypeInv, TypeOK, GradeTaken, vars, stockVars, orderVars, userVars,
       historyVars, payVars, procVars
  <2> QED
    BY <2>1, <2>2
<1> QED
  BY <1>1, <1>2, PTL DEF Spec

\* Every column keeps its domain and no balance goes negative, whatever the
\* constants: decreasePoint's guard suffices against every interleaving.
THEOREM TypeCorrect == Spec => []TypeOK
<1>1. TypeInv => TypeOK
  BY DEF TypeInv
<1> QED
  BY <1>1, TypeInvariant, PTL

-----------------------------------------------------------------------------
(* Most steps touch neither stock, orders, accounts nor points.            *)

settledNow == {p \in Payments : payment[p] = "completed"}

\* The steps that write stock, balances, the history, or make a payment
\* completed or undo it.
LEMMA WhatMoves ==
  ASSUME TypeInv, [Next]_vars
  PROVE  \/ \E o \in Orders : CreateCheck(o) \/ CreateCommit(o) \/ CreateFails(o)
         \/ \E h \in Hooks : HookConfirm(h)
         \/ \E c \in Cancels : CancelCommit(c)
         \/ \E r \in Runners : ExpireCommit(r)
         \/ \E u \in Users : DeleteMe(u)
         \/ \E rows \in Products : \E kept \in SUBSET rows : \E n \in SellerStocks :
              SellerReplacesStocks(rows, kept, n)
         \/ UNCHANGED <<stockVars, order, left, point, historyVars, settledNow>>
<1> USE DEF TypeInv, TypeOK, stockVars, orderVars, userVars, payVars, settledNow
<1>1. \A o \in Orders : TimePasses(o) \/ Review(o)
        => UNCHANGED <<stockVars, order, left, point, historyVars, settledNow>>
  BY DEF TimePasses, Review
<1>2. ASSUME NEW p \in Payments,
             \/ CreatePaymentCheck(p) \/ CreatePaymentInsert(p)
             \/ \E answer \in GatewayStates : GatewayDecides(p, answer)
      PROVE  UNCHANGED <<stockVars, order, left, point, historyVars, settledNow>>
  BY <1>2 DEF CreatePaymentCheck, CreatePaymentInsert, GatewayDecides
<1>3. ASSUME NEW h \in Hooks, HookStep(h)
      PROVE  \/ HookConfirm(h)
             \/ UNCHANGED <<stockVars, order, left, point, historyVars, settledNow>>
  <2>1. CASE HookMarkFailed(h)
    BY <2>1 DEF HookMarkFailed
  <2>2. CASE HookClaim(h)
    BY <2>2 DEF HookClaim, CanClaim
  <2> QED
    BY <1>3, <2>1, <2>2 DEF HookStep, HookReceive, HookLosesClaim, HookLoad,
       HookCheck, HookFails
<1>4. ASSUME NEW c \in Cancels, CancelStep(c)
      PROVE  \/ CancelCommit(c)
             \/ UNCHANGED <<stockVars, order, left, point, historyVars, settledNow>>
  BY <1>4 DEF CancelStep, CancelLoad, CancelCheck, CancelReadUser, CancelFails
<1>5. ASSUME NEW a \in Graders, GradeRead(a) \/ GradeWrite(a)
      PROVE  UNCHANGED <<stockVars, order, left, point, historyVars, settledNow>>
  BY <1>5 DEF GradeRead, GradeWrite
<1>6. ASSUME NEW r \in Runners, ExpireFind(r) \/ ExpireFails(r)
      PROVE  UNCHANGED <<stockVars, order, left, point, historyVars, settledNow>>
  BY <1>6 DEF ExpireFind, ExpireFails
<1>7. CASE UNCHANGED vars
  BY <1>7 DEF vars
<1>8. CASE Next
  BY <1>1, <1>2, <1>3, <1>4, <1>5, <1>6, <1>8 DEF Next
<1> QED
  BY <1>7, <1>8

-----------------------------------------------------------------------------
(* Stock.                                                                  *)

\* A step keeps both counters of every stock row in order.
LEMMA StockStep ==
  ASSUME TypeInv, StockBounds, [Next]_vars
  PROVE  StockBounds'
<1> USE DEF TypeInv, TypeOK, StockBounds
<1>1. ASSUME NEW o \in Orders, CreateCommit(o)
      PROVE  StockBounds'
  <2>1. Lines[o] \in [Items -> Nat]
    BY RequestsAssumption
  <2>2. \A i \in Items : reserved[i] + Lines[o][i] <= quantity[i]
    <3> TAKE i \in Items
    <3>1. /\ Lines[o][i] \in Nat /\ reserved[i] \in Int /\ quantity[i] \in Int
          /\ reserved[i] <= quantity[i]
      BY <2>1
    <3>2. Lines[o][i] > 0 => quantity[i] - reserved[i] >= Lines[o][i]
      BY <1>1 DEF CreateCommit, CanReserve
    <3> QED
      BY <3>1, <3>2
  <2> QED
    BY <1>1, <2>1, <2>2 DEF CreateCommit
<1>2. ASSUME NEW h \in Hooks, HookConfirm(h)
      PROVE  StockBounds'
  <2> DEFINE o == PayFor[HookFor[h]]
  <2>1. Lines[o] \in [Items -> Nat]
    BY RequestsAssumption, ProcessAssumption
  <2>2. /\ quantity' = [i \in Items |-> quantity[i] - Lines[o][i]]
        /\ reserved' = [i \in Items |-> reserved[i] - Lines[o][i]]
    BY <1>2 DEF HookConfirm, LessReserved
  <2>3. \A i \in Items : reserved[i] >= Lines[o][i]
    BY <1>2, <2>1 DEF HookConfirm, CanDecrease
  <2> QED
    BY <2>1, <2>2, <2>3
<1>3. ASSUME NEW c \in Cancels, CancelCommit(c)
      PROVE  StockBounds'
  <2>1. Lines[CancelFor[c]] \in [Items -> Nat]
    BY RequestsAssumption, ProcessAssumption
  <2> QED
    BY <1>3, <2>1 DEF CancelCommit, Restocked
<1>4. ASSUME NEW r \in Runners, ExpireCommit(r)
      PROVE  StockBounds'
  <2>1. PICK S \in [listed -> SUBSET batch[r]] :
          /\ \A i \in listed : Releases(i, batch[r], S[i])
          /\ reserved' = [i \in Items |->
                            IF i \in listed THEN reserved[i] - Held(i, S[i])
                                            ELSE reserved[i]]
    BY <1>4 DEF ExpireCommit
  <2>2. \A i \in listed : Held(i, S[i]) \in 0 .. reserved[i]
    BY <2>1 DEF Releases
  <2>3. quantity' = quantity
    BY <1>4 DEF ExpireCommit
  <2> QED
    BY <2>1, <2>2, <2>3
<1>5. ASSUME NEW rows \in Products, NEW kept \in SUBSET rows, NEW n \in SellerStocks,
             SellerReplacesStocks(rows, kept, n)
      PROVE  StockBounds'
  <2>1. rows \subseteq Items /\ n \in Nat
    BY TablesAssumption
  <2> QED
    BY <1>5, <2>1 DEF SellerReplacesStocks, FreshReserved
<1>6. CASE UNCHANGED <<quantity, reserved>>
  BY <1>6
<1>7. ASSUME NEW o \in Orders, CreateCheck(o) \/ CreateFails(o)
      PROVE  UNCHANGED <<quantity, reserved>>
  BY <1>7 DEF CreateCheck, CreateFails, stockVars
<1>8. ASSUME NEW u \in Users, DeleteMe(u)
      PROVE  UNCHANGED <<quantity, reserved>>
  BY <1>8 DEF DeleteMe, stockVars
<1> QED
  BY <1>1, <1>2, <1>3, <1>4, <1>5, <1>6, <1>7, <1>8, WhatMoves DEF stockVars

\* No interleaving oversells a stock row, for any number of orders and
\* processes: the guards of the three raw UPDATEs suffice.
THEOREM NeverOversold == Spec => []StockBounds
<1>1. Init => StockBounds
  BY TablesAssumption DEF Init, StockBounds
<1>2. TypeInv /\ StockBounds /\ [Next]_vars => StockBounds'
  BY StockStep
<1> QED
  BY <1>1, <1>2, TypeInvariant, PTL DEF Spec

-----------------------------------------------------------------------------
(* Payments.                                                               *)

\* A webhook past its claim owns a payment that is `paid', alone; and the
\* payment a cancel request has read as completed can since only have been
\* deleted.
SeenIsSettled ==
  \A c \in Cancels :
    seenPayment[c] \in Payments => payment[seenPayment[c]] \in {"completed", "deleted"}
ClaimedIsPaid == \A h \in Hooks : pc[h] \in Claimed => payment[HookFor[h]] = "paid"

ClaimInv == ClaimedIsPaid /\ OneClaimPerPayment /\ SeenIsSettled

LEMMA ClaimStep ==
  ASSUME TypeInv, ClaimInv, [Next]_vars
  PROVE  ClaimInv'
<1> USE DEF TypeInv, TypeOK, ClaimInv, ClaimedIsPaid, OneClaimPerPayment, SeenIsSettled,
            Claimed
<1>0. /\ Hooks \subseteq Actors /\ Cancels \subseteq Actors
      /\ Hooks \cap Cancels = {} /\ Hooks \cap Jobs = {}
      /\ HookFor \in [Hooks -> Payments] /\ NoPayment \notin Payments
  BY ProcessAssumption, TablesAssumption DEF Actors
<1>1. ASSUME NEW p \in Payments, CreatePaymentCheck(p) \/ CreatePaymentInsert(p)
      PROVE  ClaimInv'
  <2>1. UNCHANGED <<pc, seenPayment>>
    BY <1>1 DEF CreatePaymentCheck, CreatePaymentInsert, procVars
  <2>2. payment[p] \in {"none", "checked"}
    BY <1>1 DEF CreatePaymentCheck, CreatePaymentInsert
  <2>3. \A q \in Payments : q # p => payment'[q] = payment[q]
    BY <1>1 DEF CreatePaymentCheck, CreatePaymentInsert
  <2> QED
    BY <1>0, <2>1, <2>2, <2>3
<1>2. ASSUME NEW h \in Hooks, HookMarkFailed(h)
      PROVE  ClaimInv'
  BY <1>0, <1>2 DEF HookMarkFailed, Goto
<1>3. ASSUME NEW h \in Hooks, HookClaim(h)
      PROVE  ClaimInv'
  BY <1>0, <1>3 DEF HookClaim, CanClaim, Goto
<1>4. ASSUME NEW h \in Hooks, HookConfirm(h)
      PROVE  ClaimInv'
  BY <1>0, <1>4 DEF HookConfirm, Goto
<1>5. ASSUME NEW c \in Cancels, CancelLoad(c)
      PROVE  ClaimInv'
  BY <1>0, <1>5 DEF CancelLoad, CompletedPaymentsOf, Goto, payVars
<1>6. ASSUME NEW c \in Cancels, CancelCommit(c)
      PROVE  ClaimInv'
  BY <1>0, <1>6 DEF CancelCommit, Goto
<1>7. ASSUME NEW h \in Hooks,
             HookReceive(h) \/ HookLosesClaim(h) \/ HookLoad(h) \/ HookCheck(h)
               \/ HookFails(h)
      PROVE  ClaimInv'
  <2>1. UNCHANGED <<payment, seenPayment>>
    BY <1>7 DEF HookReceive, HookLosesClaim, HookLoad, HookCheck, HookFails, payVars
  <2>2. PICK s \in {"ok", "sawPaid", "sawFailed", "loaded", "confirming", "error"} :
          /\ pc' = [pc EXCEPT ![h] = s]
          /\ s \in Claimed => pc[h] \in Claimed
    <3>1. CASE HookReceive(h)
      BY <3>1 DEF HookReceive, Goto
    <3>2. CASE HookLosesClaim(h) \/ HookLoad(h) \/ HookFails(h)
      BY <3>2 DEF HookLosesClaim, HookLoad, HookFails, Goto
    <3>3. CASE HookCheck(h)
      BY <3>3 DEF HookCheck, Goto
    <3> QED
      BY <1>7, <3>1, <3>2, <3>3
  <2> QED
    BY <1>0, <2>1, <2>2
<1>8. ASSUME NEW c \in Cancels, CancelCheck(c) \/ CancelReadUser(c) \/ CancelFails(c)
      PROVE  ClaimInv'
  <2>1. payment' = payment
    BY <1>8 DEF CancelCheck, CancelReadUser, CancelFails, payVars
  <2>2. \A d \in Cancels : seenPayment'[d] \in {seenPayment[d], NoPayment}
    BY <1>8 DEF CancelCheck, CancelReadUser, CancelFails
  <2>3. PICK s \in {"expire", "undo", "undoing", "error"} : pc' = [pc EXCEPT ![c] = s]
    BY <1>8 DEF CancelCheck, CancelReadUser, CancelFails, Goto
  <2> QED
    BY <1>0, <2>1, <2>2, <2>3
<1>9. ASSUME NEW a \in Graders, GradeRead(a) \/ GradeWrite(a)
      PROVE  ClaimInv'
  <2>1. UNCHANGED <<payment, seenPayment>>
    BY <1>9 DEF GradeRead, GradeWrite, payVars
  <2>2. PICK s \in {"ok", "regrade"} : pc' = [pc EXCEPT ![a] = s]
    BY <1>9 DEF GradeRead, GradeWrite, Goto
  <2> QED
    BY <1>0, <2>1, <2>2
<1>10. ASSUME NEW r \in Runners, ExpireFind(r) \/ ExpireCommit(r) \/ ExpireFails(r)
       PROVE  ClaimInv'
  <2>1. UNCHANGED <<payment, seenPayment>>
    BY <1>10 DEF ExpireFind, ExpireCommit, ExpireFails, payVars
  <2>2. PICK s \in {"idle", "ok", "error", "expiring"} : pc' = [pc EXCEPT ![r] = s]
    BY <1>10 DEF ExpireFind, ExpireCommit, ExpireFails, RunEnd
  <2> QED
    BY <1>0, <2>1, <2>2
<1>11. CASE UNCHANGED <<payment, procVars>>
  BY <1>11 DEF procVars
<1> QED
  <2>1. ASSUME NEW o \in Orders,
               CreateCheck(o) \/ CreateCommit(o) \/ CreateFails(o) \/ TimePasses(o)
                 \/ Review(o)
        PROVE  UNCHANGED <<payment, procVars>>
    BY <2>1 DEF CreateCheck, CreateCommit, CreateFails, TimePasses, Review, payVars
  <2>2. ASSUME NEW p \in Payments, NEW answer \in GatewayStates,
               GatewayDecides(p, answer)
        PROVE  UNCHANGED <<payment, procVars>>
    BY <2>2 DEF GatewayDecides
  <2>3. ASSUME NEW rows, NEW kept, NEW n, SellerReplacesStocks(rows, kept, n)
        PROVE  UNCHANGED <<payment, procVars>>
    BY <2>3 DEF SellerReplacesStocks, payVars
  <2>4. ASSUME NEW u \in Users, DeleteMe(u)
        PROVE  UNCHANGED <<payment, procVars>>
    BY <2>4 DEF DeleteMe, payVars
  <2>5. CASE UNCHANGED vars
    BY <1>11, <2>5 DEF vars, payVars
  <2>6. CASE Next
    BY <1>1, <1>2, <1>3, <1>4, <1>5, <1>6, <1>7, <1>8, <1>9, <1>10, <1>11,
       <2>1, <2>2, <2>3, <2>4, <2>6
    DEF Next, HookStep, CancelStep
  <2> QED
    BY <2>5, <2>6

\* ClaimInv is inductive, relative to TypeInv.
LEMMA ClaimInvariant == Spec => []ClaimInv
<1>1. Init => ClaimInv
  <2> SUFFICES ASSUME Init
               PROVE  ClaimInv
    OBVIOUS
  <2>1. \A h \in Hooks : pc[h] = "idle"
    BY DEF Init, Actors
  <2>2. \A c \in Cancels : seenPayment[c] \notin Payments
    BY TablesAssumption DEF Init
  <2> QED
    BY <2>1, <2>2 DEF ClaimInv, ClaimedIsPaid, OneClaimPerPayment, SeenIsSettled, Claimed
<1>2. TypeInv /\ ClaimInv /\ [Next]_vars => ClaimInv'
  BY ClaimStep
<1> QED
  BY <1>1, <1>2, TypeInvariant, PTL DEF Spec

\* However often a webhook is delivered, at most one delivery per payment is
\* past the conditional update and works on the order.
THEOREM ClaimedOnce == Spec => []OneClaimPerPayment
<1>1. ClaimInv => OneClaimPerPayment
  BY DEF ClaimInv
<1> QED
  BY <1>1, ClaimInvariant, PTL

\* A step leaves no payment row without its order.
LEMMA OrphanStep ==
  ASSUME TypeInv, NoOrphans, [Next]_vars
  PROVE  NoOrphans'
<1> USE DEF TypeInv, TypeOK, NoOrphans, Existing
<1>0. PayFor \in [Payments -> Orders] /\ HookFor \in [Hooks -> Payments]
  BY ProcessAssumption
<1>1. ASSUME NEW o \in Orders, CreateCheck(o) \/ CreateCommit(o) \/ CreateFails(o)
      PROVE  NoOrphans'
  BY <1>0, <1>1 DEF CreateCheck, CreateCommit, CreateFails, payVars
<1>2. ASSUME NEW p \in Payments, CreatePaymentCheck(p) \/ CreatePaymentInsert(p)
      PROVE  NoOrphans'
  BY <1>0, <1>2 DEF CreatePaymentCheck, CreatePaymentInsert, orderVars, LivePayment
<1>3. ASSUME NEW h \in Hooks, HookMarkFailed(h) \/ HookClaim(h)
      PROVE  NoOrphans'
  BY <1>0, <1>3 DEF HookMarkFailed, HookClaim, CanClaim, orderVars, LivePayment
<1>4. ASSUME NEW h \in Hooks, HookConfirm(h)
      PROVE  NoOrphans'
  BY <1>0, <1>4 DEF HookConfirm
<1>5. ASSUME NEW c \in Cancels, CancelCommit(c)
      PROVE  NoOrphans'
  <2> DEFINE o == CancelFor[c]
  <2>1. /\ order' = [order EXCEPT ![o] = "deleted"]
        /\ payment' = [payment EXCEPT ![seenPayment[c]] = "deleted"]
        /\ ReferencedBy(o) = {seenPayment[c]}
        /\ o \notin reviewed /\ reviewed' = reviewed
    BY <1>5 DEF CancelCommit, CanUndo, OrderRow
  <2>2. "deleted" \notin LivePayment
    BY DEF LivePayment
  <2>3. \A p \in Payments : payment'[p] \in LivePayment => order'[PayFor[p]] \in Existing
    BY <1>0, <2>1, <2>2 DEF ReferencedBy
  <2>4. \A q \in reviewed : order'[q] = order[q]
    BY <2>1
  <2> QED
    BY <2>1, <2>3, <2>4
<1>6. ASSUME NEW r \in Runners, ExpireCommit(r)
      PROVE  NoOrphans'
  BY <1>0, <1>6 DEF ExpireCommit, payVars
<1>7. ASSUME NEW u \in Users, DeleteMe(u)
      PROVE  NoOrphans'
  BY <1>0, <1>7 DEF DeleteMe, OrdersOf, Deletable, ReferencedBy, payVars
<1>8. CASE UNCHANGED <<order, payment, reviewed>>
  BY <1>8
<1>9. ASSUME NEW o \in Orders, Review(o)
      PROVE  NoOrphans'
  BY <1>9 DEF Review, payVars
<1> QED
  <2> USE DEF orderVars, payVars
  <2>1. ASSUME NEW o \in Orders, TimePasses(o)
        PROVE  UNCHANGED <<order, payment, reviewed>>
    BY <2>1 DEF TimePasses
  <2>2. ASSUME NEW p \in Payments, NEW answer \in GatewayStates,
               GatewayDecides(p, answer)
        PROVE  UNCHANGED <<order, payment, reviewed>>
    BY <2>2 DEF GatewayDecides
  <2>3. ASSUME NEW h \in Hooks, HookStep(h)
        PROVE  \/ HookMarkFailed(h) \/ HookClaim(h) \/ HookConfirm(h)
               \/ UNCHANGED <<order, payment, reviewed>>
    BY <2>3 DEF HookStep, HookReceive, HookLosesClaim, HookLoad, HookCheck, HookFails
  <2>4. ASSUME NEW c \in Cancels, CancelStep(c)
        PROVE  CancelCommit(c) \/ UNCHANGED <<order, payment, reviewed>>
    BY <2>4 DEF CancelStep, CancelLoad, CancelCheck, CancelReadUser, CancelFails
  <2>5. ASSUME NEW a \in Graders, GradeRead(a) \/ GradeWrite(a)
        PROVE  UNCHANGED <<order, payment, reviewed>>
    BY <2>5 DEF GradeRead, GradeWrite
  <2>6. ASSUME NEW r \in Runners, ExpireFind(r) \/ ExpireFails(r)
        PROVE  UNCHANGED <<order, payment, reviewed>>
    BY <2>6 DEF ExpireFind, ExpireFails
  <2>7. ASSUME NEW rows, NEW kept, NEW n, SellerReplacesStocks(rows, kept, n)
        PROVE  UNCHANGED <<order, payment, reviewed>>
    BY <2>7 DEF SellerReplacesStocks
  <2>8. CASE UNCHANGED vars
    BY <1>8, <2>8 DEF vars
  <2>9. CASE Next
    BY <1>1, <1>2, <1>3, <1>4, <1>5, <1>6, <1>7, <1>8, <1>9, <2>1, <2>2, <2>3, <2>4, <2>5, <2>6,
       <2>7, <2>9
    DEF Next
  <2> QED
    BY <2>8, <2>9

\* A payment row and a review always refer to an existing order: the stale read
\* in createPayment is caught by the foreign key, deleteOrder removes the only
\* row that still refers to the order it deletes, and a review forbids it.
THEOREM RowsHaveOrders == Spec => []NoOrphans
<1>1. Init => NoOrphans
  BY DEF Init, NoOrphans, LivePayment
<1>2. TypeInv /\ NoOrphans /\ [Next]_vars => NoOrphans'
  BY OrphanStep
<1> QED
  BY <1>1, <1>2, TypeInvariant, PTL DEF Spec

-----------------------------------------------------------------------------
(* Accounts.                                                               *)

\* An order row has its buyer: what NobodyLeavesMidPayment says of the orders.
OrderHasBuyer == \A o \in Orders : order[o] \in Existing => Buyer[o] \notin left

LEMMA BuyerStep ==
  ASSUME TypeInv, OrderHasBuyer, [Next]_vars
  PROVE  OrderHasBuyer'
<1> USE DEF TypeInv, TypeOK, OrderHasBuyer, Existing
<1>0. /\ PayFor \in [Payments -> Orders] /\ HookFor \in [Hooks -> Payments]
      /\ CancelFor \in [Cancels -> Orders]
  BY ProcessAssumption
<1>1. ASSUME NEW o \in Orders, CreateCheck(o) \/ CreateCommit(o) \/ CreateFails(o)
      PROVE  OrderHasBuyer'
  BY <1>1 DEF CreateCheck, CreateCommit, CreateFails, HasBuyer
<1>2. ASSUME NEW h \in Hooks, HookConfirm(h)
      PROVE  OrderHasBuyer'
  BY <1>0, <1>2 DEF HookConfirm
<1>3. ASSUME NEW c \in Cancels, CancelCommit(c)
      PROVE  OrderHasBuyer'
  BY <1>0, <1>3 DEF CancelCommit
<1>4. ASSUME NEW r \in Runners, ExpireCommit(r)
      PROVE  OrderHasBuyer'
  BY <1>4 DEF ExpireCommit
<1>5. ASSUME NEW u \in Users, DeleteMe(u)
      PROVE  OrderHasBuyer'
  BY <1>5 DEF DeleteMe, OrdersOf
<1>6. CASE UNCHANGED <<order, left>>
  BY <1>6
<1>7. ASSUME NEW rows, NEW kept, NEW n, SellerReplacesStocks(rows, kept, n)
      PROVE  UNCHANGED <<order, left>>
  BY <1>7 DEF SellerReplacesStocks, orderVars
<1> QED
  BY <1>1, <1>2, <1>3, <1>4, <1>5, <1>6, <1>7, WhatMoves

\* A deleted account has no order left and no payment in flight, whatever was
\* being created or paid while it was deleted: the two foreign keys suffice.
THEOREM NobodyLeavesUnsettled == Spec => []NobodyLeavesMidPayment
<1>1. Init => OrderHasBuyer
  BY DEF Init, OrderHasBuyer
<1>2. TypeInv /\ OrderHasBuyer /\ [Next]_vars => OrderHasBuyer'
  BY BuyerStep
<1>3. OrderHasBuyer /\ NoOrphans => NobodyLeavesMidPayment
  BY DEF OrderHasBuyer, NoOrphans, NobodyLeavesMidPayment, ReferencedBy
<1> QED
  BY <1>1, <1>2, <1>3, TypeInvariant, RowsHaveOrders, PTL DEF Spec

-----------------------------------------------------------------------------
(* What the pages show.                                                    *)

\* A completed payment row stays completed until its order is deleted.
LEMMA CompletedStays ==
  ASSUME TypeInv, [Next]_vars, NEW p \in Payments, payment[p] = "completed"
  PROVE  payment'[p] = "completed" \/ order'[PayFor[p]] = "deleted"
<1> USE DEF TypeInv, TypeOK
<1>0. /\ PayFor \in [Payments -> Orders] /\ HookFor \in [Hooks -> Payments]
      /\ CancelFor \in [Cancels -> Orders]
  BY ProcessAssumption
<1>1. ASSUME NEW q \in Payments, CreatePaymentCheck(q) \/ CreatePaymentInsert(q)
      PROVE  payment'[p] = "completed"
  BY <1>1 DEF CreatePaymentCheck, CreatePaymentInsert
<1>2. ASSUME NEW h \in Hooks, HookStep(h)
      PROVE  payment'[p] = "completed"
  BY <1>0, <1>2 DEF HookStep, HookReceive, HookMarkFailed, HookClaim, CanClaim,
     HookLosesClaim, HookLoad, HookCheck, HookConfirm, HookFails, payVars
<1>3. ASSUME NEW c \in Cancels, CancelCommit(c)
      PROVE  payment'[p] = "completed" \/ order'[PayFor[p]] = "deleted"
  <2>1. CASE p = seenPayment[c]
    <3>1. PayFor[p] = CancelFor[c]
      BY <1>3, <2>1 DEF CancelCommit, CanUndo, ReferencedBy
    <3> QED
      BY <1>0, <1>3, <3>1 DEF CancelCommit
  <2>2. CASE p # seenPayment[c]
    BY <1>3, <2>2 DEF CancelCommit
  <2> QED
    BY <2>1, <2>2
<1>4. CASE UNCHANGED payment
  BY <1>4
<1> QED
  <2> USE DEF payVars
  <2>1. ASSUME NEW o \in Orders,
               CreateCheck(o) \/ CreateCommit(o) \/ CreateFails(o) \/ TimePasses(o)
                 \/ Review(o)
        PROVE  UNCHANGED payment
    BY <2>1 DEF CreateCheck, CreateCommit, CreateFails, TimePasses, Review
  <2>2. ASSUME NEW q \in Payments, NEW answer \in GatewayStates,
               GatewayDecides(q, answer)
        PROVE  UNCHANGED payment
    BY <2>2 DEF GatewayDecides
  <2>3. ASSUME NEW u \in Users, DeleteMe(u)
        PROVE  UNCHANGED payment
    BY <2>3 DEF DeleteMe
  <2>4. ASSUME NEW c \in Cancels, CancelStep(c)
        PROVE  CancelCommit(c) \/ UNCHANGED payment
    BY <2>4 DEF CancelStep, CancelLoad, CancelCheck, CancelReadUser, CancelFails
  <2>5. ASSUME NEW a \in Graders, GradeRead(a) \/ GradeWrite(a)
        PROVE  UNCHANGED payment
    BY <2>5 DEF GradeRead, GradeWrite
  <2>6. ASSUME NEW r \in Runners, ExpireFind(r) \/ ExpireCommit(r) \/ ExpireFails(r)
        PROVE  UNCHANGED payment
    BY <2>6 DEF ExpireFind, ExpireCommit, ExpireFails
  <2>7. ASSUME NEW rows, NEW kept, NEW n, SellerReplacesStocks(rows, kept, n)
        PROVE  UNCHANGED payment
    BY <2>7 DEF SellerReplacesStocks
  <2>8. CASE UNCHANGED vars
    BY <1>4, <2>8 DEF vars
  <2>9. CASE Next
    BY <1>1, <1>2, <1>3, <1>4, <2>1, <2>2, <2>3, <2>4, <2>5, <2>6, <2>7, <2>9
    DEF Next
  <2> QED
    BY <2>8, <2>9

\* Every page shows a paid order as paid until it is deleted, whatever becomes
\* of the order's own status and of its other payments.
THEOREM PaidIsShownForGood == Spec => PaidStaysShown
<1>1. TypeInv /\ [Next]_vars
      => [\A o \in Orders :
            OrderResponse(o).paymentStatus = "completed" /\ order'[o] \in Existing
            => OrderResponse(o)'.paymentStatus = "completed"]_vars
  <2> SUFFICES ASSUME TypeInv, [Next]_vars, NEW o \in Orders,
                      OrderResponse(o).paymentStatus = "completed",
                      order'[o] \in Existing
               PROVE  OrderResponse(o)'.paymentStatus = "completed"
    OBVIOUS
  <2>1. "completed" \in OrderRow(o).payments
    BY DEF OrderResponse, ShownStatus
  <2>2. PICK p \in Payments : PayFor[p] = o /\ payment[p] = "completed"
    BY <2>1 DEF OrderRow, ReferencedBy
  <2>3. payment'[p] = "completed"
    BY <2>2, CompletedStays DEF Existing
  <2>4. "completed" \in OrderRow(o).payments'
    BY <2>2, <2>3 DEF OrderRow, ReferencedBy, LivePayment
  <2> QED
    BY <2>4 DEF OrderResponse, ShownStatus
<1> QED
  BY <1>1, TypeInvariant, PTL DEF Spec, PaidStaysShown
-----------------------------------------------------------------------------
(* OrderPayment implements StockLedger as long as no seller edits the       *)
(* stocks of a product.                                                    *)

\* Only a confirmation and a cancellation change which payments are
\* completed, and with the lines of exactly that payment.
LEMMA LedgerStep ==
  ASSUME SellerStocks = {}, TypeInv, StockBounds, ClaimInv, [Next]_vars
  PROVE  [Ledger!Next]_(Ledger!ledger)
<1> USE DEF TypeInv, TypeOK, Ledger!ledger
<1>1. ASSUME NEW o \in Orders, CreateCommit(o)
      PROVE  Ledger!Reserve(o)
  <2>1. Lines[o] \in [Items -> Nat]
    BY RequestsAssumption
  <2>2. \A i \in Items : reserved[i] + Lines[o][i] <= quantity[i]
    <3> TAKE i \in Items
    <3>1. /\ Lines[o][i] \in Nat /\ reserved[i] \in Int /\ quantity[i] \in Int
          /\ reserved[i] <= quantity[i]
      BY <2>1 DEF StockBounds
    <3>2. Lines[o][i] > 0 => quantity[i] - reserved[i] >= Lines[o][i]
      BY <1>1 DEF CreateCommit, CanReserve
    <3> QED
      BY <3>1, <3>2
  <2> QED
    BY <1>1, <2>2 DEF CreateCommit, payVars, Ledger!Reserve, Ledger!Fits
<1>2. ASSUME NEW h \in Hooks, HookConfirm(h)
      PROVE  Ledger!Settle(HookFor[h])
  <2> DEFINE p == HookFor[h]
             o == PayFor[p]
  <2>1. /\ p \in Payments /\ o \in Orders /\ Lines[o] \in [Items -> Nat]
    BY RequestsAssumption, ProcessAssumption
  <2>2. payment[p] = "paid"
    BY <1>2 DEF HookConfirm, Goto, ClaimInv, ClaimedIsPaid, Claimed
  <2>3. \A i \in Items : Lines[o][i] <= reserved[i]
    <3> TAKE i \in Items
    <3>1. Lines[o][i] \in Nat /\ reserved[i] \in Int /\ 0 <= reserved[i]
      BY <2>1 DEF StockBounds
    <3>2. Lines[o][i] > 0 => reserved[i] >= Lines[o][i]
      BY <1>2 DEF HookConfirm, CanDecrease
    <3> QED
      BY <3>1, <3>2
  <2>4. /\ quantity' = [i \in Items |-> quantity[i] - Lines[o][i]]
        /\ reserved' = [i \in Items |-> reserved[i] - Lines[o][i]]
        /\ payment' = [payment EXCEPT ![p] = "completed"]
    BY <1>2 DEF HookConfirm, LessReserved
  <2>5. settledNow' = settledNow \cup {p}
    BY <2>1, <2>4 DEF settledNow
  <2> QED
    BY <2>2, <2>3, <2>4, <2>5 DEF Ledger!Settle, Ledger!Unsettled, settledNow
<1>3. ASSUME NEW c \in Cancels, CancelCommit(c)
      PROVE  seenPayment[c] \in Payments /\ Ledger!TakeBack(seenPayment[c])
  <2> DEFINE p == seenPayment[c]
             o == CancelFor[c]
  <2>1. ReferencedBy(o) = {p}
    BY <1>3 DEF CancelCommit, CanUndo
  <2>2. p \in Payments /\ PayFor[p] = o /\ payment[p] \in LivePayment
    BY <2>1 DEF ReferencedBy
  <2>3. payment[p] = "completed"
    BY <2>2 DEF ClaimInv, SeenIsSettled, LivePayment
  <2>4. /\ quantity' = [i \in Items |-> quantity[i] + Lines[o][i]]
        /\ payment' = [payment EXCEPT ![p] = "deleted"]
        /\ reserved' = reserved
    BY <1>3 DEF CancelCommit, Restocked
  <2>5. settledNow' = settledNow \ {p}
    BY <2>2, <2>4 DEF settledNow
  <2>6. Ledger!TakeBack(p)
    BY <2>2, <2>3, <2>4, <2>5 DEF Ledger!TakeBack, settledNow
  <2> QED
    BY <2>2, <2>6
<1>4. ASSUME NEW r \in Runners, ExpireCommit(r)
      PROVE  Ledger!GiveBack
  <2>1. PICK S \in [listed -> SUBSET batch[r]] :
          /\ \A i \in listed : Releases(i, batch[r], S[i])
          /\ reserved' = [i \in Items |->
                            IF i \in listed THEN reserved[i] - Held(i, S[i])
                                            ELSE reserved[i]]
    BY <1>4 DEF ExpireCommit
  <2>2. \A i \in listed : Held(i, S[i]) \in 0 .. reserved[i]
    BY <2>1 DEF Releases
  <2>3. \A i \in Items : reserved'[i] \in 0 .. reserved[i]
    BY <2>1, <2>2 DEF StockBounds
  <2>4. reserved' \in Ledger!Smaller
    <3> DEFINE all == UNION {0 .. reserved[i] : i \in Items}
    <3>1. \A i \in Items : reserved'[i] \in all
      BY <2>3
    <3>2. reserved' = [i \in Items |-> reserved'[i]]
      BY <2>1
    <3> HIDE DEF all
    <3>3. reserved' \in [Items -> all]
      BY <3>1, <3>2
    <3>4. \A i \in Items : reserved'[i] <= reserved[i]
      BY <2>3
    <3> QED
      BY <3>3, <3>4 DEF Ledger!Smaller, all
  <2>5. UNCHANGED <<quantity, payment>>
    BY <1>4 DEF ExpireCommit, payVars
  <2> QED
    BY <2>4, <2>5 DEF Ledger!GiveBack
<1>5. CASE UNCHANGED <<quantity, reserved, settledNow>>
  BY <1>5 DEF settledNow
<1>6. ASSUME NEW o \in Orders, CreateCheck(o) \/ CreateFails(o)
      PROVE  UNCHANGED <<quantity, reserved, settledNow>>
  BY <1>6 DEF CreateCheck, CreateFails, stockVars, payVars, settledNow
<1>7. ASSUME NEW u \in Users, DeleteMe(u)
      PROVE  UNCHANGED <<quantity, reserved, settledNow>>
  BY <1>7 DEF DeleteMe, stockVars, payVars, settledNow
<1> QED
  <2>1. HookFor \in [Hooks -> Payments]
    BY ProcessAssumption
  <2>2. ASSUME NEW o \in Orders, CreateCommit(o)
        PROVE  Ledger!Next
    BY <1>1, <2>2 DEF Ledger!Next
  <2>3. ASSUME NEW h \in Hooks, HookConfirm(h)
        PROVE  Ledger!Next
    BY <1>2, <2>1, <2>3 DEF Ledger!Next
  <2>4. ASSUME NEW c \in Cancels, CancelCommit(c)
        PROVE  Ledger!Next
    BY <1>3, <2>4 DEF Ledger!Next, Ledger!TakeBack
  <2>5. ASSUME NEW r \in Runners, ExpireCommit(r)
        PROVE  Ledger!Next
    BY <1>4, <2>5 DEF Ledger!Next
  <2>6. \/ \E o \in Orders : CreateCommit(o)
        \/ \E h \in Hooks : HookConfirm(h)
        \/ \E c \in Cancels : CancelCommit(c)
        \/ \E r \in Runners : ExpireCommit(r)
        \/ UNCHANGED <<quantity, reserved, settledNow>>
    BY <1>6, <1>7, WhatMoves DEF stockVars
  <2> QED
    BY <1>5, <2>2, <2>3, <2>4, <2>5, <2>6

\* As far as the stocks table can tell, the whole of order handling is the
\* four operations of StockLedger.
THEOREM ImplementsLedger ==
  ASSUME SellerStocks = {}
  PROVE  Spec => LedgerSpec
<1>1. Init => Ledger!Init
  BY DEF Init, Ledger!Init
<1>2. TypeInv /\ StockBounds /\ ClaimInv /\ [Next]_vars
        => [Ledger!Next]_(Ledger!ledger)
  BY LedgerStep
<1> QED
  BY <1>1, <1>2, TypeInvariant, NeverOversold, ClaimInvariant, PTL
  DEF Spec, LedgerSpec, Ledger!Spec

-----------------------------------------------------------------------------
(* Points.                                                                 *)

\* The rows of an order, summed.
LEMMA TotalIsSum ==
  \A rows : Total(rows) = SumFunctionOnSet(rows, DOMAIN rows)
BY DEF Total, FoldFunction, SumFunctionOnSet

LEMMA TotalEmpty == Total(<< >>) = 0
BY TotalIsSum, SeqSumEmpty

LEMMA TotalIsNat ==
  ASSUME NEW rows \in Seq(Nat)
  PROVE  Total(rows) \in Nat
<1>1. DOMAIN rows = 1 .. Len(rows) /\ Len(rows) \in Nat /\ \A k \in DOMAIN rows : rows[k] \in Nat
  OBVIOUS
<1>2. IsFiniteSet(DOMAIN rows)
  BY <1>1, FS_Interval
<1> QED
  BY <1>1, <1>2, TotalIsSum, SumIsNat

LEMMA TotalOfEarnRows ==
  ASSUME NEW rows \in Seq(Nat), NEW n \in Nat
  PROVE  Total(EarnRows(rows, n)) = Total(rows) + n
<1>1. CASE n > 0
  <2>1. rows \in Seq(Int)
    <3>1. Nat \subseteq Int
      OBVIOUS
    <3> QED
      BY <3>1
  <2>2. EarnRows(rows, n) = Append(rows, n)
    BY <1>1 DEF EarnRows
  <2>3. n \in Int
    OBVIOUS
  <2>4. SumFunctionOnSet(Append(rows, n), DOMAIN Append(rows, n))
          = SumFunctionOnSet(rows, DOMAIN rows) + n
    BY <2>1, <2>3, SeqSumAppend
  <2> QED
    BY <2>2, <2>4, TotalIsSum
<1>2. CASE n = 0
  BY <1>2, TotalIsNat DEF EarnRows
<1> QED
  BY <1>1, <1>2

LEMMA NetIsInt ==
  ASSUME TypeOK, NEW o \in Orders
  PROVE  NetPoints(o) \in Int
<1>1. /\ earn[o] \in Seq(Nat) /\ refund[o] \in Nat
      /\ use[o] \in Nat /\ earnCancel[o] \in Nat
  BY DEF TypeOK
<1>2. Total(earn[o]) \in Nat
  BY <1>1, TotalIsNat
<1> QED
  BY <1>1, <1>2 DEF NetPoints

\* One balance moves, and the history of one order of that buyer with it.
LEMMA BalanceMoves ==
  ASSUME TypeOK, PointLedger, NEW o \in Orders, NEW d \in Int,
         point' = [point EXCEPT ![Buyer[o]] = point[Buyer[o]] + d],
         NetPoints(o)' = NetPoints(o) + d,
         \A q \in Orders : q # o => NetPoints(q)' = NetPoints(q)
  PROVE  PointLedger'
<1> DEFINE net == [q \in Orders |-> NetPoints(q)]
           of(v) == {q \in Orders : Buyer[q] = v}
<1>1. SUFFICES ASSUME NEW v \in Users
               PROVE  point'[v] = InitPoint[v] + SumFunctionOnSet(net', of(v))
  BY DEF PointLedger
<1>2. point[v] = InitPoint[v] + SumFunctionOnSet(net, of(v))
  BY DEF PointLedger
<1>3. IsFiniteSet(of(v))
  BY FS_Subset, FiniteAssumption
<1>4. /\ \A q \in Orders : net[q] \in Int /\ net'[q] \in Int
      /\ net'[o] = net[o] + d
      /\ \A q \in Orders : q # o => net'[q] = net[q]
  <2>1. \A q \in Orders : NetPoints(q) \in Int
    BY NetIsInt
  <2>2. \A q \in Orders : net[q] = NetPoints(q) /\ net'[q] = NetPoints(q)'
    OBVIOUS
  <2>3. \A q \in Orders : NetPoints(q)' \in Int
    <3> TAKE q \in Orders
    <3> QED
      BY <2>1
  <2> HIDE DEF net
  <2> QED
    BY <2>1, <2>2, <2>3
<1>5. InitPoint[v] \in Int /\ point[v] \in Int
  <2>1. InitPoint \in [Users -> Nat] /\ point \in [Users -> Nat]
    BY TablesAssumption DEF TypeOK
  <2> QED
    BY <2>1
<1> HIDE DEF net
<1>6. SumFunctionOnSet(net, of(v)) \in Int
  BY <1>3, <1>4, SumType
<1>7. CASE v = Buyer[o]
  <2>1. o \in of(v)
    BY <1>7
  <2>2. SumFunctionOnSet(net', of(v))
          = SumFunctionOnSet(net, of(v)) + net'[o] - net[o]
    <3>1. \A q \in of(v) : net[q] \in Int /\ net'[q] \in Int /\ (q # o => net'[q] = net[q])
      BY <1>4
    <3> HIDE DEF of
    <3> QED
      BY <1>3, <2>1, <3>1, SumUpdate
  <2>3. point'[v] = point[v] + d
    BY <1>7 DEF TypeOK
  <2> HIDE DEF of
  <2> QED
    BY <1>2, <1>4, <1>5, <1>6, <2>2, <2>3
<1>8. CASE v # Buyer[o]
  <2>1. \A q \in of(v) : net'[q] = net[q]
    BY <1>4, <1>8
  <2>2. SumFunctionOnSet(net', of(v)) = SumFunctionOnSet(net, of(v))
    <3> HIDE DEF of
    <3> QED
      BY <1>3, <2>1, SumAgrees
  <2>3. point'[v] = point[v]
    BY <1>8 DEF TypeOK
  <2> HIDE DEF of
  <2> QED
    BY <1>2, <2>2, <2>3
<1> QED
  BY <1>7, <1>8

\* What a confirmation writes for its buyer.
LEMMA ConfirmMovesPoints ==
  ASSUME TypeInv, NEW h \in Hooks, HookConfirm(h),
         NEW o, o = PayFor[HookFor[h]], NEW n, n = EarnedPoint(o, seenGrade[h])
  PROVE  /\ o \in Orders /\ n \in Nat /\ UsePoint[o] \in Nat
         /\ point' = [point EXCEPT ![Buyer[o]] = point[Buyer[o]] + (n - UsePoint[o])]
         /\ NetPoints(o)' = NetPoints(o) + (n - UsePoint[o])
         /\ \A q \in Orders : q # o => NetPoints(q)' = NetPoints(q)
<1>0. o \in Orders /\ Buyer[o] \in Users /\ UsePoint[o] \in Nat
  BY ProcessAssumption, RequestsAssumption
<1>1. n \in Nat
  <2>1. seenGrade[h] \in Grades
    BY DEF HookConfirm, Goto, TypeInv, GradeTaken, Graders
  <2> QED
    BY <1>0, <2>1, EarnedIsNat
<1>2. /\ point' = [point EXCEPT ![Buyer[o]] = AfterSpend(o) + n]
      /\ use' = [use EXCEPT ![o] = use[o] + UsePoint[o]]
      /\ earn' = [earn EXCEPT ![o] = EarnRows(earn[o], n)]
      /\ refund' = refund /\ earnCancel' = earnCancel
  BY DEF HookConfirm
<1>3. point[Buyer[o]] + (n - UsePoint[o]) = AfterSpend(o) + n
  BY <1>0, <1>1 DEF AfterSpend, TypeInv, TypeOK
<1>4. /\ earn[o] \in Seq(Nat) /\ use[o] \in Nat /\ refund[o] \in Nat /\ earnCancel[o] \in Nat
      /\ earn'[o] = EarnRows(earn[o], n) /\ use'[o] = use[o] + UsePoint[o]
  BY <1>0, <1>2 DEF TypeInv, TypeOK
<1>5. Total(earn'[o]) = Total(earn[o]) + n /\ Total(earn[o]) \in Nat
  BY <1>1, <1>4, TotalOfEarnRows, TotalIsNat
<1>6. NetPoints(o)' = NetPoints(o) + (n - UsePoint[o])
  <2>1. NetPoints(o)' = Total(earn'[o]) + refund[o] - use'[o] - earnCancel[o]
    BY <1>2 DEF NetPoints
  <2>2. NetPoints(o) = Total(earn[o]) + refund[o] - use[o] - earnCancel[o]
    BY DEF NetPoints
  <2> QED
    BY <1>0, <1>1, <1>4, <1>5, <2>1, <2>2
<1>7. ASSUME NEW q \in Orders, q # o
      PROVE  NetPoints(q)' = NetPoints(q)
  <2>1. earn'[q] = earn[q] /\ use'[q] = use[q]
    BY <1>0, <1>2, <1>7 DEF TypeInv, TypeOK
  <2> QED
    BY <1>2, <2>1 DEF NetPoints
<1> QED
  BY <1>0, <1>1, <1>2, <1>3, <1>6, <1>7

\* What a cancellation writes for its buyer.
LEMMA CancelMovesPoints ==
  ASSUME TypeInv, NEW c \in Cancels, CancelCommit(c),
         NEW o, o = CancelFor[c], NEW n, n = LastEarned(o)
  PROVE  /\ o \in Orders /\ n \in Nat /\ UsePoint[o] \in Nat
         /\ point' = [point EXCEPT ![Buyer[o]] = point[Buyer[o]] + (UsePoint[o] - n)]
         /\ NetPoints(o)' = NetPoints(o) + (UsePoint[o] - n)
         /\ \A q \in Orders : q # o => NetPoints(q)' = NetPoints(q)
<1>0. o \in Orders /\ Buyer[o] \in Users /\ UsePoint[o] \in Nat
  BY ProcessAssumption, RequestsAssumption
<1>1. n \in Nat
  BY <1>0, LastEarnedIsNat DEF TypeInv
<1>2. /\ point' = [point EXCEPT ![Buyer[o]] = (point[Buyer[o]] + UsePoint[o]) - n]
      /\ refund' = [refund EXCEPT ![o] = refund[o] + UsePoint[o]]
      /\ earnCancel' = [earnCancel EXCEPT ![o] = earnCancel[o] + n]
      /\ use' = use /\ earn' = earn
  <2>1. point' = [point EXCEPT ![Buyer[o]] = (point[Buyer[o]] + UsePoint[o]) - n]
    BY DEF CancelCommit
  <2>2. refund' = [refund EXCEPT ![o] = refund[o] + UsePoint[o]]
    BY DEF CancelCommit
  <2>3. earnCancel' = [earnCancel EXCEPT ![o] = earnCancel[o] + n]
    BY DEF CancelCommit
  <2> QED
    BY <2>1, <2>2, <2>3 DEF CancelCommit
<1>3. point[Buyer[o]] + (UsePoint[o] - n) = (point[Buyer[o]] + UsePoint[o]) - n
  BY <1>0, <1>1 DEF TypeInv, TypeOK
<1>4. /\ earn[o] \in Seq(Nat) /\ use[o] \in Nat /\ refund[o] \in Nat /\ earnCancel[o] \in Nat
      /\ refund'[o] = refund[o] + UsePoint[o] /\ earnCancel'[o] = earnCancel[o] + n
  BY <1>0, <1>2 DEF TypeInv, TypeOK
<1>5. Total(earn[o]) \in Nat
  BY <1>4, TotalIsNat
<1>6. NetPoints(o)' = NetPoints(o) + (UsePoint[o] - n)
  <2>1. NetPoints(o)' = Total(earn[o]) + refund'[o] - use[o] - earnCancel'[o]
    BY <1>2 DEF NetPoints
  <2>2. NetPoints(o) = Total(earn[o]) + refund[o] - use[o] - earnCancel[o]
    BY DEF NetPoints
  <2> QED
    BY <1>0, <1>1, <1>4, <1>5, <2>1, <2>2
<1>7. ASSUME NEW q \in Orders, q # o
      PROVE  NetPoints(q)' = NetPoints(q)
  <2>1. refund'[q] = refund[q] /\ earnCancel'[q] = earnCancel[q]
    BY <1>0, <1>2, <1>7 DEF TypeInv, TypeOK
  <2> QED
    BY <1>2, <2>1 DEF NetPoints
<1> QED
  BY <1>0, <1>1, <1>2, <1>3, <1>6, <1>7

LEMMA PointStep ==
  ASSUME TypeInv, PointLedger, [Next]_vars
  PROVE  PointLedger'
<1>1. ASSUME NEW h \in Hooks, HookConfirm(h)
      PROVE  PointLedger'
  <2> DEFINE o == PayFor[HookFor[h]]
             n == EarnedPoint(o, seenGrade[h])
  <2> HIDE DEF o, n
  <2>1. /\ o \in Orders /\ n \in Nat /\ UsePoint[o] \in Nat
        /\ point' = [point EXCEPT ![Buyer[o]] = point[Buyer[o]] + (n - UsePoint[o])]
        /\ NetPoints(o)' = NetPoints(o) + (n - UsePoint[o])
        /\ \A q \in Orders : q # o => NetPoints(q)' = NetPoints(q)
    BY <1>1, ConfirmMovesPoints DEF o, n
  <2>2. n - UsePoint[o] \in Int
    BY <2>1
  <2> QED
    BY <2>1, <2>2, BalanceMoves DEF TypeInv
<1>2. ASSUME NEW c \in Cancels, CancelCommit(c)
      PROVE  PointLedger'
  <2> DEFINE o == CancelFor[c]
             n == LastEarned(o)
  <2> HIDE DEF o, n
  <2>1. /\ o \in Orders /\ n \in Nat /\ UsePoint[o] \in Nat
        /\ point' = [point EXCEPT ![Buyer[o]] = point[Buyer[o]] + (UsePoint[o] - n)]
        /\ NetPoints(o)' = NetPoints(o) + (UsePoint[o] - n)
        /\ \A q \in Orders : q # o => NetPoints(q)' = NetPoints(q)
    BY <1>2, CancelMovesPoints DEF o, n
  <2>2. UsePoint[o] - n \in Int
    BY <2>1
  <2> QED
    BY <2>1, <2>2, BalanceMoves DEF TypeInv
<1>3. CASE UNCHANGED <<point, historyVars>>
  <2>1. \A o \in Orders : NetPoints(o)' = NetPoints(o)
    BY <1>3 DEF NetPoints, historyVars
  <2>2. [o \in Orders |-> NetPoints(o)]' = [o \in Orders |-> NetPoints(o)]
    BY <2>1
  <2> QED
    BY <1>3, <2>2 DEF PointLedger
<1>4. ASSUME NEW o \in Orders, CreateCheck(o) \/ CreateCommit(o) \/ CreateFails(o)
      PROVE  UNCHANGED <<point, historyVars>>
  BY <1>4 DEF CreateCheck, CreateCommit, CreateFails, userVars
<1>5. ASSUME NEW r \in Runners, ExpireCommit(r)
      PROVE  UNCHANGED <<point, historyVars>>
  BY <1>5 DEF ExpireCommit, userVars
<1>6. ASSUME NEW u \in Users, DeleteMe(u)
      PROVE  UNCHANGED <<point, historyVars>>
  BY <1>6 DEF DeleteMe, userVars
<1>7. ASSUME NEW rows, NEW kept, NEW n, SellerReplacesStocks(rows, kept, n)
      PROVE  UNCHANGED <<point, historyVars>>
  BY <1>7 DEF SellerReplacesStocks, userVars
<1> QED
  BY <1>1, <1>2, <1>3, <1>4, <1>5, <1>6, <1>7, WhatMoves

\* The balance of every buyer is the first balance and the history of the
\* buyer's orders, for any number of orders confirmed and cancelled at once.
THEOREM BalanceIsHistory == Spec => []PointLedger
<1>1. Init => PointLedger
  <2> SUFFICES ASSUME Init, NEW u \in Users
               PROVE  point[u] = InitPoint[u]
                        + SumFunctionOnSet([o \in Orders |-> NetPoints(o)],
                                           {o \in Orders : Buyer[o] = u})
    BY DEF PointLedger
  <2> DEFINE net == [o \in Orders |-> NetPoints(o)]
             S == {o \in Orders : Buyer[o] = u}
  <2>1. \A o \in Orders : NetPoints(o) = 0
    BY TotalEmpty DEF Init, NetPoints
  <2>2. IsFiniteSet(S) /\ \A o \in S : net[o] = 0
    BY <2>1, FS_Subset, FiniteAssumption
  <2> HIDE DEF net, S
  <2>3. SumFunctionOnSet(net, S) = 0
    BY <2>2, SumIsZero
  <2>4. point[u] = InitPoint[u] /\ InitPoint[u] \in Nat
    BY TablesAssumption DEF Init
  <2> QED
    BY <2>3, <2>4 DEF net, S
<1>2. TypeInv /\ PointLedger /\ [Next]_vars => PointLedger'
  BY PointStep
<1> QED
  BY <1>1, <1>2, TypeInvariant, PTL DEF Spec

-----------------------------------------------------------------------------
(* A deleted order.                                                        *)

\* What point_history says of an order: nothing before it is paid; what the
\* buyer spent, and at most one EARN row, when one payment of it is completed;
\* and a sum of zero once the order is gone.
Gone == {"deleted", "abandoned"}

Settled(o) == {p \in settledNow : PayFor[p] = o}

NothingWritten(o) == use[o] = 0 /\ earn[o] = << >>
WrittenOnce(o)    == use[o] = UsePoint[o] /\ Len(earn[o]) <= 1

HistoryOf(o) ==
  /\ order[o] \in Gone => NetPoints(o) = 0
  /\ order[o] \notin Gone =>
       /\ refund[o] = 0 /\ earnCancel[o] = 0
       /\ Settled(o) = {} => NothingWritten(o)
       /\ \A p \in Payments : Settled(o) = {p} => WrittenOnce(o)

HistoryInv == \A o \in Orders : HistoryOf(o)

\* Orders that no step touches.
LEMMA HistoryKept ==
  ASSUME NEW o \in Orders, HistoryOf(o), order'[o] = order[o],
         use'[o] = use[o], earn'[o] = earn[o],
         refund'[o] = refund[o], earnCancel'[o] = earnCancel[o],
         Settled(o)' = Settled(o)
  PROVE  HistoryOf(o)'
BY DEF HistoryOf, NothingWritten, WrittenOnce, NetPoints

\* The one EARN row an order may have is the one LastEarned finds.
LEMMA LastIsTotal ==
  ASSUME TypeOK, NEW o \in Orders, Len(earn[o]) <= 1
  PROVE  LastEarned(o) = Total(earn[o])
<1>1. earn[o] \in Seq(Nat)
  BY DEF TypeOK
<1>2. CASE Len(earn[o]) = 0
  <2>1. earn[o] = << >>
    BY <1>1, <1>2
  <2> QED
    BY <2>1, TotalEmpty DEF LastEarned
<1>3. CASE Len(earn[o]) = 1
  <2>1. LastEarned(o) = earn[o][1]
    BY <1>1, <1>3 DEF LastEarned
  <2>2. earn[o] = Append(<< >>, earn[o][1]) /\ earn[o][1] \in Int
    BY <1>1, <1>3
  <2>3. << >> \in Seq(Int)
    OBVIOUS
  <2>4. Total(Append(<< >>, earn[o][1])) = 0 + earn[o][1]
    BY <2>2, <2>3, TotalIsSum, SeqSumAppend, SeqSumEmpty
  <2> QED
    BY <2>1, <2>2, <2>4
<1>4. Len(earn[o]) = 0 \/ Len(earn[o]) = 1
  <2>1. Len(earn[o]) \in Nat
    BY <1>1
  <2>2. \A n \in Nat : n <= 1 => n = 0 \/ n = 1
    OBVIOUS
  <2> QED
    BY <2>1, <2>2
<1> QED
  BY <1>2, <1>3, <1>4

LEMMA HistoryStep ==
  ASSUME TypeInv, ClaimInv, HistoryInv, [Next]_vars
  PROVE  HistoryInv'
<1>0. /\ PayFor \in [Payments -> Orders] /\ HookFor \in [Hooks -> Payments]
      /\ CancelFor \in [Cancels -> Orders]
  BY ProcessAssumption
<1>1. SUFFICES ASSUME NEW o \in Orders PROVE HistoryOf(o)'
  BY DEF HistoryInv
<1>2. HistoryOf(o)
  BY DEF HistoryInv
<1>3. CASE UNCHANGED <<order, historyVars, settledNow>>
  BY <1>2, <1>3, HistoryKept DEF historyVars, Settled
<1>4. ASSUME NEW q \in Orders, CreateCheck(q) \/ CreateCommit(q) \/ CreateFails(q)
      PROVE  HistoryOf(o)'
  <2>1. UNCHANGED <<historyVars, settledNow>>
    BY <1>4 DEF CreateCheck, CreateCommit, CreateFails, userVars, payVars, settledNow
  <2>2. \/ order'[o] = order[o]
        \/ order[o] \notin Gone /\ order'[o] \notin Gone
    BY <1>4 DEF CreateCheck, CreateCommit, CreateFails, Gone, TypeInv, TypeOK
  <2> QED
    BY <1>2, <2>1, <2>2 DEF HistoryOf, historyVars, Settled, NothingWritten, WrittenOnce,
       NetPoints
<1>5. ASSUME NEW h \in Hooks, HookConfirm(h)
      PROVE  HistoryOf(o)'
  <2> DEFINE p == HookFor[h]
             n == EarnedPoint(PayFor[p], seenGrade[h])
  <2>1. /\ order' = [order EXCEPT ![PayFor[p]] = "CompletedPayment"]
        /\ use' = [use EXCEPT ![PayFor[p]] = use[PayFor[p]] + UsePoint[PayFor[p]]]
        /\ earn' = [earn EXCEPT ![PayFor[p]] = EarnRows(earn[PayFor[p]], n)]
        /\ refund' = refund /\ earnCancel' = earnCancel
        /\ order[PayFor[p]] \in Existing
    BY <1>5 DEF HookConfirm
  <2>2. p \in Payments /\ p \notin settledNow /\ settledNow' = settledNow \cup {p}
    BY <1>0, <1>5 DEF HookConfirm, Goto, ClaimInv, ClaimedIsPaid, Claimed, settledNow,
       TypeInv, TypeOK
  <2> HIDE DEF n, p
  <2>3. CASE o = PayFor[p]
    <3>1. order[o] \notin Gone /\ order'[o] \notin Gone
      BY <2>1, <2>3 DEF Gone, Existing, TypeInv, TypeOK
    <3>2. Settled(o)' = Settled(o) \cup {p} /\ p \notin Settled(o)
      BY <2>2, <2>3 DEF Settled
    <3>3. ASSUME NEW r \in Payments, Settled(o)' = {r}
          PROVE  WrittenOnce(o)'
      <4>1. Settled(o) = {}
        BY <3>2, <3>3
      <4>2. NothingWritten(o)
        BY <1>2, <3>1, <4>1 DEF HistoryOf
      <4>3. use'[o] = 0 + UsePoint[o] /\ earn'[o] = EarnRows(<< >>, n)
        BY <2>1, <2>3, <4>2 DEF NothingWritten, TypeInv, TypeOK
      <4>4. UsePoint[o] \in Nat
        BY RequestsAssumption
      <4>5. Len(EarnRows(<< >>, n)) <= 1
        BY DEF EarnRows
      <4> QED
        BY <4>3, <4>4, <4>5 DEF WrittenOnce
    <3>4. refund'[o] = 0 /\ earnCancel'[o] = 0
      BY <1>2, <2>1, <3>1 DEF HistoryOf
    <3> QED
      BY <3>1, <3>2, <3>3, <3>4 DEF HistoryOf
  <2>4. CASE o # PayFor[p]
    <3>1. /\ order'[o] = order[o] /\ use'[o] = use[o] /\ earn'[o] = earn[o]
          /\ refund'[o] = refund[o] /\ earnCancel'[o] = earnCancel[o]
      BY <2>1, <2>4 DEF TypeInv, TypeOK
    <3>2. Settled(o)' = Settled(o)
      BY <2>2, <2>4 DEF Settled
    <3> QED
      BY <1>2, <3>1, <3>2, HistoryKept
  <2> QED
    BY <2>3, <2>4
<1>6. ASSUME NEW c \in Cancels, CancelCommit(c)
      PROVE  HistoryOf(o)'
  <2> DEFINE p == seenPayment[c]
  <2>1. /\ ReferencedBy(CancelFor[c]) = {p}
        /\ order[CancelFor[c]] \in Existing
        /\ order' = [order EXCEPT ![CancelFor[c]] = "deleted"]
        /\ payment' = [payment EXCEPT ![p] = "deleted"]
        /\ refund' = [refund EXCEPT ![CancelFor[c]] = @ + UsePoint[CancelFor[c]]]
        /\ use' = use /\ earn' = earn
    BY <1>6 DEF CancelCommit, CanUndo
  <2>2. earnCancel' = [earnCancel EXCEPT ![CancelFor[c]] = @ + LastEarned(CancelFor[c])]
    BY <1>6 DEF CancelCommit
  <2>3. p \in Payments /\ PayFor[p] = CancelFor[c] /\ payment[p] = "completed"
    BY <2>1 DEF ReferencedBy, ClaimInv, SeenIsSettled, LivePayment
  <2>4. settledNow' = settledNow \ {p}
    BY <2>1, <2>3 DEF settledNow, TypeInv, TypeOK
  <2> HIDE DEF p
  <2>5. CASE o = CancelFor[c]
    <3>1. Settled(o) = {p}
      BY <2>1, <2>3, <2>5 DEF Settled, settledNow, ReferencedBy, LivePayment
    <3>2. WrittenOnce(o) /\ refund[o] = 0 /\ earnCancel[o] = 0
      BY <1>2, <2>1, <2>3, <2>5, <3>1 DEF HistoryOf, Gone, Existing
    <3>3. LastEarned(o) = Total(earn[o])
      BY <3>2, LastIsTotal DEF WrittenOnce, TypeInv
    <3>4. NetPoints(o)' = NetPoints(o) + (UsePoint[o] - LastEarned(o))
      BY <1>6, <2>5, CancelMovesPoints
    <3>5. NetPoints(o) = Total(earn[o]) + 0 - UsePoint[o] - 0
      BY <3>2 DEF NetPoints, WrittenOnce
    <3>6. Total(earn[o]) \in Nat /\ UsePoint[o] \in Nat
      BY RequestsAssumption, TotalIsNat DEF TypeInv, TypeOK
    <3>7. NetPoints(o)' = 0
      BY <3>3, <3>4, <3>5, <3>6
    <3>8. order'[o] \in Gone
      BY <2>1, <2>5 DEF Gone, TypeInv, TypeOK
    <3> QED
      BY <3>7, <3>8 DEF HistoryOf
  <2>6. CASE o # CancelFor[c]
    <3>1. /\ order'[o] = order[o] /\ use'[o] = use[o] /\ earn'[o] = earn[o]
          /\ refund'[o] = refund[o] /\ earnCancel'[o] = earnCancel[o]
      BY <2>1, <2>2, <2>6 DEF TypeInv, TypeOK
    <3>2. Settled(o)' = Settled(o)
      BY <2>3, <2>4, <2>6 DEF Settled
    <3> QED
      BY <1>2, <3>1, <3>2, HistoryKept
  <2> QED
    BY <2>5, <2>6
<1>7. ASSUME NEW r \in Runners, ExpireCommit(r)
      PROVE  HistoryOf(o)'
  <2>1. UNCHANGED <<historyVars, settledNow>>
    BY <1>7 DEF ExpireCommit, userVars, payVars, settledNow
  <2>2. \/ order'[o] = order[o]
        \/ order[o] \notin Gone /\ order'[o] \notin Gone
    BY <1>7 DEF ExpireCommit, Gone, Existing
  <2> QED
    BY <1>2, <2>1, <2>2 DEF HistoryOf, historyVars, Settled, NothingWritten, WrittenOnce,
       NetPoints
<1>8. ASSUME NEW u \in Users, DeleteMe(u)
      PROVE  HistoryOf(o)'
  <2>1. UNCHANGED <<historyVars, settledNow>>
    BY <1>8 DEF DeleteMe, userVars, payVars, settledNow
  <2>2. CASE order'[o] = order[o]
    BY <1>2, <2>1, <2>2, HistoryKept DEF historyVars, Settled
  <2>3. CASE order'[o] # order[o]
    <3>1. o \in OrdersOf(u) /\ order'[o] \in Gone
      BY <1>8, <2>3 DEF DeleteMe, Gone
    <3>2. ReferencedBy(o) = {} /\ order[o] \notin Gone
      BY <1>8, <3>1 DEF DeleteMe, Deletable, OrdersOf, Existing, Gone
    <3>3. Settled(o) = {}
      BY <3>2 DEF Settled, settledNow, ReferencedBy, LivePayment
    <3>4. NothingWritten(o) /\ refund[o] = 0 /\ earnCancel[o] = 0
      BY <1>2, <3>2, <3>3 DEF HistoryOf
    <3>5. NetPoints(o)' = 0
      BY <2>1, <3>4, TotalEmpty DEF NetPoints, NothingWritten, historyVars
    <3> QED
      BY <3>1, <3>5 DEF HistoryOf
  <2> QED
    BY <2>2, <2>3
<1>9. ASSUME NEW rows, NEW kept, NEW n, SellerReplacesStocks(rows, kept, n)
      PROVE  UNCHANGED <<order, historyVars, settledNow>>
  BY <1>9 DEF SellerReplacesStocks, orderVars, userVars, payVars, settledNow
<1> QED
  BY <1>3, <1>4, <1>5, <1>6, <1>7, <1>8, <1>9, WhatMoves

\* A deleted order leaves no trace in its buyer's points, whatever was
\* confirmed, cancelled, regraded and paid twice at the same time.
THEOREM DeletedIsNeutral == Spec => []CancelIsNeutral
<1>1. Init => HistoryInv
  <2> SUFFICES ASSUME Init, NEW o \in Orders PROVE HistoryOf(o)
    BY DEF HistoryInv
  <2>1. Settled(o) = {} /\ order[o] = "none"
    BY DEF Init, Settled, settledNow
  <2> QED
    BY <2>1 DEF Init, HistoryOf, Gone, NothingWritten
<1>2. TypeInv /\ ClaimInv /\ HistoryInv /\ [Next]_vars => HistoryInv'
  BY HistoryStep
<1>3. HistoryInv => CancelIsNeutral
  BY DEF HistoryInv, HistoryOf, Gone, CancelIsNeutral
<1> QED
  BY <1>1, <1>2, <1>3, TypeInvariant, ClaimInvariant, PTL DEF Spec

-----------------------------------------------------------------------------
(* Units.                                                                  *)

\* The units of item i that payment p has bought.
Bought(i) == [p \in Payments |-> Lines[PayFor[p]][i]]

\* The sums of StockLedger are the sums of this module.
LEMMA LedgerSums == \A f, S : Ledger!SumFunctionOnSet(f, S) = SumFunctionOnSet(f, S)
BY DEF Ledger!SumFunctionOnSet, Ledger!FoldFunctionOnSet, Ledger!MapThenFoldSet,
       SumFunctionOnSet, FoldFunctionOnSet, MapThenFoldSet

\* What an item has lost to payments and what is left of it.
Accounted(i) == quantity[i] + SumFunctionOnSet(Bought(i), settledNow)

LEMMA ConservationIs ==
  Ledger!Conservation <=> \A i \in Items : Accounted(i) = InitStock[i]
BY LedgerSums, Zenon DEF Ledger!Conservation, Accounted, Bought, settledNow

LEMMA NextConservationIs ==
  Ledger!Conservation' <=> (\A i \in Items : Accounted(i) = InitStock[i])'
BY ConservationIs, PTL

LEMMA BoughtIsNat ==
  ASSUME NEW i \in Items, NEW p \in Payments
  PROVE  Bought(i)[p] = Lines[PayFor[p]][i] /\ Bought(i)[p] \in Nat
BY ProcessAssumption, RequestsAssumption DEF Bought

\* The four operations of the ledger keep the account of every item.
LEMMA LedgerConserves ==
  ASSUME TypeOK, Ledger!Conservation, [Ledger!Next]_(Ledger!ledger)
  PROVE  Ledger!Conservation'
<1>1. SUFFICES ASSUME NEW i \in Items
               PROVE  quantity'[i] + SumFunctionOnSet(Bought(i), settledNow') = InitStock[i]
  <2>1. ASSUME \A i \in Items : Accounted(i)' = InitStock[i]
        PROVE  Ledger!Conservation'
    BY <2>1, NextConservationIs
  <2> QED
    BY <2>1 DEF Accounted, Bought
<1>2. quantity[i] + SumFunctionOnSet(Bought(i), settledNow) = InitStock[i]
  BY ConservationIs DEF Accounted
<1>3. IsFiniteSet(settledNow) /\ settledNow \subseteq Payments
  BY FS_Subset, FiniteAssumption DEF settledNow
<1>4. \A p \in Payments : Bought(i)[p] \in Int
  BY BoughtIsNat
<1>5. SumFunctionOnSet(Bought(i), settledNow) \in Int /\ quantity[i] \in Int
  BY <1>3, <1>4, SumType DEF TypeOK
<1>6. CASE UNCHANGED <<quantity, settledNow>>
  BY <1>2, <1>6
<1>7. ASSUME NEW p \in Payments, Ledger!Settle(p)
      PROVE  quantity'[i] + SumFunctionOnSet(Bought(i), settledNow') = InitStock[i]
  <2>1. settledNow' = settledNow \cup {p} /\ p \notin settledNow
    BY <1>7 DEF Ledger!Settle, Ledger!Unsettled, settledNow
  <2>2. SumFunctionOnSet(Bought(i), settledNow \cup {p})
          = Bought(i)[p] + SumFunctionOnSet(Bought(i), settledNow)
    BY <1>3, <1>4, <2>1, SumInsert
  <2>3. quantity'[i] = quantity[i] - Bought(i)[p]
    BY <1>7, BoughtIsNat DEF Ledger!Settle
  <2> QED
    BY <1>2, <1>4, <1>5, <2>1, <2>2, <2>3
<1>8. ASSUME NEW p \in Payments, Ledger!TakeBack(p)
      PROVE  quantity'[i] + SumFunctionOnSet(Bought(i), settledNow') = InitStock[i]
  <2>1. settledNow' = settledNow \ {p} /\ p \in settledNow
    BY <1>8 DEF Ledger!TakeBack, settledNow
  <2>2. SumFunctionOnSet(Bought(i), settledNow)
          = Bought(i)[p] + SumFunctionOnSet(Bought(i), settledNow \ {p})
    BY <1>3, <1>4, <2>1, SumAdds
  <2>3. SumFunctionOnSet(Bought(i), settledNow \ {p}) \in Int
    <3>1. IsFiniteSet(settledNow \ {p})
      BY <1>3, FS_Subset
    <3> QED
      BY <1>3, <1>4, <3>1, SumType
  <2>4. quantity'[i] = quantity[i] + Bought(i)[p]
    BY <1>8, BoughtIsNat DEF Ledger!TakeBack
  <2> QED
    BY <1>2, <1>4, <1>5, <2>1, <2>2, <2>3, <2>4
<1>9. CASE \E o \in Orders : Ledger!Reserve(o)
  BY <1>6, <1>9 DEF Ledger!Reserve, settledNow
<1>10. CASE Ledger!GiveBack
  BY <1>6, <1>10 DEF Ledger!GiveBack, settledNow
<1> QED
  BY <1>6, <1>7, <1>8, <1>9, <1>10 DEF Ledger!Next, Ledger!ledger, settledNow

\* What is missing from a stock row is what completed payments have bought, for
\* any number of them, as long as no seller rewrites the row.
THEOREM NothingLost ==
  ASSUME SellerStocks = {}
  PROVE  Spec => []Ledger!Conservation
<1>1. Init => Ledger!Conservation
  <2> SUFFICES ASSUME Init, NEW i \in Items
               PROVE  quantity[i] + SumFunctionOnSet(Bought(i), settledNow) = InitStock[i]
    BY ConservationIs DEF Accounted
  <2>1. settledNow = {}
    BY DEF Init, settledNow
  <2>2. quantity[i] = InitStock[i] /\ InitStock[i] \in Nat
    BY TablesAssumption DEF Init
  <2> QED
    BY <2>1, <2>2, SumEmpty
<1>2. TypeInv /\ StockBounds /\ ClaimInv /\ Ledger!Conservation /\ [Next]_vars
        => Ledger!Conservation'
  BY LedgerStep, LedgerConserves DEF TypeInv
<1> QED
  BY <1>1, <1>2, TypeInvariant, NeverOversold, ClaimInvariant, PTL DEF Spec

-----------------------------------------------------------------------------
(* The announcement of a sold-out item.                                    *)

\* What the two halves of SoldOutIsAnnounced say of one row.
Announced(i) == quantity[i] = 0 /\ InitStock[i] > 0 => soldOut[i] > 0
NotTooOften(i) ==
  soldOut[i] <= Cardinality(DeletedWith(i)) + IF quantity[i] > 0 THEN 0 ELSE 1

LEMMA AnnouncedStep ==
  ASSUME SellerStocks = {}, TypeInv, StockBounds, NEW i \in Items, Announced(i),
         [Next]_vars
  PROVE  Announced(i)'
<1>1. SUFFICES ASSUME quantity'[i] = 0, InitStock[i] > 0
               PROVE  soldOut'[i] > 0
  BY DEF Announced
<1>2. quantity[i] = 0 => soldOut[i] > 0
  BY <1>1 DEF Announced
<1>3. quantity[i] \in Int /\ soldOut[i] \in Nat /\ 0 <= reserved[i] /\ reserved[i] <= quantity[i]
      /\ reserved[i] \in Int
  BY DEF TypeInv, TypeOK, StockBounds
<1>4. CASE quantity'[i] = quantity[i] /\ soldOut' = soldOut
  BY <1>1, <1>2, <1>4
<1>5. ASSUME NEW h \in Hooks, HookConfirm(h)
      PROVE  soldOut'[i] > 0
  <2> DEFINE o == PayFor[HookFor[h]]
  <2>1. Lines[o][i] \in Nat
    BY ProcessAssumption, RequestsAssumption
  <2>2. /\ quantity'[i] = quantity[i] - Lines[o][i]
        /\ soldOut'[i] = soldOut[i] + IF i \in Emptied(o) THEN 1 ELSE 0
    BY <1>5 DEF HookConfirm
  <2>3. CASE Lines[o][i] > 0
    <3>1. i \in Emptied(o)
      BY <1>1, <2>2, <2>3 DEF Emptied, LeftOver
    <3> QED
      BY <1>3, <2>2, <3>1
  <2>4. CASE Lines[o][i] = 0
    <3>1. quantity[i] = 0
      BY <1>1, <1>3, <2>2, <2>4
    <3>2. soldOut[i] > 0
      BY <1>2, <3>1
    <3>3. (IF i \in Emptied(o) THEN 1 ELSE 0) \in Nat
      OBVIOUS
    <3> HIDE DEF o
    <3> QED
      BY <1>3, <2>2, <3>2, <3>3
  <2> QED
    BY <2>1, <2>3, <2>4
<1>6. ASSUME NEW c \in Cancels, CancelCommit(c)
      PROVE  soldOut'[i] > 0
  <2>1. Lines[CancelFor[c]][i] \in Nat
    BY ProcessAssumption, RequestsAssumption
  <2>2. quantity'[i] = quantity[i] + Lines[CancelFor[c]][i] /\ soldOut' = soldOut
    BY <1>6 DEF CancelCommit, Restocked
  <2>3. quantity'[i] = quantity[i]
    BY <1>1, <1>3, <2>1, <2>2
  <2> QED
    BY <1>4, <2>2, <2>3
<1>7. ASSUME NEW o \in Orders, CreateCheck(o) \/ CreateCommit(o) \/ CreateFails(o)
      PROVE  quantity' = quantity /\ soldOut' = soldOut
  BY <1>7 DEF CreateCheck, CreateCommit, CreateFails, stockVars
<1>8. ASSUME NEW r \in Runners, ExpireCommit(r)
      PROVE  quantity' = quantity /\ soldOut' = soldOut
  BY <1>8 DEF ExpireCommit
<1>9. ASSUME NEW u \in Users, DeleteMe(u)
      PROVE  quantity' = quantity /\ soldOut' = soldOut
  BY <1>9 DEF DeleteMe, stockVars
<1> QED
  BY <1>4, <1>5, <1>6, <1>7, <1>8, <1>9, WhatMoves DEF stockVars

\* A deleted order stays deleted; a cancellation adds its own.
LEMMA DeletedGrows ==
  ASSUME TypeInv, NEW i \in Items, [Next]_vars
  PROVE  /\ Cardinality(DeletedWith(i)) \in Nat /\ Cardinality(DeletedWith(i)') \in Nat
         /\ Cardinality(DeletedWith(i)) <= Cardinality(DeletedWith(i)')
         /\ \A c \in Cancels : CancelCommit(c) /\ Lines[CancelFor[c]][i] > 0 =>
              Cardinality(DeletedWith(i)') = Cardinality(DeletedWith(i)) + 1
<1>1. IsFiniteSet(DeletedWith(i)) /\ IsFiniteSet(DeletedWith(i)')
  <2>1. DeletedWith(i) \in SUBSET Orders /\ DeletedWith(i)' \in SUBSET Orders
    BY DEF DeletedWith
  <2> QED
    BY <2>1, FiniteAssumption, FS_Subset
<1>2. Cardinality(DeletedWith(i)) \in Nat /\ Cardinality(DeletedWith(i)') \in Nat
  BY <1>1, FS_CardinalityType
<1>3. \A o \in Orders : order[o] = "deleted" => order'[o] = "deleted"
  BY WhatMoves DEF CreateCheck, CreateCommit, CreateFails, HookConfirm, CancelCommit,
     CanUndo, ExpireCommit, DeleteMe, OrdersOf, Existing, SellerReplacesStocks,
     orderVars, TypeInv, TypeOK
<1>4. DeletedWith(i) \in SUBSET DeletedWith(i)'
  BY <1>3 DEF DeletedWith
<1>5. ASSUME NEW c \in Cancels, CancelCommit(c), Lines[CancelFor[c]][i] > 0
      PROVE  Cardinality(DeletedWith(i)') = Cardinality(DeletedWith(i)) + 1
  <2> DEFINE o == CancelFor[c]
  <2>1. /\ o \in Orders /\ order[o] \in Existing
        /\ order' = [order EXCEPT ![o] = "deleted"]
    BY <1>5, ProcessAssumption DEF CancelCommit, CanUndo
  <2>2. o \notin DeletedWith(i)
    BY <2>1 DEF DeletedWith, Existing
  <2>3. DeletedWith(i)' = DeletedWith(i) \cup {o}
    BY <1>5, <2>1 DEF DeletedWith, TypeInv, TypeOK
  <2> HIDE DEF o
  <2> QED
    BY <1>1, <2>2, <2>3, FS_AddElement
<1> QED
  BY <1>1, <1>2, <1>4, <1>5, FS_Subset

LEMMA NotTooOftenStep ==
  ASSUME SellerStocks = {}, TypeInv, StockBounds, NEW i \in Items, NotTooOften(i),
         [Next]_vars
  PROVE  NotTooOften(i)'
<1> DEFINE D == Cardinality(DeletedWith(i))
           E == Cardinality(DeletedWith(i)')
<1>1. D \in Nat /\ E \in Nat /\ D <= E
  BY DeletedGrows
<1>2. /\ quantity[i] \in Int /\ soldOut[i] \in Nat
      /\ reserved[i] \in Int /\ 0 <= reserved[i] /\ reserved[i] <= quantity[i]
      /\ soldOut[i] <= D + IF quantity[i] > 0 THEN 0 ELSE 1
  BY DEF TypeInv, TypeOK, StockBounds, NotTooOften
<1>3. SUFFICES soldOut'[i] <= E + IF quantity'[i] > 0 THEN 0 ELSE 1
  BY DEF NotTooOften
<1>4. CASE quantity'[i] = quantity[i] /\ soldOut' = soldOut
  <2> HIDE DEF D, E
  <2> QED
    BY <1>1, <1>2, <1>4
<1>5. ASSUME NEW h \in Hooks, HookConfirm(h)
      PROVE  soldOut'[i] <= E + IF quantity'[i] > 0 THEN 0 ELSE 1
  <2> DEFINE o == PayFor[HookFor[h]]
             n == Lines[o][i]
  <2>1. n \in Nat
    BY ProcessAssumption, RequestsAssumption
  <2>2. /\ quantity'[i] = quantity[i] - n
        /\ soldOut'[i] = soldOut[i] + IF n > 0 /\ quantity[i] - n = 0 THEN 1 ELSE 0
        /\ n > 0 => reserved[i] >= n
    BY <1>5 DEF HookConfirm, Emptied, LeftOver, CanDecrease
  <2> HIDE DEF D, E, n
  <2> QED
    BY <1>1, <1>2, <2>1, <2>2
<1>6. ASSUME NEW c \in Cancels, CancelCommit(c)
      PROVE  soldOut'[i] <= E + IF quantity'[i] > 0 THEN 0 ELSE 1
  <2> DEFINE n == Lines[CancelFor[c]][i]
  <2>1. n \in Nat
    BY ProcessAssumption, RequestsAssumption
  <2>2. quantity'[i] = quantity[i] + n /\ soldOut' = soldOut
    BY <1>6 DEF CancelCommit, Restocked
  <2>3. n > 0 => E = D + 1
    BY <1>6, DeletedGrows
  <2> HIDE DEF D, E, n
  <2> QED
    BY <1>1, <1>2, <2>1, <2>2, <2>3
<1>7. ASSUME NEW o \in Orders, CreateCheck(o) \/ CreateCommit(o) \/ CreateFails(o)
      PROVE  quantity' = quantity /\ soldOut' = soldOut
  BY <1>7 DEF CreateCheck, CreateCommit, CreateFails, stockVars
<1>8. ASSUME NEW r \in Runners, ExpireCommit(r)
      PROVE  quantity' = quantity /\ soldOut' = soldOut
  BY <1>8 DEF ExpireCommit
<1>9. ASSUME NEW u \in Users, DeleteMe(u)
      PROVE  quantity' = quantity /\ soldOut' = soldOut
  BY <1>9 DEF DeleteMe, stockVars
<1> QED
  BY <1>4, <1>5, <1>6, <1>7, <1>8, <1>9, WhatMoves DEF stockVars

\* Whoever empties a stock row announces it, and nobody else: the row is looked
\* at after the decrement, in the transaction that made it, and only an order
\* that is deleted brings back what can be emptied again.
THEOREM EmptyIsAnnounced ==
  ASSUME SellerStocks = {}
  PROVE  Spec => []SoldOutIsAnnounced
<1>1. Init => SoldOutIsAnnounced
  <2> SUFFICES ASSUME Init, NEW i \in Items
               PROVE  Announced(i) /\ NotTooOften(i)
    BY DEF SoldOutIsAnnounced, Announced, NotTooOften
  <2>1. DeletedWith(i) = {}
    BY DEF Init, DeletedWith
  <2>2. Cardinality(DeletedWith(i)) = 0
    BY <2>1, FS_EmptySet
  <2> QED
    BY <2>2 DEF Init, Announced, NotTooOften
<1>2. TypeInv /\ StockBounds /\ SoldOutIsAnnounced /\ [Next]_vars => SoldOutIsAnnounced'
  <2>1. ASSUME TypeInv, StockBounds, SoldOutIsAnnounced, [Next]_vars, NEW i \in Items
        PROVE  Announced(i)' /\ NotTooOften(i)'
    <3>1. Announced(i) /\ NotTooOften(i)
      BY <2>1 DEF SoldOutIsAnnounced, Announced, NotTooOften
    <3> QED
      BY <2>1, <3>1, AnnouncedStep, NotTooOftenStep
  <2> QED
    BY <2>1 DEF SoldOutIsAnnounced, Announced, NotTooOften
<1> QED
  BY <1>1, <1>2, TypeInvariant, NeverOversold, PTL DEF Spec

-----------------------------------------------------------------------------
(* Reservations.                                                           *)

\* What an order becomes once it no longer waits, for good.
Past == {"CompletedPayment", "Cancelled"} \cup Gone

Holding == {o \in Orders : order[o] \in {"WaitingPayment", "abandoned"}}

Calm == expired = {} /\ OnePaymentEach

\* An expiry run holds expired orders only; a cancel request that does not go by
\* way of the expiry has seen that its order no longer waits; while nothing has
\* expired and no order has two payments, the order of a webhook past its check
\* still waits; and then every unit reserved is held by an order.
BatchExpired == \A r \in Runners : batch[r] \subseteq expired
UndoneIsPast ==
  \A c \in Cancels : pc[c] \in {"undo", "undoing"} => order[CancelFor[c]] \in Past
CheckedWaits ==
  \A h \in Hooks : pc[h] = "confirming" => order[PayFor[HookFor[h]]] = "WaitingPayment"
ReservedIsHeld == \A i \in Items : reserved[i] = Held(i, Holding)

DriftInv ==
  /\ BatchExpired
  /\ UndoneIsPast
  /\ Calm => CheckedWaits
  /\ Calm => ReservedIsHeld

LEMMA BatchStep ==
  ASSUME TypeInv, BatchExpired, [Next]_vars
  PROVE  BatchExpired' /\ expired \subseteq expired'
<1> USE DEF TypeInv, TypeOK, BatchExpired
<1>1. ASSUME NEW o \in Orders, TimePasses(o)
      PROVE  BatchExpired' /\ expired \subseteq expired'
  BY <1>1 DEF TimePasses, procVars
<1>2. ASSUME NEW r \in Runners, ExpireFind(r) \/ ExpireCommit(r) \/ ExpireFails(r)
      PROVE  BatchExpired' /\ expired \subseteq expired'
  <2>1. expired' = expired
    BY <1>2 DEF ExpireFind, ExpireCommit, ExpireFails, orderVars
  <2>2. batch' \in {[batch EXCEPT ![r] = ExpiredWaiting], [batch EXCEPT ![r] = {}]}
    BY <1>2 DEF ExpireFind, ExpireCommit, ExpireFails
  <2>3. ExpiredWaiting \subseteq expired
    BY DEF ExpiredWaiting
  <2> QED
    BY <2>1, <2>2, <2>3
<1>3. CASE UNCHANGED <<batch, expired>>
  BY <1>3
<1> QED
  <2> USE DEF orderVars, procVars
  <2>1. ASSUME NEW o \in Orders,
               CreateCheck(o) \/ CreateCommit(o) \/ CreateFails(o) \/ Review(o)
        PROVE  UNCHANGED <<batch, expired>>
    BY <2>1 DEF CreateCheck, CreateCommit, CreateFails, Review
  <2>2. ASSUME NEW p \in Payments,
               \/ CreatePaymentCheck(p) \/ CreatePaymentInsert(p)
               \/ \E answer \in GatewayStates : GatewayDecides(p, answer)
        PROVE  UNCHANGED <<batch, expired>>
    BY <2>2 DEF CreatePaymentCheck, CreatePaymentInsert, GatewayDecides
  <2>3. ASSUME NEW h \in Hooks, HookStep(h)
        PROVE  UNCHANGED <<batch, expired>>
    BY <2>3 DEF HookStep, HookReceive, HookMarkFailed, HookClaim, HookLosesClaim,
       HookLoad, HookCheck, HookConfirm, HookFails
  <2>4. ASSUME NEW c \in Cancels, CancelStep(c)
        PROVE  UNCHANGED <<batch, expired>>
    BY <2>4 DEF CancelStep, CancelLoad, CancelCheck, CancelReadUser, CancelCommit,
       CancelFails
  <2>5. ASSUME NEW a \in Graders, GradeRead(a) \/ GradeWrite(a)
        PROVE  UNCHANGED <<batch, expired>>
    BY <2>5 DEF GradeRead, GradeWrite
  <2>6. ASSUME NEW u \in Users, DeleteMe(u)
        PROVE  UNCHANGED <<batch, expired>>
    BY <2>6 DEF DeleteMe
  <2>7. ASSUME NEW rows, NEW kept, NEW n, SellerReplacesStocks(rows, kept, n)
        PROVE  UNCHANGED <<batch, expired>>
    BY <2>7 DEF SellerReplacesStocks
  <2>8. CASE UNCHANGED vars
    BY <1>3, <2>8 DEF vars
  <2>9. CASE Next
    BY <1>1, <1>2, <1>3, <2>1, <2>2, <2>3, <2>4, <2>5, <2>6, <2>7, <2>9 DEF Next
  <2> QED
    BY <2>8, <2>9

LEMMA PastStays ==
  ASSUME TypeInv, [Next]_vars, NEW o \in Orders, order[o] \in Past
  PROVE  order'[o] \in Past
<1> USE DEF TypeInv, TypeOK, Past, Gone
<1>0. /\ PayFor \in [Payments -> Orders] /\ HookFor \in [Hooks -> Payments]
      /\ CancelFor \in [Cancels -> Orders]
  BY ProcessAssumption
<1>1. ASSUME NEW q \in Orders, CreateCheck(q) \/ CreateCommit(q) \/ CreateFails(q)
      PROVE  order'[o] \in Past
  BY <1>1 DEF CreateCheck, CreateCommit, CreateFails
<1>2. ASSUME NEW h \in Hooks, HookConfirm(h)
      PROVE  order'[o] \in Past
  BY <1>0, <1>2 DEF HookConfirm
<1>3. ASSUME NEW c \in Cancels, CancelCommit(c)
      PROVE  order'[o] \in Past
  BY <1>0, <1>3 DEF CancelCommit
<1>4. ASSUME NEW r \in Runners, ExpireCommit(r)
      PROVE  order'[o] \in Past
  BY <1>4 DEF ExpireCommit
<1>5. ASSUME NEW u \in Users, DeleteMe(u)
      PROVE  order'[o] \in Past
  BY <1>5 DEF DeleteMe
<1>6. ASSUME NEW rows, NEW kept, NEW n, SellerReplacesStocks(rows, kept, n)
      PROVE  order'[o] \in Past
  BY <1>6 DEF SellerReplacesStocks, orderVars
<1> QED
  BY <1>1, <1>2, <1>3, <1>4, <1>5, <1>6, WhatMoves

\* How a process reaches the steps the two invariants speak of.
LEMMA ReachesStep ==
  ASSUME TypeInv, [Next]_vars
  PROVE  /\ \A h \in Hooks : pc'[h] = "confirming"
              => \/ pc[h] = "confirming"
                 \/ order' = order /\ order[PayFor[HookFor[h]]] = "WaitingPayment"
         /\ \A c \in Cancels : pc'[c] \in {"undo", "undoing"}
              => \/ pc[c] \in {"undo", "undoing"}
                 \/ order[CancelFor[c]] \in Past
<1> USE DEF TypeInv, TypeOK
<1> DEFINE Goal ==
      /\ \A h \in Hooks : pc'[h] = "confirming"
           => \/ pc[h] = "confirming"
              \/ order' = order /\ order[PayFor[HookFor[h]]] = "WaitingPayment"
      /\ \A c \in Cancels : pc'[c] \in {"undo", "undoing"}
           => \/ pc[c] \in {"undo", "undoing"}
              \/ order[CancelFor[c]] \in Past
<1>0. /\ Hooks \subseteq Actors /\ Cancels \subseteq Actors /\ Runners \subseteq Actors
      /\ Graders \subseteq Actors
      /\ Hooks \cap Cancels = {} /\ Hooks \cap Jobs = {}
  BY ProcessAssumption DEF Actors, Runners, Graders
<1>1. ASSUME NEW h \in Hooks, HookCheck(h)
      PROVE  Goal
  <2>1. PICK s \in {"confirming", "ok"} :
          /\ pc' = [pc EXCEPT ![h] = s]
          /\ s = "confirming" => order[PayFor[HookFor[h]]] = "WaitingPayment"
    BY <1>1 DEF HookCheck, Goto, ReadsConfirmable, Existing
  <2>2. order' = order
    BY <1>1 DEF HookCheck, orderVars
  <2> QED
    BY <1>0, <2>1, <2>2
<1>2. ASSUME NEW c \in Cancels, CancelCheck(c) \/ CancelReadUser(c)
      PROVE  Goal
  <2>1. PICK s \in {"expire", "undo", "undoing"} :
          /\ pc' = [pc EXCEPT ![c] = s]
          /\ s = "undoing" => pc[c] = "undo"
          /\ s = "undo" => order[CancelFor[c]] \in Past
    BY <1>2 DEF CancelCheck, CancelReadUser, Goto, Existing, Past
  <2> QED
    BY <1>0, <2>1
<1>3. ASSUME NEW a \in Actors, NEW s, pc' = [pc EXCEPT ![a] = s],
             s \notin {"confirming", "undo", "undoing"}
      PROVE  Goal
  BY <1>0, <1>3
<1>4. CASE UNCHANGED pc
  BY <1>4
<1>5. ASSUME NEW h \in Hooks, HookStep(h)
      PROVE  Goal
  <2>1. \/ HookCheck(h)
        \/ \E s \in {"ok", "sawPaid", "sawFailed", "claimed", "loaded", "settled", "error"} :
             pc' = [pc EXCEPT ![h] = s]
    BY <1>5 DEF HookStep, HookReceive, HookMarkFailed, HookClaim, HookLosesClaim,
       HookLoad, HookConfirm, HookFails, Goto
  <2> QED
    BY <1>0, <1>1, <1>3, <2>1
<1>6. ASSUME NEW c \in Cancels, CancelStep(c)
      PROVE  Goal
  <2>1. \/ CancelCheck(c) \/ CancelReadUser(c)
        \/ \E s \in {"found", "settled", "error"} : pc' = [pc EXCEPT ![c] = s]
    BY <1>6 DEF CancelStep, CancelLoad, CancelCommit, CancelFails, Goto
  <2> QED
    BY <1>0, <1>2, <1>3, <2>1
<1>7. ASSUME NEW a \in Graders, GradeRead(a) \/ GradeWrite(a)
      PROVE  Goal
  <2>1. PICK s \in {"ok", "regrade"} : pc' = [pc EXCEPT ![a] = s]
    BY <1>7 DEF GradeRead, GradeWrite, Goto
  <2> QED
    BY <1>0, <1>3, <2>1
<1>8. ASSUME NEW r \in Runners, ExpireFind(r) \/ ExpireCommit(r) \/ ExpireFails(r)
      PROVE  Goal
  <2>1. PICK s \in {"idle", "ok", "error", "expiring"} : pc' = [pc EXCEPT ![r] = s]
    BY <1>8 DEF ExpireFind, ExpireCommit, ExpireFails, RunEnd
  <2> QED
    BY <1>0, <1>3, <2>1
<1>9. Goal
  <2> USE DEF procVars
  <2>1. ASSUME NEW o \in Orders,
               CreateCheck(o) \/ CreateCommit(o) \/ CreateFails(o) \/ TimePasses(o)
                 \/ Review(o)
        PROVE  UNCHANGED pc
    BY <2>1 DEF CreateCheck, CreateCommit, CreateFails, TimePasses, Review
  <2>2. ASSUME NEW p \in Payments,
               \/ CreatePaymentCheck(p) \/ CreatePaymentInsert(p)
               \/ \E answer \in GatewayStates : GatewayDecides(p, answer)
        PROVE  UNCHANGED pc
    BY <2>2 DEF CreatePaymentCheck, CreatePaymentInsert, GatewayDecides
  <2>3. ASSUME NEW u \in Users, DeleteMe(u)
        PROVE  UNCHANGED pc
    BY <2>3 DEF DeleteMe
  <2>4. ASSUME NEW rows, NEW kept, NEW n, SellerReplacesStocks(rows, kept, n)
        PROVE  UNCHANGED pc
    BY <2>4 DEF SellerReplacesStocks
  <2>5. CASE UNCHANGED vars
    BY <1>4, <2>5 DEF vars
  <2>6. CASE Next
    BY <1>4, <1>5, <1>6, <1>7, <1>8, <2>1, <2>2, <2>3, <2>4, <2>6 DEF Next
  <2> QED
    BY <2>5, <2>6
<1> QED
  BY <1>9 DEF Goal

LEMMA UndoneStep ==
  ASSUME TypeInv, UndoneIsPast, [Next]_vars
  PROVE  UndoneIsPast'
BY ReachesStep, PastStays, ProcessAssumption DEF UndoneIsPast

\* A payment row is deleted by a cancellation only.
LEMMA LiveStays ==
  ASSUME TypeInv, [Next]_vars, \A c \in Cancels : ~ CancelCommit(c),
         NEW p \in Payments, payment[p] \in LivePayment
  PROVE  payment'[p] \in LivePayment
<1> USE DEF TypeInv, TypeOK, LivePayment
<1>0. HookFor \in [Hooks -> Payments]
  BY ProcessAssumption
<1>1. ASSUME NEW q \in Payments, CreatePaymentCheck(q) \/ CreatePaymentInsert(q)
      PROVE  payment'[p] \in LivePayment
  BY <1>1 DEF CreatePaymentCheck, CreatePaymentInsert
<1>2. ASSUME NEW h \in Hooks, HookStep(h)
      PROVE  payment'[p] \in LivePayment
  BY <1>0, <1>2 DEF HookStep, HookReceive, HookMarkFailed, HookClaim, CanClaim,
     HookLosesClaim, HookLoad, HookCheck, HookConfirm, HookFails, payVars
<1>3. CASE UNCHANGED payment
  BY <1>3
<1> QED
  <2> USE DEF payVars
  <2>1. ASSUME NEW o \in Orders,
               CreateCheck(o) \/ CreateCommit(o) \/ CreateFails(o) \/ TimePasses(o)
                 \/ Review(o)
        PROVE  UNCHANGED payment
    BY <2>1 DEF CreateCheck, CreateCommit, CreateFails, TimePasses, Review
  <2>2. ASSUME NEW q \in Payments, NEW answer \in GatewayStates,
               GatewayDecides(q, answer)
        PROVE  UNCHANGED payment
    BY <2>2 DEF GatewayDecides
  <2>3. ASSUME NEW u \in Users, DeleteMe(u)
        PROVE  UNCHANGED payment
    BY <2>3 DEF DeleteMe
  <2>4. ASSUME NEW c \in Cancels, CancelStep(c)
        PROVE  CancelCommit(c) \/ UNCHANGED payment
    BY <2>4 DEF CancelStep, CancelLoad, CancelCheck, CancelReadUser, CancelFails
  <2>5. ASSUME NEW a \in Graders, GradeRead(a) \/ GradeWrite(a)
        PROVE  UNCHANGED payment
    BY <2>5 DEF GradeRead, GradeWrite
  <2>6. ASSUME NEW r \in Runners, ExpireFind(r) \/ ExpireCommit(r) \/ ExpireFails(r)
        PROVE  UNCHANGED payment
    BY <2>6 DEF ExpireFind, ExpireCommit, ExpireFails
  <2>7. ASSUME NEW rows, NEW kept, NEW n, SellerReplacesStocks(rows, kept, n)
        PROVE  UNCHANGED payment
    BY <2>7 DEF SellerReplacesStocks
  <2>8. CASE UNCHANGED vars
    BY <1>3, <2>8 DEF vars
  <2>9. CASE Next
    BY <1>1, <1>2, <1>3, <2>1, <2>2, <2>3, <2>4, <2>5, <2>6, <2>7, <2>9 DEF Next
  <2> QED
    BY <2>8, <2>9

\* Calm does not come back once it is lost.
LEMMA CalmWas ==
  ASSUME TypeInv, BatchExpired, [Next]_vars, Calm'
  PROVE  Calm
<1>1. expired = {}
  BY BatchStep DEF Calm
<1>2. OnePaymentEach
  <2> SUFFICES ASSUME NEW p \in Payments, NEW q \in Payments,
                      payment[p] \in LivePayment, payment[q] \in LivePayment,
                      PayFor[p] = PayFor[q]
               PROVE  p = q
    BY DEF OnePaymentEach
  <2>1. ASSUME NEW c \in Cancels, CancelCommit(c)
        PROVE  p = q
    <3>1. CASE payment'[p] = payment[p] /\ payment'[q] = payment[q]
      BY <3>1 DEF Calm, OnePaymentEach
    <3>2. CASE payment'[p] # payment[p] \/ payment'[q] # payment[q]
      <4>1. p = seenPayment[c] \/ q = seenPayment[c]
        BY <2>1, <3>2 DEF CancelCommit, TypeInv, TypeOK
      <4>2. ReferencedBy(CancelFor[c]) = {seenPayment[c]}
        BY <2>1 DEF CancelCommit, CanUndo
      <4> QED
        BY <4>1, <4>2 DEF ReferencedBy
    <3> QED
      BY <3>1, <3>2
  <2>2. CASE payment'[p] \in LivePayment /\ payment'[q] \in LivePayment
    BY <2>2 DEF Calm, OnePaymentEach
  <2>3. CASE \A c \in Cancels : ~ CancelCommit(c)
    BY <2>2, <2>3, LiveStays
  <2> QED
    BY <2>1, <2>3
<1> QED
  BY <1>1, <1>2 DEF Calm

LEMMA WaitsStep ==
  ASSUME TypeInv, ClaimInv, BatchExpired, Calm, CheckedWaits, [Next]_vars
  PROVE  CheckedWaits'
<1>0. /\ PayFor \in [Payments -> Orders] /\ HookFor \in [Hooks -> Payments]
      /\ CancelFor \in [Cancels -> Orders] /\ Hooks \subseteq Actors
  BY ProcessAssumption DEF Actors
<1>1. SUFFICES ASSUME NEW h \in Hooks, pc'[h] = "confirming",
                      pc[h] = "confirming", order[PayFor[HookFor[h]]] = "WaitingPayment"
               PROVE  order'[PayFor[HookFor[h]]] = "WaitingPayment"
  BY ReachesStep DEF CheckedWaits
<1> DEFINE p == HookFor[h]
           o == PayFor[p]
<1>2. p \in Payments /\ o \in Orders /\ payment[p] = "paid" /\ p \in ReferencedBy(o)
  BY <1>0, <1>1 DEF ClaimInv, ClaimedIsPaid, Claimed, ReferencedBy, LivePayment
<1>3. ASSUME NEW q \in Orders, CreateCheck(q) \/ CreateCommit(q) \/ CreateFails(q)
      PROVE  order'[o] = "WaitingPayment"
  BY <1>1, <1>2, <1>3 DEF CreateCheck, CreateCommit, CreateFails, TypeInv, TypeOK
<1>4. ASSUME NEW g \in Hooks, HookConfirm(g)
      PROVE  order'[o] = "WaitingPayment"
  <2>1. pc[g] = "confirming" /\ pc' = [pc EXCEPT ![g] = "settled"]
    BY <1>4 DEF HookConfirm, Goto
  <2>2. g # h
    BY <1>0, <1>1, <2>1 DEF TypeInv, TypeOK
  <2>3. HookFor[g] \in Payments /\ payment[HookFor[g]] = "paid"
    BY <1>0, <2>1 DEF ClaimInv, ClaimedIsPaid, Claimed
  <2>4. HookFor[g] # p
    BY <1>1, <2>1, <2>2 DEF ClaimInv, OneClaimPerPayment, Claimed
  <2>5. PayFor[HookFor[g]] # o
    BY <1>2, <2>3, <2>4 DEF Calm, OnePaymentEach, LivePayment
  <2> QED
    BY <1>1, <1>4, <2>5 DEF HookConfirm, TypeInv, TypeOK
<1>5. ASSUME NEW c \in Cancels, CancelCommit(c)
      PROVE  order'[o] = "WaitingPayment"
  <2>1. ReferencedBy(CancelFor[c]) = {seenPayment[c]}
    BY <1>5 DEF CancelCommit, CanUndo
  <2>2. payment[seenPayment[c]] # "paid"
    BY <2>1 DEF ClaimInv, SeenIsSettled, ReferencedBy
  <2>3. CancelFor[c] # o
    BY <1>2, <2>1, <2>2
  <2> QED
    BY <1>1, <1>5, <2>3 DEF CancelCommit, TypeInv, TypeOK
<1>6. ASSUME NEW r \in Runners, ExpireCommit(r)
      PROVE  order'[o] = "WaitingPayment"
  BY <1>1, <1>2, <1>6 DEF ExpireCommit, BatchExpired, Calm
<1>7. ASSUME NEW u \in Users, DeleteMe(u)
      PROVE  order'[o] = "WaitingPayment"
  BY <1>1, <1>2, <1>7 DEF DeleteMe, Deletable
<1>8. ASSUME NEW rows, NEW kept, NEW n, SellerReplacesStocks(rows, kept, n)
      PROVE  order'[o] = "WaitingPayment"
  BY <1>1, <1>8 DEF SellerReplacesStocks, orderVars
<1> QED
  BY <1>1, <1>3, <1>4, <1>5, <1>6, <1>7, <1>8, WhatMoves

\* Sums of the units some orders hold.
LEMMA HeldSums ==
  ASSUME NEW i \in Items, NEW S \in SUBSET Orders
  PROVE  /\ Held(i, S) \in Int
         /\ \A o \in Orders \ S : Held(i, S \cup {o}) = Lines[o][i] + Held(i, S)
         /\ \A o \in S : Held(i, S) = Lines[o][i] + Held(i, S \ {o})
         /\ \A T \in SUBSET S : Held(i, S) = Held(i, T) + Held(i, S \ T)
<1> DEFINE f == [o \in Orders |-> Lines[o][i]]
<1>1. \A o \in Orders : f[o] = Lines[o][i] /\ f[o] \in Int
  BY RequestsAssumption
<1>2. IsFiniteSet(S)
  BY FS_Subset, FiniteAssumption
<1>3. \A T : Held(i, T) = SumFunctionOnSet(f, T)
  BY DEF Held
<1> HIDE DEF f
<1>4. SumFunctionOnSet(f, S) \in Int
  BY <1>1, <1>2, SumType
<1>5. ASSUME NEW o \in Orders \ S
      PROVE  SumFunctionOnSet(f, S \cup {o}) = f[o] + SumFunctionOnSet(f, S)
  BY <1>1, <1>2, SumInsert
<1>6. ASSUME NEW o \in S
      PROVE  SumFunctionOnSet(f, S) = f[o] + SumFunctionOnSet(f, S \ {o})
  BY <1>1, <1>2, SumAdds
<1>7. ASSUME NEW T \in SUBSET S
      PROVE  SumFunctionOnSet(f, S) = SumFunctionOnSet(f, T) + SumFunctionOnSet(f, S \ T)
  BY <1>1, <1>2, SumSplits
<1> QED
  BY <1>1, <1>3, <1>4, <1>5, <1>6, <1>7

LEMMA HeldStep ==
  ASSUME SellerStocks = {}, TypeInv, ClaimInv, DriftInv, Calm, [Next]_vars
  PROVE  ReservedIsHeld'
<1>0. /\ PayFor \in [Payments -> Orders] /\ HookFor \in [Hooks -> Payments]
      /\ CancelFor \in [Cancels -> Orders]
  BY ProcessAssumption
<1>1. SUFFICES ASSUME NEW i \in Items
               PROVE  reserved'[i] = Held(i, Holding')
  BY DEF ReservedIsHeld, Held
<1>2. reserved[i] = Held(i, Holding) /\ reserved[i] \in Int
  BY DEF DriftInv, ReservedIsHeld, TypeInv, TypeOK
<1>3. Holding \in SUBSET Orders
  BY DEF Holding
<1>4. CASE reserved'[i] = reserved[i] /\ Holding' = Holding
  BY <1>2, <1>4
<1>5. ASSUME NEW o \in Orders, CreateCheck(o) \/ CreateFails(o)
      PROVE  reserved'[i] = reserved[i] /\ Holding' = Holding
  BY <1>5 DEF CreateCheck, CreateFails, stockVars, Holding, TypeInv, TypeOK
<1>6. ASSUME NEW o \in Orders, CreateCommit(o)
      PROVE  reserved'[i] = Held(i, Holding')
  <2>1. Holding' = Holding \cup {o} /\ o \notin Holding
    BY <1>6 DEF CreateCommit, Holding, TypeInv, TypeOK
  <2>2. reserved'[i] = reserved[i] + Lines[o][i] /\ Lines[o][i] \in Nat
    BY <1>6, RequestsAssumption DEF CreateCommit
  <2>3. Held(i, Holding \cup {o}) = Lines[o][i] + Held(i, Holding)
    BY <1>3, <2>1, HeldSums
  <2> QED
    BY <1>2, <2>1, <2>2, <2>3
<1>7. ASSUME NEW h \in Hooks, HookConfirm(h)
      PROVE  reserved'[i] = Held(i, Holding')
  <2> DEFINE o == PayFor[HookFor[h]]
  <2>1. o \in Orders /\ Lines[o][i] \in Nat
    BY <1>0, RequestsAssumption
  <2>2. order[o] = "WaitingPayment"
    BY <1>7 DEF HookConfirm, Goto, DriftInv, CheckedWaits
  <2>3. /\ reserved'[i] = reserved[i] - Lines[o][i]
        /\ order' = [order EXCEPT ![o] = "CompletedPayment"]
    BY <1>7 DEF HookConfirm, LessReserved
  <2> HIDE DEF o
  <2>4. Holding' = Holding \ {o} /\ o \in Holding
    BY <2>1, <2>2, <2>3 DEF Holding, TypeInv, TypeOK
  <2>5. Held(i, Holding) = Lines[o][i] + Held(i, Holding \ {o})
    BY <1>3, <2>4, HeldSums
  <2>6. Held(i, Holding \ {o}) \in Int
    BY <1>3, HeldSums
  <2> QED
    BY <1>2, <2>1, <2>3, <2>4, <2>5, <2>6
<1>8. ASSUME NEW c \in Cancels, CancelCommit(c)
      PROVE  reserved'[i] = reserved[i] /\ Holding' = Holding
  <2>1. order[CancelFor[c]] \in Past /\ order[CancelFor[c]] \in Existing
    BY <1>8 DEF CancelCommit, CanUndo, Goto, DriftInv, UndoneIsPast
  <2>2. order[CancelFor[c]] \notin {"WaitingPayment", "abandoned"}
    BY <2>1 DEF Past, Gone, Existing
  <2> QED
    BY <1>8, <2>2 DEF CancelCommit, Holding, TypeInv, TypeOK
<1>9. ASSUME NEW r \in Runners, ExpireCommit(r)
      PROVE  reserved'[i] = reserved[i] /\ Holding' = Holding
  <2>1. batch[r] = {}
    BY DEF DriftInv, BatchExpired, Calm
  <2>2. order' = order
    BY <1>9, <2>1 DEF ExpireCommit, TypeInv, TypeOK
  <2>3. PICK S \in [listed -> SUBSET batch[r]] :
          reserved'[i] = IF i \in listed THEN reserved[i] - Held(i, S[i]) ELSE reserved[i]
    BY <1>9 DEF ExpireCommit
  <2>4. i \in listed => S[i] = {}
    BY <2>1
  <2>5. Held(i, {}) = 0
    BY SumEmpty DEF Held
  <2>6. reserved'[i] = reserved[i]
    <3>1. i \in listed => Held(i, S[i]) = 0
      BY <2>4, <2>5
    <3> QED
      BY <1>2, <2>3, <3>1
  <2>7. Holding' = Holding
    BY <2>2 DEF Holding
  <2> QED
    BY <2>6, <2>7
<1>10. ASSUME NEW u \in Users, DeleteMe(u)
       PROVE  reserved'[i] = reserved[i] /\ Holding' = Holding
  BY <1>10 DEF DeleteMe, OrdersOf, Existing, stockVars, Holding, TypeInv, TypeOK
<1>11. CASE UNCHANGED <<stockVars, order>>
  BY <1>4, <1>11 DEF stockVars, Holding
<1> QED
  BY <1>4, <1>5, <1>6, <1>7, <1>8, <1>9, <1>10, <1>11, WhatMoves

\* For any number of orders, webhooks and cancel requests: as long as no order has
\* expired or has a second payment row, and no seller rewrites a stock row, the
\* counter is the units of the orders that wait and of those left behind.
THEOREM DriftIsFromExpiry ==
  ASSUME SellerStocks = {}
  PROVE  Spec => []DriftNeedsExpiry
<1>1. Init => DriftInv
  <2> SUFFICES ASSUME Init
               PROVE  DriftInv
    OBVIOUS
  <2>1. BatchExpired /\ UndoneIsPast /\ CheckedWaits
    BY DEF Init, BatchExpired, UndoneIsPast, CheckedWaits, Actors
  <2>2. Holding = {}
    BY DEF Init, Holding
  <2>3. ReservedIsHeld
    BY <2>2, SumEmpty DEF Init, ReservedIsHeld, Held
  <2> QED
    BY <2>1, <2>3 DEF DriftInv
<1>2. TypeInv /\ ClaimInv /\ DriftInv /\ [Next]_vars => DriftInv'
  BY BatchStep, UndoneStep, CalmWas, WaitsStep, HeldStep DEF DriftInv
<1>3. DriftInv => DriftNeedsExpiry
  <2> SUFFICES ASSUME DriftInv, expired = {}, OnePaymentEach, NEW i \in Items
               PROVE  reserved[i] = WaitingUnits(i) + AbandonedUnits(i)
    BY DEF DriftNeedsExpiry
  <2> DEFINE W == {o \in Orders : order[o] = "WaitingPayment"}
             A == {o \in Orders : order[o] = "abandoned"}
  <2>1. Holding \in SUBSET Orders /\ W \in SUBSET Holding /\ Holding \ W = A
    BY DEF Holding
  <2>2. Held(i, Holding) = Held(i, W) + Held(i, A)
    <3> HIDE DEF W, A
    <3> QED
      BY <2>1, HeldSums
  <2> QED
    BY <2>2 DEF DriftInv, Calm, ReservedIsHeld, WaitingUnits, AbandonedUnits
<1> QED
  BY <1>1, <1>2, <1>3, TypeInvariant, ClaimInvariant, PTL DEF Spec
=============================================================================
