--------------------------- MODULE ReviewStatsProofs ---------------------------
(***************************************************************************)
(* A recount that nothing overtakes is exact, an order item is reviewed    *)
(* once, the columns stay in their range and a reader of all pages misses  *)
(* and repeats nothing, for any number of order items, requests, ratings   *)
(* and pages.                                                              *)
(***************************************************************************)
EXTENDS ReviewPages, SumTheorems, FiniteSetTheorems, TLAPS

\* What an undisturbed transaction has read is still what it would read.
Fresh ==
  /\ DOMAIN pc = Requests /\ DOMAIN seen = Requests
  /\ \A r \in Requests :
       r \in undisturbed /\ pc[r] = "sync" => seen[r] = StatsOf(Visible(r))

\* Only a commit changes the reviews, and it leaves no transaction undisturbed.
LEMMA FreshStep == Fresh /\ [Next]_vars => Fresh'
<1> SUFFICES ASSUME Fresh, [Next]_vars PROVE Fresh'
  OBVIOUS
<1> USE DEF Fresh
<1>1. ASSUME NEW r \in Requests,
             \/ Check(r) \/ CheckRefuses(r) \/ Write(r) \/ WriteRefused(r)
      PROVE  Fresh'
  <2>1. UNCHANGED <<reviews, item, rating, seen, undisturbed>>
        /\ \E p \in {"write", "failed", "aggregate"} : pc' = [pc EXCEPT ![r] = p]
    BY <1>1 DEF Check, CheckRefuses, Write, WriteRefused, Goto
  <2>2. \A q \in Requests : Visible(q)' = Visible(q)
    BY <2>1 DEF Visible, Written
  <2>3. QED
    BY <2>1, <2>2
<1>2. ASSUME NEW r \in Requests, Aggregate(r)
      PROVE  Fresh'
  <2>1. \A q \in Requests : Visible(q)' = Visible(q)
    BY <1>2 DEF Visible, Written, Aggregate
  <2>2. QED
    BY <1>2, <2>1 DEF Aggregate, Goto
<1>3. ASSUME NEW r \in Requests, Commit(r)
      PROVE  Fresh'
  BY <1>3 DEF Commit, Goto
<1>4. ASSUME NEW r \in Requests, RollBack(r)
      PROVE  Fresh'
  <2>1. \A q \in Requests : Visible(q)' = Visible(q)
    BY <1>4 DEF Visible, Written, RollBack
  <2>2. QED
    BY <1>4, <2>1 DEF RollBack
<1>5. ASSUME UNCHANGED vars
      PROVE  Fresh'
  BY <1>5 DEF vars, Visible, Written
<1>6. QED
  BY <1>1, <1>2, <1>3, <1>4, <1>5 DEF Next

\* A transaction no other commit has overtaken since its aggregate leaves the
\* product row exact (ReviewRepository.syncProductStats).
THEOREM RecountIsExact == Spec => RecountRepairs
<1>1. Init => Fresh
  BY DEF Init, Fresh
<1>2. Fresh /\ [Next]_vars => Fresh'
  BY FreshStep
<1>3. Fresh /\ [Next]_vars
      => [\A r \in Requests :
            r \in undisturbed /\ pc[r] = "sync" /\ pc'[r] = "done"
            => stats' = StatsOf(reviews')]_vars
  <2> SUFFICES ASSUME Fresh, Next, NEW r \in Requests,
                      r \in undisturbed, pc[r] = "sync", pc'[r] = "done"
               PROVE  stats' = StatsOf(reviews')
    BY DEF vars
  <2>1. Commit(r)
    BY DEF Next, Check, CheckRefuses, Write, WriteRefused, Aggregate, Commit,
           RollBack, Goto, Fresh, vars
  <2>2. QED
    BY <2>1 DEF Commit, Fresh, Visible
<1>4. QED
  BY <1>1, <1>2, <1>3, PTL DEF Spec, RecountRepairs

-----------------------------------------------------------------------------
(* One review for an order item.                                           *)

Done(K, i) == {r \in K : item[r] = i /\ pc[r] = "done"}

\* From its write to its end a transaction holds the lock of its review, which
\* is still there, or still missing, as it was when the database let it write.
Held ==
  /\ reviews \in [Items -> Ratings \cup {NoReview}]
  /\ DOMAIN pc = Requests /\ DOMAIN lock = Items
  /\ item \in [Requests -> Items] /\ rating \in [Requests -> Ratings \cup {NoReview}]
  /\ \A r \in Creates : rating[r] # NoReview
  /\ \A r \in Deletes : rating[r] = NoReview
  /\ \A r \in Requests :
       pc[r] \in {"aggregate", "sync"} => lock[item[r]] = {r} /\ Applies(r)

HeldOnce == Held /\ OneReviewPerOrderItem

LEMMA DoneIsFinite ==
  ASSUME NEW K \in {Creates, Deletes}, NEW i
  PROVE  IsFiniteSet(Done(K, i)) /\ Cardinality(Done(K, i)) = Answered(K, i)
<1>1. Done(K, i) \subseteq Requests
  BY DEF Done, Requests
<1>2. QED
  BY <1>1, KindAssumption, FS_Subset DEF Done, Answered

\* One more answer counts one more.
LEMMA OneMore ==
  ASSUME NEW K \in {Creates, Deletes}, NEW i, NEW r \in K, r \notin Done(K, i),
         Done(K, i)' = Done(K, i) \cup {r}
  PROVE  Answered(K, i)' = Answered(K, i) + 1 /\ Answered(K, i) \in Nat
<1>1. IsFiniteSet(Done(K, i)) /\ Cardinality(Done(K, i)) = Answered(K, i)
  BY DoneIsFinite
<1>2. Cardinality(Done(K, i) \cup {r}) = Cardinality(Done(K, i)) + 1
  BY <1>1, FS_AddElement
<1>3. Answered(K, i)' = Cardinality(Done(K, i)')
  BY DEF Done, Answered
<1>4. QED
  BY <1>1, <1>2, <1>3, FS_CardinalityType

\* A review counts as one.
LEMMA CountsAsOne ==
  ASSUME Held, NEW i \in Items
  PROVE  Cardinality({i} \cap Reviewed(reviews)) = IF reviews[i] = NoReview THEN 0 ELSE 1
<1>1. {i} \cap Reviewed(reviews) = IF reviews[i] = NoReview THEN {} ELSE {i}
  BY DEF Held, Reviewed
<1>2. QED
  BY <1>1, FS_EmptySet, FS_Singleton

LEMMA CountsAsOneNext ==
  ASSUME Held', NEW i \in Items
  PROVE  Cardinality({i} \cap Reviewed(reviews')) = IF reviews'[i] = NoReview THEN 0 ELSE 1
<1>1. {i} \cap Reviewed(reviews') = IF reviews'[i] = NoReview THEN {} ELSE {i}
  BY DEF Held, Reviewed
<1>2. QED
  BY <1>1, FS_EmptySet, FS_Singleton

LEMMA HeldInit == Init => HeldOnce
<1> SUFFICES ASSUME Init PROVE HeldOnce
  OBVIOUS
<1>1. Held
  BY DEF Init, Held
<1>2. ASSUME NEW i \in Items, NEW K \in {Creates, Deletes}
      PROVE  Answered(K, i) = 0
  <2>1. Done(K, i) = {}
    BY DEF Init, Done, Requests
  <2>2. QED
    BY <2>1, DoneIsFinite, FS_EmptySet
<1>3. \A i \in Items : reviews[i] = NoReview
  BY DEF Init
<1>4. QED
  BY <1>1, <1>2, <1>3, CountsAsOne DEF HeldOnce, OneReviewPerOrderItem

\* The steps that commit nothing.
LEMMA HeldKept ==
  ASSUME HeldOnce, NEW r \in Requests, NEW p \in {"write", "aggregate", "sync", "failed"},
         pc[r] # "done", pc' = [pc EXCEPT ![r] = p],
         UNCHANGED <<reviews, item, rating>>,
         \/ UNCHANGED lock /\ (p \in {"aggregate", "sync"} => pc[r] = "aggregate")
         \/ /\ lock[item[r]] = {} /\ lock' = [lock EXCEPT ![item[r]] = {r}] /\ Applies(r)
         \/ p = "failed" /\ lock' = [lock EXCEPT ![item[r]] = @ \ {r}]
  PROVE  HeldOnce'
<1> USE DEF HeldOnce
<1>1. Held'
  BY DEF Held, Applies
<1>2. \A K \in {Creates, Deletes} : \A i : Answered(K, i)' = Answered(K, i)
  <2> SUFFICES ASSUME NEW K \in {Creates, Deletes}, NEW i
               PROVE  Answered(K, i)' = Answered(K, i)
    OBVIOUS
  <2>1. {q \in K : item'[q] = i /\ pc'[q] = "done"} = {q \in K : item[q] = i /\ pc[q] = "done"}
    BY DEF Held, Requests
  <2>2. QED
    BY <2>1 DEF Answered
<1>3. OneReviewPerOrderItem'
  BY <1>2 DEF OneReviewPerOrderItem
<1>4. QED
  BY <1>1, <1>3

\* A commit changes the one review it has locked.
LEMMA HeldCommit ==
  ASSUME HeldOnce, NEW r \in Requests, Commit(r)
  PROVE  HeldOnce'
<1> USE DEF HeldOnce
<1> DEFINE j == item[r]
<1>1. /\ pc[r] = "sync" /\ pc' = [pc EXCEPT ![r] = "done"]
      /\ reviews' = [reviews EXCEPT ![j] = Written(r)]
      /\ lock' = [lock EXCEPT ![j] = {}]
      /\ UNCHANGED <<item, rating>>
  BY DEF Commit, Goto
<1>2. j \in Items /\ lock[j] = {r} /\ Applies(r)
  BY <1>1 DEF Held
<1>3. Written(r) \in Ratings \cup {NoReview} /\ (Written(r) = NoReview <=> r \in Deletes)
  BY <1>2, KindAssumption DEF Written, Held, Applies, Requests
<1>4. Held'
  <2>1. \A q \in Requests : pc'[q] \in {"aggregate", "sync"} => q # r /\ item[q] # j
    BY <1>1, <1>2 DEF Held
  <2>2. \A i \in Items : i # j => reviews'[i] = reviews[i] /\ lock'[i] = lock[i]
    BY <1>1 DEF Held
  <2>3. \A q \in Requests : pc'[q] \in {"aggregate", "sync"} => pc'[q] = pc[q]
    BY <1>1 DEF Held
  <2>4. QED
    BY <1>1, <1>3, <2>1, <2>2, <2>3 DEF Held, Applies
<1>5. ASSUME NEW K \in {Creates, Deletes}, NEW i, r \notin K \/ i # j
      PROVE  Answered(K, i)' = Answered(K, i)
  <2>1. {q \in K : item'[q] = i /\ pc'[q] = "done"} = {q \in K : item[q] = i /\ pc[q] = "done"}
    BY <1>1, <1>5 DEF Held, Requests
  <2>2. QED
    BY <2>1 DEF Answered
<1>6. ASSUME NEW K \in {Creates, Deletes}, r \in K, NEW i, i = j
      PROVE  Answered(K, i)' = Answered(K, i) + 1 /\ Answered(K, i) \in Nat
  <2>1. r \notin Done(K, i) /\ Done(K, i)' = Done(K, i) \cup {r}
    BY <1>1, <1>6 DEF Held, Done, Requests
  <2>2. QED
    BY <1>6, <2>1, OneMore
<1>7. ASSUME NEW i \in Items
      PROVE  Answered(Creates, i)' - Answered(Deletes, i)'
               = Cardinality({i} \cap Reviewed(reviews'))
  <2>0. /\ Answered(Creates, i) \in Nat /\ Answered(Deletes, i) \in Nat
        /\ Answered(Creates, i) - Answered(Deletes, i)
             = IF reviews[i] = NoReview THEN 0 ELSE 1
    <3>1. \A K \in {Creates, Deletes} : Answered(K, i) \in Nat
      <4> TAKE K \in {Creates, Deletes}
      <4>1. IsFiniteSet(Done(K, i)) /\ Cardinality(Done(K, i)) = Answered(K, i)
        BY DoneIsFinite
      <4>2. QED
        BY <4>1, FS_CardinalityType
    <3>2. Cardinality({i} \cap Reviewed(reviews)) = IF reviews[i] = NoReview THEN 0 ELSE 1
      BY CountsAsOne
    <3>3. QED
      BY <3>1, <3>2 DEF OneReviewPerOrderItem
  <2>1. CASE i # j
    BY <1>1, <1>4, <1>5, <2>0, <2>1, CountsAsOneNext DEF Held
  <2>2. CASE i = j /\ r \in Creates
    <3>1. reviews[j] = NoReview /\ reviews'[j] # NoReview /\ r \notin Deletes
      BY <1>1, <1>2, <1>3, <2>2, KindAssumption DEF Applies, Held
    <3>2. Answered(Creates, i)' = Answered(Creates, i) + 1
      BY <1>6, <2>2
    <3>3. Answered(Deletes, i)' = Answered(Deletes, i)
      BY <1>5, <3>1
    <3>4. Cardinality({i} \cap Reviewed(reviews')) = 1
      BY <1>4, <2>2, <3>1, CountsAsOneNext
    <3>5. QED
      BY <2>0, <2>2, <3>1, <3>2, <3>3, <3>4
  <2>3. CASE i = j /\ r \in Deletes
    <3>1. reviews[j] # NoReview /\ reviews'[j] = NoReview /\ r \notin Creates
      BY <1>1, <1>2, <1>3, <2>3, KindAssumption DEF Applies, Held
    <3>2. Answered(Deletes, i)' = Answered(Deletes, i) + 1
      BY <1>6, <2>3
    <3>3. Answered(Creates, i)' = Answered(Creates, i)
      BY <1>5, <3>1
    <3>4. Cardinality({i} \cap Reviewed(reviews')) = 0
      BY <1>4, <2>3, <3>1, CountsAsOneNext
    <3>5. QED
      BY <2>0, <2>3, <3>1, <3>2, <3>3, <3>4
  <2>4. CASE i = j /\ r \notin Creates \cup Deletes
    <3>1. reviews[j] # NoReview /\ reviews'[j] # NoReview
      BY <1>1, <1>2, <1>3, <2>4 DEF Applies, Held
    <3>2. QED
      BY <1>4, <1>5, <2>0, <2>4, <3>1, CountsAsOneNext
  <2>5. QED
    BY <2>1, <2>2, <2>3, <2>4
<1>8. QED
  BY <1>4, <1>7 DEF OneReviewPerOrderItem

LEMMA HeldStep == HeldOnce /\ [Next]_vars => HeldOnce'
<1> SUFFICES ASSUME HeldOnce, [Next]_vars PROVE HeldOnce'
  OBVIOUS
<1>1. ASSUME NEW r \in Requests, Check(r) \/ CheckRefuses(r) \/ WriteRefused(r)
      PROVE  HeldOnce'
  BY <1>1, HeldKept DEF Check, CheckRefuses, WriteRefused, Goto
<1>2. ASSUME NEW r \in Requests, Write(r)
      PROVE  HeldOnce'
  BY <1>2, HeldKept DEF Write, Accepted, Goto
<1>3. ASSUME NEW r \in Requests, Aggregate(r)
      PROVE  HeldOnce'
  BY <1>3, HeldKept DEF Aggregate, Goto
<1>4. ASSUME NEW r \in Requests, Commit(r)
      PROVE  HeldOnce'
  BY <1>4, HeldCommit
<1>5. ASSUME NEW r \in Requests, RollBack(r)
      PROVE  HeldOnce'
  BY <1>5, HeldKept DEF RollBack
<1>6. CASE UNCHANGED vars
  BY <1>6 DEF vars, HeldOnce, Held, Applies, OneReviewPerOrderItem, Answered
<1>7. QED
  BY <1>1, <1>2, <1>3, <1>4, <1>5, <1>6 DEF Next

\* The creations answered with success, less the deletions, are the reviews
\* there are, however the reads before the transactions interleave.
THEOREM ReviewedOnce == Spec => []OneReviewPerOrderItem
<1>1. HeldOnce => OneReviewPerOrderItem
  BY DEF HeldOnce
<1>2. QED
  BY HeldInit, HeldStep, <1>1, PTL DEF Spec

-----------------------------------------------------------------------------
(* The columns of the product row.                                         *)

Reviewable == [Items -> Ratings \cup {NoReview}]
StatsType == [count : Nat, rating : 0..50]

\* The mean of ratings from 1 to 5, in tenths, rounded, is between 0 and 50.
LEMMA MeanInRange ==
  ASSUME NEW n \in Nat, n # 0, NEW t \in Nat, t <= 5 * n
  PROVE  (20 * t + n) \div (2 * n) \in 0..50
<1> DEFINE a == 20 * t + n
           d == 2 * n
           q == a \div d
<1>1. a \in Nat /\ d \in Nat /\ d > 0 /\ a < 51 * d
  OBVIOUS
<1> HIDE DEF a, d
<1>2. q \in Int /\ d * q <= a /\ a < d * (q + 1)
  BY <1>1
<1> HIDE DEF q
<1>3. q >= 0
  BY <1>1, <1>2
<1>4. q <= 50
  <2> SUFFICES ASSUME q >= 51 PROVE FALSE
    BY <1>2
  <2>1. d * 51 <= d * q
    BY <1>1, <1>2
  <2> QED
    BY <1>1, <1>2, <2>1
<1> QED
  BY <1>2, <1>3, <1>4 DEF q, a, d

LEMMA StatsTyped ==
  ASSUME NEW R \in Reviewable
  PROVE  StatsOf(R) \in StatsType
<1> DEFINE S == Reviewed(R)
<1>1. S \subseteq Items /\ \A i \in S : R[i] \in Nat /\ R[i] <= 5
  <2>1. S \subseteq Items /\ \A i \in S : R[i] \in Ratings
    BY DEF Reviewed, Reviewable
  <2>2. \A x \in Ratings : x \in Nat /\ x <= 5
    BY RatingAssumption
  <2>3. QED
    BY <2>1, <2>2
<1>2. IsFiniteSet(S) /\ Cardinality(S) \in Nat
  BY <1>1, KindAssumption, FS_Subset, FS_CardinalityType
<1>3. Total(R) = SumFunctionOnSet(R, S)
  BY DEF Total, SumFunctionOnSet
<1>4. Total(R) \in Nat
  BY <1>1, <1>2, <1>3, SumIsNat
<1>5. Total(R) <= 5 * Cardinality(S)
  <2> HIDE DEF S
  <2> QED
    BY <1>1, <1>2, <1>3, SumAtMost
<1>6. Mean(R) \in 0..50
  <2>1. CASE Cardinality(S) = 0
    BY <2>1 DEF Mean
  <2>2. CASE Cardinality(S) # 0
    <3>1. Mean(R) = (20 * Total(R) + Cardinality(S)) \div (2 * Cardinality(S))
      BY <2>2 DEF Mean
    <3>2. QED
      BY <1>2, <1>4, <1>5, <2>2, <3>1, MeanInRange
  <2>3. QED
    BY <2>1, <2>2
<1>7. QED
  BY <1>2, <1>6 DEF StatsOf, StatsType

\* The lock of a review is held by one transaction or by none.
ColumnsInv ==
  /\ stats \in StatsType
  /\ seen \in [Requests -> StatsType]
  /\ undisturbed \subseteq Requests
  /\ pc \in [Requests -> {"idle", "write", "aggregate", "sync", "done", "failed"}]
  /\ lock \in [Items -> {{}} \cup {{r} : r \in Requests}]

LEMMA ColumnsStep == Held /\ ColumnsInv /\ [Next]_vars => ColumnsInv'
<1> SUFFICES ASSUME Held, ColumnsInv, [Next]_vars PROVE ColumnsInv'
  OBVIOUS
<1> USE DEF ColumnsInv
<1>1. ASSUME NEW r \in Requests, Check(r) \/ CheckRefuses(r) \/ WriteRefused(r)
      PROVE  ColumnsInv'
  BY <1>1 DEF Check, CheckRefuses, WriteRefused, Goto
<1>2. ASSUME NEW r \in Requests, Write(r)
      PROVE  ColumnsInv'
  BY <1>2 DEF Write, Goto
<1>3. ASSUME NEW r \in Requests, Aggregate(r)
      PROVE  ColumnsInv'
  <2>1. Visible(r) \in Reviewable
    BY DEF Visible, Written, Held, Reviewable
  <2>2. StatsOf(Visible(r)) \in StatsType
    BY <2>1, StatsTyped
  <2>3. QED
    BY <1>3, <2>2 DEF Aggregate, Goto
<1>4. ASSUME NEW r \in Requests, Commit(r)
      PROVE  ColumnsInv'
  <2>1. /\ pc' = [pc EXCEPT ![r] = "done"] /\ stats' = seen[r] /\ seen' = seen
        /\ lock' = [lock EXCEPT ![item[r]] = {}] /\ undisturbed' = {}
    BY <1>4 DEF Commit, Goto
  <2>2. QED
    BY <2>1
<1>5. ASSUME NEW r \in Requests, RollBack(r)
      PROVE  ColumnsInv'
  <2>1. item[r] \in Items
    BY DEF Held
  <2>2. lock[item[r]] \ {r} \in {{}} \cup {{q} : q \in Requests}
    <3>1. lock[item[r]] = {} \/ \E q \in Requests : lock[item[r]] = {q}
      BY <2>1
    <3>2. QED
      BY <3>1
  <2>3. QED
    BY <1>5, <2>2 DEF RollBack
<1>6. CASE UNCHANGED vars
  BY <1>6 DEF vars
<1>7. QED
  BY <1>1, <1>2, <1>3, <1>4, <1>5, <1>6 DEF Next

LEMMA ColumnsInit == Init => ColumnsInv
<1> SUFFICES ASSUME Init PROVE ColumnsInv
  OBVIOUS
<1>1. reviews \in Reviewable
  BY DEF Init, Reviewable
<1>2. StatsOf(reviews) \in StatsType
  BY <1>1, StatsTyped
<1>3. QED
  BY <1>2 DEF Init, ColumnsInv

\* For any ratings, the rating of the product row is between 0 and 5 stars and
\* the lock of a review is held by one transaction at most.
THEOREM ColumnsInRange == Spec => []TypeOK
<1>1. ColumnsInv => \A i \in Items : Cardinality(lock[i]) <= 1 /\ lock[i] \in SUBSET Requests
  <2> SUFFICES ASSUME ColumnsInv, NEW i \in Items
               PROVE  Cardinality(lock[i]) <= 1 /\ lock[i] \in SUBSET Requests
    OBVIOUS
  <2>1. lock[i] = {} \/ \E r \in Requests : lock[i] = {r}
    BY DEF ColumnsInv
  <2>2. CASE lock[i] = {}
    BY <2>2, FS_EmptySet
  <2>3. ASSUME NEW r \in Requests, lock[i] = {r}
        PROVE  Cardinality(lock[i]) <= 1 /\ lock[i] \in SUBSET Requests
    <3>1. Cardinality({r}) = 1
      BY FS_Singleton
    <3>2. QED
      BY <2>3, <3>1
  <2>4. QED
    BY <2>1, <2>2, <2>3
<1>2. Held /\ ColumnsInv => TypeOK
  BY <1>1 DEF Held, ColumnsInv, StatsType, TypeOK
<1>3. HeldOnce => Held
  BY DEF HeldOnce
<1>4. QED
  BY HeldInit, HeldStep, ColumnsInit, ColumnsStep, <1>2, <1>3, PTL DEF Spec

-----------------------------------------------------------------------------
(* The pages.                                                              *)

PagesTyped ==
  /\ maker \in [Items -> Creates \cup {NoReview}]
  /\ createdAt \in [Creates -> Nat]
  /\ reader \in [at : {"idle", "page", "end"}, page : Nat \ {0}, rows : BOOLEAN,
                 total : Int, shown : SUBSET Creates]
  /\ past \in [first : SUBSET Creates, twice : SUBSET Creates,
               came : BOOLEAN, went : BOOLEAN, torn : BOOLEAN]

\* The list has the reviews of the table, each of a creation that is over.
MakersAgree ==
  \A i \in Items :
    /\ maker[i] = NoReview <=> reviews[i] = NoReview
    /\ maker[i] # NoReview => pc[maker[i]] = "done"

\* How far into the list the reader has read.
Reach == IF reader.rows THEN Skip(reader.page) + Limit ELSE Skip(reader.page)

\* While nothing goes, what was there and was not shown lies behind the rows
\* read so far, and the total will tell; while nothing comes, what was shown
\* lies before them.
Behind(x) ==
  /\ x \in Listed /\ Place(x) > Reach
  /\ reader.rows /\ reader.total >= 0 => reader.total > Reach
ReadingInv ==
  /\ reader.at = "idle" => /\ reader.shown = {} /\ past.twice = {} /\ reader.page = 1
                           /\ ~ reader.rows /\ reader.total < 0
  /\ reader.at = "page" /\ ~ past.went /\ ~ past.torn =>
       /\ \A x \in past.first \ reader.shown : Behind(x)
       /\ reader.total >= 0 /\ ~ reader.rows => Cardinality(Listed) <= reader.total
  /\ reader.at = "page" /\ ~ past.came =>
       \A x \in reader.shown \cap Listed : Place(x) <= Reach
  /\ PagesComplete

PagesInv == PagesTyped /\ MakersAgree /\ ReadingInv

-----------------------------------------------------------------------------
(* The list.                                                               *)

LEMMA PlaceIsNat ==
  \A x : /\ IsFiniteSet(Listed) /\ Cardinality(Listed) \in Nat
         /\ Place(x) \in Nat /\ Place(x) <= Cardinality(Listed)
<1> TAKE x
<1>1. Listed \subseteq Requests /\ NotOlder(x) \subseteq Listed
  BY DEF Listed, NotOlder, Requests
<1>2. IsFiniteSet(Listed) /\ IsFiniteSet(NotOlder(x))
  BY <1>1, KindAssumption, FS_Subset
<1>3. QED
  BY <1>1, <1>2, FS_Subset, FS_CardinalityType DEF Place

LEMMA PlaceIsPositive ==
  ASSUME PagesTyped, NEW x \in Listed
  PROVE  Place(x) > 0
<1>1. x \in NotOlder(x) /\ NotOlder(x) \subseteq Listed
  BY DEF NotOlder, PagesTyped, Listed
<1>2. IsFiniteSet(NotOlder(x))
  BY <1>1, PlaceIsNat, FS_Subset
<1>3. Place(x) # 0
  BY <1>1, <1>2, FS_EmptySet DEF Place
<1>4. QED
  BY <1>3, PlaceIsNat

\* What a step of ReviewStats does to who has come and gone.
LEMMA WhoMoves ==
  ASSUME Held, ColumnsInv, Next
  PROVE  \/ Came = {} /\ Went = {} /\ \A i \in Items : reviews'[i] = NoReview <=> reviews[i] = NoReview
         \/ \E r \in Creates : /\ Came = {r} /\ Went = {} /\ pc'[r] = "done"
                                /\ reviews[item[r]] = NoReview
                                /\ \A i \in Items : reviews'[i] = NoReview
                                      <=> (reviews[i] = NoReview /\ i # item[r])
         \/ \E r \in Deletes : /\ Came = {} /\ Went = {r}
                                /\ \A i \in Items : reviews'[i] = NoReview
                                      <=> (reviews[i] = NoReview \/ i = item[r])
<1> USE DEF Came, Went, Moving
<1>1. ASSUME NEW r \in Requests,
             \/ Check(r) \/ CheckRefuses(r) \/ Write(r) \/ WriteRefused(r)
             \/ Aggregate(r) \/ RollBack(r)
      PROVE  Came = {} /\ Went = {} /\ reviews' = reviews
  <2>1. reviews' = reviews
        /\ \E p \in {"write", "aggregate", "sync", "failed"} : pc' = [pc EXCEPT ![r] = p]
    BY <1>1 DEF Check, CheckRefuses, Write, WriteRefused, Aggregate, RollBack, Goto
  <2>2. \A q \in Requests : ~ (pc[q] = "sync" /\ pc'[q] = "done")
    BY <2>1 DEF ColumnsInv
  <2>3. QED
    BY <2>1, <2>2 DEF Requests
<1>2. ASSUME NEW r \in Requests, Commit(r)
      PROVE  /\ pc[r] = "sync" /\ pc'[r] = "done"
             /\ \A q \in Requests : pc[q] = "sync" /\ pc'[q] = "done" => q = r
             /\ item[r] \in Items /\ Applies(r)
             /\ \A i \in Items : reviews'[i] = IF i = item[r] THEN Written(r) ELSE reviews[i]
             /\ Written(r) = NoReview <=> r \in Deletes
  <2>1. /\ pc[r] = "sync" /\ pc' = [pc EXCEPT ![r] = "done"]
        /\ reviews' = [reviews EXCEPT ![item[r]] = Written(r)]
    BY <1>2 DEF Commit, Goto
  <2>2. item[r] \in Items /\ Applies(r)
    BY <2>1 DEF Held
  <2>3. Written(r) = NoReview <=> r \in Deletes
    BY <2>2, KindAssumption DEF Written, Held, Applies, Requests
  <2>4. QED
    BY <2>1, <2>2, <2>3 DEF ColumnsInv, Held
<1>3. ASSUME NEW r \in Creates, Commit(r)
      PROVE  /\ Came = {r} /\ Went = {} /\ pc'[r] = "done" /\ reviews[item[r]] = NoReview
             /\ \A i \in Items : reviews'[i] = NoReview
                                   <=> (reviews[i] = NoReview /\ i # item[r])
  BY <1>2, <1>3, KindAssumption DEF Requests, Applies
<1>4. ASSUME NEW r \in Deletes, Commit(r)
      PROVE  /\ Came = {} /\ Went = {r}
             /\ \A i \in Items : reviews'[i] = NoReview
                                   <=> (reviews[i] = NoReview \/ i = item[r])
  BY <1>2, <1>4, KindAssumption DEF Requests
<1>5. ASSUME NEW r \in Updates, Commit(r)
      PROVE  /\ Came = {} /\ Went = {}
             /\ \A i \in Items : reviews'[i] = NoReview <=> reviews[i] = NoReview
  BY <1>2, <1>5, KindAssumption DEF Requests, Applies
<1>6. ASSUME UNCHANGED vars
      PROVE  Came = {} /\ Went = {} /\ reviews' = reviews
  BY <1>6 DEF vars
<1>7. CASE \E r \in Requests : Commit(r)
  BY <1>3, <1>4, <1>5, <1>7 DEF Requests
<1>8. QED
  BY <1>1, <1>6, <1>7 DEF Next

\* A creation that was answered stays answered.
LEMMA DoneStays ==
  ASSUME ColumnsInv, Next, NEW r \in Requests, pc[r] = "done"
  PROVE  pc'[r] = "done"
BY DEF ColumnsInv, Next, Check, CheckRefuses, Write, WriteRefused, Aggregate, Commit,
       RollBack, Goto, vars

\* The list gains the review of a creation and loses that of a deletion, and
\* keeps the times of the others.
LEMMA ListStep ==
  ASSUME PagesTyped, MakersAgree, Held, ColumnsInv, Writing
  PROVE  /\ MakersAgree'
         /\ maker' \in [Items -> Creates \cup {NoReview}]
         /\ createdAt' \in [Creates -> Nat]
         /\ Came = {} => Listed' \subseteq Listed
         /\ Went = {} => Listed \subseteq Listed'
         /\ \A x \in Listed : createdAt'[x] = createdAt[x]
<1> USE DEF PagesTyped
<1>0. Next /\ NoReview \notin Creates /\ Creates \subseteq Requests
  BY LimitAssumption DEF Writing, Requests
<1> DEFINE Moved(i) == \E r \in Came \cup Went : item[r] = i
<1>1. maker' = [i \in Items |->
                  IF Moved(i) THEN IF Came = {} THEN NoReview ELSE CHOOSE r \in Came : TRUE
                  ELSE maker[i]]
  BY DEF Writing
<1> HIDE DEF Moved
<1>2. \A x \in Listed : x \in Creates /\ pc[x] = "done"
  BY <1>0 DEF Listed, MakersAgree
<1>3. createdAt' = [r \in Creates |->
                      IF r \in Moving(Creates, "write", "aggregate")
                      THEN 1 + Cardinality({q \in Creates : createdAt[q] > 0})
                      ELSE createdAt[r]]
  BY DEF Writing
<1>4. \A x \in Listed : createdAt'[x] = createdAt[x]
  BY <1>2, <1>3 DEF Moving
<1>5. createdAt' \in [Creates -> Nat]
  <2>1. IsFiniteSet({q \in Creates : createdAt[q] > 0})
    BY <1>0, KindAssumption, FS_Subset
  <2>2. Cardinality({q \in Creates : createdAt[q] > 0}) \in Nat
    BY <2>1, FS_CardinalityType
  <2>3. QED
    BY <1>3, <2>2
<1>6. \A i \in Items : maker[i] # NoReview => pc'[maker[i]] = "done"
  BY <1>0, DoneStays DEF MakersAgree
<1>7. CASE Came = {} /\ Went = {} /\ \A i \in Items : reviews'[i] = NoReview <=> reviews[i] = NoReview
  <2>1. maker' = maker
    BY <1>1, <1>7 DEF Moved
  <2>2. QED
    BY <1>4, <1>5, <1>6, <1>7, <2>1 DEF MakersAgree, Listed
<1>8. ASSUME NEW r \in Creates, Came = {r}, Went = {}, pc'[r] = "done",
             reviews[item[r]] = NoReview,
             \A i \in Items : reviews'[i] = NoReview <=> (reviews[i] = NoReview /\ i # item[r])
      PROVE  /\ MakersAgree' /\ maker' \in [Items -> Creates \cup {NoReview}]
             /\ Listed \subseteq Listed'
  <2>1. maker' = [i \in Items |-> IF i = item[r] THEN r ELSE maker[i]]
    <3>1. (CHOOSE q \in Came : TRUE) = r /\ Came # {}
      BY <1>8
    <3>2. \A i : Moved(i) <=> i = item[r]
      BY <1>8 DEF Moved
    <3>3. QED
      BY <1>1, <3>1, <3>2
  <2>2. \A i \in Items : maker'[i] = IF i = item[r] THEN r ELSE maker[i]
    BY <2>1
  <2>3. MakersAgree'
    BY <1>0, <1>6, <1>8, <2>2 DEF MakersAgree
  <2>4. \A i \in Items : maker[i] # NoReview => maker'[i] = maker[i]
    BY <1>8, <2>2 DEF MakersAgree
  <2>5. Listed \subseteq Listed'
    BY <1>0, <2>4 DEF Listed
  <2>6. QED
    BY <2>1, <2>3, <2>5
<1>9. ASSUME NEW r \in Deletes, Came = {}, Went = {r},
             \A i \in Items : reviews'[i] = NoReview <=> (reviews[i] = NoReview \/ i = item[r])
      PROVE  /\ MakersAgree' /\ maker' \in [Items -> Creates \cup {NoReview}]
             /\ Listed' \subseteq Listed
  <2>1. maker' = [i \in Items |-> IF i = item[r] THEN NoReview ELSE maker[i]]
    <3>1. \A i : Moved(i) <=> i = item[r]
      BY <1>9 DEF Moved
    <3>2. QED
      BY <1>1, <1>9, <3>1
  <2>2. \A i \in Items : maker'[i] = IF i = item[r] THEN NoReview ELSE maker[i]
    BY <2>1
  <2>3. MakersAgree'
    BY <1>6, <1>9, <2>2 DEF MakersAgree
  <2>4. Listed' \subseteq Listed
    BY <1>0, <2>2 DEF Listed
  <2>5. QED
    BY <2>1, <2>3, <2>4
<1>10. QED
  BY <1>0, <1>4, <1>5, <1>7, <1>8, <1>9, WhoMoves

-----------------------------------------------------------------------------
(* The reader.                                                             *)

LEMMA NextSkip ==
  ASSUME NEW p \in Nat \ {0}
  PROVE  /\ Skip(p) \in Nat /\ Limit \in Nat /\ Limit > 0
         /\ Skip(p + 1) = Skip(p) + Limit /\ Skip(1) = 0
<1>1. Limit \in Nat /\ Limit > 0
  BY LimitAssumption
<1>2. (p - 1) * Limit \in Nat /\ ((p + 1) - 1) * Limit = (p - 1) * Limit + Limit
      /\ (1 - 1) * Limit = 0
  BY <1>1
<1> QED
  BY <1>1, <1>2 DEF Skip

\* Others write while the reader reads.
LEMMA WritingStep ==
  ASSUME PagesInv, Held, ColumnsInv, Writing
  PROVE  PagesInv'
<1> USE DEF PagesInv
<1>1. /\ MakersAgree'
      /\ maker' \in [Items -> Creates \cup {NoReview}] /\ createdAt' \in [Creates -> Nat]
      /\ Came = {} => Listed' \subseteq Listed
      /\ Went = {} => Listed \subseteq Listed'
      /\ \A x \in Listed : createdAt'[x] = createdAt[x]
  BY ListStep
<1>2. /\ reader' = reader
      /\ past' = IF reader.at # "page" THEN past
                 ELSE [past EXCEPT
                         !.came = @ \/ Came # {},
                         !.went = @ \/ Went # {},
                         !.torn = @ \/ (Came # {} /\ reader.total >= 0 /\ ~ reader.rows)]
  BY DEF Writing
<1>3. /\ past'.first = past.first /\ past'.twice = past.twice
      /\ past' \in [first : SUBSET Creates, twice : SUBSET Creates,
                    came : BOOLEAN, went : BOOLEAN, torn : BOOLEAN]
  BY <1>2 DEF PagesTyped
<1>4. PagesTyped'
  BY <1>1, <1>2, <1>3 DEF PagesTyped
<1>5. CASE reader.at # "page"
  <2>1. past' = past
    BY <1>2, <1>5
  <2>2. QED
    BY <1>1, <1>2, <1>4, <1>5, <2>1 DEF ReadingInv, PagesComplete
<1>6. CASE reader.at = "page"
  <2>1. /\ ~ past'.came => ~ past.came /\ Came = {}
        /\ ~ past'.went => ~ past.went /\ Went = {}
        /\ ~ past'.torn => ~ past.torn /\ (Came = {} \/ ~ reader.total >= 0 \/ reader.rows)
    BY <1>2, <1>6 DEF PagesTyped
  <2>2. \A x : /\ IsFiniteSet(Listed) /\ IsFiniteSet(Listed') /\ Cardinality(Listed) \in Nat
               /\ Cardinality(Listed') \in Nat /\ Place(x) \in Nat /\ Place(x)' \in Nat
    <3>1. (\A x : /\ IsFiniteSet(Listed) /\ Cardinality(Listed) \in Nat
                  /\ Place(x) \in Nat /\ Place(x) <= Cardinality(Listed))'
      BY PlaceIsNat, PTL
    <3>2. QED
      BY <3>1, PlaceIsNat
  <2>3. ASSUME Went = {}, NEW x \in Listed
        PROVE  x \in Listed' /\ Place(x) <= Place(x)'
    <3>1. x \in Listed' /\ NotOlder(x) \subseteq NotOlder(x)'
      BY <1>1, <2>3 DEF NotOlder
    <3>2. NotOlder(x)' \subseteq Listed'
      BY DEF NotOlder
    <3>3. QED
      BY <2>2, <3>1, <3>2, FS_Subset DEF Place
  <2>4. ASSUME Came = {}, NEW x \in Listed'
        PROVE  x \in Listed /\ Place(x)' <= Place(x)
    <3>1. x \in Listed /\ NotOlder(x)' \subseteq NotOlder(x)
      BY <1>1, <2>4 DEF NotOlder
    <3>2. NotOlder(x) \subseteq Listed
      BY DEF NotOlder
    <3>3. QED
      BY <2>2, <3>1, <3>2, FS_Subset DEF Place
  <2>5. Reach' = Reach /\ Reach \in Nat
    BY <1>2, NextSkip DEF Reach, PagesTyped
  <2>6. ASSUME ~ past'.went, ~ past'.torn
        PROVE  /\ \A x \in past'.first \ reader'.shown : Behind(x)'
               /\ reader'.total >= 0 /\ ~ reader'.rows => Cardinality(Listed') <= reader'.total
    <3>1. \A x \in past'.first \ reader'.shown : Behind(x)
      BY <1>2, <1>3, <1>6, <2>1, <2>6 DEF ReadingInv
    <3>2. \A x \in past'.first \ reader'.shown : Behind(x)'
      BY <1>2, <2>1, <2>2, <2>3, <2>5, <2>6, <3>1 DEF Behind
    <3>3. ASSUME reader.total >= 0, ~ reader.rows
          PROVE  Cardinality(Listed') <= reader.total
      <4>1. Listed' \subseteq Listed /\ Cardinality(Listed) <= reader.total
        BY <1>1, <1>6, <2>1, <2>6, <3>3 DEF ReadingInv
      <4>2. Cardinality(Listed') <= Cardinality(Listed)
        BY <2>2, <4>1, FS_Subset
      <4>3. QED
        BY <2>2, <4>1, <4>2 DEF PagesTyped
    <3>4. QED
      BY <1>2, <3>2, <3>3
  <2>7. ASSUME ~ past'.came, NEW x \in reader'.shown \cap Listed'
        PROVE  Place(x)' <= Reach'
    <3>1. x \in Listed /\ Place(x)' <= Place(x) /\ x \in reader.shown
      BY <1>2, <2>1, <2>4, <2>7
    <3>2. Place(x) <= Reach
      BY <1>6, <2>1, <2>7, <3>1 DEF ReadingInv
    <3>3. QED
      BY <2>2, <2>5, <3>1, <3>2
  <2>8. PagesComplete'
    BY <1>2, <1>3, <1>6, <2>1 DEF ReadingInv, PagesComplete
  <2>9. ReadingInv'
    BY <1>2, <1>6, <2>6, <2>7, <2>8 DEF ReadingInv
  <2>10. QED
    BY <1>1, <1>4, <2>9
<1>7. QED
  BY <1>5, <1>6

LEMMA AskStep ==
  ASSUME PagesInv, Ask
  PROVE  PagesInv'
<1> USE DEF PagesInv
<1>1. /\ reader.at = "idle" /\ reader' = [reader EXCEPT !.at = "page"]
      /\ past' = [past EXCEPT !.first = Listed]
      /\ UNCHANGED <<reviews, pc, createdAt, maker>>
  BY DEF Ask, vars
<1>2. Listed \subseteq Creates
  BY DEF Listed
<1>3. PagesTyped' /\ MakersAgree'
  BY <1>1, <1>2 DEF PagesTyped, MakersAgree
<1>4. Listed' = Listed /\ \A x : Place(x)' = Place(x)
  BY <1>1 DEF Listed, Place, NotOlder
<1>5. /\ reader'.at = "page" /\ reader'.shown = {} /\ ~ reader'.rows /\ reader'.total < 0
      /\ reader'.page = 1
      /\ past'.first = Listed /\ past'.twice = {}
  BY <1>1 DEF PagesTyped, ReadingInv
<1>6. Reach' = 0
  BY <1>5, NextSkip DEF Reach
<1>7. \A x \in past'.first \ reader'.shown : Behind(x)'
  BY <1>4, <1>5, <1>6, PlaceIsPositive DEF Behind
<1>8. ReadingInv'
  BY <1>3, <1>5, <1>7 DEF ReadingInv, PagesComplete, PagesTyped
<1>9. QED
  BY <1>3, <1>8

LEMMA ReadRowsStep ==
  ASSUME PagesInv, ReadRows
  PROVE  PagesInv'
<1> USE DEF PagesInv
<1> DEFINE rows == PageOf(reader.page)
           skip == Skip(reader.page)
<1>1. /\ reader.at = "page" /\ ~ reader.rows
      /\ reader' = [reader EXCEPT !.rows = TRUE, !.shown = @ \cup rows]
      /\ past' = [past EXCEPT !.twice = @ \cup (rows \cap reader.shown)]
      /\ UNCHANGED <<reviews, pc, createdAt, maker>>
  BY DEF ReadRows, vars
<1>2. rows \subseteq Listed /\ Listed \subseteq Creates
  BY DEF PageOf, Listed
<1>3. PagesTyped' /\ MakersAgree'
  BY <1>1, <1>2 DEF PagesTyped, MakersAgree
<1>4. Listed' = Listed /\ \A x : Place(x)' = Place(x) /\ Place(x) \in Nat
                              /\ Place(x) <= Cardinality(Listed) /\ Cardinality(Listed) \in Nat
  BY <1>1, PlaceIsNat DEF Listed, Place, NotOlder
<1>5. /\ reader'.at = "page" /\ reader'.rows /\ reader'.total = reader.total
      /\ reader'.page = reader.page /\ reader'.shown = reader.shown \cup rows
      /\ past'.first = past.first /\ past'.twice = past.twice \cup (rows \cap reader.shown)
      /\ past'.came = past.came /\ past'.went = past.went /\ past'.torn = past.torn
      /\ reader.total \in Int
  BY <1>1 DEF PagesTyped
<1>6. /\ Reach = skip /\ Reach' = skip + Limit /\ skip \in Nat /\ Limit \in Nat
  BY <1>1, <1>5, NextSkip DEF Reach, PagesTyped
<1>7. \A x : x \in rows <=> x \in Listed /\ Place(x) > skip /\ Place(x) <= skip + Limit
  BY <1>4, <1>6 DEF PageOf
<1> HIDE DEF rows, skip
<1>8. ASSUME ~ past.went, ~ past.torn, NEW x \in past'.first \ reader'.shown
      PROVE  Behind(x)'
  <2>1. Behind(x) /\ x \notin rows
    BY <1>1, <1>5, <1>8 DEF ReadingInv
  <2>2. x \in Listed' /\ Place(x) > skip + Limit
    BY <1>4, <1>6, <1>7, <2>1 DEF Behind
  <2>3. reader.total >= 0 => Cardinality(Listed) <= reader.total
    BY <1>1, <1>8 DEF ReadingInv
  <2>4. reader.total >= 0 => reader.total > skip + Limit
    BY <1>4, <1>5, <1>6, <2>2, <2>3
  <2>5. QED
    BY <1>4, <1>5, <1>6, <2>2, <2>4 DEF Behind
<1>9. ASSUME ~ past.came
      PROVE  past'.twice = {} /\ \A x \in reader'.shown \cap Listed' : Place(x)' <= Reach'
  <2>1. past.twice = {} /\ \A x \in reader.shown \cap Listed : Place(x) <= skip
    BY <1>1, <1>6, <1>9 DEF ReadingInv, PagesComplete
  <2>2. rows \cap reader.shown = {}
    BY <1>2, <1>4, <1>6, <1>7, <2>1
  <2>3. \A x \in reader'.shown \cap Listed : Place(x) <= skip + Limit
    BY <1>4, <1>5, <1>6, <1>7, <2>1
  <2>4. QED
    BY <1>4, <1>5, <1>6, <2>1, <2>2, <2>3
<1>10. ReadingInv'
  BY <1>5, <1>8, <1>9 DEF ReadingInv, PagesComplete
<1>11. QED
  BY <1>3, <1>10

LEMMA CountRowsStep ==
  ASSUME PagesInv, CountRows
  PROVE  PagesInv'
<1> USE DEF PagesInv
<1>1. /\ reader.at = "page" /\ reader.total < 0
      /\ reader' = [reader EXCEPT !.total = Cardinality(Listed)]
      /\ UNCHANGED <<reviews, pc, createdAt, maker, past>>
  BY DEF CountRows, vars
<1>2. Listed' = Listed /\ \A x : Place(x)' = Place(x) /\ Place(x) \in Nat
                              /\ Place(x) <= Cardinality(Listed) /\ Cardinality(Listed) \in Nat
  BY <1>1, PlaceIsNat DEF Listed, Place, NotOlder
<1>3. PagesTyped' /\ MakersAgree'
  BY <1>1, <1>2 DEF PagesTyped, MakersAgree
<1>4. /\ reader'.at = "page" /\ reader'.rows = reader.rows
      /\ reader'.total = Cardinality(Listed)
      /\ reader'.page = reader.page /\ reader'.shown = reader.shown
  BY <1>1 DEF PagesTyped
<1>5. Reach' = Reach /\ Reach \in Nat
  BY <1>4, NextSkip DEF Reach, PagesTyped
<1>6. \A x : Behind(x) => Behind(x)'
  BY <1>2, <1>4, <1>5 DEF Behind
<1>7. ReadingInv'
  BY <1>1, <1>2, <1>4, <1>5, <1>6 DEF ReadingInv, PagesComplete
<1>8. QED
  BY <1>3, <1>7

\* The last page has nothing behind it.
LEMMA TurnPageStep ==
  ASSUME PagesInv, TurnPage
  PROVE  PagesInv'
<1> USE DEF PagesInv
<1>1. /\ reader.at = "page" /\ reader.rows /\ reader.total >= 0
      /\ UNCHANGED <<reviews, pc, createdAt, maker, past>>
  BY DEF TurnPage, vars
<1>2. Listed' = Listed /\ \A x : Place(x)' = Place(x)
  BY <1>1 DEF Listed, Place, NotOlder
<1>3. Reach = Skip(reader.page) + Limit
  BY <1>1 DEF Reach
<1>4. CASE HasNextPage(reader.page, reader.total)
  <2>1. reader' = [reader EXCEPT !.page = @ + 1, !.rows = FALSE, !.total = -1]
    BY <1>4 DEF TurnPage
  <2>2. PagesTyped' /\ MakersAgree'
    <3>1. reader.page + 1 \in Nat \ {0} /\ -1 \in Int
      BY DEF PagesTyped
    <3>2. reader' \in [at : {"idle", "page", "end"}, page : Nat \ {0}, rows : BOOLEAN,
                      total : Int, shown : SUBSET Creates]
      BY <2>1, <3>1 DEF PagesTyped
    <3>3. QED
      BY <1>1, <3>2 DEF PagesTyped, MakersAgree
  <2>3. /\ reader'.at = "page" /\ ~ reader'.rows /\ reader'.total = -1
        /\ reader'.page = reader.page + 1 /\ reader'.shown = reader.shown
    BY <1>1, <2>1 DEF PagesTyped
  <2>4. Reach' = Reach
    BY <1>3, <2>3, NextSkip DEF Reach, PagesTyped
  <2>5. \A x : Behind(x) => Behind(x)'
    BY <1>2, <2>3, <2>4 DEF Behind
  <2>6. ReadingInv'
    BY <1>1, <1>2, <2>3, <2>4, <2>5 DEF ReadingInv, PagesComplete
  <2>7. QED
    BY <2>2, <2>6
<1>5. CASE ~ HasNextPage(reader.page, reader.total)
  <2>1. reader' = [reader EXCEPT !.at = "end"]
    BY <1>5 DEF TurnPage
  <2>2. PagesTyped' /\ MakersAgree'
    BY <1>1, <2>1 DEF PagesTyped, MakersAgree
  <2>3. reader'.at = "end" /\ reader'.shown = reader.shown
    BY <2>1 DEF PagesTyped
  <2>4. \A x : ~ Behind(x)
    BY <1>1, <1>3, <1>5 DEF Behind, HasNextPage
  <2>5. ~ past.went /\ ~ past.torn => past.first \subseteq reader.shown
    BY <1>1, <2>4 DEF ReadingInv
  <2>6. ReadingInv'
    BY <1>1, <2>3, <2>5 DEF ReadingInv, PagesComplete
  <2>7. QED
    BY <2>2, <2>6
<1>6. QED
  BY <1>4, <1>5

\* Reading leaves the reviews alone, so what is proved of Spec holds of
\* PagesSpec.
LEMMA PagesAreOfReviews == PagesSpec => Spec
<1>1. PagesInit => Init
  BY DEF PagesInit
<1>2. [PagesNext]_allVars => [Next]_vars
  BY DEF PagesNext, allVars, Writing, Ask, ReadRows, CountRows, TurnPage
<1>3. QED
  BY <1>1, <1>2, PTL DEF PagesSpec, Spec

\* For any number of reviews, whatever is written meanwhile: a reader who turns
\* pages to the end has seen every review there was at the start, unless one
\* was deleted or came within a page, and none twice unless one came.
THEOREM ReaderSeesAll == PagesSpec => []PagesComplete
<1>1. PagesInit => PagesInv
  BY DEF PagesInit, Init, PagesInv, PagesTyped, MakersAgree, ReadingInv, PagesComplete
<1>2. PagesInv /\ Held /\ ColumnsInv /\ [PagesNext]_allVars => PagesInv'
  <2>1. PagesInv /\ UNCHANGED allVars => PagesInv'
    BY DEF allVars, vars, pageVars, PagesInv, PagesTyped, MakersAgree, ReadingInv,
       PagesComplete, Behind, Reach, Place, NotOlder, Listed
  <2>2. QED
    BY <2>1, WritingStep, AskStep, ReadRowsStep, CountRowsStep, TurnPageStep DEF PagesNext
<1>3. Spec => []HeldOnce /\ []ColumnsInv
  BY HeldInit, HeldStep, ColumnsInit, ColumnsStep, PTL DEF Spec, HeldOnce
<1>4. PagesInv => PagesComplete
  BY DEF PagesInv, ReadingInv
<1>5. HeldOnce => Held
  BY DEF HeldOnce
<1>6. QED
  BY PagesAreOfReviews, <1>1, <1>2, <1>3, <1>4, <1>5, PTL DEF PagesSpec
=============================================================================
