----------------------------- MODULE ReviewStats -------------------------------
(***************************************************************************)
(* The reviews of one product and the two columns of its row that repeat   *)
(* them, reviewsCount and reviewsRating: ReviewService and                 *)
(* ReviewRepository (src/src/domains/review).                              *)
(*                                                                         *)
(* A request reads outside its transaction; the transaction writes one     *)
(* review, which locks the row (a new one: its entry in the unique index   *)
(* on orderItemId) until the end, aggregates what it can see, and writes   *)
(* the product row.  Under READ COMMITTED it sees what is committed and    *)
(* what it wrote itself.  The update of the product row waits for another  *)
(* transaction's; nothing follows it, so update and commit are one step.   *)
(***************************************************************************)
EXTENDS Integers, FiniteSets, Functions, FiniteSetsExt

CONSTANTS
  Items,     \* order items of the product, each of one buyer
  Creates,   \* POST requests
  Updates,   \* PATCH requests
  Deletes,   \* DELETE requests
  Ratings,
  NoReview

ASSUME RatingAssumption == Ratings \subseteq 1..5 /\ NoReview \notin Ratings

Requests == Creates \cup Updates \cup Deletes

ASSUME KindAssumption ==
  /\ Creates \cap Updates = {} /\ Creates \cap Deletes = {}
  /\ Updates \cap Deletes = {}
  /\ IsFiniteSet(Requests) /\ IsFiniteSet(Items)

VARIABLES
  reviews,   \* of an order item: the rating given, or NoReview
  stats,     \* reviewsCount and reviewsRating of the product row
  lock,      \* of an order item: the transactions that hold its review's lock
  pc, item, rating,  \* of a request: place, its order item, the rating it gives
  seen,      \* of a request: the aggregate it has read
  undisturbed \* requests since whose aggregate no other has committed

vars == <<reviews, stats, lock, pc, item, rating, seen, undisturbed>>

-----------------------------------------------------------------------------
(* syncProductStats.                                                       *)

Reviewed(R) == {i \in DOMAIN R : R[i] # NoReview}
Total(R) == FoldFunctionOnSet(+, 0, R, Reviewed(R))

\* avg.toFixed(1), in tenths; a tie goes up.  0 when there is no review.
Summed(R) == 10 * Total(R)           \* faulty: _sum for _avg
Mean(R) ==
  LET n == Cardinality(Reviewed(R))
  IN  IF n = 0 THEN 0 ELSE (20 * Total(R) + n) \div (2 * n)

StatsOf(R) == [count |-> Cardinality(Reviewed(R)), rating |-> Mean(R)]

\* What the transaction of r makes of its review; a PATCH may leave the rating
\* as it is.
Written(r) ==
  IF r \in Updates /\ rating[r] = NoReview THEN reviews[item[r]] ELSE rating[r]

\* The reviews as the transaction of r sees them.
Committed(r) == reviews              \* faulty: aggregates outside of tx
Visible(r) == [reviews EXCEPT ![item[r]] = Written(r)]

-----------------------------------------------------------------------------
Init ==
  /\ reviews = [i \in Items |-> NoReview]
  /\ stats = StatsOf(reviews)
  /\ lock = [i \in Items |-> {}]
  /\ pc = [r \in Requests |-> "idle"]
  /\ item \in [Requests -> Items]
  /\ rating \in [Requests -> Ratings \cup {NoReview}]
  /\ \A r \in Creates : rating[r] # NoReview
  /\ \A r \in Deletes : rating[r] = NoReview
  /\ seen = [r \in Requests |-> StatsOf(reviews)]
  /\ undisturbed = {}

Goto(r, from, to) == pc[r] = from /\ pc' = [pc EXCEPT ![r] = to]

\* createReview finds no review of the order item; updateReview and
\* deleteReview find theirs.
Applies(r) == r \in Creates <=> reviews[item[r]] = NoReview

\* The database's own answer, once it holds the lock: P2002 from the unique
\* index, P2025 when the row is gone.
Trusted(r) == TRUE                   \* faulty: no unique index
Accepted(r) == Applies(r)

Check(r) ==
  /\ Applies(r)
  /\ Goto(r, "idle", "write")
  /\ UNCHANGED <<reviews, stats, lock, item, rating, seen, undisturbed>>

CheckRefuses(r) ==
  /\ ~ Applies(r)
  /\ Goto(r, "idle", "failed")
  /\ UNCHANGED <<reviews, stats, lock, item, rating, seen, undisturbed>>

Write(r) ==
  /\ lock[item[r]] = {}
  /\ Accepted(r)
  /\ Goto(r, "write", "aggregate")
  /\ lock' = [lock EXCEPT ![item[r]] = {r}]
  /\ UNCHANGED <<reviews, stats, item, rating, seen, undisturbed>>

WriteRefused(r) ==
  /\ lock[item[r]] = {}
  /\ ~ Accepted(r)
  /\ Goto(r, "write", "failed")
  /\ UNCHANGED <<reviews, stats, lock, item, rating, seen, undisturbed>>

Aggregate(r) ==
  /\ Goto(r, "aggregate", "sync")
  /\ seen' = [seen EXCEPT ![r] = StatsOf(Visible(r))]
  /\ undisturbed' = undisturbed \cup {r}
  /\ UNCHANGED <<reviews, stats, lock, item, rating>>

Commit(r) ==
  /\ Goto(r, "sync", "done")
  /\ reviews' = [reviews EXCEPT ![item[r]] = Written(r)]
  /\ stats' = seen[r]
  /\ lock' = [lock EXCEPT ![item[r]] = {}]
  /\ undisturbed' = {}
  /\ UNCHANGED <<item, rating, seen>>

\* Any query of the transaction fails, or it runs into its time limit.
RollBack(r) ==
  /\ pc[r] \in {"write", "aggregate", "sync"}
  /\ pc' = [pc EXCEPT ![r] = "failed"]
  /\ lock' = [lock EXCEPT ![item[r]] = @ \ {r}]
  /\ undisturbed' = undisturbed \ {r}
  /\ UNCHANGED <<reviews, stats, item, rating, seen>>

Finished == {r \in Requests : pc[r] \in {"done", "failed"}}

Next ==
  \/ \E r \in Requests :
       \/ Check(r) \/ CheckRefuses(r) \/ Write(r) \/ WriteRefused(r)
       \/ Aggregate(r) \/ Commit(r) \/ RollBack(r)
  \/ Finished = Requests /\ UNCHANGED vars

Spec == Init /\ [][Next]_vars

-----------------------------------------------------------------------------
(* Properties.                                                             *)

\* Columns stay in their types, the rating between 0 and 5 stars, and one
\* transaction at most holds the lock of a review.
TypeOK ==
  /\ reviews \in [Items -> Ratings \cup {NoReview}]
  /\ stats \in [count : Nat, rating : 0..50]
  /\ lock \in [Items -> SUBSET Requests]
  /\ pc \in [Requests -> {"idle", "write", "aggregate", "sync", "done", "failed"}]
  /\ item \in [Requests -> Items]
  /\ rating \in [Requests -> Ratings \cup {NoReview}]
  /\ seen \in [Requests -> [count : Nat, rating : 0..50]]
  /\ undisturbed \subseteq Requests
  /\ \A i \in Items : Cardinality(lock[i]) <= 1

Answered(K, i) == Cardinality({r \in K : item[r] = i /\ pc[r] = "done"})

\* However the reads before the transactions interleave, an order item is
\* reviewed once: the creations answered with success, less the deletions,
\* are the reviews there are (the unique index on orderItemId and the catch of
\* P2002, review.service.ts:45-57).
OneReviewPerOrderItem ==
  \A i \in Items :
    Answered(Creates, i) - Answered(Deletes, i) = Cardinality({i} \cap Reviewed(reviews))

\* A transaction that no other commit has overtaken since its aggregate leaves
\* the product row exact, whatever was committed or lost before it: the
\* recount repairs the drift of earlier ones (review.repository.ts:63-85).
RecountRepairs ==
  [][\A r \in Requests :
       r \in undisturbed /\ pc[r] = "sync" /\ pc'[r] = "done"
       => stats' = StatsOf(reviews')]_vars
=============================================================================
