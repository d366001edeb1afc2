------------------------------ MODULE ReviewPages ------------------------------
(***************************************************************************)
(* A reader goes through the reviews of a product, page by page and newest *)
(* first, while others write them: ReviewStats with ReviewService's        *)
(* getReviews.  A page is two queries at once, one for the rows and one    *)
(* for their number; neither knows of the other, or of the page before.    *)
(*                                                                         *)
(* A review takes its createdAt when its row is written, so reviews may    *)
(* appear in another order than theirs.  No two have the same time: rows   *)
(* of equal times are in whatever order the database likes.                *)
(***************************************************************************)
EXTENDS ReviewStats

CONSTANT Limit  \* rows of a page

ASSUME LimitAssumption == Limit \in Nat \ {0} /\ NoReview \notin Creates

VARIABLES
  createdAt, \* of a creation: when its row was written, 0 before
  maker,    \* of an order item: the creation of its review
  reader,   \* between requests, in one or at the end; its page, whether it has
            \* the rows, the total once it has that, and all rows shown so far
  past      \* history: the reviews there were at the start, those shown twice,
            \* whether some have come or gone since, and whether one has come
            \* between the total and the rows of a page

pageVars == <<createdAt, maker, reader, past>>
allVars == <<vars, pageVars>>

\* where productId, orderBy createdAt desc: the reviews, and the place of each.
Listed == {r \in Creates : \E i \in Items : maker[i] = r}
NotOlder(r) == {q \in Listed : createdAt[q] >= createdAt[r]}
Place(r) == Cardinality(NotOlder(r))

FromZero(page) == page * Limit       \* faulty: pages are counted from 1
Skip(page) == (page - 1) * Limit
PageOf(page) == {r \in Listed : Place(r) - Skip(page) \in 1..Limit}
HasNextPage(page, total) == total > Skip(page) + Limit

-----------------------------------------------------------------------------
PagesInit ==
  /\ Init
  /\ createdAt = [r \in Creates |-> 0]
  /\ maker = [i \in Items |-> NoReview]
  /\ reader = [at |-> "idle", page |-> 1, rows |-> FALSE, total |-> -1, shown |-> {}]
  /\ past = [first |-> {}, twice |-> {}, came |-> FALSE, went |-> FALSE, torn |-> FALSE]

\* A step of ReviewStats.  It is in the list from its commit on.
Moving(K, from, to) == {r \in K : pc[r] = from /\ pc'[r] = to}
Came == Moving(Creates, "sync", "done")
Went == Moving(Deletes, "sync", "done")

Writing ==
  /\ Next
  /\ createdAt' = [r \in Creates |->
                     IF r \in Moving(Creates, "write", "aggregate")
                     THEN 1 + Cardinality({q \in Creates : createdAt[q] > 0})
                     ELSE createdAt[r]]
  /\ maker' = [i \in Items |->
                 IF \E r \in Came \cup Went : item[r] = i
                 THEN IF Came = {} THEN NoReview ELSE CHOOSE r \in Came : TRUE
                 ELSE maker[i]]
  /\ past' = IF reader.at # "page" THEN past
             ELSE [past EXCEPT
                     !.came = @ \/ Came # {},
                     !.went = @ \/ Went # {},
                     !.torn = @ \/ (Came # {} /\ reader.total >= 0 /\ ~ reader.rows)]
  /\ UNCHANGED reader

-----------------------------------------------------------------------------
(* getReviews, and the reader.                                             *)

Ask ==
  /\ reader.at = "idle"
  /\ reader' = [reader EXCEPT !.at = "page"]
  /\ past' = [past EXCEPT !.first = Listed]
  /\ UNCHANGED <<vars, createdAt, maker>>

\* Promise.all: the two queries run in either order.
ReadRows ==
  /\ reader.at = "page" /\ ~ reader.rows
  /\ LET rows == PageOf(reader.page) IN
     /\ reader' = [reader EXCEPT !.rows = TRUE, !.shown = @ \cup rows]
     /\ past' = [past EXCEPT !.twice = @ \cup (rows \cap reader.shown)]
  /\ UNCHANGED <<vars, createdAt, maker>>

CountRows ==
  /\ reader.at = "page" /\ reader.total < 0
  /\ reader' = [reader EXCEPT !.total = Cardinality(Listed)]
  /\ UNCHANGED <<vars, createdAt, maker, past>>

\* The answer, and the request of the next page if there is one.
TurnPage ==
  /\ reader.at = "page" /\ reader.rows /\ reader.total >= 0
  /\ reader' = IF HasNextPage(reader.page, reader.total)
               THEN [reader EXCEPT !.page = @ + 1, !.rows = FALSE, !.total = -1]
               ELSE [reader EXCEPT !.at = "end"]
  /\ UNCHANGED <<vars, createdAt, maker, past>>

PagesNext == Writing \/ Ask \/ ReadRows \/ CountRows \/ TurnPage

PagesSpec == PagesInit /\ [][PagesNext]_allVars

-----------------------------------------------------------------------------
(* Properties.                                                             *)

\* A reader who turns pages until hasNextPage is false has seen every review
\* there was at the start, however many come meanwhile and wherever they sort,
\* unless one is deleted or one comes after a page was counted and before its
\* rows are read; and unless one comes, none is shown twice
\* (review.service.ts:80-91).
PagesComplete ==
  /\ reader.at = "end" /\ ~ past.went /\ ~ past.torn => past.first \subseteq reader.shown
  /\ ~ past.came => past.twice = {}
=============================================================================
