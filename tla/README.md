# Verification of the shop back end

This directory holds TLA+ modules for the e-commerce back end of this repository
(Express, Prisma over PostgreSQL, Redis): buyers fill carts, order, pay through an
external gateway and collect points and grades; sellers run stores, products and
stocks, answer inquiries and watch a dashboard; notifications reach open pages as
server-sent events. TLC checks the modules on small instances, and TLAPS proves the
most important results for every value of the constants.

Paths below are relative to the repository (`src/domains/...`); PROJECT.json names the
exact lines of every definition.

## 1. The system

The server keeps almost nothing in memory. State lives in PostgreSQL tables, in two
Redis keys per user, and in one in-process registry of SSE streams. Concurrency
therefore comes from requests, gateway webhooks, timers and several server processes
that interleave *between database commands*, and from what a request read before its
transaction and uses inside it.

| Component | State it keeps | Operations | What is hard about it | What makes it correct |
|---|---|---|---|---|
| Orders and stock reservation (`order/`) | `orders`, `order_items`, `stocks.quantity / reservedQuantity` | create, confirm (from the webhook), cancel, expire by timer, show, edit the address | status and points are read before they are used; two servers run the same timer; the batch to expire is read outside the transaction; reviews and payments forbid a delete | never oversold; no unit lost; the reservation counter is right; expired orders are released |
| Payments and webhook (`payment/`) | `payments` | create, callback (claim, confirm, fail) | the webhook is delivered several times and is answered before its work starts; whatever fails after the claim is not tried again | one delivery confirms; no payment without its order; what is shown as paid stays so |
| Points and grades (`user/`, `order/`) | `users.point`, `users.grade`, `point_histories` | spend, earn, refund, take back, regrade | the grade is read outside the transaction that uses it | the balance is the sum of its history; a cancelled order is neutral |
| Sessions (`auth/`) | Redis `refresh:{userId}`, `grace:{userId}` | login, refresh, logout | several requests of one page refresh at once; each Redis command is atomic but a request sends several | logout is final; no fork; absolute limit |
| Reviews (`review/`) | `reviews`, `products.reviewsCount / reviewsRating` | create, edit, delete, each with a recount; list by pages | two transactions aggregate before either commits; a page is two queries, and rows move between pages | one review per order item; a recount is exact unless overtaken; a reader of all pages misses nothing that was there and stays |
| Inquiries (`inquiry/`) | `inquiries`, `replies` | create, edit, delete, answer, edit the answer, show | checks before writes; the notice is stored inside and sent after the transaction; a page reads the inquiry and its answer apart | answered exactly when there is an answer, on pages too; told once |
| Notifications and SSE (`notification/`, `sse.manager.ts`) | `notifications`, the registry of streams | subscribe, close, send, list, mark read | an older stream's close event removes the newer one; the list and the stream of a page overlap | the registry names open streams only; a page that subscribes before it loads misses no notice |
| Process (`server.ts`) | connections, shutdown phase | signal, close, exit, forced exit | a stream opened after the signal, a stream nobody ends | the process ends; the signal leaves no stream open but stray ones |
| Users and stores (`user/`, `store/`) | `users`, `stores`, `store_likes` | sign up, edit, withdraw; open, edit, favourite | look first, write later; access tokens outlive the account | one holder per name; answers true of some moment; no row without its parent; nobody leaves while being charged |
| Cart (`cart/`) | `carts`, `cart_items` | create, set sizes, remove, show | two updates lock the same rows in opposite order and one is rolled back halfway | all sizes of an update or none, and a removal takes one item out |
| Products (`product/`) | `products`, `stocks`, discounts | create, edit (stock rows replaced), delete, list, show | the edit forgets reservations; the discounted price is computed in four places, each with its own clock | bounds survive the edit; an order is made at the price shown |
| Dashboard (`dashboard/`) | none | figures by period and price | calendar arithmetic at month, year and leap-day boundaries, rounding | every sale in the period it was placed in |
| Metadata, image upload, middlewares, configuration | none of their own | reads and pure I/O | - | not modelled |

Interactions: a webhook (`PaymentService.paymentCallback`) calls
`OrderService.confirmPayment`, which writes orders, payments, stocks, points and
notifications in one transaction, then sends the events through `SseManager` and calls
`UserService.updateGradeByPurchase`. `OrderService.deleteOrder` either reverses a paid
order or runs the same expiry the timer of `server.ts` runs. A product edit replaces the
stock rows that open orders point at, and the prices that open pages show. Withdrawing an account or deleting a product
cascades into stores, favourites, carts, orders and reviews, and a payment forbids it.

The hazards that follow from this, each at its line and with the properties that would
catch it, are listed under `hazards` in PROJECT.json.

## 2. Modules

| Module | Models | State and actions against the code |
|---|---|---|
| `OrderPayment` | orders, payments, stocks, points, grades, webhook, cancel request, expiry timer, product edit, review and withdrawal of the buyer | one variable per column that an operation reads or writes; `Create*` = `createOrder`, `CreatePayment*` = `createPayment`, `Hook*` = `paymentCallback` and `confirmPayment`, `Cancel*` = `deleteOrder`, `Expire*` = `expireWaitingOrder`, `Grade*` = `updateGradeByPurchase`, `SellerReplacesStocks` = `ProductRepository.update`; `Review` = `ReviewRepository.create`, `DeleteMe` = `deleteMe`; `OrderResponse` is what the order pages show; `seen*` and `batch` are the values a process has read and not yet used; `GatewayDecides` is external |
| `StockLedger` | abstract: what the stocks table promises | reserve, settle a payment once, take it back, give reservations back; `OrderPayment!LedgerSpec` is the refinement |
| `AuthSession` | login, refresh and logout of one user | an action per Redis command awaited; the Lua script of a rotation is one action; `Tick` advances the clock and drops expired keys |
| `ReviewStats` | reviews of one product | check outside, write with its row lock, aggregate, product update and commit |
| `ReviewPages` (extends `ReviewStats`) | the list of reviews and a reader who turns its pages | the rows and their number are two queries of one page, in either order |
| `InquiryThread` | one inquiry, its answer, stored notices, sent events | check outside, then a transaction per request, then `Push` |
| `Inbox` (extends `InquiryThread`) | the pages that show an inquiry, and the marks of notices | a page reads the inquiry, then its answer; a mark finds its row, then writes it |
| `Letterbox` (extends `InquiryThread`) | abstract: what the author's page may rely on, that an event sent while the page holds its stream open arrives on it | `Promised` is the documented promise and no code; `Delivery!RegistryDelivers` says when the registry keeps it |
| `Server` | connections, SSE registry, graceful shutdown | an action per callback of the event loop; `stray` records the users who opened a stream beside another or after the signal; the forcing timer may fire at any time after the signal |
| `Delivery` (extends `Letterbox` and `Server`) | the way of an event to a page: which connection the author's page reads, and what the registry has for the author when the event is sent | `Received` = `SseManager.sendMessage`; `PageListens` is `Subscribe` of the one module and `Listen` of the other in one step, `ServerRuns` everything other pages and users do |
| `Cart` | one buyer's cart | an action per upsert, with the rows it locks and what a rollback restores |
| `Offers` (extends `Cart`) | prices and discounts: product edits, time, and the visit of a buyer from a page to an order | one copy of the discount rule per place of the code that has one; `EditWrite` = `updateProduct`, `ListShow`, `DetailShow`, `CartRead` and `CartShow` the reads, `OrderRead` and `OrderCommit` = `createOrder` |
| `Basket` | abstract: an update sets all its sizes or none | `Cart!BasketSpec` is the refinement |
| `Shop` | sign-up, withdrawal, store, favourites, product creation and deletion | a look and a write per request; unique indexes and foreign keys decide |
| `Directory` | abstract: a name has one holder, and every answer is true of some moment of its request | `Shop!DirectorySpec` is the refinement |
| `Dashboard` | date ranges, summaries, rates, price ranges | operators translated function by function; orders placed, settled, removed while days pass |
| `SumTheorems` | facts about sums over finite sets | none of the code; the lemmas the proofs about units, points, ratings and prices cite |
| `OrderPaymentProofs`, `AuthSessionProofs`, `ReviewStatsProofs` (with `ReviewPages`), `DeliveryProofs` (with `InquiryThread`, `Inbox`, `Letterbox` and `Server`), `ShopProofs`, `CartProofs` (with `Offers`), `DashboardProofs` | the theorems | |
| `MC*` | small instances | |

`OrderPayment` composes orders, payments, points, the timer, the product edit and the
withdrawal, because they share rows. `ReviewPages`, `Inbox` and `Offers` compose the operations
that write with the reads that show what they wrote: their `Next` takes every step of the module they
extend and adds their own, so every safety property of
the extended module is one of theirs. `Delivery` joins `Letterbox`, where an event reaches the stream the page has
open, with the connections and the registry of `Server`, where it reaches the response the registry
names: it asks when the two are the same. The other modules share no row a property speaks of with it,
and are modules of their own.

Every module keeps one definition per fault, marked `faulty`, next to the one it would
replace: what the code would do with a plausible slip (a WHERE clause without its
status, a missing unique index, an addition in place of a mean). They are used by the
`mutants` of PROJECT.json only; each property is shown to break when its definition is
replaced.

### Abstractions

- **Transactions** run at PostgreSQL's default, READ COMMITTED. A read that takes no lock
  is a step of its own, inside a transaction or not. In `OrderPayment` the writes of a
  transaction are one step, its commit: an UPDATE tests its WHERE on the last committed
  row and keeps the row locked, so guards hold at the commit as at the statement. In
  `ReviewStats` and `Cart`, where the order of locks is the question, locks are modelled.
- **Failure**: the `*Fails` and `RollBack` actions are always possible from the places where
  an error can arise (a broken deadlock, a time limit, a lost connection, a crash), so no
  property relies on an operation succeeding.
- **Orders**: lines of one (product, size) are one entry of `Lines`; the id of a stocks row
  is the pair. The order in which an expiry run releases its batch is not stated by the
  code's query, so `Releases` admits every set that some order would release.
  `MayExpire` bounds which orders outlive their ten minutes during a run.
  The delete of an account is one statement; PostgreSQL runs the actions of its foreign keys level by
  level, so the reviews of the account are gone before the items they refer to are tested, and a
  payment is what makes it fail.
  Amounts are integers, as the columns are.
- **Sessions**: one user (keys of different users never meet); a token stands for its hash;
  a token has a login, that login's time, and an issue time, and no `jti`, so two tokens of
  one login and second are equal, as in the code. A login generates its token and sends its SET in one synchronous
  block of one process (`auth.service.ts:40-44`), so no command of a later logout comes between them; with several
  servers one could, which `LogoutIsFinal` does not cover. Time is counted in units of the clock.
- **Reviews**: a rating average in tenths; ties of `toFixed(1)` go up.
- **Pages of reviews**: `createdAt` is the place of the row in the order of writing, so no two reviews have the
  same; the order of equal times is not stated by the query, and nothing can be claimed of it. A page is the rows
  whose place in the list, newest first, falls within its bounds.
- **Pages of inquiries and notices**: one inquiry; a list holds all its rows in one page.
- **Offers**: all sizes of a product share its price; one visit, which ends with an order or is given up;
  `DiscountOf` is a table with the values JavaScript's doubles give, such as 32549 for 35000 at 7 %,
  where exact arithmetic gives 32550. Of it the proofs assume only that a discount lowers a price.
- **Server**: what a request does inside belongs to other modules. There is no clock: the forcing timer
  (30 seconds from a signal, 10 from an uncaught error) is set by the signal whatever is under way, and may fire
  at any time from then on, before or after `server.close` calls back. Keep-alive comments are left out.
- **Delivery**: one process serves the pages and sends the events (the registry is in its memory), one page of the
  author is followed; when the process ends its streams end, and what is committed later is outside the module.
- **Shop**: one seller and one buyer beside the sign-ups; the deletion of an account is the
  single statement it is, with its cascades. The edits of a profile and of a store, one update of the
  columns named, are left out.
- **Dashboard**: days in the server's time zone, of years between 1901 and 2099 (where every fourth year is a leap
  year), given by `FirstYear` and `LastYear`; the summaries are read
  at one moment (the code awaits several queries with `Promise.all`, outside a transaction),
  the query of the five best sellers is left out.

## 3. What is checked

Each run below is a TLC configuration; all of them together take a few minutes.

| Run | Question | Bounds, and why they are enough |
|---|---|---|
| `OrderRaces` | What can go wrong when orders, webhooks, a cancel request and the timer meet? | a stock row of three units, of which the orders want one and two, and one of a single unit that the second order empties; both orders spend the ten points the buyer has and earn less, so that only the conditional update keeps the balance from going negative; a grade reached by one completed order; one delivery per payment, one cancel request, one timer, and the withdrawal of the buyer. Every pair of operations that share a row is present, and the second order is there so that a counter wrong for one order can hurt another |
| `DoublePayment` | Two payment rows for one order, one of them delivered twice or confirmed in parallel, a product edit, a review and a withdrawal | the smallest instance with two claims on a payment and foreign keys that can dangle; the edit leaves two units, which the two orders then compete for; the first order can be reviewed, so that a cancellation and a withdrawal meet a review and a payment in every combination |
| `SessionRaces` | Two logins, two refreshes, a logout in two commands, up to the absolute limit | two refreshes are what a fork needs; the clock reaches every expiry |
| `ReviewRaces` | Two creations, an edit, a deletion on two order items, and a reader who turns the pages | a race on the unique index needs two creations; a page of one row, so that two reviews are two pages and every commit can fall between them, or between the two queries of one |
| `InquiryRaces` | An edit, a removal, two answers, an edited answer, with and without the author owning the store; a mark and a page | every operation that writes, and the one that must be unique twice; a removal and an answer can fall between the two reads of a page |
| `ServerStreams` | Two answers while pages of the author and of another user connect, reconnect and close, before and during a shutdown, under fairness | two connections, of one user or of two: a second stream beside the first, and streams of different users; two requests each, so that a kept connection is used again and a stream can come after the signal. More connections are left to the theorems, which hold for any number |
| `CartRaces` | Two updates with opposite order of sizes, one of another product, a removal, deletions; one edit of an offer, one tick of the clock, a visit that ends with an order | the smallest deadlock, and a removal before, during and after it; one product whose discount ends with the tick once the edit is in, and one whose discount starts with it, so that each price can change at every place of the visit |
| `ShopRaces` | Every check-then-write of accounts, stores, favourites and products against a withdrawal | two requests per unique name |
| `DashboardDays` | The turn of a year, a leap February and the whole of March | every boundary the calendar arithmetic has in four years; prices on the limits of the ranges |

What they show:

- `StockBounds`, `LedgerSpec`: no interleaving sells what is not there, and
  no unit is lost or made up; the implementation is that of `StockLedger`, a payment's units leave the
  shelf once and come back once. `StockBounds` is stated in the run with product edits; in the
  other, `LedgerSpec` says as much.
- `PointLedger`, `CancelIsNeutral`: the balance is explained by the history rows to the last
  point, and a cancelled order leaves it as if never placed, although the grade, the points and
  the payments are read before they are used.
- `OneClaimPerPayment`, `NoOrphans`: the conditional update `pending -> paid` admits one
  delivery; the foreign keys keep payments, reviews and orders together.
- `NobodyLeavesMidPayment`, `PaidStaysShown`: an account whose order is being paid stays; an order shown
  as paid is shown so until it is deleted, although a second payment or an expiry may change what is
  stored about it.
- `SoldOutIsAnnounced`: a row emptied by confirmations is announced by the one that emptied it, and by no other: it is
  announced again only after a cancellation has filled it. The stored notices are meant; whether their events are sent after the
  commit is another matter (see the hazards).
- `DriftNeedsExpiry`: until an order outlives its ten minutes, and while no order has two payment rows, the
  reservation counter is exact but for the units of buyers who withdrew while an order waited; it isolates the
  operations that can spoil it (see the findings).
- `ExpiredIsReleased` (liveness): an expired order stops waiting even though the transaction
  of the timer may fail.
- `LogoutIsFinal`, `NoFork`, `AbsoluteLimit`: see the comments of `AuthSession`.
- `OneReviewPerOrderItem`, `RecountRepairs`: the unique index decides; a recount that is not
  overtaken repairs any earlier drift.
- `PagesComplete`: a reader of all pages has seen every review that was there when the reader began, unless
  one is deleted, which moves the rows of the next page up, or one comes between the count of a page and its
  rows, which makes `hasNextPage` too early; unless one comes, none is shown twice.
- `AnsweredMeansReply`, `ToldOnce`: status and answer never part; the author
  hears of one answer; no client is told of a row that was rolled back.
- `AnsweredShowsAnswer`: a page that shows an inquiry as answered shows the answer.
- `Server!TypeOK`, `OnlyStraysOutlive`, `ShutdownEnds`: the registry names open streams; the signal ends every stream but
  those that replaced another, were replaced or came after it; the process ends. Nothing is said of when the timer
  has to force it: besides such a stream, a long request, a kept connection in use or a slow disconnect can make it fire.
- `RegistryDelivers`, `PageMissesNothing`: until the author opens a stream beside another or after the signal, the
  registry keeps the promise of `Letterbox`, so what follows from the promise holds of the page: between stream and list
  no notice is lost, whatever the order of commit, event, subscription and load. Streams of other users do not disturb it. That every user without such a stream is registered while
  listening is proved (`ListenersAreServed`).
- `BasketSpec`: an update of the cart is atomic whichever of two is rolled back, and a removal takes its item out. A
  later or overlapping update may put the same product and size in again, as the code has it.
- `QuoteHolds`, `ReceiptAdds`: the four copies of the discount rule agree, so an order is made at the price the
  page showed unless the product was edited or time has passed, and the seller's page marks the products shown
  below their price; the total of an order is the sum of its rows, until a product is deleted.
- `DirectorySpec` and the parents in `Shop!TypeOK`: of racing requests for one name one succeeds,
  a conflict is answered only for a name that was taken at some moment of the request.
- `FollowsCalendar`, `RateIsNearest` and the shares in `Dashboard!TypeOK`: periods are the calendar's,
  rates the nearest whole numbers (of orders and of sales), price ranges share out all sales.

`CHECK_DEADLOCK FALSE` is set where every request runs once, the calendar ends, or the
process exits. The timers of `OrderPayment` never stop; `ReviewStats` and `InquiryThread` have an
explicit last step, so there a deadlock would be reported.

### Fairness

- `OrderPayment!FairSpec`: `setInterval` fires again and again (weak fairness of the timer's read), every
  transaction it opens ends in success or failure (weak fairness of their disjunction), and one
  that is possible again and again does not fail for ever (strong fairness of the commit): the
  failures that can hit it (a deadlock, a lost connection) are transient. Nothing is assumed of
  requests, webhooks or the gateway.
- `Delivery!FairDeliverySpec`, with the `Fairness` of `Server`: handlers answer, kept connections run into
  `keepAliveTimeout`, an ended response closes, callbacks run and
  so does the forcing timer, which is what ends a shutdown in every case. No client has to close its stream.

### Disagreements between the code and its statements

Three are kept as runs that TLC must find violated:

- `ReservationDrift`: `expireWaitingOrder` reads expired orders outside its transaction and releases
  them without looking again, and `confirmPayment` takes the status it has read for granted too. When a confirmation
  and an expiry run have both read one order as waiting, whichever commits second takes its units off the counter
  again, from another waiting order, and overwrites the status: a paid order ends as Cancelled, or a cancelled one as
  paid; `reservedQuantity` is then not what `prisma/schema.prisma:195` says it is. Two overlapping expiry runs (of two
  servers, or of the timer and a cancel request) release twice in the same way; the run leaves them out, so that
  its trace shows the first case.
- `RaceAsReuse`: a refresh whose token was valid when it arrived can be overtaken by two rotations and
  ends the session as a reuse, against the comment at `auth.service.ts:92-94`.
- `LastMonth`: on a day the previous month does not have, `setMonth` overflows, and the "previous
  month" of `dashboard.swagger.yaml:44` is the present one. `OverflowIsThisMonth` proves that nothing else can come of it.

Others were met while modelling; the models show them, but no run is spent on them:

- `order.service.ts:194` leaves a cancelled order alone, but the status is overwritten without a
  condition: an order that expires between the read and the write is confirmed all the same.
- `order.repository.ts:526` expects one earning per order; an order with two payments can earn twice.
- `order.swagger.yaml:1006` says a cancelled order becomes Cancelled; a paid one is deleted, and a
  waiting one whose ten minutes are not over is left as it is, with success answered.
- `review.service.ts:46` says creation and recount are one; two overlapping transactions still leave the
  product row behind until the next recount.
- `inquiry.service.ts:163` refuses edits of answered inquiries, but tests before the write;
  `inquiry.swagger.yaml:627` says they can be edited.
- `notification.swagger.yaml:144` says notices are sent while the connection is held, and line 186 that a new stream
  ends the old one. The old one stays open outside the registry, and the close of either removes the entry: a page
  whose stream is open, and which loaded its list after opening it, then misses a notice. `PageMissesNothing` says
  when it does not.
- `sse.manager.ts:32` ends all streams at shutdown; those outside the registry are not ended.
- `README.md:932` says requests under way complete before the exit; a webhook is answered before its
  work, and the exit does not wait for it.
- The buyer's completion notice is sent twice (`order.service.ts:343-359`): once by
  `createNotification` without a transaction and once from the list of payloads.
- `buildPaymentStatus` (`order.utils.ts:54`) does not know the status `paid`, which a payment has between the claim
  and the confirmation: an order with such a payment alone is shown as `failed`, for ever if the confirmation fails.
- `review.swagger.yaml:40` says only what was bought can be reviewed; `createReview` asks for an order item of
  the user, not for an order that is paid. A paid order that was reviewed can no longer be cancelled: the delete of
  its items fails.
- A withdrawal takes the account's reviews along (`schema.prisma:324`), but the rating of the product is not counted
  again.
- `product.schema.ts:77-82` turns a `discountRate` the body of an edit leaves out into 0, so an edit of the name
  ends the discount; `inquiry.dto.ts:56` turns an `isSecret` left out into `false`, so an edit of the
  text of a secret inquiry publishes it, although `inquiry.swagger.yaml:624` calls the field optional.
- `product.schema.ts:95-100` compares the two ends of a discount only if one body has both; an edit of one end can
  leave a discount that ends before it starts, and never applies.
- The limits `priceMin` and `priceMax` and the sort by price use the list price, the list shows the discounted one.
- `isSoldOut` is what the seller has set in the list (`product.mapper.ts:49`) and `stock === 0` on the seller's own
  page (`store.mapper.ts:101`).
- No `orderBy` of the lists has a second key, so rows of equal keys may repeat or be missed between pages.
- Deleting a product removes its order items (`schema.prisma:280`), while the order keeps its subtotal.
- Nothing raises `products.salesCount`, which `store.repository.ts:50-56` sums.
- A buyer who withdraws while an order waits takes the order along, but not its reservation.

## 4. What is proved

All theorems hold for arbitrary constants that satisfy the named assumptions of the module, that is
for any number of orders, processes, rows and tokens.

| Theorem | States | Argument |
|---|---|---|
| `OrderPaymentProofs!TypeCorrect` | `Spec => []TypeOK`, so no balance is negative | `TypeInv` adds `GradeTaken`: a process that is about to earn or to store a grade has read one. Without it the amount earned has no type |
| `NeverOversold` | `Spec => []StockBounds` | inductive relative to `TypeInv`: the conditional updates of `reserveStock` and `decreaseStock` are what keeps it; expiry only lowers a counter within its bounds; an edit starts at zero |
| `ClaimedOnce` | `Spec => []OneClaimPerPayment` | `ClaimInv`: a delivery past its claim works on a payment that is `paid`, which the claim of another excludes; the payment a cancel request has read as completed can only have been deleted since |
| `RowsHaveOrders` | `Spec => []NoOrphans` | inductive relative to `TypeInv`: what deletes an order tests every row that refers to it (`CanUndo`, `Deletable`) or deletes it too |
| `NobodyLeavesUnsettled` | `Spec => []NobodyLeavesMidPayment` | `OrderHasBuyer`: the foreign key of orders; with `NoOrphans` no payment is left either |
| `BalanceIsHistory` | `Spec => []PointLedger` | inductive relative to `TypeInv`: every step that moves a balance writes the row that explains it; the sum of an owner's orders changes by what the one order changed |
| `DeletedIsNeutral` | `Spec => []CancelIsNeutral` | `HistoryInv`: an order nothing was confirmed for has spent or earned nothing, one with a single payment has at most one EARN row, and a deletion is possible in these two cases only |
| `PaidIsShownForGood` | `Spec => PaidStaysShown` | step by step: `completed` is left only by the cancellation that deletes the order |
| `ImplementsLedger` | without product edits, `Spec => LedgerSpec` | step by step: reserve, settle, take back, give back or stutter, using `ClaimInv` to know that a settled payment settles once |
| `NothingLost` | without product edits, `Spec => []Ledger!Conservation` | from `ImplementsLedger`'s steps: each adds to one side of the sum what it takes from the other |
| `EmptyIsAnnounced` | without product edits, `Spec => []SoldOutIsAnnounced` | inductive relative to `TypeInv` and `StockBounds`: the update that makes a row zero is the one that looks for zero, so it empties a row that was not; a row fills again only with a deleted order that had units of it |
| `DriftIsFromExpiry` | without product edits, `Spec => []DriftNeedsExpiry` | `DriftInv`: while nothing has expired and no order has two payments, a confirmation under way has checked an order that still waits, an undo works on an order that does not, and the units reserved are those of the orders that hold some |
| `AuthSessionProofs!LogoutFinal` | `Spec => []LogoutIsFinal` | `LogoutInv`: neither key ever holds a token of a login one of whose tokens is dead, with the intermediate form between the two deletes |
| `SessionNeverForks` | `Spec => []NoFork` | `ForkInv`: tokens of one login are ordered by issue time and both keys move forward only, so a replaced token is behind for good and the grace key, if it speaks of it, names the successor given |
| `SessionsEnd` | `Spec => []AbsoluteLimit` | `LimitInv`: a request past its first checks works on a minted token and began within the limit of that token's login, which rotations inherit |
| `AnswersAreTokens` | `Spec => []TypeOK` | `AnswerInv`: `TypeOK` is not inductive, because a request could be answered from an empty grace key; it is not, because what the request holds was generated and the empty key remembers no such token |
| `ReviewStatsProofs!ReviewedOnce` | `Spec => []OneReviewPerOrderItem` | `Held`: from its write to its commit a transaction alone holds the lock of its review, which is as its write needed it; then each commit adds one to one side of the count and to the table |
| `ReviewStatsProofs!RecountIsExact` | `Spec => RecountRepairs` | `Fresh`: what an undisturbed transaction has read is what it would read now |
| `ColumnsInRange` | `Spec => []TypeOK` | `ColumnsInv`: sums of ratings lie between the count and five times the count, so their mean is between 10 and 50 tenths; a lock is `{}` or one request |
| `ReaderSeesAll` | `PagesSpec => []PagesComplete` | `PagesInv`: a review of the start not yet shown sorts behind what the pages have reached, and what was shown before it; a review that comes sorts first and moves the others back, never forward |
| `DeliveryProofs!AnsweredIffReply` | `InboxSpec => []AnsweredMeansReply` | with the next two from `InboxInv`, whose part `ThreadInv` says who may have been told, and that an event follows its row |
| `ToldOfOne` | `InboxSpec => []ToldOnce` | `Told`: before the answer nobody, after it exactly one unless the store is the author's; `Sent`: a request about to send has committed its row |
| `PagesShowAnswers` | `InboxSpec => []AnsweredShowsAnswer` | `Viewed`: an inquiry read as answered never waits again, it can only go |
| `ShopProofs!NoRowIsOrphaned` | `Spec => []TypeOK`, so no store, favourite or product outlives its parent | `TypeOK` is inductive: an insert tests its foreign keys, a delete cascades |
| `ShopProofs!AnswersAreTrue` | `Spec => DirectorySpec` | step by step; `MarkFound` says that what a removal has found was a store |
| `EntriesAreOpen` | `ServerSpec => []TypeOK`, so an entry of the registry is an open stream of its user | inductive: a close removes the entry whatever it names |
| `OnlyStraysStay` | `ServerSpec => []OnlyStraysOutlive` | with the next from `KnownInv`: as long as a user has no stray stream, every open stream of the user is the registered one, and so none is left open by the signal |
| `ListenersAreServed` | `ServerSpec => []ListenersAreKnown` | as above |
| `DeliveryServes` | `DeliverySpec => ServerSpec` | step by step: a step of the thread or of the page's reads leaves the server as it is |
| `ArrivesThroughRegistry` | `DeliverySpec => RegistryDelivers` | `LineInv`: the connection the page reads is an open stream of the author exactly while `Letterbox` says it listens; with `KnownInv` of the author the entry of the registry is that connection, and a step that ends it is a `Disconnect` |
| `PageIsServed` | `DeliverySpec => []PageMissesNothing` | `ServedInv`: `ThreadInv` and `known \subseteq notices` in every state, which a lost event cannot harm; `BoxInv`, by which what a loaded page does not know is about to be sent, until the author has a stray stream, which stays on record (`StrayGrows`) |
| `CartProofs!UpdatesAreAtomic` | `Spec => BasketSpec` | `InOrder`: the keys an update has locked are the first ones of its request, so at its commit they are all of them |
| `ItemsHaveParents` | `Spec => []TypeOK` | `ParentsInv`: not only the rows but what a rollback would put back have their cart and product, since a deletion waits for the locks of an update |
| `OrdersAsShown` | `OffersSpec => []QuoteHolds` | `Quoted`: what a page shows is what an order would cost now, but for the products that moved; it rests on the four rules being one |
| `TotalIsOfRows` | `OffersSpec => []ReceiptAdds` | `ReceiptInv`: the total is the sum of the prices read, which no edit reaches; a deletion takes terms away, and a sum of fewer terms is no greater |
| `DashboardProofs!CalendarFollowed` | `Spec => []FollowsCalendar` | `Columns`: an order that is there was placed on a day that went by. The calendar is a chain of lemmas: years and months follow each other without a gap (`YearsInOrder`, `MonthsInOrder`), so the date of a day exists and is the only one (`YearOfDay`, `MonthOfDay`, `DateOfDay`); `MonthBefore` and `YearBefore` say where the steps back of `setMonth` and `setFullYear` land, and `RangesFollow` that the ranges are the periods |
| `OverflowIsThisMonth` | on a day the month before does not have, the previous month's range is the present month's | the other half of `MonthBefore`: the overflow is at most three days, and every month has 28 |
| `RatesRounded` | `Spec => []RateIsNearest` | `RoundedIsNear`: the quotient of `Math.round` is within a half, for negative rates too |
| `RangesDivideSales` | `Spec => []TypeOK` | `OneRange`: a price is in one range and in one only, so the sales split (`SumSplits`); five shares that are each within half a tenth add up to all within two and a half, and so, being whole tenths, within two |
| `CartWithOffers` | `OffersSpec => []TypeOK /\ BasketSpec` | `OffersAreOfCarts`: every behaviour of `Offers` is one of `Cart` |

`InboxSpec` and `PagesSpec` extend their modules in the same way; that every behaviour of `ReviewPages` is one of
`ReviewStats` is the lemma `PagesAreOfReviews`, which `ReaderSeesAll` uses.

`SumTheorems` says what a sum over a finite set is when the set is empty, when an element is added, when two
functions agree on the set or differ at one element, when the set is split, and when the terms are bounded.
The sum of the library is defined by recursion along an order of elements that CHOOSE fixes, and the library's
induction theorems take an operator as a parameter, which the provers cannot instantiate. Each fact is
therefore proved for a smallest subset that would violate it: that there is one is the well-foundedness of the
inclusion on the subsets of a finite set.

The assumptions used are those of the modules: requests and tables have their types, kinds of requests and
processes are disjoint, `NoToken` is no token, `NoText` no text, `NoRow` no row and `NoReview` no rating and
no request. Orders, payments, the order items of a product and the products of the shop are finitely many,
because something is counted or summed over them, as are the requests of `ReviewStats` and the items of
`Dashboard`. `NoConn` is no connection and `Author` is a user. The days of `Dashboard` lie in its years, with a year
before them, and its years between 1901 and 2099; `NoDay` is none of them. Ratings are 1 to 5,
and `OrdersAsShown` assumes that a discount lowers a price. `ImplementsLedger`, `NothingLost`,
`EmptyIsAnnounced` and `DriftIsFromExpiry` also assume `SellerStocks = {}`: an edit overwrites quantities and
reservations, and is outside what these four promise.

That two payments of one order are both confirmed is in no run, which would take TLC too long, but `ImplementsLedger`,
`BalanceIsHistory` and `DeletedIsNeutral` hold for any number of payments of an order.

Only model-checked: the two liveness properties, `ExpiredIsReleased` and `ShutdownEnds`, since fairness and ENABLED are
beyond the prover. Every invariant and every other action property of the passing runs is a theorem.

## 5. Not modelled, and why

- `updateOrder`, `updateMe` and `updateStore`: each looks at its row and then updates the columns its body names, which
  no modelled operation reads. Between the two the row can change, as it can in `InquiryThread`, where the same pattern
  is modelled; an order confirmed in between gets the new address all the same.
- Of the reads, those are modelled that a property speaks of: orders, product list and page, cart, reviews, inquiries
  and notices. Search text, sort orders, the counts on the store pages and the five best sellers are single queries
  of the database.
- Metadata, image upload, configuration: no state of their own.
- Middlewares and rate limits: stateless, or the counters of a library. What `authenticate` lets
  through is modelled where it matters, in `Shop`.
- The work a process exit cuts off (`crash_recovery` in the hazards): nothing in the code
  protects it, and nothing can be claimed of it.

## 6. What remains

1. `products.salesCount` and the best sellers, should something come to raise the count.
2. `updateOrder`, `updateMe` and `updateStore`, should something come to read what they write.
3. The webhook's work under a process exit, should the code come to repeat it.
