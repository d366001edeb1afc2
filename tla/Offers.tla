-------------------------------- MODULE Offers ---------------------------------
(***************************************************************************)
(* Prices and discounts: what a seller's edits, the passing of time and    *)
(* the deletion of products do to the price a buyer sees on a page and to  *)
(* the price the order is made at.  Cart with ProductService.updateProduct *)
(* and the reads of the product, cart, store and order domains.            *)
(*                                                                         *)
(* The discounted price is not stored.  Every place that shows or charges  *)
(* it computes it from the row and its own clock, with a copy of the rule  *)
(* of its own: the list, the product page, the cart and the order each     *)
(* have an operator here.                                                  *)
(***************************************************************************)
EXTENDS Cart, FiniteSetsExt

CONSTANTS
  Prices, Rates,
  LastTime,     \* bound: the clock stops there
  Edits,        \* PATCH /products/:productId requests
  EditOf,       \* the product of an edit
  ChangeOf,     \* what its body says of the offer
  FirstOffer,   \* the offers as the products were created
  DiscountOf,   \* Math.floor(price * (1 - discountRate / 100)), in doubles
  Null,         \* a discount without that end
  Omitted       \* a field the body leaves out

Times == 0..LastTime
Ends == Times \cup {Null}
OfferRows == [price : Prices, rate : Rates, from : Ends, until : Ends]

\* updateProductSchema: a discountRate that is left out or null becomes 0; two
\* dates in one body are in order.
Changes ==
  {c \in [price : Prices \cup {Omitted}, rate : Rates,
          from : Ends \cup {Omitted}, until : Ends \cup {Omitted}] :
     c.from \in Times /\ c.until \in Times => c.from < c.until}

ASSUME OfferAssumption ==
  /\ LastTime \in Nat /\ Prices \subseteq Nat /\ Rates \subseteq 0..100
  /\ IsFiniteSet(Products)
  /\ EditOf \in [Edits -> Products]
  /\ ChangeOf \in [Edits -> Changes]
  /\ FirstOffer \in [Products -> OfferRows]
  /\ DiscountOf \in [Prices \X Rates -> Nat]
  /\ \A p \in Prices, r \in Rates :
       r > 0 /\ p > 0 => DiscountOf[p, r] < p
  /\ Null \notin Times /\ Omitted \notin Ends \cup Prices

VARIABLES
  now,      \* new Date()
  offer,    \* of a product: price, discountRate, discountStartTime, -EndTime
  editing,  \* of an edit: its place
  visit,    \* the buyer: a page, then an order
  moved     \* history: the products whose offer or discount may have changed
            \* since the page was shown

offerVars == <<now, offer, editing, visit, moved>>
allVars == <<vars, offerVars>>

NoPrices == << >>
NoVisit == [at |-> "idle", found |-> {}, shown |-> NoPrices,
            total |-> 0, rows |-> NoPrices]

-----------------------------------------------------------------------------
(* The copies of the rule.                                                 *)

ListPrice(o) ==
  IF /\ o.rate > 0
     /\ o.from = Null \/ now >= o.from
     /\ o.until = Null \/ now <= o.until
  THEN DiscountOf[o.price, o.rate] ELSE o.price

DetailPrice(o) ==
  IF /\ o.rate > 0
     /\ o.from = Null \/ now >= o.from
     /\ o.until = Null \/ now <= o.until
  THEN DiscountOf[o.price, o.rate] ELSE o.price

CartPrice(o) ==
  IF /\ o.rate > 0
     /\ o.from = Null \/ now >= o.from
     /\ o.until = Null \/ now <= o.until
  THEN DiscountOf[o.price, o.rate] ELSE o.price

Exclusive(o) ==                      \* faulty: the discount ends a moment early
  IF /\ o.rate > 0
     /\ o.from = Null \/ now >= o.from
     /\ o.until = Null \/ now < o.until
  THEN DiscountOf[o.price, o.rate] ELSE o.price
OrderPrice(o) ==
  IF /\ o.rate > 0
     /\ o.from = Null \/ now >= o.from
     /\ o.until = Null \/ now <= o.until
  THEN DiscountOf[o.price, o.rate] ELSE o.price

\* getMyStoreProducts says only whether there is a discount.
IsDiscount(o) ==
  /\ o.rate > 0
  /\ o.from = Null \/ now >= o.from
  /\ o.until = Null \/ now <= o.until

-----------------------------------------------------------------------------
OffersInit ==
  /\ Init
  /\ now = 0
  /\ offer = FirstOffer
  /\ editing = [e \in Edits |-> "idle"]
  /\ visit = NoVisit
  /\ moved = {}

Moves(P) == moved' = IF visit.at = "shown" THEN moved \cup P ELSE moved

Tick ==
  /\ now < LastTime
  /\ now' = now + 1
  /\ Moves(Products)
  /\ UNCHANGED <<vars, offer, editing, visit>>

\* updateProduct: findProductOwnership, then one update of the row, which fails
\* when the product is gone.
EditFind(e) ==
  /\ editing[e] = "idle"
  /\ editing' = [editing EXCEPT ![e] =
                   IF EditOf[e] \in products THEN "found" ELSE "failed"]
  /\ UNCHANGED <<vars, now, offer, visit, moved>>

Kept(new, old) == IF new = Omitted THEN old ELSE new

Edited(o, c) == [price |-> Kept(c.price, o.price), rate |-> c.rate,
                 from |-> Kept(c.from, o.from), until |-> Kept(c.until, o.until)]

EditWrite(e) ==
  LET p == EditOf[e] IN
  /\ editing[e] = "found"
  /\ p \in products
  /\ offer' = [offer EXCEPT ![p] = Edited(@, ChangeOf[e])]
  /\ Moves({p})
  /\ editing' = [editing EXCEPT ![e] = "done"]
  /\ UNCHANGED <<vars, now, visit>>

EditFails(e) ==
  /\ editing[e] = "found"
  /\ editing' = [editing EXCEPT ![e] = "failed"]
  /\ UNCHANGED <<vars, now, offer, visit, moved>>

-----------------------------------------------------------------------------
(* The buyer looks at a page ...                                           *)

Show(shown) ==
  /\ visit' = [visit EXCEPT !.at = "shown", !.found = {}, !.shown = shown]
  /\ moved' = {}

\* findAll: the rows whose list price is within the limits of the query, and a
\* page of them.
Listed(lo, hi) == {p \in products : offer[p].price \in lo..hi}

ListShow ==
  /\ visit.at = "idle"
  /\ \E lo, hi \in Prices : \E P \in SUBSET Listed(lo, hi) :
       Show([p \in P |-> ListPrice(offer[p])])
  /\ UNCHANGED <<vars, now, offer, editing>>

DetailShow ==
  /\ visit.at = "idle"
  /\ \E p \in products : Show([q \in {p} |-> DetailPrice(offer[q])])
  /\ UNCHANGED <<vars, now, offer, editing>>

\* getCart and getCartItem: the rows of the cart, or one of them, then their
\* products, with a query of their own that misses a product that has gone.
InCart == {k[1] : k \in {k \in Keys : Committed(k) # NoRow}}

Read(P) ==
  /\ visit.at = "idle"
  /\ visit' = [visit EXCEPT !.at = "read", !.found = P]
  /\ UNCHANGED <<vars, now, offer, editing, moved>>

CartRead == Read(InCart)

ItemRead == \E p \in InCart : Read({p})

CartShow ==
  /\ visit.at = "read"
  /\ visit.found \subseteq products
  /\ Show([p \in visit.found |-> CartPrice(offer[p])])
  /\ UNCHANGED <<vars, now, offer, editing>>

-----------------------------------------------------------------------------
(* ... and orders from it.                                                 *)

\* findManyProducts and buildOrderData: the prices of this moment, and their
\* sum.
OrderRead ==
  /\ visit.at = "shown"
  /\ \E P \in SUBSET DOMAIN visit.shown :
       /\ P # {} /\ P \subseteq products
       /\ LET rows == [p \in P |-> OrderPrice(offer[p])] IN
          visit' = [visit EXCEPT !.at = "priced", !.rows = rows,
                                 !.total = FoldFunction(+, 0, rows)]
  /\ UNCHANGED <<vars, now, offer, editing, moved>>

Repriced == [p \in DOMAIN visit.rows |-> OrderPrice(offer[p])]  \* faulty
Priced == visit.rows

\* createOrder and createOrderItems, in one transaction: the rows reference the
\* products and the order its buyer.
OrderCommit ==
  /\ visit.at = "priced"
  /\ DOMAIN visit.rows \subseteq products /\ cart # "gone"
  /\ visit' = [visit EXCEPT !.at = "ordered", !.rows = Priced]
  /\ UNCHANGED <<vars, now, offer, editing, moved>>

\* A request fails, or the buyer leaves; nothing of it is stored.
VisitFails ==
  /\ visit.at \in {"read", "shown", "priced"}
  /\ visit' = NoVisit
  /\ moved' = {}
  /\ UNCHANGED <<vars, now, offer, editing>>

\* OrderItem.product and Order.user: Cascade.
Cascaded ==
  IF visit.at # "ordered" THEN visit
  ELSE IF cart' = "gone" THEN [NoVisit EXCEPT !.at = "gone"]
  ELSE [visit EXCEPT !.rows = [p \in DOMAIN @ \cap products' |-> @[p]]]

CartStep == Next /\ visit' = Cascaded /\ UNCHANGED <<now, offer, editing, moved>>

OffersNext ==
  \/ CartStep
  \/ Tick
  \/ \E e \in Edits : EditFind(e) \/ EditWrite(e) \/ EditFails(e)
  \/ ListShow \/ DetailShow \/ CartRead \/ ItemRead \/ CartShow
  \/ OrderRead \/ OrderCommit \/ VisitFails

OffersSpec == OffersInit /\ [][OffersNext]_allVars

-----------------------------------------------------------------------------
(* Properties.                                                             *)

\* The price an order is made at is the price the buyer was shown last, on the
\* list, the product page or in the cart, unless the seller has edited the
\* product or time has passed in between; and while nothing has, the page
\* shows a price below the product's exactly if the seller's own page marks it
\* as discounted (order.utils.ts:20-30, store.service.ts:156-159).
QuoteHolds ==
  /\ visit.at \in {"priced", "ordered"} =>
       \A p \in DOMAIN visit.rows \ moved : visit.rows[p] = visit.shown[p]
  /\ visit.at = "shown" =>
       \A p \in DOMAIN visit.shown \ moved :
         offer[p].price > 0 =>
           (IsDiscount(offer[p]) <=> visit.shown[p] < offer[p].price)

\* The total of an order is the sum of the prices in its rows, although the
\* seller may edit the products between the reading of the prices and the
\* writing of the rows, and ever after; only with a product that is deleted do
\* rows go, never to leave more than the total (order.service.ts:98-142).
ReceiptAdds ==
  visit.at = "ordered" =>
    LET sum == FoldFunction(+, 0, visit.rows) IN
    /\ sum <= visit.total
    /\ sum < visit.total => products # Products
=============================================================================
