--------------------------------- MODULE Cart ----------------------------------
(***************************************************************************)
(* The cart of one buyer: CartService and CartRepository                   *)
(* (src/src/domains/cart).                                                 *)
(*                                                                         *)
(* An update is a transaction of one upsert per size.  An upsert changes   *)
(* the row at once for its own transaction and for nobody else, and locks  *)
(* it until the transaction ends; an upsert or a delete of a locked row    *)
(* waits.  When two updates wait for each other the database rolls one     *)
(* back, and so does the time limit of a transaction: RollBack is always   *)
(* possible.  The deletion of a product or of the account takes the items  *)
(* along (onDelete: Cascade), once nobody holds a lock on them.            *)
(***************************************************************************)
EXTENDS Integers, Sequences, FiniteSets

CONSTANTS
  Products, Sizes,
  Updates,    \* PATCH /cart requests
  Creations,  \* POST /cart requests
  Removals,   \* DELETE /cart/:cartItemId requests
  ProductOf,  \* the product of an update
  SizesOf,    \* its sizes, in the order of the request
  NoRow, NoUpdate

ASSUME UpdateAssumption ==
  /\ ProductOf \in [Updates -> Products]
  /\ SizesOf \in [Updates -> Seq(Sizes)]
  \* updateCartSchema: no size twice
  /\ \A r \in Updates : \A m, n \in 1..Len(SizesOf[r]) :
       SizesOf[r][m] = SizesOf[r][n] => m = n

ASSUME KindAssumption ==
  /\ Updates \cap Creations = {} /\ Updates \cap Removals = {}
  /\ Creations \cap Removals = {} /\ NoUpdate \notin Updates

VARIABLES
  cart,      \* the row of the buyer: "none", "there", "gone" with the account
  products,  \* the products that exist
  items,     \* of a product and size: its row as the last upsert left it
  before,    \* of an update: the rows it has locked, as they were before
  pc,
  target     \* of a removal: the row it has found

vars == <<cart, products, items, before, pc, target>>

Keys == Products \X Sizes

\* A row keeps the id it was created with; quantities are told apart by the
\* update they are from.
Rows == [id : Updates, by : Updates]

ASSUME NoRowAssumption == NoRow \notin Rows

Requests == Updates \cup Creations \cup Removals
Goto(r, from, to) == pc[r] = from /\ pc' = [pc EXCEPT ![r] = to]

Locked(r) == DOMAIN before[r]
LockedByOthers(r) == UNION {Locked(q) : q \in Updates \ {r}}
AnyLocked == UNION {Locked(q) : q \in Updates}

\* The row of a key as another transaction sees it.
Committed(k) ==
  IF k \in AnyLocked
  THEN LET q == CHOOSE q \in Updates : k \in Locked(q) IN before[q][k]
  ELSE items[k]

\* sizes.map: the upserts of a request run one after the other.
NextKey(r) == <<ProductOf[r], SizesOf[r][Cardinality(Locked(r)) + 1]>>
AllWritten(r) == Cardinality(Locked(r)) = Len(SizesOf[r])

FreeForAll(r, k) == TRUE             \* faulty: upserts without the transaction
Free(r, k) == k \notin LockedByOthers(r)

Unchecked(r) == TRUE                 \* faulty: no foreign keys
\* A new row references a cart and a product.
Insertable(r) == cart = "there" /\ ProductOf[r] \in products

Upserted(r, row) == IF row = NoRow THEN [id |-> r, by |-> r]
                                   ELSE [row EXCEPT !.by = r]

-----------------------------------------------------------------------------
Init ==
  /\ cart = "none"
  /\ products = Products
  /\ items = [k \in Keys |-> NoRow]
  /\ before = [r \in Updates |-> << >>]
  /\ pc = [r \in Requests |-> "idle"]
  /\ target = [d \in Removals |-> <<>>]

\* createCart: an upsert on buyerId that changes nothing when the cart exists.
CreateCart(c) ==
  /\ cart # "gone"
  /\ Goto(c, "idle", "done")
  /\ cart' = "there"
  /\ UNCHANGED <<products, items, before, target>>

CreateCartFails(c) ==
  /\ Goto(c, "idle", "failed")
  /\ UNCHANGED <<cart, products, items, before, target>>

\* updateCart: findCartIdByUserId, outside of the transaction.
UpdateStart(r) ==
  /\ IF cart = "there" THEN Goto(r, "idle", "writing") ELSE Goto(r, "idle", "failed")
  /\ UNCHANGED <<cart, products, items, before, target>>

Upsert(r) ==
  /\ pc[r] = "writing" /\ ~ AllWritten(r)
  /\ Free(r, NextKey(r))
  /\ items[NextKey(r)] # NoRow \/ Insertable(r)
  /\ items' = [items EXCEPT ![NextKey(r)] = Upserted(r, @)]
  /\ before' = [before EXCEPT ![r] =
                  [k \in Locked(r) \cup {NextKey(r)} |->
                     IF k \in Locked(r) THEN @[k] ELSE items[k]]]
  /\ UNCHANGED <<cart, products, pc, target>>

UpdateCommit(r) ==
  /\ AllWritten(r)
  /\ Goto(r, "writing", "done")
  /\ before' = [before EXCEPT ![r] = << >>]
  /\ UNCHANGED <<cart, products, items, target>>

NotRestored(r, k) == items[k]        \* faulty: an error leaves what it wrote
Restored(r, k) == IF k \in Locked(r) THEN before[r][k] ELSE items[k]

RollBack(r) ==
  /\ Goto(r, "writing", "failed")
  /\ items' = [k \in Keys |-> Restored(r, k)]
  /\ before' = [before EXCEPT ![r] = << >>]
  /\ UNCHANGED <<cart, products, target>>

\* deleteCartItem: findCartItem, then the delete by id.
RemovalFind(d) ==
  /\ \/ \E k \in Keys :
          /\ Committed(k) # NoRow
          /\ target' = [target EXCEPT ![d] = <<k, Committed(k).id>>]
          /\ Goto(d, "idle", "found")
     \/ Goto(d, "idle", "failed") /\ UNCHANGED target
  /\ UNCHANGED <<cart, products, items, before>>

Unlocked(k) == k \notin AnyLocked

RemovalDelete(d) ==
  /\ pc[d] = "found"
  /\ LET k == target[d][1] IN
     /\ Unlocked(k)
     /\ IF items[k] # NoRow /\ items[k].id = target[d][2]
        THEN /\ pc' = [pc EXCEPT ![d] = "done"]
             /\ items' = [items EXCEPT ![k] = NoRow]
        ELSE /\ pc' = [pc EXCEPT ![d] = "failed"]
             /\ UNCHANGED items
  /\ UNCHANGED <<cart, products, before, target>>

RemovalFails(d) ==
  /\ Goto(d, "found", "failed")
  /\ UNCHANGED <<cart, products, items, before, target>>

\* Product.onDelete and Cart.onDelete: Cascade.
Without(K) == items' = [k \in Keys |-> IF k \in K THEN NoRow ELSE items[k]]

DeleteProduct(p) ==
  /\ p \in products
  /\ AnyLocked \cap ({p} \X Sizes) = {}
  /\ products' = products \ {p}
  /\ Without({p} \X Sizes)
  /\ UNCHANGED <<cart, before, pc, target>>

DeleteAccount ==
  /\ cart # "gone"
  /\ AnyLocked = {}
  /\ cart' = "gone"
  /\ Without(Keys)
  /\ UNCHANGED <<products, before, pc, target>>

Next ==
  \/ \E c \in Creations : CreateCart(c) \/ CreateCartFails(c)
  \/ \E r \in Updates : UpdateStart(r) \/ Upsert(r) \/ UpdateCommit(r) \/ RollBack(r)
  \/ \E d \in Removals : RemovalFind(d) \/ RemovalDelete(d) \/ RemovalFails(d)
  \/ \E p \in Products : DeleteProduct(p)
  \/ DeleteAccount

Spec == Init /\ [][Next]_vars

-----------------------------------------------------------------------------
(* Properties.                                                             *)

\* Rows are well formed, and every item has its cart and its product, although
\* an update looks for the cart before its transaction and for the product not
\* at all.
TypeOK ==
  /\ cart \in {"none", "there", "gone"}
  /\ products \subseteq Products
  /\ items \in [Keys -> Rows \cup {NoRow}]
  /\ \A r \in Updates : /\ Locked(r) \subseteq Keys
                        /\ \A k \in Locked(r) : before[r][k] \in Rows \cup {NoRow}
  /\ pc \in [Requests -> {"idle", "writing", "found", "done", "failed"}]
  /\ \A d \in Removals : pc[d] \in {"found", "done"} => target[d] \in Keys \X Updates
  /\ \A k \in Keys : items[k] # NoRow => cart = "there" /\ k[1] \in products

\* The sizes of an update appear together or not at all, and in the order of
\* the commits, whatever order the requests list them in, whichever of two
\* updates that wait for each other is rolled back, and whatever is removed in
\* between (cart.service.ts:31-37).
AtomicCart == INSTANCE Basket
  WITH KeysOf <- [r \in Updates |->
                    {<<ProductOf[r], SizesOf[r][n]>> : n \in 1..Len(SizesOf[r])}],
       setBy <- [k \in Keys |-> IF Committed(k) = NoRow THEN NoUpdate
                                                        ELSE Committed(k).by],
       told <- {r \in Updates : pc[r] = "done"}
BasketSpec == AtomicCart!Spec
=============================================================================
