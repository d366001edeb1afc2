--------------------------------- MODULE Shop ----------------------------------
(***************************************************************************)
(* Accounts, stores, favourites and the products of a store: UserService,  *)
(* StoreService and ProductService with their repositories                 *)
(* (src/src/domains/user, store and product).                              *)
(*                                                                         *)
(* Every request looks first and writes in a later command.  What it saw   *)
(* may be gone or taken by then: the unique indexes and the foreign keys   *)
(* decide, and prismaErrorHandler turns their errors into an answer.  A    *)
(* request carries the id of its user in an access token that stays valid  *)
(* when the account withdraws (authenticate does not look it up).          *)
(***************************************************************************)
EXTENDS Integers, FiniteSets

CONSTANTS
  Accounts,     \* users at the start
  Seller, Buyer,
  Emails, EmailOf,    \* of an account and of a sign-up
  SignUps,      \* POST /users
  Openings,     \* POST /stores of the seller
  Likings,      \* POST /stores/:storeId/favorite of the buyer
  Unlikings,    \* DELETE /stores/:storeId/favorite of the buyer
  Additions,    \* POST /products of the seller
  Discards,     \* DELETE /products/:productId of the seller
  Withdrawals,  \* DELETE /users/delete
  Nobody

Requests == SignUps \cup Openings \cup Likings \cup Unlikings
              \cup Additions \cup Discards \cup Withdrawals

ASSUME AccountAssumption ==
  /\ Accounts = {Seller, Buyer} /\ Seller # Buyer
  /\ EmailOf \in [Accounts \cup SignUps -> Emails]
  /\ EmailOf[Seller] # EmailOf[Buyer]
  /\ Accounts \cap Requests = {} /\ Nobody \notin Accounts \cup Requests

ASSUME KindAssumption ==
  LET Others == Additions \cup Discards \cup Withdrawals IN
  /\ SignUps \cap (Openings \cup Likings \cup Unlikings \cup Others) = {}
  /\ Openings \cap (Likings \cup Unlikings \cup Others) = {}
  /\ Likings \cap (Unlikings \cup Others) = {}
  /\ Unlikings \cap Others = {}

VARIABLES
  users,     \* rows [id, email]
  stores,    \* rows [id, owner]
  likes,     \* rows [id, user, store]
  products,  \* rows [id, store]
  pc,
  target     \* the row a request has found: a store, a product, a user

vars == <<users, stores, likes, products, pc, target>>

Ids(rows) == {row.id : row \in rows}
Goto(r, from, to) == pc[r] = from /\ pc' = [pc EXCEPT ![r] = to]

-----------------------------------------------------------------------------
\* What the indexes and the keys of prisma/schema.prisma let in.
EmailsTaken == {u.email : u \in users}
AnyFree(r) == TRUE                      \* faulty: no unique index
EmailFree(r) == EmailOf[r] \notin EmailsTaken
HasStore(u) == \E s \in stores : s.owner = u
LikesStore(u, s) == \E l \in likes : l.user = u /\ l.store = s
Likable(s) == TRUE                      \* faulty: no foreign key
StoreAndBuyer(s) == s \in Ids(stores) /\ Buyer \in Ids(users)

\* onDelete: Cascade, from the account down.
ProductsOf(S) == {p \in products : p.store \in S}
StoresOf(u) == {s \in stores : s.owner = u}

-----------------------------------------------------------------------------
Init ==
  /\ users = {[id |-> u, email |-> EmailOf[u]] : u \in Accounts}
  /\ stores = {} /\ likes = {} /\ products = {}
  /\ pc = [r \in Requests |-> "idle"]
  /\ target = [r \in Requests |-> Nobody]

\* createUser: findByEmail, bcrypt, and the insert.
SignUpCheck(r) ==
  /\ IF EmailOf[r] \in EmailsTaken THEN Goto(r, "idle", "conflict")
                                   ELSE Goto(r, "idle", "checked")
  /\ UNCHANGED <<users, stores, likes, products, target>>

SignUpInsert(r) ==
  /\ IF EmailFree(r)
     THEN /\ Goto(r, "checked", "done")
          /\ users' = users \cup {[id |-> r, email |-> EmailOf[r]]}
     ELSE Goto(r, "checked", "conflict") /\ UNCHANGED users
  /\ UNCHANGED <<stores, likes, products, target>>

\* createStore: findByUserId, then the insert, which needs the account.
OpenCheck(r) ==
  /\ IF HasStore(Seller) THEN Goto(r, "idle", "conflict")
                         ELSE Goto(r, "idle", "checked")
  /\ UNCHANGED <<users, stores, likes, products, target>>

OpenInsert(r) ==
  /\ pc[r] = "checked"
  /\ \/ /\ Seller \in Ids(users) /\ ~ HasStore(Seller)
        /\ stores' = stores \cup {[id |-> r, owner |-> Seller]}
        /\ pc' = [pc EXCEPT ![r] = "done"]
     \/ /\ Seller \notin Ids(users)
        /\ pc' = [pc EXCEPT ![r] = "failed"] /\ UNCHANGED stores
     \/ /\ HasStore(Seller)
        /\ pc' = [pc EXCEPT ![r] = "conflict"] /\ UNCHANGED stores
  /\ UNCHANGED <<users, likes, products, target>>

\* registerFavorite: findById of the store, findFavorite, and the insert.
LikeFind(r) ==
  /\ \/ /\ \E s \in stores : target' = [target EXCEPT ![r] = s.id]
        /\ Goto(r, "idle", "found")
     \/ Goto(r, "idle", "failed") /\ UNCHANGED target
  /\ UNCHANGED <<users, stores, likes, products>>

LikeCheck(r) ==
  /\ IF LikesStore(Buyer, target[r]) THEN Goto(r, "found", "conflict")
                                     ELSE Goto(r, "found", "checked")
  /\ UNCHANGED <<users, stores, likes, products, target>>

LikeInsert(r) ==
  /\ pc[r] = "checked"
  /\ LET s == target[r] IN
     \/ /\ StoreAndBuyer(s) /\ ~ LikesStore(Buyer, s)
        /\ likes' = likes \cup {[id |-> r, user |-> Buyer, store |-> s]}
        /\ pc' = [pc EXCEPT ![r] = "done"]
     \/ /\ ~ StoreAndBuyer(s)
        /\ pc' = [pc EXCEPT ![r] = "failed"] /\ UNCHANGED likes
     \/ /\ LikesStore(Buyer, s)
        /\ pc' = [pc EXCEPT ![r] = "conflict"] /\ UNCHANGED likes
  /\ UNCHANGED <<users, stores, products, target>>

\* unregisterFavorite: the same two reads, then a delete by user and store.
UnlikeFind(r) ==
  /\ \/ /\ \E s \in stores : target' = [target EXCEPT ![r] = s.id]
        /\ Goto(r, "idle", "found")
     \/ Goto(r, "idle", "failed") /\ UNCHANGED target
  /\ UNCHANGED <<users, stores, likes, products>>

UnlikeCheck(r) ==
  /\ IF LikesStore(Buyer, target[r]) THEN Goto(r, "found", "checked")
                                     ELSE Goto(r, "found", "missing")
  /\ UNCHANGED <<users, stores, likes, products, target>>

UnlikeDelete(r) ==
  /\ IF LikesStore(Buyer, target[r]) THEN Goto(r, "checked", "done")
                                     ELSE Goto(r, "checked", "missing")
  /\ likes' = {l \in likes : ~ (l.user = Buyer /\ l.store = target[r])}
  /\ UNCHANGED <<users, stores, products, target>>

\* createProduct: findStoreByUserId, and the insert with its stocks.
AddFind(r) ==
  /\ \/ /\ \E s \in StoresOf(Seller) : target' = [target EXCEPT ![r] = s.id]
        /\ Goto(r, "idle", "found")
     \/ Goto(r, "idle", "failed") /\ UNCHANGED target
  /\ UNCHANGED <<users, stores, likes, products>>

AddInsert(r) ==
  /\ \/ /\ target[r] \in Ids(stores)
        /\ Goto(r, "found", "inserted")
        /\ products' = products \cup {[id |-> r, store |-> target[r]]}
     \/ Goto(r, "found", "failed") /\ UNCHANGED products
  /\ UNCHANGED <<users, stores, likes, target>>

\* The product is read again for the answer; it may be gone by then.
AddReread(r) ==
  /\ \/ r \in Ids(products) /\ Goto(r, "inserted", "done")
     \/ Goto(r, "inserted", "failed")
  /\ UNCHANGED <<users, stores, likes, products, target>>

\* deleteProduct: findProductOwnership, and the delete by id.
DiscardFind(r) ==
  /\ \/ /\ \E s \in StoresOf(Seller) : \E p \in ProductsOf({s.id}) :
             target' = [target EXCEPT ![r] = p.id]
        /\ Goto(r, "idle", "found")
     \/ Goto(r, "idle", "failed") /\ UNCHANGED target
  /\ UNCHANGED <<users, stores, likes, products>>

DiscardDelete(r) ==
  /\ \/ /\ target[r] \in Ids(products)
        /\ Goto(r, "found", "done")
        /\ products' = {p \in products : p.id # target[r]}
     \/ Goto(r, "found", "failed") /\ UNCHANGED products
  /\ UNCHANGED <<users, stores, likes, target>>

\* deleteMe: findById, and the delete, which fails while an order of the account
\* has payments (payments.orderId is RESTRICT).
WithdrawFind(r) ==
  /\ \/ /\ \E u \in Accounts \cap Ids(users) : target' = [target EXCEPT ![r] = u]
        /\ Goto(r, "idle", "found")
     \/ Goto(r, "idle", "failed") /\ UNCHANGED target
  /\ UNCHANGED <<users, stores, likes, products>>

WithdrawDelete(r) ==
  /\ Goto(r, "found", "done")
  /\ LET u == target[r]
         S == Ids(StoresOf(u)) IN
     /\ u \in Ids(users)
     /\ users' = {v \in users : v.id # u}
     /\ stores' = stores \ StoresOf(u)
     /\ likes' = {l \in likes : l.user # u /\ l.store \notin S}
     /\ products' = products \ ProductsOf(S)
  /\ UNCHANGED <<target>>

WithdrawFails(r) ==
  /\ Goto(r, "found", "failed")
  /\ UNCHANGED <<users, stores, likes, products, target>>

Next ==
  \/ \E r \in SignUps : SignUpCheck(r) \/ SignUpInsert(r)
  \/ \E r \in Openings : OpenCheck(r) \/ OpenInsert(r)
  \/ \E r \in Likings : LikeFind(r) \/ LikeCheck(r) \/ LikeInsert(r)
  \/ \E r \in Unlikings : UnlikeFind(r) \/ UnlikeCheck(r) \/ UnlikeDelete(r)
  \/ \E r \in Additions : AddFind(r) \/ AddInsert(r) \/ AddReread(r)
  \/ \E r \in Discards : DiscardFind(r) \/ DiscardDelete(r)
  \/ \E r \in Withdrawals : WithdrawFind(r) \/ WithdrawDelete(r) \/ WithdrawFails(r)

Spec == Init /\ [][Next]_vars

-----------------------------------------------------------------------------
(* Properties.                                                             *)

\* Rows are well formed and none is left without its parent: a store has its
\* account, a favourite its account and its store, a product its store, although
\* each is written some time after the parent was seen and the parent may
\* withdraw in between (schema.prisma: onDelete Cascade).
TypeOK ==
  /\ users \subseteq [id : Accounts \cup SignUps, email : Emails]
  /\ stores \subseteq [id : Openings, owner : Ids(users)]
  /\ likes \subseteq [id : Likings, user : Ids(users), store : Ids(stores)]
  /\ products \subseteq [id : Additions, store : Ids(stores)]
  /\ pc \in [Requests -> {"idle", "checked", "found", "inserted",
                          "done", "failed", "conflict", "missing"}]
  /\ target \in [Requests -> Accounts \cup Openings \cup Additions \cup {Nobody}]

Email(e) == <<"email", e>>
StoreOf(u) == <<"store", u>>
LikeOf(u, s) == <<"like", u, s>>
Taken == {<<Email(u.email), u.id>> : u \in users}
           \cup {<<StoreOf(s.owner), s.id>> : s \in stores}
           \cup {<<LikeOf(l.user, l.store), l.id>> : l \in likes}
Names == {Email(e) : e \in Emails} \cup {StoreOf(Seller)}
           \cup {LikeOf(Buyer, s) : s \in Openings}
Claiming == Accounts \cup SignUps \cup Openings \cup Likings
NameWanted(r) == IF r \in Openings THEN {StoreOf(Seller)}
              ELSE IF r \in Likings \cup Unlikings
              THEN {LikeOf(Buyer, s) : s \in Openings}
              ELSE {Email(EmailOf[r])}
Answered(r) == r \in Requests /\ pc[r] \in {"done", "failed", "conflict", "missing"}

\* An address belongs to one account, a seller has one store and a buyer marks
\* a store once.  Of requests for the same name that are all past their check
\* (user.service.ts:22, store.service.ts:16, 266, 313) one succeeds; a conflict
\* is answered only for a name that was taken, "not found" only for one that was
\* free, and a success always takes or frees one.
OneHolder == INSTANCE Directory
  WITH Claims <- Claiming, Releases <- Unlikings, held <- Taken,
       NamesOf <- [r \in Claiming \cup Unlikings |-> NameWanted(r)],
       told <- [r \in Claiming \cup Unlikings |->
                  IF Answered(r) THEN pc[r] ELSE "none"]
DirectorySpec == OneHolder!Spec
=============================================================================
