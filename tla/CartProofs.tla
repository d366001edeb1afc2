------------------------------ MODULE CartProofs -------------------------------
(***************************************************************************)
(* The sizes of an update of the cart appear together or not at all, the   *)
(* price an order is made at is the price last shown and its total the sum *)
(* of its rows, for any number of updates, removals, edits, products,      *)
(* sizes and prices.                                                       *)
(***************************************************************************)
EXTENDS Offers, SumTheorems, FiniteSetTheorems, TLAPS

Typed ==
  /\ items \in [Keys -> Rows \cup {NoRow}]
  /\ DOMAIN before = Updates
  /\ \A r \in Updates : \A k \in Keys :
       k \in DOMAIN before[r] => before[r][k] \in Rows \cup {NoRow}
  /\ DOMAIN pc = Requests
  /\ DOMAIN target = Removals
  /\ \A d \in Removals : pc[d] \in {"found", "done"} => target[d] \in Keys \X Updates

\* Only an update under way holds locks, and no two hold the same one.
Locks ==
  /\ \A r \in Updates : pc[r] # "writing" => Locked(r) = {}
  /\ \A q, r \in Updates : q # r => Locked(q) \cap Locked(r) = {}

CartInv == Typed /\ Locks

LEMMA CartInit == Init => CartInv
BY KindAssumption
   DEF Init, CartInv, Typed, Locks, Locked, Requests, Keys

\* What is common to the steps that change neither rows nor locks.
LEMMA PlaceStep ==
  ASSUME CartInv, NEW r \in Requests, NEW p,
         pc' = [pc EXCEPT ![r] = p],
         UNCHANGED <<items, before>>,
         r \in Removals => p # "done",
         r \in Updates => Locked(r) = {},
         \/ UNCHANGED target /\ (r \in Removals => p # "found")
         \/ /\ r \in Removals
            /\ \E k \in Keys, u \in Updates : target' = [target EXCEPT ![r] = <<k, u>>]
  PROVE  CartInv'
<1> USE DEF CartInv, Typed
<1>1. \A q \in Updates : Locked(q)' = Locked(q)
  BY DEF Locked
<1>2. Typed'
  BY KindAssumption DEF Requests
<1>3. Locks'
  BY <1>1, KindAssumption DEF Locks, Requests
<1>4. QED
  BY <1>2, <1>3

-----------------------------------------------------------------------------
(* The steps that change rows or locks.                                    *)

LEMMA UpsertStep ==
  ASSUME CartInv, NEW r \in Updates, Upsert(r)
  PROVE  CartInv'
<1> USE DEF CartInv, Typed
<1> DEFINE key == NextKey(r)
<1>1. /\ pc[r] = "writing" /\ key \notin LockedByOthers(r)
      /\ UNCHANGED <<pc, target>>
      /\ items' = [items EXCEPT ![key] = Upserted(r, items[key])]
      /\ before' = [before EXCEPT ![r] =
                      [k \in Locked(r) \cup {key} |->
                         IF k \in Locked(r) THEN before[r][k] ELSE items[k]]]
  BY DEF Upsert, Free
<1> HIDE DEF key
<1>2. /\ Locked(r)' = Locked(r) \cup {key}
      /\ \A q \in Updates \ {r} : Locked(q)' = Locked(q) /\ before'[q] = before[q]
      /\ \A q \in Updates \ {r} : key \notin Locked(q)
  BY <1>1 DEF Locked, LockedByOthers
<1>3. \A k \in Keys : items[k] \in Rows \cup {NoRow}
  OBVIOUS
<1>4. \A k \in Keys : k # key => items'[k] = items[k]
  BY <1>1
<1>5. key \in Keys =>
        /\ items'[key] \in Rows
        /\ items'[key].id = IF items[key] = NoRow THEN r ELSE items[key].id
  BY <1>1, <1>3 DEF Upserted, Rows
<1>6. Typed'
  <2>1. \A k \in Keys : items'[k] \in Rows \cup {NoRow}
    BY <1>3, <1>4, <1>5
  <2>2. items' = [k \in Keys |-> items'[k]]
    BY <1>1
  <2>3. items' \in [Keys -> Rows \cup {NoRow}]
    BY <2>1, <2>2
  <2>4. DOMAIN before' = Updates
    BY <1>1
  <2>5. ASSUME NEW q \in Updates, NEW k \in Keys, k \in DOMAIN before'[q]
        PROVE  before'[q][k] \in Rows \cup {NoRow}
    BY <1>1, <1>2, <1>3, <2>5 DEF Locked
  <2>6. QED
    BY <1>1, <2>3, <2>4, <2>5
<1>7. Locks'
  BY <1>1, <1>2 DEF Locks
<1>8. QED
  BY <1>6, <1>7

LEMMA CommitStep ==
  ASSUME CartInv, NEW r \in Updates, UpdateCommit(r)
  PROVE  CartInv'
<1> USE DEF CartInv, Typed, Locked
<1>1. /\ pc[r] = "writing" /\ pc' = [pc EXCEPT ![r] = "done"]
      /\ before' = [before EXCEPT ![r] = << >>] /\ UNCHANGED <<items, target>>
  BY DEF UpdateCommit, Goto
<1>2. r \in Requests /\ r \notin Removals
  BY KindAssumption DEF Requests
<1>3. DOMAIN before'[r] = {} /\ \A q \in Updates \ {r} : before'[q] = before[q]
  BY <1>1
<1>4. \A q \in Requests : q # r => pc'[q] = pc[q]
  BY <1>1
<1>5. Typed'
  BY <1>1, <1>2, <1>3, <1>4
<1>6. Locks'
  BY <1>1, <1>3, <1>4 DEF Locks, Requests
<1>7. QED
  BY <1>5, <1>6

LEMMA RollBackStep ==
  ASSUME CartInv, NEW r \in Updates, RollBack(r)
  PROVE  CartInv'
<1> USE DEF CartInv, Typed, Locked
<1>1. /\ pc[r] = "writing" /\ pc' = [pc EXCEPT ![r] = "failed"]
      /\ before' = [before EXCEPT ![r] = << >>] /\ UNCHANGED target
      /\ items' = [k \in Keys |-> IF k \in DOMAIN before[r] THEN before[r][k]
                                                          ELSE items[k]]
  BY DEF RollBack, Restored, Goto
<1>2. r \in Requests /\ r \notin Removals
  BY KindAssumption DEF Requests
<1>3. DOMAIN before'[r] = {} /\ \A q \in Updates \ {r} : before'[q] = before[q]
  BY <1>1
<1>4. \A q \in Requests : q # r => pc'[q] = pc[q]
  BY <1>1
<1>5. \A k \in Keys : /\ k \in DOMAIN before[r] => items'[k] = before[r][k]
                      /\ k \notin DOMAIN before[r] => items'[k] = items[k]
  BY <1>1
<1>6. Typed'
  <2>1. \A k \in Keys : items'[k] \in Rows \cup {NoRow}
    BY <1>5
  <2>2. items' \in [Keys -> Rows \cup {NoRow}]
    BY <1>1, <2>1
  <2>3. QED
    BY <1>1, <1>2, <1>3, <1>4, <2>2
<1>7. Locks'
  BY <1>1, <1>3, <1>4 DEF Locks, Requests
<1>8. QED
  BY <1>6, <1>7

\* Rows that go, by the deletion of a product or of the account or in a removal.
LEMMA RowsGo ==
  ASSUME CartInv, NEW K,
         items' = [k \in Keys |-> IF k \in K THEN NoRow ELSE items[k]],
         UNCHANGED <<before, pc, target>>
  PROVE  CartInv'
<1> USE DEF CartInv, Typed, Locked
<1>1. items' \in [Keys -> Rows \cup {NoRow}]
  OBVIOUS
<1>2. QED
  BY <1>1 DEF Locks

LEMMA RemovalStep ==
  ASSUME CartInv, NEW d \in Removals, RemovalDelete(d)
  PROVE  CartInv'
<1> DEFINE k == target[d][1]
           u == target[d][2]
<1> USE DEF CartInv, Typed
<1>1. pc[d] = "found" /\ k \in Keys /\ u \in Updates /\ UNCHANGED <<before, target>>
  BY DEF RemovalDelete
<1>2. d \in Requests /\ d \notin Updates
  BY KindAssumption DEF Requests
<1>3. CASE UNCHANGED items /\ pc' = [pc EXCEPT ![d] = "failed"]
  BY <1>1, <1>2, <1>3, PlaceStep
<1>4. CASE /\ items[k] # NoRow /\ items[k].id = u /\ k \notin AnyLocked
           /\ items' = [items EXCEPT ![k] = NoRow]
           /\ pc' = [pc EXCEPT ![d] = "done"]
  <2> USE DEF Locked
  <2>1. \A q \in Requests : q # d => pc'[q] = pc[q]
    BY <1>4
  <2>2. Updates \subseteq Requests \ {d} /\ Removals \subseteq Requests
    BY <1>2 DEF Requests
  <2>3. Typed'
    <3>1. items' \in [Keys -> Rows \cup {NoRow}]
      BY <1>4
    <3>2. QED
      BY <1>1, <1>4, <2>1, <2>2, <3>1
  <2>4. Locks'
    BY <1>1, <2>1, <2>2 DEF Locks
  <2>5. QED
    BY <2>3, <2>4
<1>5. QED
  BY <1>3, <1>4 DEF RemovalDelete, Unlocked

\* One case for each action, in the order of Next.
LEMMA CartKept == CartInv /\ [Next]_vars => CartInv'
<1> SUFFICES ASSUME CartInv, [Next]_vars PROVE CartInv'
  OBVIOUS
<1>1. ASSUME NEW c \in Creations, CreateCart(c) \/ CreateCartFails(c)
      PROVE  CartInv'
  <2>1. c \in Requests /\ c \notin Updates /\ c \notin Removals
    BY KindAssumption DEF Requests
  <2>2. /\ UNCHANGED <<items, before, target>> /\ pc[c] = "idle"
        /\ \E p : pc' = [pc EXCEPT ![c] = p]
    BY <1>1 DEF CreateCart, CreateCartFails, Goto
  <2>3. QED
    BY <2>1, <2>2, PlaceStep
<1>2. ASSUME NEW r \in Updates, UpdateStart(r)
      PROVE  CartInv'
  <2>1. r \in Requests /\ r \notin Removals
    BY KindAssumption DEF Requests
  <2>2. /\ UNCHANGED <<items, before, target>> /\ pc[r] = "idle"
        /\ \E p \in {"writing", "failed"} : pc' = [pc EXCEPT ![r] = p]
    BY <1>2 DEF UpdateStart, Goto
  <2>3. Locked(r) = {}
    BY <2>2 DEF CartInv, Locks
  <2>4. QED
    BY <2>1, <2>2, <2>3, PlaceStep
<1>3. ASSUME NEW r \in Updates, Upsert(r) \/ UpdateCommit(r) \/ RollBack(r)
      PROVE  CartInv'
  BY <1>3, UpsertStep, CommitStep, RollBackStep
<1>4. ASSUME NEW d \in Removals, RemovalFind(d)
      PROVE  CartInv'
  <2>1. d \in Requests /\ d \notin Updates /\ UNCHANGED <<items, before>> /\ pc[d] = "idle"
    BY <1>4, KindAssumption DEF RemovalFind, Goto, Requests
  <2>2. CASE UNCHANGED target /\ pc' = [pc EXCEPT ![d] = "failed"]
    BY <2>1, <2>2, PlaceStep
  <2>3. ASSUME NEW k \in Keys, Committed(k) # NoRow,
               target' = [target EXCEPT ![d] = <<k, Committed(k).id>>],
               pc' = [pc EXCEPT ![d] = "found"]
        PROVE  CartInv'
    <3>1. Committed(k) \in Rows \cup {NoRow}
      <4>1. CASE k \in AnyLocked
        <5> DEFINE q == CHOOSE q \in Updates : k \in Locked(q)
        <5>1. q \in Updates /\ k \in DOMAIN before[q]
          BY <4>1 DEF AnyLocked, Locked
        <5>2. QED
          BY <4>1, <5>1 DEF Committed, CartInv, Typed
      <4>2. CASE k \notin AnyLocked
        BY <4>2 DEF Committed, CartInv, Typed
      <4>3. QED
        BY <4>1, <4>2
    <3>2. Committed(k).id \in Updates
      BY <2>3, <3>1 DEF Rows
    <3>3. QED
      BY <2>1, <2>3, <3>2, PlaceStep
  <2>4. QED
    BY <1>4, <2>2, <2>3 DEF RemovalFind, Goto
<1>5. ASSUME NEW d \in Removals, RemovalDelete(d)
      PROVE  CartInv'
  BY <1>5, RemovalStep
<1>6. ASSUME NEW d \in Removals, RemovalFails(d)
      PROVE  CartInv'
  <2>1. d \in Requests /\ d \notin Updates
    BY KindAssumption DEF Requests
  <2>2. QED
    BY <1>6, <2>1, PlaceStep DEF RemovalFails, Goto
<1>7. ASSUME NEW p \in Products, DeleteProduct(p)
      PROVE  CartInv'
  BY <1>7, RowsGo DEF DeleteProduct, Without
<1>8. CASE DeleteAccount
  BY <1>8, RowsGo DEF DeleteAccount, Without
<1>9. CASE UNCHANGED vars
  <2>1. UNCHANGED <<items, before, pc, target>>
    BY <1>9 DEF vars
  <2>2. QED
    BY <2>1 DEF CartInv, Typed, Locks, Locked
<1>10. QED
  BY <1>1, <1>2, <1>3, <1>4, <1>5, <1>6, <1>7, <1>8, <1>9 DEF Next

-----------------------------------------------------------------------------
(* Cart implements Basket.                                                 *)

\* An update locks the keys of its sizes one by one, and the row of a key it
\* has locked is from it.
FirstKeys(r, m) == {<<ProductOf[r], SizesOf[r][n]>> : n \in 1..m}
InOrder ==
  \A r \in Updates :
    /\ \E m \in 0..Len(SizesOf[r]) :
         Locked(r) = FirstKeys(r, m) /\ Cardinality(Locked(r)) = m
    /\ \A k \in Keys : k \in Locked(r) => items[k] \in Rows /\ items[k].by = r

BasketInv == CartInv /\ InOrder

\* The keys of an update, one more at a time.
LEMMA OneKeyMore ==
  ASSUME NEW r \in Updates, NEW m \in 0..Len(SizesOf[r]), m # Len(SizesOf[r]),
         Cardinality(FirstKeys(r, m)) = m
  PROVE  LET key == <<ProductOf[r], SizesOf[r][m + 1]>> IN
         /\ key \in Keys
         /\ FirstKeys(r, m + 1) = FirstKeys(r, m) \cup {key}
         /\ key \notin FirstKeys(r, m)
         /\ Cardinality(FirstKeys(r, m + 1)) = m + 1
<1> DEFINE key == <<ProductOf[r], SizesOf[r][m + 1]>>
<1>1. /\ SizesOf[r] \in Seq(Sizes) /\ ProductOf[r] \in Products
      /\ Len(SizesOf[r]) \in Nat /\ m + 1 \in 1..Len(SizesOf[r]) /\ m \in Nat
  BY UpdateAssumption
<1>2. key \in Keys
  BY <1>1 DEF Keys
<1>3. 1..(m + 1) = 1..m \cup {m + 1}
  BY <1>1
<1>4. FirstKeys(r, m + 1) = FirstKeys(r, m) \cup {key}
  BY <1>3 DEF FirstKeys
<1>5. key \notin FirstKeys(r, m)
  <2>1. \A n \in 1..m : n \in 1..Len(SizesOf[r]) /\ n # m + 1
    BY <1>1
  <2>2. \A n \in 1..m : SizesOf[r][n] # SizesOf[r][m + 1]
    BY <1>1, <2>1, UpdateAssumption
  <2>3. QED
    BY <2>2 DEF FirstKeys
<1>6. IsFiniteSet(FirstKeys(r, m))
  <2>1. IsFiniteSet(1..m)
    BY <1>1, FS_Interval
  <2> DEFINE f == [n \in 1..m |-> <<ProductOf[r], SizesOf[r][n]>>]
  <2>2. f \in Surjection(1..m, FirstKeys(r, m))
    BY DEF Surjection, FirstKeys
  <2>3. QED
    BY <2>1, <2>2, FS_Surjection
<1>7. Cardinality(FirstKeys(r, m + 1)) = m + 1
  <2> HIDE DEF key
  <2>1. Cardinality(FirstKeys(r, m) \cup {key}) = Cardinality(FirstKeys(r, m)) + 1
    BY <1>5, <1>6, FS_AddElement
  <2>2. QED
    BY <1>4, <2>1
<1>8. QED
  BY <1>2, <1>4, <1>5, <1>7

\* What others see of a key: the row before its update, or the row.
LEMMA SeenNow ==
  ASSUME Locks, NEW k
  PROVE  /\ \A r \in Updates : k \in Locked(r) => Committed(k) = before[r][k]
         /\ k \notin AnyLocked => Committed(k) = items[k]
BY DEF Locks, Committed, AnyLocked

LEMMA SeenNext ==
  ASSUME Locks', NEW k
  PROVE  /\ \A r \in Updates : k \in Locked(r)' => Committed(k)' = before'[r][k]
         /\ k \notin AnyLocked' => Committed(k)' = items'[k]
BY DEF Locks, Committed, AnyLocked

LEMMA BasketStart == Init => InOrder
<1> SUFFICES ASSUME Init, NEW r \in Updates
             PROVE  /\ Locked(r) = FirstKeys(r, 0) /\ Cardinality(Locked(r)) = 0
                    /\ 0 \in 0..Len(SizesOf[r])
                    /\ \A k \in Keys : k \notin Locked(r)
  BY DEF InOrder
<1>1. Locked(r) = {}
  BY DEF Init, Locked
<1>2. FirstKeys(r, 0) = {}
  BY DEF FirstKeys
<1>3. Len(SizesOf[r]) \in Nat
  BY UpdateAssumption
<1>4. QED
  BY <1>1, <1>2, <1>3, FS_EmptySet

\* The keys and rows of the updates that a step leaves alone.
LEMMA OrderKept ==
  ASSUME InOrder, NEW r \in Updates,
         \/ DOMAIN before'[r] = {}
         \/ before'[r] = before[r] /\ \A k \in Keys : k \in Locked(r) => items'[k] = items[k]
  PROVE  /\ \E m \in 0..Len(SizesOf[r]) :
              Locked(r)' = FirstKeys(r, m) /\ Cardinality(Locked(r))' = m
         /\ \A k \in Keys : k \in Locked(r)' => items'[k] \in Rows /\ items'[k].by = r
<1>1. CASE DOMAIN before'[r] = {}
  <2>1. FirstKeys(r, 0) = {}
    BY DEF FirstKeys
  <2>2. 0 \in 0..Len(SizesOf[r])
    BY UpdateAssumption
  <2>3. QED
    BY <1>1, <2>1, <2>2, FS_EmptySet DEF Locked
<1>2. CASE /\ before'[r] = before[r]
           /\ \A k \in Keys : k \in Locked(r) => items'[k] = items[k]
  BY <1>2 DEF InOrder, Locked
<1>3. QED
  BY <1>1, <1>2

\* An upsert locks the next key, and nobody else sees anything of it.
LEMMA BasketUpsert ==
  ASSUME BasketInv, CartInv', NEW r \in Updates, Upsert(r)
  PROVE  InOrder' /\ \A k \in Keys : Committed(k)' = Committed(k)
<1> USE DEF BasketInv
<1> DEFINE key == NextKey(r)
<1>1. /\ ~ AllWritten(r) /\ key \notin LockedByOthers(r)
      /\ items' = [items EXCEPT ![key] = Upserted(r, items[key])]
      /\ before' = [before EXCEPT ![r] =
                      [k \in Locked(r) \cup {key} |->
                         IF k \in Locked(r) THEN before[r][k] ELSE items[k]]]
  BY DEF Upsert, Free
<1>2. PICK m \in 0..Len(SizesOf[r]) :
        Locked(r) = FirstKeys(r, m) /\ Cardinality(Locked(r)) = m
  BY DEF InOrder
<1>3. m # Len(SizesOf[r]) /\ key = <<ProductOf[r], SizesOf[r][m + 1]>>
  BY <1>1, <1>2 DEF AllWritten, NextKey
<1>4. /\ key \in Keys /\ key \notin Locked(r)
      /\ FirstKeys(r, m + 1) = Locked(r) \cup {key}
      /\ Cardinality(FirstKeys(r, m + 1)) = m + 1
  BY <1>2, <1>3, OneKeyMore
<1>5. m + 1 \in 0..Len(SizesOf[r])
  BY <1>2, <1>3, UpdateAssumption
<1> HIDE DEF key
<1>6. /\ Locked(r)' = Locked(r) \cup {key}
      /\ \A q \in Updates \ {r} : before'[q] = before[q] /\ key \notin Locked(q)
  BY <1>1 DEF Locked, LockedByOthers, CartInv, Typed
<1>7. /\ items'[key] \in Rows /\ items'[key].by = r
      /\ \A k \in Keys : k # key => items'[k] = items[k]
  BY <1>1, <1>4 DEF Upserted, Rows, CartInv, Typed
<1>8. InOrder'
  <2>1. ASSUME NEW q \in Updates, q # r
        PROVE  /\ \E n \in 0..Len(SizesOf[q]) :
                    Locked(q)' = FirstKeys(q, n) /\ Cardinality(Locked(q))' = n
               /\ \A k \in Keys : k \in Locked(q)' => items'[k] \in Rows /\ items'[k].by = q
    BY <1>6, <1>7, <2>1, OrderKept
  <2>2. /\ \E n \in 0..Len(SizesOf[r]) :
              Locked(r)' = FirstKeys(r, n) /\ Cardinality(Locked(r))' = n
        /\ \A k \in Keys : k \in Locked(r)' => items'[k] \in Rows /\ items'[k].by = r
    <3>1. Locked(r)' = FirstKeys(r, m + 1) /\ Cardinality(Locked(r))' = m + 1
      BY <1>4, <1>6
    <3>2. \A k \in Keys : k \in Locked(r) => items[k] \in Rows /\ items[k].by = r
      BY DEF InOrder
    <3>3. QED
      BY <1>4, <1>5, <1>6, <1>7, <3>1, <3>2
  <2>3. QED
    BY <2>1, <2>2 DEF InOrder
<1>9. ASSUME NEW k \in Keys
      PROVE  Committed(k)' = Committed(k)
  <2>1. CASE k = key
    <3>1. k \notin AnyLocked /\ k \in Locked(r)'
      BY <1>4, <1>6, <2>1 DEF AnyLocked
    <3>2. before'[r][k] = items[k]
      BY <1>1, <1>4, <2>1 DEF CartInv, Typed
    <3>3. QED
      BY <3>1, <3>2, SeenNow, SeenNext DEF CartInv
  <2>2. ASSUME k # key, NEW q \in Updates, k \in Locked(q)
        PROVE  Committed(k)' = Committed(k)
    <3>1. k \in Locked(q)' /\ before'[q][k] = before[q][k]
      BY <1>1, <1>6, <2>2 DEF Locked, CartInv, Typed
    <3>2. QED
      BY <2>2, <3>1, SeenNow, SeenNext DEF CartInv
  <2>3. CASE k # key /\ k \notin AnyLocked
    <3>1. k \notin AnyLocked'
      BY <1>6, <2>3 DEF AnyLocked, Locked
    <3>2. QED
      BY <1>7, <2>3, <3>1, SeenNow, SeenNext DEF CartInv
  <2>4. QED
    BY <2>1, <2>2, <2>3 DEF AnyLocked
<1>10. QED
  BY <1>8, <1>9

\* What a buyer sees of a key, and the updates he was told of.
SetBy == [k \in Keys |-> IF Committed(k) = NoRow THEN NoUpdate ELSE Committed(k).by]
ToldOf == {r \in Updates : pc[r] = "done"}

\* A step that changes neither is no step of the basket.
LEMMA Unseen ==
  ASSUME SetBy' = SetBy, ToldOf' = ToldOf
  PROVE  [AtomicCart!Next]_<<SetBy, ToldOf>>
OBVIOUS

LEMMA BasketCommit ==
  ASSUME BasketInv, CartInv', NEW r \in Updates, UpdateCommit(r)
  PROVE  InOrder' /\ AtomicCart!SetAll(r)
<1> USE DEF BasketInv
<1>1. /\ AllWritten(r) /\ pc[r] = "writing" /\ pc' = [pc EXCEPT ![r] = "done"]
      /\ before' = [before EXCEPT ![r] = << >>] /\ UNCHANGED items
  BY DEF UpdateCommit, Goto
<1>2. DOMAIN before'[r] = {} /\ \A q \in Updates \ {r} : before'[q] = before[q]
  BY <1>1 DEF CartInv, Typed
<1>3. InOrder'
  BY <1>1, <1>2, OrderKept DEF InOrder
<1>4. Locked(r) = FirstKeys(r, Len(SizesOf[r]))
  BY <1>1 DEF AllWritten, InOrder
<1>5. \A k \in Keys : k \in Locked(r) => Committed(k)' = items[k] /\ items[k] # NoRow
                                        /\ items[k].by = r
  <2> SUFFICES ASSUME NEW k \in Keys, k \in Locked(r)
               PROVE  Committed(k)' = items[k] /\ items[k] # NoRow /\ items[k].by = r
    OBVIOUS
  <2>1. k \notin AnyLocked'
    BY <1>2 DEF AnyLocked, Locked, CartInv, Locks
  <2>2. QED
    BY <1>1, <2>1, SeenNext, NoRowAssumption DEF InOrder, CartInv
<1>6. \A k \in Keys : k \notin Locked(r) => Committed(k)' = Committed(k)
  <2> SUFFICES ASSUME NEW k \in Keys, k \notin Locked(r)
               PROVE  Committed(k)' = Committed(k)
    OBVIOUS
  <2>1. CASE k \in AnyLocked
    <3>1. PICK q \in Updates : k \in Locked(q)
      BY <2>1 DEF AnyLocked
    <3>2. k \in Locked(q)' /\ before'[q] = before[q]
      BY <1>2, <3>1 DEF Locked
    <3>3. QED
      BY <3>1, <3>2, SeenNow, SeenNext DEF CartInv
  <2>2. CASE k \notin AnyLocked
    <3>1. k \notin AnyLocked'
      BY <1>2, <2>2 DEF AnyLocked, Locked
    <3>2. QED
      BY <1>1, <2>2, <3>1, SeenNow, SeenNext DEF CartInv
  <2>3. QED
    BY <2>1, <2>2
<1>7. SetBy' = [k \in Keys |-> IF k \in FirstKeys(r, Len(SizesOf[r])) THEN r ELSE SetBy[k]]
  BY <1>4, <1>5, <1>6 DEF SetBy
<1>8. r \notin ToldOf /\ ToldOf' = ToldOf \cup {r}
  BY <1>1, KindAssumption DEF ToldOf, CartInv, Typed, Requests
<1>9. QED
  BY <1>3, <1>7, <1>8 DEF AtomicCart!SetAll, SetBy, ToldOf, FirstKeys

\* A rollback puts back what everybody else has been seeing.
LEMMA BasketRollBack ==
  ASSUME BasketInv, CartInv', NEW r \in Updates, RollBack(r)
  PROVE  InOrder' /\ \A k \in Keys : Committed(k)' = Committed(k)
<1> USE DEF BasketInv
<1>1. /\ before' = [before EXCEPT ![r] = << >>]
      /\ items' = [k \in Keys |-> IF k \in Locked(r) THEN before[r][k] ELSE items[k]]
  BY DEF RollBack, Restored
<1>2. DOMAIN before'[r] = {} /\ \A q \in Updates \ {r} : before'[q] = before[q]
  BY <1>1 DEF CartInv, Typed
<1>3. \A q \in Updates \ {r} : \A k \in Keys : k \in Locked(q) => items'[k] = items[k]
  BY <1>1 DEF CartInv, Locks
<1>4. InOrder'
  BY <1>1, <1>2, <1>3, OrderKept DEF InOrder
<1>5. ASSUME NEW k \in Keys
      PROVE  Committed(k)' = Committed(k)
  <2>1. CASE k \in Locked(r)
    <3>1. k \notin AnyLocked'
      BY <1>2, <2>1 DEF AnyLocked, Locked, CartInv, Locks
    <3>2. QED
      BY <1>1, <2>1, <3>1, SeenNow, SeenNext DEF CartInv
  <2>2. ASSUME NEW q \in Updates \ {r}, k \in Locked(q)
        PROVE  Committed(k)' = Committed(k)
    <3>1. k \in Locked(q)' /\ before'[q] = before[q]
      BY <1>2, <2>2 DEF Locked
    <3>2. QED
      BY <2>2, <3>1, SeenNow, SeenNext DEF CartInv
  <2>3. CASE k \notin AnyLocked
    <3>1. k \notin AnyLocked' /\ k \notin Locked(r)
      BY <1>2, <2>3 DEF AnyLocked, Locked
    <3>2. QED
      BY <1>1, <2>3, <3>1, SeenNow, SeenNext DEF CartInv
  <2>4. QED
    BY <2>1, <2>2, <2>3 DEF AnyLocked
<1>6. QED
  BY <1>4, <1>5

\* Rows that nobody has locked go.
LEMMA BasketTakeOut ==
  ASSUME BasketInv, CartInv', NEW K \in SUBSET Keys, AnyLocked \cap K = {},
         items' = [k \in Keys |-> IF k \in K THEN NoRow ELSE items[k]],
         UNCHANGED before, ToldOf' = ToldOf
  PROVE  InOrder' /\ AtomicCart!TakeOut(K)
<1> USE DEF BasketInv
<1>1. \A q \in Updates : \A k \in Keys : k \in Locked(q) => items'[k] = items[k]
  BY DEF AnyLocked
<1>2. InOrder'
  BY <1>1, OrderKept DEF InOrder
<1>3. ASSUME NEW k \in Keys
      PROVE  Committed(k)' = IF k \in K THEN NoRow ELSE Committed(k)
  <2>1. ASSUME NEW q \in Updates, k \in Locked(q)
        PROVE  Committed(k)' = Committed(k) /\ k \notin K
    <3>1. k \in Locked(q)' /\ before'[q] = before[q] /\ k \notin K
      BY <2>1 DEF Locked, AnyLocked
    <3>2. QED
      BY <2>1, <3>1, SeenNow, SeenNext DEF CartInv
  <2>2. CASE k \notin AnyLocked
    <3>1. k \notin AnyLocked'
      BY <2>2 DEF AnyLocked, Locked
    <3>2. QED
      BY <2>2, <3>1, SeenNow, SeenNext DEF CartInv
  <2>3. QED
    BY <2>1, <2>2 DEF AnyLocked
<1>4. SetBy' = [k \in Keys |-> IF k \in K THEN NoUpdate ELSE SetBy[k]]
  BY <1>3 DEF SetBy
<1>5. QED
  BY <1>2, <1>4 DEF AtomicCart!TakeOut, SetBy, ToldOf

\* One case for each action, in the order of Next.
LEMMA BasketStep ==
  ASSUME BasketInv, CartInv', [Next]_vars
  PROVE  InOrder' /\ [AtomicCart!Next]_<<SetBy, ToldOf>>
<1> USE DEF BasketInv
<1>0. Updates \subseteq Requests /\ Updates \cap (Creations \cup Removals) = {}
  BY KindAssumption DEF Requests
<1>1. ASSUME UNCHANGED <<items, before>>, ToldOf' = ToldOf
      PROVE  InOrder' /\ [AtomicCart!Next]_<<SetBy, ToldOf>>
  <2>1. InOrder'
    BY <1>1, OrderKept DEF InOrder
  <2>2. SetBy' = SetBy
    BY <1>1 DEF SetBy, Committed, AnyLocked, Locked
  <2>3. QED
    BY <1>1, <2>1, <2>2, Unseen
<1>2. ASSUME NEW r \in Requests, NEW p, pc' = [pc EXCEPT ![r] = p],
             \/ r \notin Updates
             \/ pc[r] # "done" /\ p # "done"
      PROVE  ToldOf' = ToldOf
  BY <1>0, <1>2 DEF ToldOf, CartInv, Typed
<1>3. ASSUME NEW c \in Creations, CreateCart(c) \/ CreateCartFails(c)
      PROVE  InOrder' /\ [AtomicCart!Next]_<<SetBy, ToldOf>>
  <2>1. c \in Requests /\ c \notin Updates
    BY <1>0 DEF Requests
  <2>2. UNCHANGED <<items, before>> /\ \E p : pc' = [pc EXCEPT ![c] = p]
    BY <1>3 DEF CreateCart, CreateCartFails, Goto
  <2>3. QED
    BY <1>1, <1>2, <2>1, <2>2
<1>4. ASSUME NEW r \in Updates, UpdateStart(r)
      PROVE  InOrder' /\ [AtomicCart!Next]_<<SetBy, ToldOf>>
  <2>1. /\ UNCHANGED <<items, before>> /\ pc[r] = "idle"
        /\ \E p \in {"writing", "failed"} : pc' = [pc EXCEPT ![r] = p]
    BY <1>4 DEF UpdateStart, Goto
  <2>2. QED
    BY <1>0, <1>1, <1>2, <2>1
<1>5. ASSUME NEW r \in Updates, Upsert(r)
      PROVE  InOrder' /\ [AtomicCart!Next]_<<SetBy, ToldOf>>
  <2>1. InOrder' /\ \A k \in Keys : Committed(k)' = Committed(k)
    BY <1>5, BasketUpsert
  <2>2. SetBy' = SetBy
    BY <2>1 DEF SetBy
  <2>3. ToldOf' = ToldOf
    BY <1>5 DEF Upsert, ToldOf
  <2>4. QED
    BY <2>1, <2>2, <2>3, Unseen
<1>6. ASSUME NEW r \in Updates, UpdateCommit(r)
      PROVE  InOrder' /\ [AtomicCart!Next]_<<SetBy, ToldOf>>
  BY <1>6, BasketCommit DEF AtomicCart!Next
<1>7. ASSUME NEW r \in Updates, RollBack(r)
      PROVE  InOrder' /\ [AtomicCart!Next]_<<SetBy, ToldOf>>
  <2>1. InOrder' /\ \A k \in Keys : Committed(k)' = Committed(k)
    BY <1>7, BasketRollBack
  <2>2. SetBy' = SetBy
    BY <2>1 DEF SetBy
  <2>3. ToldOf' = ToldOf
    BY <1>0, <1>2, <1>7 DEF RollBack, Goto
  <2>4. QED
    BY <2>1, <2>2, <2>3, Unseen
<1>8. ASSUME NEW d \in Removals, RemovalFind(d) \/ RemovalFails(d)
      PROVE  InOrder' /\ [AtomicCart!Next]_<<SetBy, ToldOf>>
  <2>1. d \in Requests /\ d \notin Updates
    BY <1>0 DEF Requests
  <2>2. UNCHANGED <<items, before>> /\ \E p : pc' = [pc EXCEPT ![d] = p]
    BY <1>8 DEF RemovalFind, RemovalFails, Goto
  <2>3. QED
    BY <1>1, <1>2, <2>1, <2>2
<1>9. ASSUME NEW d \in Removals, RemovalDelete(d)
      PROVE  InOrder' /\ [AtomicCart!Next]_<<SetBy, ToldOf>>
  <2> DEFINE k == target[d][1]
  <2>1. d \in Requests /\ d \notin Updates /\ k \in Keys /\ k \notin AnyLocked
        /\ UNCHANGED before
    BY <1>0, <1>9 DEF RemovalDelete, Unlocked, CartInv, Typed, Requests
  <2>2. \E p : pc' = [pc EXCEPT ![d] = p]
    BY <1>9 DEF RemovalDelete
  <2>3. ToldOf' = ToldOf
    BY <1>2, <2>1, <2>2
  <2>4. CASE UNCHANGED items
    BY <1>1, <2>1, <2>3, <2>4
  <2>5. CASE items' = [items EXCEPT ![k] = NoRow]
    <3>1. items' = [j \in Keys |-> IF j \in {k} THEN NoRow ELSE items[j]]
      BY <2>5 DEF CartInv, Typed
    <3>2. AnyLocked \cap {k} = {} /\ {k} \in SUBSET Keys
      BY <2>1
    <3>3. InOrder' /\ AtomicCart!TakeOut({k})
      BY <2>1, <2>3, <3>1, <3>2, BasketTakeOut
    <3>4. QED
      BY <3>2, <3>3 DEF AtomicCart!Next
  <2>6. QED
    BY <1>9, <2>4, <2>5 DEF RemovalDelete
<1>10. ASSUME NEW p \in Products, DeleteProduct(p)
       PROVE  InOrder' /\ [AtomicCart!Next]_<<SetBy, ToldOf>>
  <2>1. ToldOf' = ToldOf /\ {p} \X Sizes \in SUBSET Keys
    BY <1>10 DEF DeleteProduct, ToldOf, Keys
  <2>2. InOrder' /\ AtomicCart!TakeOut({p} \X Sizes)
    BY <1>10, <2>1, BasketTakeOut DEF DeleteProduct, Without
  <2>3. QED
    BY <2>1, <2>2 DEF AtomicCart!Next
<1>11. CASE DeleteAccount
  <2>1. ToldOf' = ToldOf /\ Keys \in SUBSET Keys
    BY <1>11 DEF DeleteAccount, ToldOf
  <2>2. InOrder' /\ AtomicCart!TakeOut(Keys)
    BY <1>11, <2>1, BasketTakeOut DEF DeleteAccount, Without
  <2>3. QED
    BY <2>1, <2>2 DEF AtomicCart!Next
<1>12. CASE UNCHANGED vars
  <2>1. UNCHANGED <<items, before>> /\ ToldOf' = ToldOf
    BY <1>12 DEF vars, ToldOf
  <2>2. QED
    BY <1>1, <2>1
<1>13. QED
  BY <1>3, <1>4, <1>5, <1>6, <1>7, <1>8, <1>9, <1>10, <1>11, <1>12 DEF Next

\* The sizes of an update appear together or not at all: Cart implements Basket.
THEOREM UpdatesAreAtomic == Spec => BasketSpec
<1>1. Init => AtomicCart!Init
  <2> SUFFICES ASSUME Init PROVE AtomicCart!Init
    OBVIOUS
  <2>1. \A k : k \notin AnyLocked
    BY DEF Init, AnyLocked, Locked
  <2>2. \A k \in Keys : Committed(k) = NoRow
    BY <2>1 DEF Init, Committed
  <2>3. \A r \in Updates : pc[r] # "done"
    BY DEF Init, Requests
  <2>4. QED
    BY <2>2, <2>3 DEF AtomicCart!Init
<1>2. /\ CartInv /\ CartInv' /\ InOrder /\ [Next]_vars
      => InOrder' /\ [AtomicCart!Next]_<<SetBy, ToldOf>>
  BY BasketStep DEF BasketInv
<1>3. QED
  BY CartInit, CartKept, BasketStart, <1>1, <1>2, PTL
     DEF Spec, BasketSpec, AtomicCart!Spec, SetBy, ToldOf

-----------------------------------------------------------------------------
(* Types.                                                                  *)

\* What an item references is there.
Referenced(k) == cart = "there" /\ k[1] \in products

\* The rows of the table have their cart and their product, and so has what a
\* rollback would put back.
ParentsInv ==
  /\ cart \in {"none", "there", "gone"}
  /\ products \subseteq Products
  /\ pc \in [Requests -> {"idle", "writing", "found", "done", "failed"}]
  /\ \A r \in Updates : Locked(r) \subseteq Keys
  /\ \A k \in Keys : items[k] # NoRow => Referenced(k)
  /\ \A r \in Updates : \A k \in Locked(r) : before[r][k] # NoRow => Referenced(k)

LEMMA ParentsInit == Init => ParentsInv
BY DEF Init, ParentsInv, Locked, Referenced

\* An upsert writes a key of the request, under a row that was there or with
\* both parents.
LEMMA UpsertHasParents ==
  ASSUME CartInv, BasketInv, ParentsInv, NEW r \in Updates, Upsert(r)
  PROVE  ParentsInv'
<1> USE DEF ParentsInv
<1> DEFINE key == NextKey(r)
<1>1. /\ ~ AllWritten(r) /\ UNCHANGED <<cart, products, pc>>
      /\ items[key] # NoRow \/ Insertable(r)
      /\ items' = [items EXCEPT ![key] = Upserted(r, items[key])]
      /\ before' = [before EXCEPT ![r] =
                      [k \in Locked(r) \cup {key} |->
                         IF k \in Locked(r) THEN before[r][k] ELSE items[k]]]
  BY DEF Upsert
<1>2. PICK m \in 0..Len(SizesOf[r]) :
        Locked(r) = FirstKeys(r, m) /\ Cardinality(Locked(r)) = m
  BY DEF BasketInv, InOrder
<1>3. m # Len(SizesOf[r]) /\ key = <<ProductOf[r], SizesOf[r][m + 1]>>
  BY <1>1, <1>2 DEF AllWritten, NextKey
<1>4. key \in Keys /\ key[1] = ProductOf[r]
  BY <1>2, <1>3, OneKeyMore
<1>5. Referenced(key)
  BY <1>1, <1>4 DEF Insertable, Referenced
<1> HIDE DEF key
<1>6. \A k : Referenced(k)' = Referenced(k)
  BY <1>1 DEF Referenced
<1>7. \A k \in Keys : k # key => items'[k] = items[k]
  BY <1>1 DEF CartInv, Typed
<1>8. /\ Locked(r)' = Locked(r) \cup {key}
      /\ \A k \in Locked(r)' : before'[r][k] = IF k \in Locked(r) THEN before[r][k] ELSE items[k]
      /\ \A q \in Updates \ {r} : before'[q] = before[q] /\ Locked(q)' = Locked(q)
  BY <1>1 DEF Locked, CartInv, Typed
<1>9. \A k \in Keys : items'[k] # NoRow => Referenced(k)'
  BY <1>5, <1>6, <1>7
<1>10. ASSUME NEW q \in Updates
       PROVE  /\ Locked(q)' \subseteq Keys
              /\ \A k \in Locked(q)' : before'[q][k] # NoRow => Referenced(k)'
  <2>1. CASE q = r
    BY <1>4, <1>5, <1>6, <1>8, <2>1
  <2>2. CASE q # r
    BY <1>6, <1>8, <2>2
  <2>3. QED
    BY <2>1, <2>2
<1>11. QED
  BY <1>1, <1>9, <1>10

\* Nothing of a parent that goes is locked, so no rollback misses it.
LEMMA ParentGoes ==
  ASSUME CartInv, ParentsInv, NEW K \in SUBSET Keys, AnyLocked \cap K = {},
         Without(K), UNCHANGED <<before, pc>>,
         cart' \in {"none", "there", "gone"}, products' \subseteq Products,
         \A k \in Keys \ K : Referenced(k) => Referenced(k)'
  PROVE  ParentsInv'
<1>1. \A k \in Keys : items'[k] # NoRow => k \notin K /\ items'[k] = items[k]
  BY DEF Without
<1>2. \A r \in Updates : Locked(r)' = Locked(r) /\ before'[r] = before[r]
  BY DEF Locked
<1>3. \A r \in Updates : \A k \in Locked(r) : k \in Keys \ K
  BY DEF AnyLocked, ParentsInv
<1>4. QED
  BY <1>1, <1>2, <1>3 DEF ParentsInv

\* One case for each action, in the order of Next.
LEMMA ParentsStep ==
  ASSUME CartInv, BasketInv, ParentsInv, [Next]_vars
  PROVE  ParentsInv'
<1>0. Updates \subseteq Requests /\ Creations \subseteq Requests /\ Removals \subseteq Requests
  BY DEF Requests
<1>1. ASSUME NEW r \in Requests,
             NEW p \in {"idle", "writing", "found", "done", "failed"},
             pc' = [pc EXCEPT ![r] = p] \/ UNCHANGED pc,
             UNCHANGED <<items, before, products>>,
             cart' \in {cart, "there"}
      PROVE  ParentsInv'
  BY <1>1 DEF ParentsInv, Locked, Referenced
<1>2. ASSUME NEW c \in Creations, CreateCart(c) \/ CreateCartFails(c)
      PROVE  ParentsInv'
  <2>1. /\ UNCHANGED <<items, before, products>> /\ cart' \in {cart, "there"}
        /\ \E p \in {"done", "failed"} : pc' = [pc EXCEPT ![c] = p]
    BY <1>2 DEF CreateCart, CreateCartFails, Goto
  <2>2. QED
    BY <1>0, <1>1, <2>1
<1>3. ASSUME NEW r \in Updates, UpdateStart(r)
      PROVE  ParentsInv'
  <2>1. /\ UNCHANGED <<items, before, products, cart>>
        /\ \E p \in {"writing", "failed"} : pc' = [pc EXCEPT ![r] = p]
    BY <1>3 DEF UpdateStart, Goto
  <2>2. QED
    BY <1>0, <1>1, <2>1
<1>4. ASSUME NEW r \in Updates, Upsert(r)
      PROVE  ParentsInv'
  BY <1>4, UpsertHasParents
<1>5. ASSUME NEW r \in Updates, UpdateCommit(r)
      PROVE  ParentsInv'
  <2>1. /\ UNCHANGED <<items, products, cart>> /\ pc' = [pc EXCEPT ![r] = "done"]
        /\ before' = [before EXCEPT ![r] = << >>]
    BY <1>5 DEF UpdateCommit, Goto
  <2>2. /\ Locked(r)' = {}
        /\ \A q \in Updates \ {r} : before'[q] = before[q] /\ Locked(q)' = Locked(q)
    BY <2>1 DEF Locked, CartInv, Typed
  <2>3. QED
    BY <1>0, <2>1, <2>2 DEF ParentsInv, Referenced
<1>6. ASSUME NEW r \in Updates, RollBack(r)
      PROVE  ParentsInv'
  <2>1. /\ UNCHANGED <<products, cart>> /\ pc' = [pc EXCEPT ![r] = "failed"]
        /\ before' = [before EXCEPT ![r] = << >>]
        /\ items' = [k \in Keys |-> IF k \in Locked(r) THEN before[r][k] ELSE items[k]]
    BY <1>6 DEF RollBack, Restored, Goto
  <2>2. /\ Locked(r)' = {}
        /\ \A q \in Updates \ {r} : before'[q] = before[q] /\ Locked(q)' = Locked(q)
    BY <2>1 DEF Locked, CartInv, Typed
  <2>3. \A k \in Keys : items'[k] # NoRow => Referenced(k)
    BY <2>1 DEF ParentsInv
  <2>4. QED
    BY <1>0, <2>1, <2>2, <2>3 DEF ParentsInv, Referenced
<1>7. ASSUME NEW d \in Removals, RemovalFind(d) \/ RemovalFails(d)
      PROVE  ParentsInv'
  <2>1. /\ UNCHANGED <<items, before, products, cart>>
        /\ \E p \in {"found", "failed"} : pc' = [pc EXCEPT ![d] = p]
    BY <1>7 DEF RemovalFind, RemovalFails, Goto
  <2>2. QED
    BY <1>0, <1>1, <2>1
<1>8. ASSUME NEW d \in Removals, RemovalDelete(d)
      PROVE  ParentsInv'
  <2>1. /\ UNCHANGED <<before, products, cart>>
        /\ \E p \in {"done", "failed"} : pc' = [pc EXCEPT ![d] = p]
        /\ UNCHANGED items \/ \E k : items' = [items EXCEPT ![k] = NoRow]
    BY <1>8 DEF RemovalDelete
  <2>2. \A k \in Keys : items'[k] # NoRow => items'[k] = items[k]
    BY <2>1 DEF CartInv, Typed
  <2>3. QED
    BY <1>0, <2>1, <2>2 DEF ParentsInv, Locked, Referenced
<1>9. ASSUME NEW p \in Products, DeleteProduct(p)
      PROVE  ParentsInv'
  <2>1. {p} \X Sizes \in SUBSET Keys
    BY DEF Keys
  <2>2. \A k \in Keys \ ({p} \X Sizes) : k[1] # p
    BY DEF Keys
  <2>3. /\ AnyLocked \cap ({p} \X Sizes) = {} /\ Without({p} \X Sizes)
        /\ products' = products \ {p} /\ UNCHANGED <<cart, before, pc>>
    BY <1>9 DEF DeleteProduct
  <2>4. \A k \in Keys \ ({p} \X Sizes) : Referenced(k) => Referenced(k)'
    BY <2>2, <2>3 DEF Referenced
  <2>5. QED
    BY <2>1, <2>3, <2>4, ParentGoes DEF ParentsInv
<1>10. CASE DeleteAccount
  BY <1>10, ParentGoes DEF DeleteAccount, ParentsInv
<1>11. CASE UNCHANGED vars
  BY <1>11 DEF vars, ParentsInv, Locked, Referenced
<1>12. QED
  BY <1>2, <1>3, <1>4, <1>5, <1>6, <1>7, <1>8, <1>9, <1>10, <1>11 DEF Next

\* Every item has its cart and its product, whatever is deleted while an update
\* is under way.
THEOREM ItemsHaveParents == Spec => []TypeOK
<1>1. CartInv /\ ParentsInv => TypeOK
  BY DEF CartInv, Typed, ParentsInv, Locked, Referenced, TypeOK
<1>2. /\ CartInv /\ CartInv' /\ InOrder /\ [Next]_vars => InOrder'
  BY BasketStep DEF BasketInv
<1>3. CartInv /\ InOrder /\ ParentsInv /\ [Next]_vars => ParentsInv'
  BY ParentsStep DEF BasketInv
<1>4. QED
  BY CartInit, CartKept, BasketStart, ParentsInit, <1>1, <1>2, <1>3, PTL DEF Spec

-----------------------------------------------------------------------------
(* Prices.                                                                 *)

OffersTyped ==
  /\ products \subseteq Products
  /\ offer \in [Products -> OfferRows]
  /\ visit = [at |-> visit.at, found |-> visit.found, shown |-> visit.shown,
              total |-> visit.total, rows |-> visit.rows]

\* What a page shows is what an order would be made at now, and what an order
\* was priced at is what the page showed, but for the products that moved.
Quoted ==
  /\ visit.at = "shown" =>
       /\ DOMAIN visit.shown \subseteq Products
       /\ \A p \in DOMAIN visit.shown \ moved :
            visit.shown[p] = OrderPrice(offer[p])
  /\ visit.at \in {"priced", "ordered"} =>
       \A p \in DOMAIN visit.rows \ moved : visit.rows[p] = visit.shown[p]

QuoteInv == OffersTyped /\ Quoted

\* Every copy of the rule is the same rule.
LEMMA OneRule ==
  ASSUME NEW o
  PROVE  /\ ListPrice(o) = OrderPrice(o)
         /\ DetailPrice(o) = OrderPrice(o)
         /\ CartPrice(o) = OrderPrice(o)
BY DEF ListPrice, DetailPrice, CartPrice, OrderPrice

LEMMA ProductsOnlyGo == Next => products' \subseteq products
BY DEF Next, CreateCart, CreateCartFails, UpdateStart, Upsert, UpdateCommit,
       RollBack, RemovalFind, RemovalDelete, RemovalFails, DeleteProduct,
       DeleteAccount

\* An edit leaves a row of the table.
LEMMA EditedTyped ==
  ASSUME NEW o \in OfferRows, NEW c \in Changes
  PROVE  Edited(o, c) \in OfferRows
<1>1. /\ Kept(c.price, o.price) \in Prices
      /\ Kept(c.from, o.from) \in Ends
      /\ Kept(c.until, o.until) \in Ends
      /\ c.rate \in Rates
  BY DEF Kept, Changes, OfferRows
<1>2. QED
  BY <1>1 DEF Edited, OfferRows

LEMMA QuoteInit == OffersInit => QuoteInv
<1> SUFFICES ASSUME OffersInit PROVE QuoteInv
  OBVIOUS
<1>1. OffersTyped
  BY OfferAssumption DEF OffersInit, Init, NoVisit, OffersTyped
<1>2. Quoted
  BY DEF OffersInit, NoVisit, Quoted
<1>3. QED
  BY <1>1, <1>2 DEF QuoteInv

LEMMA QuoteStep == QuoteInv /\ [OffersNext]_allVars => QuoteInv'
<1> SUFFICES ASSUME QuoteInv, [OffersNext]_allVars PROVE QuoteInv'
  OBVIOUS
<1> USE DEF QuoteInv
<1>1. CASE CartStep
  <2>1. products' \subseteq Products
    BY <1>1, ProductsOnlyGo DEF CartStep, OffersTyped
  <2>2. \/ visit' = visit
        \/ visit' = [NoVisit EXCEPT !.at = "gone"]
        \/ visit.at = "ordered"
           /\ visit' = [visit EXCEPT !.rows = [p \in DOMAIN @ \cap products' |-> @[p]]]
    BY <1>1 DEF CartStep, Cascaded
  <2>3. OffersTyped'
    BY <1>1, <2>1, <2>2 DEF CartStep, OffersTyped, NoVisit
  <2>4. \A o : OrderPrice(o)' = OrderPrice(o)
    BY <1>1 DEF CartStep, OrderPrice
  <2>5. Quoted'
    BY <1>1, <2>2, <2>4 DEF CartStep, Quoted, OffersTyped, NoVisit
  <2>6. QED
    BY <2>3, <2>5
<1>2. CASE Tick
  <2>1. OffersTyped'
    BY <1>2 DEF Tick, vars, OffersTyped
  <2>2. Quoted'
    BY <1>2 DEF Tick, Moves, Quoted
  <2>3. QED
    BY <2>1, <2>2
<1>3. ASSUME NEW e \in Edits, EditFind(e) \/ EditFails(e)
      PROVE  QuoteInv'
  <2>1. UNCHANGED <<products, now, offer, visit, moved>>
    BY <1>3 DEF EditFind, EditFails, vars
  <2>2. QED
    BY <2>1 DEF OffersTyped, Quoted, OrderPrice
<1>4. ASSUME NEW e \in Edits, EditWrite(e)
      PROVE  QuoteInv'
  <2>1. EditOf[e] \in Products /\ ChangeOf[e] \in Changes
    BY OfferAssumption
  <2>2. Edited(offer[EditOf[e]], ChangeOf[e]) \in OfferRows
    BY <2>1, EditedTyped DEF OffersTyped
  <2>3. OffersTyped'
    BY <1>4, <2>1, <2>2 DEF EditWrite, vars, OffersTyped
  <2>4. \A p \in Products \ {EditOf[e]} :
          offer'[p] = offer[p] /\ OrderPrice(offer[p])' = OrderPrice(offer[p])
    BY <1>4 DEF EditWrite, OffersTyped, OrderPrice
  <2>5. Quoted'
    BY <1>4, <2>4 DEF EditWrite, Moves, Quoted
  <2>6. QED
    BY <2>3, <2>5
<1>5. CASE ListShow \/ DetailShow \/ CartShow
  <2>1. PICK P \in SUBSET products : Show([p \in P |-> OrderPrice(offer[p])])
    BY <1>5, OneRule DEF ListShow, DetailShow, CartShow, Listed
  <2>2. UNCHANGED <<products, now, offer>>
    BY <1>5 DEF ListShow, DetailShow, CartShow, vars
  <2>3. OffersTyped'
    BY <2>1, <2>2 DEF Show, OffersTyped
  <2>4. Quoted'
    BY <2>1, <2>2 DEF Show, OffersTyped, Quoted, OrderPrice
  <2>5. QED
    BY <2>3, <2>4
<1>6. CASE CartRead \/ ItemRead
  <2>1. PICK P : Read(P)
    BY <1>6 DEF CartRead, ItemRead
  <2>2. /\ UNCHANGED <<products, now, offer, moved>>
        /\ visit' = [visit EXCEPT !.at = "read", !.found = P]
    BY <2>1 DEF Read, vars
  <2>3. OffersTyped'
    BY <2>2 DEF OffersTyped
  <2>4. Quoted'
    BY <2>2 DEF OffersTyped, Quoted
  <2>5. QED
    BY <2>3, <2>4
<1>11. CASE VisitFails
  <2>1. UNCHANGED <<products, offer>> /\ visit' = NoVisit
    BY <1>11 DEF VisitFails, vars
  <2>2. QED
    BY <2>1 DEF NoVisit, OffersTyped, Quoted
<1>7. CASE OrderRead
  <2>1. PICK P, t :
          /\ P \subseteq DOMAIN visit.shown
          /\ visit' = [visit EXCEPT !.at = "priced",
                                    !.rows = [p \in P |-> OrderPrice(offer[p])],
                                    !.total = t]
    BY <1>7 DEF OrderRead
  <2>2. UNCHANGED <<products, now, offer, moved>> /\ visit.at = "shown"
    BY <1>7 DEF OrderRead, vars
  <2>3. QED
    BY <2>1, <2>2 DEF OffersTyped, Quoted
<1>8. CASE OrderCommit
  BY <1>8 DEF OrderCommit, Priced, vars, OffersTyped, Quoted
<1>9. CASE UNCHANGED allVars
  BY <1>9 DEF allVars, vars, offerVars, OffersTyped, Quoted, OrderPrice
<1>12. QED
  BY <1>1, <1>2, <1>3, <1>4, <1>5, <1>6, <1>7, <1>8, <1>9,
     <1>11 DEF OffersNext

\* A discount that runs lowers the price, and only such a discount does.
LEMMA BadgeIsTrue ==
  ASSUME NEW o \in OfferRows, o.price > 0
  PROVE  IsDiscount(o) <=> OrderPrice(o) < o.price
<1>1. o.price \in Prices /\ o.rate \in Rates /\ o.price \in Nat
  BY OfferAssumption DEF OfferRows
<1>2. CASE IsDiscount(o)
  <2>1. OrderPrice(o) = DiscountOf[o.price, o.rate]
    BY <1>2 DEF IsDiscount, OrderPrice
  <2>2. DiscountOf[o.price, o.rate] < o.price
    BY <1>1, <1>2, OfferAssumption DEF IsDiscount
  <2>3. QED
    BY <1>2, <2>1, <2>2
<1>3. CASE ~ IsDiscount(o)
  <2>1. OrderPrice(o) = o.price
    BY <1>3 DEF IsDiscount, OrderPrice
  <2>2. QED
    BY <1>1, <1>3, <2>1
<1>4. QED
  BY <1>2, <1>3

\* For every catalogue and every sequence of edits, an order is made at the
\* price the buyer was shown last unless the product was edited or time passed,
\* and the seller's page marks as discounted what buyers see at a lower price.
THEOREM OrdersAsShown == OffersSpec => []QuoteHolds
<1>1. QuoteInv => QuoteHolds
  BY BadgeIsTrue DEF QuoteInv, OffersTyped, Quoted, QuoteHolds
<1>2. QED
  BY QuoteInit, QuoteStep, <1>1, PTL DEF OffersSpec

-----------------------------------------------------------------------------
(* The receipt.                                                            *)

\* The total of an order is the sum of the prices it was read at, and of its
\* rows for as long as no product has gone.
ReceiptInv ==
  LET rows == visit.rows
      sum  == SumFunctionOnSet(rows, DOMAIN rows)
  IN  /\ products \subseteq Products
      /\ visit.at \in {"priced", "ordered"} =>
           /\ DOMAIN rows \subseteq Products
           /\ \A p \in DOMAIN rows : rows[p] \in Nat
      /\ visit.at = "priced" => visit.total = sum
      /\ visit.at = "ordered" =>
           /\ DOMAIN rows \subseteq products
           /\ visit.total \in Nat /\ sum <= visit.total
           /\ products = Products => sum = visit.total

\* The fold of the order's prices is their sum.
LEMMA TotalIsSum ==
  ASSUME NEW f
  PROVE  FoldFunction(+, 0, f) = SumFunctionOnSet(f, DOMAIN f)
BY DEF FoldFunction, SumFunctionOnSet

\* A price is a natural number, with or without the discount.
LEMMA PriceIsNat ==
  ASSUME NEW o \in OfferRows
  PROVE  OrderPrice(o) \in Nat
<1>1. o.price \in Prices /\ o.price \in Nat /\ o.rate \in Rates
  BY OfferAssumption DEF OfferRows
<1>2. DiscountOf[o.price, o.rate] \in Nat
  BY <1>1, OfferAssumption
<1> QED
  BY <1>1, <1>2 DEF OrderPrice

\* Fewer rows add up to no more.
LEMMA FewerRows ==
  ASSUME NEW f, DOMAIN f \subseteq Products, \A p \in DOMAIN f : f[p] \in Nat,
         NEW D \in SUBSET DOMAIN f, NEW g, g = [p \in D |-> f[p]]
  PROVE  /\ SumFunctionOnSet(f, DOMAIN f) \in Nat
         /\ SumFunctionOnSet(g, DOMAIN g) <= SumFunctionOnSet(f, DOMAIN f)
         /\ D = DOMAIN f => SumFunctionOnSet(g, DOMAIN g) = SumFunctionOnSet(f, DOMAIN f)
<1>1. IsFiniteSet(DOMAIN f) /\ IsFiniteSet(D) /\ IsFiniteSet(DOMAIN f \ D)
  BY OfferAssumption, FS_Subset
<1>2. DOMAIN g = D /\ \A p \in D : g[p] = f[p]
  OBVIOUS
<1>3. SumFunctionOnSet(g, D) = SumFunctionOnSet(f, D)
  BY <1>1, <1>2, SumAgrees
<1>4. /\ SumFunctionOnSet(f, DOMAIN f) \in Nat /\ SumFunctionOnSet(f, D) \in Nat
      /\ SumFunctionOnSet(f, DOMAIN f \ D) \in Nat
  BY <1>1, SumIsNat
<1>5. SumFunctionOnSet(f, DOMAIN f)
        = SumFunctionOnSet(f, D) + SumFunctionOnSet(f, DOMAIN f \ D)
  BY <1>1, SumSplits
<1> QED
  BY <1>2, <1>3, <1>4, <1>5

LEMMA ReceiptStep ==
  ASSUME OffersTyped, OffersTyped', ReceiptInv, [OffersNext]_allVars,
         visit.at = "shown" => DOMAIN visit.shown \subseteq Products
  PROVE  ReceiptInv'
<1> USE DEF ReceiptInv
<1>1. ASSUME UNCHANGED <<products, visit>>
      PROVE  ReceiptInv'
  BY <1>1
<1>2. ASSUME UNCHANGED products, visit'.at \notin {"priced", "ordered"}
      PROVE  ReceiptInv'
  BY <1>2
<1>3. CASE CartStep
  <2> DEFINE D == DOMAIN visit.rows \cap products'
             rest == [p \in D |-> visit.rows[p]]
  <2>1. products' \subseteq products
    BY <1>3, ProductsOnlyGo DEF CartStep
  <2>2. CASE visit' = visit /\ visit.at # "ordered"
    BY <2>1, <2>2
  <2>3. CASE visit' = [NoVisit EXCEPT !.at = "gone"]
    BY <2>1, <2>3 DEF NoVisit
  <2>4. CASE visit.at = "ordered" /\ visit' = [visit EXCEPT !.rows = rest]
    <3>1. visit'.at = "ordered" /\ visit'.rows = rest /\ visit'.total = visit.total
      BY <2>4 DEF OffersTyped
    <3>2. DOMAIN rest = D /\ \A p \in D : rest[p] = visit.rows[p]
      OBVIOUS
    <3>3. /\ DOMAIN rest \subseteq products' /\ DOMAIN rest \subseteq Products
          /\ \A p \in DOMAIN rest : rest[p] \in Nat
      BY <2>1, <2>4, <3>2
    <3>4. products' = Products => products = Products /\ D = DOMAIN visit.rows
      BY <2>1, <2>4
    <3>5. /\ SumFunctionOnSet(visit.rows, DOMAIN visit.rows) \in Nat
          /\ SumFunctionOnSet(rest, DOMAIN rest)
               <= SumFunctionOnSet(visit.rows, DOMAIN visit.rows)
          /\ D = DOMAIN visit.rows =>
               SumFunctionOnSet(rest, DOMAIN rest)
                 = SumFunctionOnSet(visit.rows, DOMAIN visit.rows)
      BY <2>4, FewerRows
    <3> HIDE DEF rest, D
    <3>6. SumFunctionOnSet(rest, DOMAIN rest) \in Nat
      BY <3>3, OfferAssumption, FS_Subset, SumIsNat
    <3> DEFINE s == SumFunctionOnSet(rest, DOMAIN rest)
               t == SumFunctionOnSet(visit.rows, DOMAIN visit.rows)
    <3>7. t <= visit.total /\ visit.total \in Nat /\ (products = Products => t = visit.total)
      BY <2>4
    <3>8. s <= visit.total /\ (products' = Products => s = visit.total)
      <4> HIDE DEF s, t
      <4>1. t \in Nat /\ s \in Nat /\ s <= t /\ (D = DOMAIN visit.rows => s = t)
        BY <3>5, <3>6 DEF s, t
      <4> QED
        BY <3>4, <3>7, <4>1
    <3>9. QED
      BY <2>1, <3>1, <3>3, <3>7, <3>8
  <2>5. QED
    BY <1>3, <2>2, <2>3, <2>4 DEF CartStep, Cascaded
<1>4. CASE Tick \/ \E e \in Edits : EditFind(e) \/ EditWrite(e) \/ EditFails(e)
  BY <1>1, <1>4 DEF Tick, EditFind, EditWrite, EditFails, vars
<1>5. CASE ListShow \/ DetailShow \/ CartShow \/ CartRead \/ ItemRead \/ VisitFails
  <2>1. UNCHANGED products
    BY <1>5 DEF ListShow, DetailShow, CartShow, CartRead, ItemRead, Read, VisitFails, vars
  <2>2. \/ \E shown : visit' = [visit EXCEPT !.at = "shown", !.found = {}, !.shown = shown]
        \/ \E P : visit' = [visit EXCEPT !.at = "read", !.found = P]
        \/ visit' = NoVisit
    BY <1>5 DEF ListShow, DetailShow, CartShow, Show, CartRead, ItemRead, Read, VisitFails
  <2>3. visit'.at \in {"shown", "read", "idle"}
    <3>1. ASSUME NEW shown,
                 visit' = [visit EXCEPT !.at = "shown", !.found = {}, !.shown = shown]
          PROVE  visit'.at = "shown"
      BY <3>1 DEF OffersTyped
    <3>2. ASSUME NEW P, visit' = [visit EXCEPT !.at = "read", !.found = P]
          PROVE  visit'.at = "read"
      BY <3>2 DEF OffersTyped
    <3>3. visit' = NoVisit => visit'.at = "idle"
      BY DEF NoVisit
    <3>4. QED
      BY <2>2, <3>1, <3>2, <3>3
  <2>4. QED
    BY <1>2, <2>1, <2>3
<1>6. CASE OrderRead
  <2>1. PICK P :
          /\ P \subseteq DOMAIN visit.shown
          /\ visit' = [visit EXCEPT !.at = "priced",
                         !.rows = [p \in P |-> OrderPrice(offer[p])],
                         !.total = FoldFunction(+, 0, [p \in P |-> OrderPrice(offer[p])])]
    BY <1>6 DEF OrderRead
  <2>2. UNCHANGED products /\ P \subseteq Products
    BY <1>6, <2>1 DEF OrderRead, vars
  <2> DEFINE rows == [p \in P |-> OrderPrice(offer[p])]
  <2>3. \A p \in P : rows[p] \in Nat
    BY <2>2, PriceIsNat DEF OffersTyped
  <2>4. visit'.at = "priced" /\ visit'.rows = rows /\ DOMAIN rows = P
        /\ visit'.total = FoldFunction(+, 0, rows)
    BY <2>1 DEF OffersTyped
  <2>5. FoldFunction(+, 0, rows) = SumFunctionOnSet(rows, DOMAIN rows)
    BY TotalIsSum
  <2> HIDE DEF rows
  <2>6. QED
    BY <2>2, <2>3, <2>4, <2>5
<1>7. CASE OrderCommit
  <2>1. /\ visit.at = "priced" /\ DOMAIN visit.rows \subseteq products
        /\ UNCHANGED products
        /\ visit'.at = "ordered" /\ visit'.rows = visit.rows /\ visit'.total = visit.total
    BY <1>7 DEF OrderCommit, Priced, vars, OffersTyped
  <2>2. SumFunctionOnSet(visit.rows, DOMAIN visit.rows) \in Nat
    BY <2>1, OfferAssumption, FS_Subset, SumIsNat
  <2>3. QED
    BY <2>1, <2>2
<1>8. CASE UNCHANGED allVars
  BY <1>1, <1>8 DEF allVars, vars, offerVars
<1>9. QED
  BY <1>3, <1>4, <1>5, <1>6, <1>7, <1>8 DEF OffersNext

\* For every catalogue, whatever is edited between the reading of the prices
\* and the writing of the rows: the total of an order is the sum of its rows,
\* until a product is deleted, and never less.
THEOREM TotalIsOfRows == OffersSpec => []ReceiptAdds
<1>1. OffersInit => ReceiptInv
  BY DEF OffersInit, Init, NoVisit, ReceiptInv
<1>2. QuoteInv /\ QuoteInv' /\ ReceiptInv /\ [OffersNext]_allVars => ReceiptInv'
  BY ReceiptStep DEF QuoteInv, Quoted
<1>3. ReceiptInv => ReceiptAdds
  <2> SUFFICES ASSUME ReceiptInv, visit.at = "ordered" PROVE ReceiptAdds
    BY DEF ReceiptAdds
  <2>1. FoldFunction(+, 0, visit.rows) = SumFunctionOnSet(visit.rows, DOMAIN visit.rows)
    BY TotalIsSum
  <2>2. SumFunctionOnSet(visit.rows, DOMAIN visit.rows) \in Nat
    BY OfferAssumption, FS_Subset, SumIsNat DEF ReceiptInv
  <2> DEFINE sum == SumFunctionOnSet(visit.rows, DOMAIN visit.rows)
  <2>3. visit.total \in Nat /\ sum <= visit.total /\ (products = Products => sum = visit.total)
    BY DEF ReceiptInv
  <2> HIDE DEF sum
  <2>4. sum <= visit.total /\ (sum < visit.total => products # Products)
    BY <2>2, <2>3 DEF sum
  <2>5. QED
    BY <2>1, <2>4 DEF ReceiptAdds, sum
<1>4. QED
  BY QuoteInit, QuoteStep, <1>1, <1>2, <1>3, PTL DEF OffersSpec

-----------------------------------------------------------------------------
(* The cart with offers is a cart.                                         *)

\* Edits, the clock and visits leave the cart alone, so what is proved of Spec
\* holds of OffersSpec.
LEMMA OffersAreOfCarts == OffersSpec => Spec
<1>1. OffersInit => Init
  BY DEF OffersInit
<1>2. [OffersNext]_allVars => [Next]_vars
  BY DEF OffersNext, allVars, CartStep, Tick, EditFind, EditWrite, EditFails, ListShow,
     DetailShow, CartRead, ItemRead, Read, CartShow, OrderRead, OrderCommit, VisitFails
<1>3. QED
  BY <1>1, <1>2, PTL DEF OffersSpec, Spec

\* The cart's theorems, of the specification with prices.
THEOREM CartWithOffers ==
  OffersSpec => []TypeOK /\ BasketSpec
BY OffersAreOfCarts, ItemsHaveParents, UpdatesAreAtomic, PTL
=============================================================================
