------------------------------ MODULE ShopProofs -------------------------------
(***************************************************************************)
(* No row of an account, a store or a product outlives its parent, and     *)
(* every answer about a name is true of some moment, for any number of     *)
(* requests.                                                               *)
(***************************************************************************)
EXTENDS Shop, TLAPS

LEMMA ShopInit == Init => TypeOK
BY AccountAssumption DEF Init, TypeOK, Ids

\* The requests that change no rows.
LEMMA LookingKeeps ==
  ASSUME TypeOK, NEW r \in Requests, NEW p, NEW t,
         p \in {"checked", "found", "done", "failed", "conflict", "missing"},
         t \in Accounts \cup Openings \cup Additions \cup {Nobody},
         pc' = [pc EXCEPT ![r] = p],
         target' = [target EXCEPT ![r] = t] \/ UNCHANGED target,
         UNCHANGED <<users, stores, likes, products>>
  PROVE  TypeOK'
BY DEF TypeOK, Ids

\* A withdrawal takes everything below the account along.
LEMMA CascadeKeeps ==
  ASSUME TypeOK, NEW r \in Withdrawals, WithdrawDelete(r)
  PROVE  TypeOK'
<1> DEFINE u == target[r]
           S == Ids(StoresOf(u))
<1> USE DEF TypeOK
<1>1. /\ users' = {v \in users : v.id # u}
      /\ stores' = stores \ StoresOf(u)
      /\ likes' = {l \in likes : l.user # u /\ l.store \notin S}
      /\ products' = products \ ProductsOf(S)
      /\ pc' = [pc EXCEPT ![r] = "done"] /\ UNCHANGED target
  BY DEF WithdrawDelete, Goto
<1>2. Ids(users') = Ids(users) \ {u}
  BY <1>1 DEF Ids
<1>3. Ids(stores) \ S \subseteq Ids(stores')
  BY <1>1 DEF Ids
<1>4. stores' \subseteq [id : Openings, owner : Ids(users')]
  BY <1>1, <1>2 DEF StoresOf
<1>5. likes' \subseteq [id : Likings, user : Ids(users'), store : Ids(stores')]
  BY <1>1, <1>2, <1>3
<1>6. products' \subseteq [id : Additions, store : Ids(stores')]
  BY <1>1, <1>3 DEF ProductsOf
<1>7. r \in Requests
  BY DEF Requests
<1>8. QED
  BY <1>1, <1>4, <1>5, <1>6, <1>7

LEMMA ShopStep == TypeOK /\ [Next]_vars => TypeOK'
<1> SUFFICES ASSUME TypeOK, [Next]_vars PROVE TypeOK'
  OBVIOUS
<1> USE DEF Requests
<1>1. ASSUME NEW r \in SignUps, SignUpCheck(r) PROVE TypeOK'
  BY <1>1, LookingKeeps DEF SignUpCheck, Goto
<1>2. ASSUME NEW r \in SignUps, SignUpInsert(r) PROVE TypeOK'
  <2>1. CASE EmailFree(r)
    <3>1. EmailOf[r] \in Emails
      BY AccountAssumption
    <3>2. QED
      BY <1>2, <2>1, <3>1 DEF SignUpInsert, Goto, TypeOK, Ids
  <2>2. CASE ~ EmailFree(r)
    BY <1>2, <2>2, LookingKeeps DEF SignUpInsert, Goto
  <2>3. QED
    BY <2>1, <2>2
<1>3. ASSUME NEW r \in Openings, OpenCheck(r) PROVE TypeOK'
  BY <1>3, LookingKeeps DEF OpenCheck, Goto
<1>4. ASSUME NEW r \in Openings, OpenInsert(r) PROVE TypeOK'
  BY <1>4 DEF OpenInsert, TypeOK, Ids
<1>5. ASSUME NEW r \in Likings, LikeFind(r) PROVE TypeOK'
  BY <1>5, LookingKeeps DEF LikeFind, Goto, TypeOK
<1>6. ASSUME NEW r \in Likings, LikeCheck(r) PROVE TypeOK'
  BY <1>6, LookingKeeps DEF LikeCheck, Goto
<1>7. ASSUME NEW r \in Likings, LikeInsert(r) PROVE TypeOK'
  BY <1>7 DEF LikeInsert, StoreAndBuyer, TypeOK
<1>8. ASSUME NEW r \in Unlikings, UnlikeFind(r) PROVE TypeOK'
  BY <1>8, LookingKeeps DEF UnlikeFind, Goto, TypeOK
<1>9. ASSUME NEW r \in Unlikings, UnlikeCheck(r) PROVE TypeOK'
  BY <1>9, LookingKeeps DEF UnlikeCheck, Goto
<1>10. ASSUME NEW r \in Unlikings, UnlikeDelete(r) PROVE TypeOK'
  BY <1>10 DEF UnlikeDelete, Goto, TypeOK
<1>11. ASSUME NEW r \in Additions, AddFind(r) PROVE TypeOK'
  BY <1>11, LookingKeeps DEF AddFind, Goto, StoresOf, TypeOK
<1>12. ASSUME NEW r \in Additions, AddInsert(r) \/ AddReread(r) PROVE TypeOK'
  BY <1>12 DEF AddInsert, AddReread, Goto, TypeOK
<1>13. ASSUME NEW r \in Discards, DiscardFind(r) PROVE TypeOK'
  BY <1>13, LookingKeeps DEF DiscardFind, ProductsOf, Goto, TypeOK
<1>14. ASSUME NEW r \in Discards, DiscardDelete(r) PROVE TypeOK'
  BY <1>14 DEF DiscardDelete, Goto, TypeOK
<1>15. ASSUME NEW r \in Withdrawals, WithdrawFind(r) \/ WithdrawFails(r) PROVE TypeOK'
  BY <1>15, LookingKeeps DEF WithdrawFind, WithdrawFails, Goto, TypeOK
<1>16. ASSUME NEW r \in Withdrawals, WithdrawDelete(r) PROVE TypeOK'
  BY <1>16, CascadeKeeps
<1>17. CASE UNCHANGED vars
  BY <1>17 DEF vars, TypeOK
<1>18. QED
  BY <1>1, <1>2, <1>3, <1>4, <1>5, <1>6, <1>7, <1>8, <1>9, <1>10, <1>11, <1>12,
     <1>13, <1>14, <1>15, <1>16, <1>17 DEF Next

\* A store always has its account, a favourite its account and its store, a
\* product its store, whatever withdraws between the look and the insert.
THEOREM NoRowIsOrphaned == Spec => []TypeOK
BY ShopInit, ShopStep, PTL DEF Spec

-----------------------------------------------------------------------------
(* Shop implements Directory.                                              *)

Kinds == SignUps \cup Openings \cup Likings \cup Unlikings
Final == {"done", "failed", "conflict", "missing"}
Told == [r \in Claiming \cup Unlikings |-> IF Answered(r) THEN pc[r] ELSE "none"]

\* The mark an unliking is about is one of a store that was there.
MarkFound ==
  \A r \in Likings \cup Unlikings : pc[r] \in {"found", "checked"} => target[r] \in Openings

\* A name is taken in the directory if the index holds a row for it.
LEMMA NamesAreRows ==
  ASSUME TypeOK
  PROVE  /\ \A e : OneHolder!Taken(Email(e)) <=> e \in EmailsTaken
         /\ OneHolder!Taken(StoreOf(Seller)) <=> HasStore(Seller)
         /\ \A s : OneHolder!Taken(LikeOf(Buyer, s)) <=> LikesStore(Buyer, s)
<1> USE DEF TypeOK, OneHolder!Taken, Taken, Claiming, Email, StoreOf, LikeOf
<1>1. ASSUME NEW e PROVE OneHolder!Taken(Email(e)) <=> e \in EmailsTaken
  BY DEF EmailsTaken
<1>2. OneHolder!Taken(StoreOf(Seller)) <=> HasStore(Seller)
  BY DEF HasStore
<1>3. ASSUME NEW s PROVE OneHolder!Taken(LikeOf(Buyer, s)) <=> LikesStore(Buyer, s)
  BY DEF LikesStore
<1>4. QED
  BY <1>1, <1>2, <1>3

\* A request answers once, and only its own answer changes.
LEMMA AnswerOnce ==
  ASSUME TypeOK, NEW r \in Kinds, NEW a \in Final,
         pc[r] \notin Final, pc' = [pc EXCEPT ![r] = a]
  PROVE  OneHolder!Answer(r, a)
BY DEF TypeOK, Kinds, Final, Claiming, Requests, Answered, OneHolder!Answer

LEMMA NoAnswer ==
  ASSUME TypeOK, NEW r \in Requests, NEW p,
         pc' = [pc EXCEPT ![r] = p],
         r \notin Kinds \/ (pc[r] \notin Final /\ p \notin Final)
  PROVE  Told' = Told
BY AccountAssumption DEF TypeOK, Kinds, Final, Claiming, Requests, Answered, Told

\* A request that only looks, or fails, takes and frees no name.
LEMMA LookStep ==
  ASSUME TypeOK, NEW r \in Kinds, UNCHANGED <<users, stores, likes>>,
         \/ \E p : /\ pc[r] \notin Final /\ p \notin Final
                  /\ pc' = [pc EXCEPT ![r] = p]
         \/ pc[r] \notin Final /\ pc' = [pc EXCEPT ![r] = "failed"]
         \/ /\ r \notin Unlikings
            /\ \E n \in NameWanted(r) : OneHolder!Taken(n)
            /\ pc[r] \notin Final /\ pc' = [pc EXCEPT ![r] = "conflict"]
         \/ /\ r \in Unlikings
            /\ \E n \in NameWanted(r) : ~ OneHolder!Taken(n)
            /\ pc[r] \notin Final /\ pc' = [pc EXCEPT ![r] = "missing"]
  PROVE  [OneHolder!Next]_(OneHolder!vars)
<1>1. r \in Claiming \cup Unlikings /\ (r \notin Unlikings => r \in Claiming)
  BY DEF Kinds, Claiming
<1>2. Taken' = Taken
  BY DEF Taken
<1>3. CASE \E p : /\ pc[r] \notin Final /\ p \notin Final
                  /\ pc' = [pc EXCEPT ![r] = p]
  <2>1. Told' = Told
    BY <1>3, NoAnswer DEF Kinds, Requests
  <2>2. QED
    BY <1>2, <2>1 DEF Told, OneHolder!vars
<1>4. CASE pc[r] \notin Final /\ pc' = [pc EXCEPT ![r] = "failed"]
  <2>1. OneHolder!Fails(r)
    BY <1>2, <1>4, AnswerOnce DEF Final, OneHolder!Fails
  <2>2. QED
    BY <1>1, <2>1 DEF OneHolder!Next
<1>5. CASE /\ r \notin Unlikings
           /\ \E n \in NameWanted(r) : OneHolder!Taken(n)
           /\ pc[r] \notin Final /\ pc' = [pc EXCEPT ![r] = "conflict"]
  <2>1. OneHolder!ClaimRefused(r)
    BY <1>1, <1>2, <1>5, AnswerOnce DEF Final, OneHolder!ClaimRefused
  <2>2. QED
    BY <1>1, <1>5, <2>1 DEF OneHolder!Next
<1>6. CASE /\ r \in Unlikings
           /\ \E n \in NameWanted(r) : ~ OneHolder!Taken(n)
           /\ pc[r] \notin Final /\ pc' = [pc EXCEPT ![r] = "missing"]
  <2>1. OneHolder!ReleaseRefused(r)
    BY <1>1, <1>2, <1>6, AnswerOnce DEF Final, OneHolder!ReleaseRefused
  <2>2. QED
    BY <1>1, <1>6, <2>1 DEF OneHolder!Next
<1>7. QED
  BY <1>3, <1>4, <1>5, <1>6

\* An insert takes the name it wants, which was free.
LEMMA ClaimStep ==
  ASSUME TypeOK, NEW r \in Kinds \ Unlikings, NEW n \in NameWanted(r),
         ~ OneHolder!Taken(n), Taken' = Taken \cup {<<n, r>>},
         pc[r] \notin Final, pc' = [pc EXCEPT ![r] = "done"]
  PROVE  [OneHolder!Next]_(OneHolder!vars)
<1>1. r \in Claiming
  BY DEF Kinds, Claiming
<1>2. OneHolder!Claim(r)
  BY <1>1, AnswerOnce DEF Final, OneHolder!Claim
<1>3. QED
  BY <1>1, <1>2 DEF OneHolder!Next

\* What does not touch the names is no step of the directory.
LEMMA OtherStep ==
  ASSUME TypeOK, NEW r \in Additions \cup Discards \cup Withdrawals, NEW p,
         pc' = [pc EXCEPT ![r] = p],
         users' \subseteq users, stores' \subseteq stores, likes' \subseteq likes
  PROVE  [OneHolder!Next]_(OneHolder!vars)
<1>1. r \in Requests /\ r \notin Kinds
  BY KindAssumption DEF Requests, Kinds
<1>2. Told' = Told
  BY <1>1, NoAnswer
<1>3. Taken' \subseteq Taken
  BY DEF Taken
<1>4. OneHolder!Vanish
  BY <1>2, <1>3 DEF Told, OneHolder!Vanish
<1>5. QED
  BY <1>4 DEF OneHolder!Next

\* One case for each action, in the order of Next.
LEMMA DirectoryStep ==
  ASSUME TypeOK, MarkFound, [Next]_vars
  PROVE  [OneHolder!Next]_(OneHolder!vars)
<1> USE DEF Final
<1>0. Kinds \subseteq Requests /\ Unlikings \cap (SignUps \cup Openings \cup Likings) = {}
  BY KindAssumption DEF Kinds, Requests
<1>1. ASSUME NEW r \in SignUps
      PROVE  r \in Kinds \ Unlikings /\ NameWanted(r) = {Email(EmailOf[r])}
  BY <1>1, KindAssumption DEF Kinds, NameWanted
<1>2. ASSUME NEW r \in SignUps, SignUpCheck(r)
      PROVE  [OneHolder!Next]_(OneHolder!vars)
  BY <1>1, <1>2, LookStep, NamesAreRows DEF SignUpCheck, Goto
<1>3. ASSUME NEW r \in SignUps, SignUpInsert(r)
      PROVE  [OneHolder!Next]_(OneHolder!vars)
  <2>1. CASE EmailFree(r)
    <3>1. Taken' = Taken \cup {<<Email(EmailOf[r]), r>>}
      <4> DEFINE row == [id |-> r, email |-> EmailOf[r]]
      <4>1. {<<Email(u.email), u.id>> : u \in users \cup {row}}
              = {<<Email(u.email), u.id>> : u \in users} \cup {<<Email(row.email), row.id>>}
        OBVIOUS
      <4>2. users' = users \cup {row} /\ UNCHANGED <<stores, likes>>
        BY <1>3, <2>1 DEF SignUpInsert
      <4>3. QED
        BY <4>1, <4>2 DEF Taken
    <3>2. QED
      BY <1>1, <1>3, <2>1, <3>1, ClaimStep, NamesAreRows
         DEF SignUpInsert, EmailFree, Goto
  <2>2. CASE ~ EmailFree(r)
    BY <1>1, <1>3, <2>2, LookStep, NamesAreRows DEF SignUpInsert, EmailFree, Goto
  <2>3. QED
    BY <2>1, <2>2
<1>4. ASSUME NEW r \in Openings
      PROVE  r \in Kinds \ Unlikings /\ NameWanted(r) = {StoreOf(Seller)}
  BY <1>4, KindAssumption DEF Kinds, NameWanted
<1>5. ASSUME NEW r \in Openings, OpenCheck(r)
      PROVE  [OneHolder!Next]_(OneHolder!vars)
  BY <1>4, <1>5, LookStep, NamesAreRows DEF OpenCheck, Goto
<1>6. ASSUME NEW r \in Openings, OpenInsert(r)
      PROVE  [OneHolder!Next]_(OneHolder!vars)
  <2>1. CASE /\ ~ HasStore(Seller)
             /\ stores' = stores \cup {[id |-> r, owner |-> Seller]}
             /\ pc' = [pc EXCEPT ![r] = "done"]
    <3>1. Taken' = Taken \cup {<<StoreOf(Seller), r>>}
      <4> DEFINE row == [id |-> r, owner |-> Seller]
      <4>1. {<<StoreOf(s.owner), s.id>> : s \in stores \cup {row}}
              = {<<StoreOf(s.owner), s.id>> : s \in stores} \cup {<<StoreOf(row.owner), row.id>>}
        OBVIOUS
      <4>2. stores' = stores \cup {row} /\ UNCHANGED <<users, likes>>
        BY <1>6, <2>1 DEF OpenInsert
      <4>3. QED
        BY <4>1, <4>2 DEF Taken
    <3>2. QED
      BY <1>4, <1>6, <2>1, <3>1, ClaimStep, NamesAreRows DEF OpenInsert
  <2>2. CASE pc' = [pc EXCEPT ![r] = "failed"] /\ UNCHANGED stores
    BY <1>4, <1>6, <2>2, LookStep DEF OpenInsert
  <2>3. CASE HasStore(Seller) /\ pc' = [pc EXCEPT ![r] = "conflict"] /\ UNCHANGED stores
    BY <1>4, <1>6, <2>3, LookStep, NamesAreRows DEF OpenInsert
  <2>4. QED
    BY <1>6, <2>1, <2>2, <2>3 DEF OpenInsert
<1>7. ASSUME NEW r \in Likings \cup Unlikings
      PROVE  /\ r \in Kinds /\ (r \in Likings => r \notin Unlikings)
             /\ NameWanted(r) = {LikeOf(Buyer, s) : s \in Openings}
             /\ pc[r] \in {"found", "checked"} => LikeOf(Buyer, target[r]) \in NameWanted(r)
  BY <1>7, KindAssumption DEF Kinds, NameWanted, MarkFound
<1>8. ASSUME NEW r \in Likings, LikeFind(r) \/ LikeCheck(r)
      PROVE  [OneHolder!Next]_(OneHolder!vars)
  BY <1>7, <1>8, LookStep, NamesAreRows DEF LikeFind, LikeCheck, Goto
<1>9. ASSUME NEW r \in Likings, LikeInsert(r)
      PROVE  [OneHolder!Next]_(OneHolder!vars)
  <2>1. CASE /\ ~ LikesStore(Buyer, target[r])
             /\ likes' = likes \cup {[id |-> r, user |-> Buyer, store |-> target[r]]}
             /\ pc' = [pc EXCEPT ![r] = "done"]
    <3>1. Taken' = Taken \cup {<<LikeOf(Buyer, target[r]), r>>}
      <4> DEFINE row == [id |-> r, user |-> Buyer, store |-> target[r]]
      <4>1. {<<LikeOf(l.user, l.store), l.id>> : l \in likes \cup {row}}
              = {<<LikeOf(l.user, l.store), l.id>> : l \in likes}
                  \cup {<<LikeOf(row.user, row.store), row.id>>}
        OBVIOUS
      <4>2. likes' = likes \cup {row} /\ UNCHANGED <<users, stores>>
        BY <1>9, <2>1 DEF LikeInsert
      <4>3. QED
        BY <4>1, <4>2 DEF Taken
    <3>2. QED
      BY <1>7, <1>9, <2>1, <3>1, ClaimStep, NamesAreRows DEF LikeInsert
  <2>2. CASE pc' = [pc EXCEPT ![r] = "failed"] /\ UNCHANGED likes
    BY <1>7, <1>9, <2>2, LookStep DEF LikeInsert
  <2>3. CASE /\ LikesStore(Buyer, target[r])
             /\ pc' = [pc EXCEPT ![r] = "conflict"] /\ UNCHANGED likes
    BY <1>7, <1>9, <2>3, LookStep, NamesAreRows DEF LikeInsert
  <2>4. QED
    BY <1>9, <2>1, <2>2, <2>3 DEF LikeInsert
<1>10. ASSUME NEW r \in Unlikings, UnlikeFind(r) \/ UnlikeCheck(r)
       PROVE  [OneHolder!Next]_(OneHolder!vars)
  BY <1>7, <1>10, LookStep, NamesAreRows DEF UnlikeFind, UnlikeCheck, Goto
<1>11. ASSUME NEW r \in Unlikings, UnlikeDelete(r)
       PROVE  [OneHolder!Next]_(OneHolder!vars)
  <2> DEFINE n == LikeOf(Buyer, target[r])
  <2>1. pc[r] = "checked" /\ n \in NameWanted(r)
    BY <1>7, <1>11 DEF UnlikeDelete, Goto
  <2>2. CASE LikesStore(Buyer, target[r])
    <3>1. Taken' = Taken \ ({n} \X Claiming)
      BY <1>11 DEF UnlikeDelete, Taken, TypeOK, Claiming, Email, StoreOf, LikeOf
    <3>2. OneHolder!Answer(r, "done")
      BY <1>7, <1>11, <2>1, <2>2, AnswerOnce DEF UnlikeDelete, Goto
    <3>3. OneHolder!Release(r)
      BY <2>1, <2>2, <3>1, <3>2, NamesAreRows, <1>7 DEF OneHolder!Release
    <3>4. QED
      BY <3>3 DEF OneHolder!Next
  <2>3. CASE ~ LikesStore(Buyer, target[r])
    <3>1. likes' = likes
      BY <1>11, <2>3 DEF UnlikeDelete, LikesStore
    <3>2. QED
      BY <1>7, <1>11, <2>1, <2>3, <3>1, LookStep, NamesAreRows
         DEF UnlikeDelete, Goto
  <2>4. QED
    BY <2>2, <2>3
<1>12. ASSUME NEW r \in Additions, AddFind(r) \/ AddInsert(r) \/ AddReread(r)
       PROVE  [OneHolder!Next]_(OneHolder!vars)
  BY <1>12, OtherStep DEF AddFind, AddInsert, AddReread, Goto
<1>13. ASSUME NEW r \in Discards, DiscardFind(r) \/ DiscardDelete(r)
       PROVE  [OneHolder!Next]_(OneHolder!vars)
  BY <1>13, OtherStep DEF DiscardFind, DiscardDelete, Goto
<1>14. ASSUME NEW r \in Withdrawals,
              WithdrawFind(r) \/ WithdrawDelete(r) \/ WithdrawFails(r)
       PROVE  [OneHolder!Next]_(OneHolder!vars)
  <2>1. /\ users' \subseteq users /\ stores' \subseteq stores /\ likes' \subseteq likes
        /\ \E p : pc' = [pc EXCEPT ![r] = p]
    BY <1>14 DEF WithdrawFind, WithdrawDelete, WithdrawFails, Goto
  <2>2. QED
    BY <2>1, OtherStep
<1>15. CASE UNCHANGED vars
  BY <1>15 DEF vars, Taken, Answered, OneHolder!vars
<1>16. QED
  BY <1>2, <1>3, <1>5, <1>6, <1>8, <1>9, <1>10, <1>11, <1>12, <1>13, <1>14,
     <1>15 DEF Next

LEMMA MarkStep == TypeOK /\ MarkFound /\ [Next]_vars => MarkFound'
<1> SUFFICES ASSUME TypeOK, MarkFound, [Next]_vars PROVE MarkFound'
  OBVIOUS
<1> USE DEF TypeOK, MarkFound
<1>1. ASSUME NEW r \in Likings \cup Unlikings, LikeFind(r) \/ UnlikeFind(r)
      PROVE  MarkFound'
  <2>1. CASE \E s \in stores : target' = [target EXCEPT ![r] = s.id]
    BY <1>1, <2>1 DEF LikeFind, UnlikeFind, Goto, Requests
  <2>2. CASE pc' = [pc EXCEPT ![r] = "failed"] /\ UNCHANGED target
    BY <2>2 DEF Requests
  <2>3. QED
    BY <1>1, <2>1, <2>2 DEF LikeFind, UnlikeFind, Goto
<1>2. ASSUME NEW r \in Likings \cup Unlikings,
             LikeCheck(r) \/ LikeInsert(r) \/ UnlikeCheck(r) \/ UnlikeDelete(r)
      PROVE  MarkFound'
  BY <1>2 DEF LikeCheck, LikeInsert, UnlikeCheck, UnlikeDelete, Goto, Requests
<1>3. ASSUME NEW r \in Requests \ (Likings \cup Unlikings), NEW p, NEW t,
             UNCHANGED pc \/ pc' = [pc EXCEPT ![r] = p],
             UNCHANGED target \/ target' = [target EXCEPT ![r] = t]
      PROVE  MarkFound'
  BY <1>3 DEF Requests
<1>4. ASSUME NEW r \in SignUps \cup Openings,
             SignUpCheck(r) \/ SignUpInsert(r) \/ OpenCheck(r) \/ OpenInsert(r)
      PROVE  MarkFound'
  <2>1. r \in Requests \ (Likings \cup Unlikings)
    BY KindAssumption DEF Requests
  <2>2. (\E p : pc' = [pc EXCEPT ![r] = p]) /\ UNCHANGED target
    BY <1>4 DEF SignUpCheck, SignUpInsert, OpenCheck, OpenInsert, Goto
  <2>3. QED
    BY <1>3, <2>1, <2>2
<1>5. ASSUME NEW r \in Additions \cup Discards \cup Withdrawals,
             \/ AddFind(r) \/ AddInsert(r) \/ AddReread(r)
             \/ DiscardFind(r) \/ DiscardDelete(r)
             \/ WithdrawFind(r) \/ WithdrawDelete(r) \/ WithdrawFails(r)
      PROVE  MarkFound'
  <2>1. r \in Requests \ (Likings \cup Unlikings)
    BY KindAssumption DEF Requests
  <2>2. \E p : pc' = [pc EXCEPT ![r] = p]
    BY <1>5 DEF AddFind, AddInsert, AddReread, DiscardFind, DiscardDelete,
                WithdrawFind, WithdrawDelete, WithdrawFails, Goto
  <2>3. UNCHANGED target \/ \E t : target' = [target EXCEPT ![r] = t]
    BY <1>5 DEF AddFind, AddInsert, AddReread, DiscardFind, DiscardDelete,
                WithdrawFind, WithdrawDelete, WithdrawFails
  <2>4. QED
    BY <1>3, <2>1, <2>2, <2>3
<1>6. CASE UNCHANGED vars
  BY <1>6 DEF vars
<1>7. QED
  BY <1>1, <1>2, <1>4, <1>5, <1>6 DEF Next

\* Every answer about an address, a store or a mark is true of some moment
\* between its request and itself: Shop implements Directory.
THEOREM AnswersAreTrue == Spec => DirectorySpec
<1>1. Init => OneHolder!Init /\ MarkFound
  <2> SUFFICES ASSUME Init PROVE OneHolder!Init /\ MarkFound
    OBVIOUS
  <2>1. Taken \subseteq Names \X Claiming
    BY AccountAssumption DEF Init, Taken, Names, Claiming
  <2>2. \A r \in Claiming \cup Unlikings : ~ Answered(r)
    BY DEF Init, Answered
  <2>3. MarkFound
    BY DEF Init, MarkFound, Requests
  <2>4. QED
    BY <2>1, <2>2, <2>3 DEF OneHolder!Init
<1>2. /\ TypeOK /\ MarkFound /\ [Next]_vars
      => [OneHolder!Next]_(OneHolder!vars) /\ MarkFound'
  BY DirectoryStep, MarkStep
<1>3. QED
  BY NoRowIsOrphaned, <1>1, <1>2, PTL DEF Spec, DirectorySpec, OneHolder!Spec
=============================================================================
