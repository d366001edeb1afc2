------------------------------ MODULE SumTheorems ------------------------------
(***************************************************************************)
(* Sums over finite sets, SumFunctionOnSet of module Functions: the facts  *)
(* the proofs about units and points rest on.                              *)
(*                                                                         *)
(* The definition takes the elements of the set in an order CHOOSE fixes,  *)
(* by a recursive function over the subsets of the set.  Each fact is      *)
(* proved for a smallest subset that would violate it.                     *)
(***************************************************************************)
EXTENDS Integers, Sequences, FiniteSets, Functions, FiniteSetTheorems, WellFoundedInduction, TLAPS

\* Among some subsets of a finite set, one has none of the others inside it.
LEMMA SmallestSubset ==
  ASSUME NEW S, IsFiniteSet(S), NEW B, B \subseteq SUBSET S, B # {}
  PROVE  \E T \in B : \A U \in B : U \subseteq T => U = T
<1>1. IsWellFoundedOn(StrictSubsetOrdering(S), SUBSET S)
  BY FS_StrictSubsetOrderingWellFounded, FS_FiniteSubsetsOfFinite
<1>2. PICK T \in B : \A U \in B : ~ (<<U, T>> \in StrictSubsetOrdering(S))
  BY <1>1, WFMin
<1>3. ASSUME NEW U \in B, U \subseteq T
      PROVE  U = T
  BY <1>2, <1>3 DEF StrictSubsetOrdering
<1> QED
  BY <1>3

-----------------------------------------------------------------------------
(* The recursive function inside the definition.                           *)

Pick(S) == CHOOSE x \in S : TRUE

IsIter(f, S, g) ==
  g = [s \in SUBSET S |-> IF s = {} THEN 0 ELSE f[Pick(s)] + g[s \ {Pick(s)}]]

LEMMA SumIsIter ==
  ASSUME NEW f, NEW S
  PROVE  SumFunctionOnSet(f, S) = (CHOOSE g : IsIter(f, S, g))[S]
BY DEF SumFunctionOnSet, FoldFunctionOnSet, MapThenFoldSet, IsIter, Pick

LEMMA PickIsIn ==
  ASSUME NEW S, S # {}
  PROVE  Pick(S) \in S
BY DEF Pick

\* Two such functions agree where both are defined.
LEMMA IterAgrees ==
  ASSUME NEW f, NEW S, IsFiniteSet(S), NEW T \in SUBSET S,
         NEW g, IsIter(f, S, g), NEW h, IsIter(f, T, h)
  PROVE  \A s \in SUBSET T : g[s] = h[s]
<1> DEFINE B == {s \in SUBSET T : g[s] # h[s]}
<1>1. SUFFICES ASSUME B # {} PROVE FALSE
  OBVIOUS
<1>2. IsFiniteSet(T)
  BY FS_Subset
<1>3. PICK s \in B : \A U \in B : U \subseteq s => U = s
  <2>1. B \subseteq SUBSET T
    OBVIOUS
  <2> HIDE DEF B
  <2> QED
    BY <1>1, <1>2, <2>1, SmallestSubset
<1>4. s \in SUBSET T /\ s \in SUBSET S /\ g[s] # h[s]
  BY <1>3
<1>5. \A U \in SUBSET S : g[U] = IF U = {} THEN 0 ELSE f[Pick(U)] + g[U \ {Pick(U)}]
  BY DEF IsIter
<1>6. \A U \in SUBSET T : h[U] = IF U = {} THEN 0 ELSE f[Pick(U)] + h[U \ {Pick(U)}]
  BY DEF IsIter
<1>7. s # {}
  BY <1>4, <1>5, <1>6
<1>8. Pick(s) \in s
  BY <1>7, PickIsIn
<1> DEFINE U == s \ {Pick(s)}
<1>9. U \in SUBSET T /\ U \subseteq s /\ U # s
  BY <1>4, <1>8
<1>10. g[U] = h[U]
  BY <1>3, <1>9
<1> QED
  BY <1>4, <1>5, <1>6, <1>7, <1>10

\* There is one.
LEMMA IterExists ==
  ASSUME NEW f, NEW S, IsFiniteSet(S)
  PROVE  \E g : IsIter(f, S, g)
<1> DEFINE B == {T \in SUBSET S : ~ \E g : IsIter(f, T, g)}
<1>1. SUFFICES ASSUME B # {} PROVE FALSE
  <2>1. S \notin B => \E g : IsIter(f, S, g)
    OBVIOUS
  <2> QED
    BY <2>1
<1>2. PICK T \in B : \A U \in B : U \subseteq T => U = T
  <2>1. B \subseteq SUBSET S
    OBVIOUS
  <2> HIDE DEF B
  <2> QED
    BY <1>1, <2>1, SmallestSubset
<1> DEFINE W(U) == CHOOSE g : IsIter(f, U, g)
<1> HIDE DEF W
<1>3. ASSUME NEW U \in SUBSET T, U # T
      PROVE  IsIter(f, U, W(U)) /\ IsFiniteSet(U)
  <2>1. U \in SUBSET S /\ U \notin B
    BY <1>2, <1>3
  <2>2. \E g : IsIter(f, U, g)
    BY <2>1
  <2> QED
    BY <2>1, <2>2, FS_Subset DEF W
<1> DEFINE G == [s \in SUBSET T |->
                   IF s = {} THEN 0 ELSE f[Pick(s)] + W(s \ {Pick(s)})[s \ {Pick(s)}]]
<1>4. ASSUME NEW U \in SUBSET T, U # T
      PROVE  G[U] = W(U)[U]
  <2>1. W(U)[U] = IF U = {} THEN 0 ELSE f[Pick(U)] + W(U)[U \ {Pick(U)}]
    BY <1>3, <1>4 DEF IsIter
  <2>2. CASE U = {}
    BY <2>1, <2>2
  <2>3. CASE U # {}
    <3> DEFINE V == U \ {Pick(U)}
    <3>1. V \in SUBSET U /\ V \in SUBSET T /\ V # T
      BY <1>4, <2>3, PickIsIn
    <3>2. IsIter(f, U, W(U)) /\ IsIter(f, V, W(V)) /\ IsFiniteSet(U)
      BY <1>3, <1>4, <3>1
    <3>3. W(U)[V] = W(V)[V]
      BY <3>1, <3>2, IterAgrees
    <3> QED
      BY <2>1, <2>3, <3>3
  <2> QED
    BY <2>2, <2>3
<1>5. \A s \in SUBSET T : s # {} => s \ {Pick(s)} \in SUBSET T /\ s \ {Pick(s)} # T
  BY PickIsIn
<1>6. \A s \in SUBSET T : s # {} => G[s \ {Pick(s)}] = W(s \ {Pick(s)})[s \ {Pick(s)}]
  BY <1>4, <1>5
<1>7. IsIter(f, T, G)
  BY <1>6 DEF IsIter
<1> QED
  BY <1>2, <1>7

\* The sum of nothing is zero, and a sum is an element and the sum of the rest.
LEMMA SumUnfolds ==
  ASSUME NEW f, NEW S, IsFiniteSet(S)
  PROVE  SumFunctionOnSet(f, S) =
           IF S = {} THEN 0 ELSE f[Pick(S)] + SumFunctionOnSet(f, S \ {Pick(S)})
<1> DEFINE W(U) == CHOOSE g : IsIter(f, U, g)
<1> HIDE DEF W
<1>1. ASSUME NEW U \in SUBSET S
      PROVE  IsIter(f, U, W(U)) /\ SumFunctionOnSet(f, U) = W(U)[U]
  <2>1. \E g : IsIter(f, U, g)
    BY FS_Subset, IterExists
  <2> QED
    BY <2>1, SumIsIter DEF W
<1>2. W(S)[S] = IF S = {} THEN 0 ELSE f[Pick(S)] + W(S)[S \ {Pick(S)}]
  BY <1>1 DEF IsIter
<1>3. S # {} => W(S)[S \ {Pick(S)}] = W(S \ {Pick(S)})[S \ {Pick(S)}]
  BY <1>1, IterAgrees
<1> QED
  BY <1>1, <1>2, <1>3

-----------------------------------------------------------------------------
(* What the proofs use.                                                    *)

THEOREM SumEmpty == \A f : SumFunctionOnSet(f, {}) = 0
BY SumUnfolds, FS_EmptySet

THEOREM SumType ==
  ASSUME NEW S, IsFiniteSet(S), NEW f, \A x \in S : f[x] \in Int
  PROVE  SumFunctionOnSet(f, S) \in Int
<1> DEFINE B == {T \in SUBSET S : SumFunctionOnSet(f, T) \notin Int}
<1>1. SUFFICES ASSUME B # {} PROVE FALSE
  OBVIOUS
<1>2. PICK T \in B : \A U \in B : U \subseteq T => U = T
  <2>1. B \subseteq SUBSET S
    OBVIOUS
  <2> HIDE DEF B
  <2> QED
    BY <1>1, <2>1, SmallestSubset
<1>3. SumFunctionOnSet(f, T)
        = IF T = {} THEN 0 ELSE f[Pick(T)] + SumFunctionOnSet(f, T \ {Pick(T)})
  BY FS_Subset, SumUnfolds
<1>4. T # {}
  BY <1>3
<1>5. Pick(T) \in T
  BY <1>4, PickIsIn
<1>6. SumFunctionOnSet(f, T \ {Pick(T)}) \in Int
  BY <1>2, <1>5
<1> QED
  BY <1>3, <1>4, <1>5, <1>6

\* Functions that agree on a set have the same sum there.
THEOREM SumAgrees ==
  ASSUME NEW S, IsFiniteSet(S), NEW f, NEW g, \A x \in S : f[x] = g[x]
  PROVE  SumFunctionOnSet(f, S) = SumFunctionOnSet(g, S)
<1> DEFINE B == {T \in SUBSET S : SumFunctionOnSet(f, T) # SumFunctionOnSet(g, T)}
<1>1. SUFFICES ASSUME B # {} PROVE FALSE
  OBVIOUS
<1>2. PICK T \in B : \A U \in B : U \subseteq T => U = T
  <2>1. B \subseteq SUBSET S
    OBVIOUS
  <2> HIDE DEF B
  <2> QED
    BY <1>1, <2>1, SmallestSubset
<1>3. IsFiniteSet(T)
  BY FS_Subset
<1>4. T # {}
  BY <1>3, SumEmpty
<1>5. Pick(T) \in T
  BY <1>4, PickIsIn
<1>6. SumFunctionOnSet(f, T \ {Pick(T)}) = SumFunctionOnSet(g, T \ {Pick(T)})
  BY <1>2, <1>5
<1> QED
  BY <1>3, <1>4, <1>5, <1>6, SumUnfolds

\* The element CHOOSE takes first does not matter.
THEOREM SumAdds ==
  ASSUME NEW S, IsFiniteSet(S), NEW f, \A x \in S : f[x] \in Int,
         NEW x \in S
  PROVE  SumFunctionOnSet(f, S) = f[x] + SumFunctionOnSet(f, S \ {x})
<1> DEFINE Sum(T) == SumFunctionOnSet(f, T)
           B == {T \in SUBSET S : \E y \in T : Sum(T) # f[y] + Sum(T \ {y})}
<1>1. SUFFICES ASSUME B # {} PROVE FALSE
  OBVIOUS
<1>2. PICK T \in B : \A U \in B : U \subseteq T => U = T
  <2>1. B \subseteq SUBSET S
    OBVIOUS
  <2> HIDE DEF B
  <2> QED
    BY <1>1, <2>1, SmallestSubset
<1>3. T \subseteq S /\ IsFiniteSet(T)
  BY FS_Subset
<1>4. PICK y \in T : Sum(T) # f[y] + Sum(T \ {y})
  OBVIOUS
<1>5. \A U \in SUBSET S : Sum(U) \in Int
  BY FS_Subset, SumType
<1> HIDE DEF Sum
<1>6. ASSUME NEW U \in SUBSET T, U # T, NEW z \in U
      PROVE  Sum(U) = f[z] + Sum(U \ {z})
  BY <1>2, <1>3, <1>6
<1> DEFINE p == Pick(T)
<1>7. p \in T /\ Sum(T) = f[p] + Sum(T \ {p})
  BY <1>3, <1>4, SumUnfolds, PickIsIn DEF Sum
<1> HIDE DEF p
<1>8. CASE p = y
  BY <1>4, <1>7, <1>8
<1>9. CASE p # y
  <2>1. (T \ {p}) \ {y} = (T \ {y}) \ {p}
    OBVIOUS
  <2>2. Sum(T \ {p}) = f[y] + Sum((T \ {p}) \ {y})
    BY <1>6, <1>7, <1>9
  <2>3. Sum(T \ {y}) = f[p] + Sum((T \ {y}) \ {p})
    BY <1>6, <1>7, <1>9
  <2>4. f[p] \in Int /\ f[y] \in Int /\ Sum((T \ {p}) \ {y}) \in Int
    BY <1>3, <1>5, <1>7
  <2>5. f[p] + Sum(T \ {p}) = f[y] + Sum(T \ {y})
    BY <2>1, <2>2, <2>3, <2>4
  <2> QED
    BY <1>4, <1>7, <2>5
<1> QED
  BY <1>8, <1>9

\* One more element.
THEOREM SumInsert ==
  ASSUME NEW S, IsFiniteSet(S), NEW x, x \notin S,
         NEW f, f[x] \in Int, \A y \in S : f[y] \in Int
  PROVE  SumFunctionOnSet(f, S \cup {x}) = f[x] + SumFunctionOnSet(f, S)
<1>1. IsFiniteSet(S \cup {x})
  BY FS_AddElement
<1>2. (S \cup {x}) \ {x} = S
  OBVIOUS
<1>3. \A y \in S \cup {x} : f[y] \in Int
  OBVIOUS
<1> QED
  BY <1>1, <1>2, <1>3, SumAdds

\* One term changes.
THEOREM SumUpdate ==
  ASSUME NEW S, IsFiniteSet(S), NEW f, \A y \in S : f[y] \in Int,
         NEW g, \A y \in S : g[y] \in Int,
         NEW x \in S, \A y \in S : y # x => g[y] = f[y]
  PROVE  SumFunctionOnSet(g, S) = SumFunctionOnSet(f, S) + g[x] - f[x]
<1>1. IsFiniteSet(S \ {x})
  BY FS_Subset
<1>2. SumFunctionOnSet(g, S \ {x}) = SumFunctionOnSet(f, S \ {x})
  BY <1>1, SumAgrees
<1>3. /\ SumFunctionOnSet(f, S) = f[x] + SumFunctionOnSet(f, S \ {x})
      /\ SumFunctionOnSet(g, S) = g[x] + SumFunctionOnSet(g, S \ {x})
  BY SumAdds
<1>4. f[x] \in Int /\ g[x] \in Int /\ SumFunctionOnSet(f, S \ {x}) \in Int
  BY <1>1, SumType
<1> QED
  BY <1>2, <1>3, <1>4

\* A sum of natural numbers is one.
THEOREM SumIsNat ==
  ASSUME NEW S, IsFiniteSet(S), NEW f, \A x \in S : f[x] \in Nat
  PROVE  SumFunctionOnSet(f, S) \in Nat
<1> DEFINE B == {T \in SUBSET S : SumFunctionOnSet(f, T) \notin Nat}
<1>1. SUFFICES ASSUME B # {} PROVE FALSE
  OBVIOUS
<1>2. PICK T \in B : \A U \in B : U \subseteq T => U = T
  <2>1. B \subseteq SUBSET S
    OBVIOUS
  <2> HIDE DEF B
  <2> QED
    BY <1>1, <2>1, SmallestSubset
<1>3. SumFunctionOnSet(f, T)
        = IF T = {} THEN 0 ELSE f[Pick(T)] + SumFunctionOnSet(f, T \ {Pick(T)})
  BY FS_Subset, SumUnfolds
<1>4. T # {}
  BY <1>3
<1>5. Pick(T) \in T
  BY <1>4, PickIsIn
<1>6. SumFunctionOnSet(f, T \ {Pick(T)}) \in Nat
  BY <1>2, <1>5
<1> QED
  BY <1>3, <1>4, <1>5, <1>6

\* A sum of terms no greater than b is at most b for each of them.
THEOREM SumAtMost ==
  ASSUME NEW S, IsFiniteSet(S), NEW b \in Nat,
         NEW f, \A x \in S : f[x] \in Nat /\ f[x] <= b
  PROVE  SumFunctionOnSet(f, S) <= b * Cardinality(S)
<1> DEFINE B == {T \in SUBSET S : ~ SumFunctionOnSet(f, T) <= b * Cardinality(T)}
<1>1. SUFFICES ASSUME B # {} PROVE FALSE
  OBVIOUS
<1>2. PICK T \in B : \A U \in B : U \subseteq T => U = T
  <2>1. B \subseteq SUBSET S
    OBVIOUS
  <2> HIDE DEF B
  <2> QED
    BY <1>1, <2>1, SmallestSubset
<1>3. SumFunctionOnSet(f, T)
        = IF T = {} THEN 0 ELSE f[Pick(T)] + SumFunctionOnSet(f, T \ {Pick(T)})
  BY FS_Subset, SumUnfolds
<1>4. T # {}
  <2>1. SumFunctionOnSet(f, {}) = 0 /\ Cardinality({}) = 0 /\ 0 <= b * 0
    BY SumEmpty, FS_EmptySet
  <2> QED
    BY <2>1
<1>5. Pick(T) \in T
  BY <1>4, PickIsIn
<1> DEFINE U == T \ {Pick(T)}
<1>6. SumFunctionOnSet(f, U) <= b * Cardinality(U)
  BY <1>2, <1>5
<1>7. IsFiniteSet(T) /\ IsFiniteSet(U) /\ Cardinality(U) = Cardinality(T) - 1
  BY <1>5, FS_Subset, FS_RemoveElement
<1>8. /\ Cardinality(T) \in Nat /\ Cardinality(U) \in Nat
      /\ SumFunctionOnSet(f, T) \in Nat /\ SumFunctionOnSet(f, U) \in Nat
  BY <1>7, FS_CardinalityType, SumIsNat
<1>9. f[Pick(T)] \in Nat /\ f[Pick(T)] <= b
  BY <1>5
<1>10. b * Cardinality(T) = b + b * Cardinality(U)
  <2> DEFINE m == Cardinality(T)
             n == Cardinality(U)
  <2>1. n = m - 1 /\ m \in Nat /\ n \in Nat
    BY <1>7, <1>8
  <2> HIDE DEF m, n
  <2> QED
    BY <2>1 DEF m, n
<1>11. ~ SumFunctionOnSet(f, T) <= b * Cardinality(T)
  OBVIOUS
<1> DEFINE s == SumFunctionOnSet(f, T)
           t == SumFunctionOnSet(f, U)
           e == f[Pick(T)]
           m == b * Cardinality(T)
           n == b * Cardinality(U)
<1>12. s = e + t /\ t <= n /\ e <= b /\ m = b + n /\ ~ s <= m
  BY <1>3, <1>4, <1>6, <1>9, <1>10, <1>11
<1>13. s \in Nat /\ t \in Nat /\ e \in Nat /\ m \in Nat /\ n \in Nat
  BY <1>8, <1>9
<1> HIDE DEF s, t, e, m, n
<1> QED
  BY <1>12, <1>13

\* A sum of zeros is zero.
THEOREM SumIsZero ==
  ASSUME NEW S, IsFiniteSet(S), NEW f, \A x \in S : f[x] = 0
  PROVE  SumFunctionOnSet(f, S) = 0
<1> DEFINE B == {T \in SUBSET S : SumFunctionOnSet(f, T) # 0}
<1>1. SUFFICES ASSUME B # {} PROVE FALSE
  OBVIOUS
<1>2. PICK T \in B : \A U \in B : U \subseteq T => U = T
  <2>1. B \subseteq SUBSET S
    OBVIOUS
  <2> HIDE DEF B
  <2> QED
    BY <1>1, <2>1, SmallestSubset
<1>3. SumFunctionOnSet(f, T)
        = IF T = {} THEN 0 ELSE f[Pick(T)] + SumFunctionOnSet(f, T \ {Pick(T)})
  BY FS_Subset, SumUnfolds
<1>4. T # {}
  BY <1>3
<1>5. Pick(T) \in T
  BY <1>4, PickIsIn
<1>6. SumFunctionOnSet(f, T \ {Pick(T)}) = 0
  BY <1>2, <1>5
<1> QED
  BY <1>3, <1>4, <1>5, <1>6

\* The sum over two sets that have nothing in common.
THEOREM SumSplits ==
  ASSUME NEW S, IsFiniteSet(S), NEW f, \A x \in S : f[x] \in Int,
         NEW T \in SUBSET S
  PROVE  SumFunctionOnSet(f, S) = SumFunctionOnSet(f, T) + SumFunctionOnSet(f, S \ T)
<1> DEFINE Sum(U) == SumFunctionOnSet(f, U)
           B == {U \in SUBSET S : U \cap T = {} /\ Sum(T \cup U) # Sum(T) + Sum(U)}
<1>0. \A U \in SUBSET S : IsFiniteSet(U) /\ Sum(U) \in Int
  BY FS_Subset, SumType
<1>1. SUFFICES ASSUME B # {} PROVE FALSE
  <2>1. S \ T \notin B
    OBVIOUS
  <2>2. T \cup (S \ T) = S
    OBVIOUS
  <2> QED
    BY <2>1, <2>2
<1>2. PICK U \in B : \A V \in B : V \subseteq U => V = U
  <2>1. B \subseteq SUBSET S
    OBVIOUS
  <2> HIDE DEF B
  <2> QED
    BY <1>1, <2>1, SmallestSubset
<1>3. U \in SUBSET S /\ U \cap T = {} /\ Sum(T \cup U) # Sum(T) + Sum(U)
  BY <1>2
<1>4. Sum({}) = 0
  BY SumEmpty
<1>5. U # {}
  <2>1. Sum(T) \in Int
    BY <1>0
  <2> HIDE DEF Sum
  <2>2. Sum(T \cup {}) = Sum(T) + Sum({})
    <3>1. T \cup {} = T
      OBVIOUS
    <3> QED
      BY <1>4, <2>1, <3>1
  <2> QED
    BY <1>3, <2>2
<1>6. PICK x \in U : TRUE
  BY <1>5
<1> DEFINE V == U \ {x}
<1>7. V \in SUBSET S /\ V \cap T = {} /\ V \subseteq U /\ V # U
  BY <1>3
<1>8. Sum(T \cup V) = Sum(T) + Sum(V)
  BY <1>2, <1>7
<1>9. Sum(U) = f[x] + Sum(V)
  BY <1>0, <1>3, SumAdds
<1>10. Sum(T \cup U) = f[x] + Sum(T \cup V)
  <2>1. (T \cup U) \ {x} = T \cup V
    BY <1>3
  <2>2. T \cup U \in SUBSET S /\ x \in T \cup U
    BY <1>3
  <2> HIDE DEF V
  <2> QED
    BY <1>0, <2>1, <2>2, SumAdds
<1>11. /\ f[x] \in Int /\ Sum(V) \in Int /\ Sum(T) \in Int /\ Sum(T \cup V) \in Int
  <2>1. V \in SUBSET S /\ T \cup V \in SUBSET S /\ x \in S
    BY <1>3
  <2> HIDE DEF V, Sum
  <2> QED
    BY <1>0, <2>1
<1> HIDE DEF V, Sum
<1> QED
  BY <1>3, <1>8, <1>9, <1>10, <1>11

-----------------------------------------------------------------------------
(* The sum of a sequence, as a function on its positions.                  *)

THEOREM SeqSumEmpty == SumFunctionOnSet(<< >>, DOMAIN << >>) = 0
<1>1. DOMAIN << >> = {}
  BY Z3
<1> QED
  BY <1>1, SumEmpty

THEOREM SeqSumAppend ==
  ASSUME NEW s \in Seq(Int), NEW a \in Int
  PROVE  SumFunctionOnSet(Append(s, a), DOMAIN Append(s, a))
           = SumFunctionOnSet(s, DOMAIN s) + a
<1> DEFINE t == Append(s, a)
           n == Len(s)
<1>1. n \in Nat /\ DOMAIN s = 1 .. n /\ DOMAIN t = 1 .. n + 1
  OBVIOUS
<1>2. t[n + 1] = a /\ \A k \in 1 .. n : t[k] = s[k] /\ s[k] \in Int
  OBVIOUS
<1>3. IsFiniteSet(1 .. n) /\ n + 1 \notin 1 .. n /\ 1 .. n + 1 = (1 .. n) \cup {n + 1}
  <2> HIDE DEF n
  <2>1. IsFiniteSet(1 .. n)
    BY <1>1, FS_Interval
  <2> QED
    BY <1>1, <2>1
<1>4. SumFunctionOnSet(t, 1 .. n) = SumFunctionOnSet(s, 1 .. n)
  BY <1>2, <1>3, SumAgrees
<1>5. SumFunctionOnSet(t, (1 .. n) \cup {n + 1}) = t[n + 1] + SumFunctionOnSet(t, 1 .. n)
  BY <1>2, <1>3, SumInsert
<1>6. SumFunctionOnSet(s, 1 .. n) \in Int
  BY <1>2, <1>3, SumType
<1> HIDE DEF t, n
<1>7. SumFunctionOnSet(t, DOMAIN t) = a + SumFunctionOnSet(s, DOMAIN s)
  BY <1>1, <1>2, <1>3, <1>4, <1>5
<1> QED
  BY <1>1, <1>6, <1>7 DEF t
=============================================================================
