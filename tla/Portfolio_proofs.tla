-------------------------- MODULE Portfolio_proofs --------------------------
(***************************************************************************)
(* Proofs about HedgeBook, Portfolio and Valuation for any finite sets of  *)
(* orders, contracts, deals and targets, any events, any number of         *)
(* overlapping sessions, any prices and any tonnages: first the book, then *)
(* that what is derived from the book is what the book gives.              *)
(*                                                                         *)
(* The first part is about sums: what SumFunctionOnSet of the community    *)
(* modules does when a summand, or the set of summands, changes.  The      *)
(* induction is on the set of summands, by a minimal counterexample.       *)
(***************************************************************************)
EXTENDS Valuation, FiniteSetTheorems, TLAPS

\* The element that SumFunctionOnSet takes first, and the graph of its recursion.
Pick(s) == CHOOSE x \in s : TRUE

IsSum(g, f, S) ==
  g = [s \in SUBSET S |-> IF s = {} THEN 0 ELSE f[Pick(s)] + g[s \ {Pick(s)}]]

SumGraph(f, S) == CHOOSE g : IsSum(g, f, S)

(* What is picked from a set is in it. *)
LEMMA PickIn == ASSUME NEW s, s # {} PROVE Pick(s) \in s
  BY DEF Pick

(* The library's fold over a function is the last value of that recursion. *)
LEMMA SumIsGraph == ASSUME NEW f, NEW S PROVE SumFunctionOnSet(f, S) = SumGraph(f, S)[S]
  BY DEF SumFunctionOnSet, FoldFunctionOnSet, MapThenFoldSet, SumGraph, IsSum, Pick

(* Among sets of subsets of a finite set there is a minimal one: how the     *)
(* proofs below do induction on the set of summands.                         *)
LEMMA MinimalSubset ==
  ASSUME NEW S, IsFiniteSet(S), NEW B \in SUBSET SUBSET S, B # {}
  PROVE  \E T \in B : \A U \in B : U \subseteq T => U = T
<1>1. IsWellFoundedOn(StrictSubsetOrdering(S), SUBSET S)
  BY FS_StrictSubsetOrderingWellFounded, FS_FiniteSubsetsOfFinite
<1>2. PICK T \in B : \A U \in B : ~(<<U, T>> \in StrictSubsetOrdering(S))
  BY <1>1, WFMin
<1>3. ASSUME NEW U \in B, U \subseteq T, U # T PROVE FALSE
  <2>1. <<U, T>> \in StrictSubsetOrdering(S)
    BY <1>3 DEF StrictSubsetOrdering
  <2> QED
    BY <1>2, <2>1
<1>4. \A U \in B : U \subseteq T => U = T
  BY <1>3
<1> QED
  BY <1>4

(* One step of the recursion. *)
LEMMA SumUnfold ==
  ASSUME NEW f, NEW S, NEW g, IsSum(g, f, S), NEW s \in SUBSET S
  PROVE  g[s] = IF s = {} THEN 0 ELSE f[Pick(s)] + g[s \ {Pick(s)}]
<1>1. g = [t \in SUBSET S |-> IF t = {} THEN 0 ELSE f[Pick(t)] + g[t \ {Pick(t)}]]
  BY DEF IsSum
<1> DEFINE E(t) == IF t = {} THEN 0 ELSE f[Pick(t)] + g[t \ {Pick(t)}]
<1>2. g = [t \in SUBSET S |-> E(t)]
  BY <1>1
<1> HIDE DEF E
<1>3. g[s] = E(s)
  BY <1>2
<1> QED
  BY <1>3 DEF E

(* The recursion has one solution on the subsets of a set, its restriction  *)
(* to those of a smaller one.                                                *)
LEMMA SumUnique ==
  ASSUME NEW f, NEW S, IsFiniteSet(S), NEW T \in SUBSET S, NEW g, NEW h,
         IsSum(g, f, S), IsSum(h, f, T)
  PROVE  g[T] = h[T]
<1> DEFINE B == {s \in SUBSET T : g[s] # h[s]}
<1> SUFFICES ASSUME B # {} PROVE FALSE
  OBVIOUS
<1>1. IsFiniteSet(T)
  BY FS_Subset
<1>2. PICK s \in B : \A u \in B : u \subseteq s => u = s
  <2>1. B \in SUBSET SUBSET T
    OBVIOUS
  <2> HIDE DEF B
  <2> QED
    BY <1>1, <2>1, MinimalSubset
<1>3. s # {}
  <2>1. g[{}] = 0 /\ h[{}] = 0
    BY SumUnfold
  <2> QED
    BY <2>1
<1> DEFINE u == s \ {Pick(s)}
<1>4. u \subseteq s /\ u # s
  BY <1>3, PickIn
<1>5. g[u] = h[u]
  BY <1>2, <1>4
<1>6. g[s] = f[Pick(s)] + g[u] /\ h[s] = f[Pick(s)] + h[u]
  BY <1>3, SumUnfold
<1> QED
  BY <1>5, <1>6

(* It has a solution when the set is finite: the sum is no arbitrary value. *)
LEMMA SumGraphExists ==
  ASSUME NEW f, NEW S, IsFiniteSet(S)
  PROVE  IsSum(SumGraph(f, S), f, S)
<1> DEFINE B == {T \in SUBSET S : ~ \E g : IsSum(g, f, T)}
<1> SUFFICES ASSUME B # {} PROVE FALSE
  BY DEF SumGraph
<1>1. PICK T \in B : \A U \in B : U \subseteq T => U = T
  <2>1. B \in SUBSET SUBSET S
    OBVIOUS
  <2> HIDE DEF B
  <2> QED
    BY <2>1, MinimalSubset
<1> DEFINE G(u) == SumGraph(f, u)
<1>2. ASSUME NEW u \in SUBSET T, u # T PROVE IsSum(G(u), f, u) /\ IsFiniteSet(u)
  <2>1. \E g : IsSum(g, f, u)
    BY <1>1, <1>2
  <2> QED
    BY <2>1, FS_Subset DEF SumGraph
<1> DEFINE E(s) == IF s = {} THEN 0 ELSE f[Pick(s)] + G(s \ {Pick(s)})[s \ {Pick(s)}]
           h == [s \in SUBSET T |-> E(s)]
<1>3. ASSUME NEW s \in SUBSET T, s # {}
      PROVE  h[s \ {Pick(s)}] = G(s \ {Pick(s)})[s \ {Pick(s)}]
  <2> DEFINE u == s \ {Pick(s)}
             v == u \ {Pick(u)}
  <2>1. u \in SUBSET T /\ u # T /\ v \in SUBSET u /\ v \in SUBSET T
    BY <1>3, PickIn
  <2>2. (u # {}) => (v # T)
    BY <2>1, PickIn
  <2>3. h[u] = E(u)
    BY <2>1
  <2>4. G(u)[u] = IF u = {} THEN 0 ELSE f[Pick(u)] + G(u)[v]
    <3>1. IsSum(G(u), f, u) /\ u \in SUBSET u
      BY <1>2, <2>1
    <3> HIDE DEF G, u
    <3> QED
      BY <3>1, SumUnfold
  <2>5. u # {} => G(u)[v] = G(v)[v]
    <3> SUFFICES ASSUME u # {} PROVE G(u)[v] = G(v)[v]
      OBVIOUS
    <3>1. IsSum(G(u), f, u) /\ IsSum(G(v), f, v) /\ IsFiniteSet(u)
      BY <1>2, <2>1, <2>2
    <3> HIDE DEF G, v, u
    <3> QED
      BY <2>1, <3>1, SumUnique
  <2> QED
    BY <2>3, <2>4, <2>5
<1>4. IsSum(h, f, T)
  <2> DEFINE F(s) == IF s = {} THEN 0 ELSE f[Pick(s)] + h[s \ {Pick(s)}]
  <2>1. \A s \in SUBSET T : E(s) = F(s)
    BY <1>3
  <2> HIDE DEF E
  <2>2. h = [s \in SUBSET T |-> F(s)]
    <3> HIDE DEF F
    <3> QED BY <2>1
  <2> HIDE DEF h
  <2> QED
    BY <2>2 DEF IsSum
<1> QED
  BY <1>1, <1>4

(* Nothing adds up to 0. *)
LEMMA SumEmpty == ASSUME NEW f PROVE SumFunctionOnSet(f, {}) = 0
  BY SumIsGraph, SumGraphExists, SumUnfold, FS_EmptySet

(* A sum is its first summand and the sum of the others. *)
LEMMA SumFirst ==
  ASSUME NEW f, NEW S, IsFiniteSet(S), S # {}
  PROVE  SumFunctionOnSet(f, S) = f[Pick(S)] + SumFunctionOnSet(f, S \ {Pick(S)})
<1> DEFINE u == S \ {Pick(S)}
<1>1. u \in SUBSET S /\ IsFiniteSet(u)
  BY FS_Subset
<1>2. IsSum(SumGraph(f, S), f, S) /\ IsSum(SumGraph(f, u), f, u)
  BY <1>1, SumGraphExists
<1>3. SumGraph(f, S)[u] = SumGraph(f, u)[u]
  <2> HIDE DEF u
  <2> QED BY <1>1, <1>2, SumUnique
<1>4. SumGraph(f, S)[S] = f[Pick(S)] + SumGraph(f, S)[u]
  BY <1>2, SumUnfold
<1> QED
  BY <1>3, <1>4, SumIsGraph

(* Sums of tonnes are tonnes. *)
LEMMA SumNat ==
  ASSUME NEW S, IsFiniteSet(S), NEW f, \A x \in S : f[x] \in Nat
  PROVE  SumFunctionOnSet(f, S) \in Nat
<1> DEFINE B == {T \in SUBSET S : SumFunctionOnSet(f, T) \notin Nat}
<1> SUFFICES ASSUME B # {} PROVE FALSE
  OBVIOUS
<1>1. PICK T \in B : \A U \in B : U \subseteq T => U = T
  <2>1. B \in SUBSET SUBSET S
    OBVIOUS
  <2> HIDE DEF B
  <2> QED
    BY <2>1, MinimalSubset
<1>2. IsFiniteSet(T) /\ T # {}
  <2>1. T \in SUBSET S /\ SumFunctionOnSet(f, T) \notin Nat
    OBVIOUS
  <2>2. SumFunctionOnSet(f, {}) \in Nat
    BY SumEmpty
  <2> HIDE DEF B
  <2> QED
    BY <2>1, <2>2, FS_Subset
<1>3. Pick(T) \in T
  BY <1>2, PickIn
<1>4. SumFunctionOnSet(f, T \ {Pick(T)}) \in Nat
  BY <1>1, <1>3
<1>5. f[Pick(T)] \in Nat
  BY <1>3
<1> QED
  BY <1>2, <1>4, <1>5, SumFirst

(* A sum depends on the summands it has and on nothing else. *)
LEMMA SumSame ==
  ASSUME NEW S, IsFiniteSet(S), NEW f, NEW g, \A x \in S : f[x] = g[x]
  PROVE  SumFunctionOnSet(f, S) = SumFunctionOnSet(g, S)
<1> DEFINE B == {T \in SUBSET S : SumFunctionOnSet(f, T) # SumFunctionOnSet(g, T)}
<1> SUFFICES ASSUME B # {} PROVE FALSE
  OBVIOUS
<1>1. PICK T \in B : \A U \in B : U \subseteq T => U = T
  <2>1. B \in SUBSET SUBSET S
    OBVIOUS
  <2> HIDE DEF B
  <2> QED
    BY <2>1, MinimalSubset
<1>2. IsFiniteSet(T) /\ T # {}
  BY FS_Subset, SumEmpty
<1>3. Pick(T) \in T /\ f[Pick(T)] = g[Pick(T)]
  BY <1>2, PickIn
<1>4. SumFunctionOnSet(f, T \ {Pick(T)}) = SumFunctionOnSet(g, T \ {Pick(T)})
  BY <1>1, <1>3
<1> QED
  BY <1>2, <1>3, <1>4, SumFirst

(* Sums of signed tonnes and of money are integers. *)
LEMMA SumInt ==
  ASSUME NEW S, IsFiniteSet(S), NEW f, \A x \in S : f[x] \in Int
  PROVE  SumFunctionOnSet(f, S) \in Int
<1> DEFINE B == {T \in SUBSET S : SumFunctionOnSet(f, T) \notin Int}
<1> SUFFICES ASSUME B # {} PROVE FALSE
  OBVIOUS
<1>1. PICK T \in B : \A U \in B : U \subseteq T => U = T
  <2>1. B \in SUBSET SUBSET S
    OBVIOUS
  <2> HIDE DEF B
  <2> QED
    BY <2>1, MinimalSubset
<1>2. IsFiniteSet(T) /\ T # {}
  <2>1. T \in SUBSET S /\ SumFunctionOnSet(f, T) \notin Int
    OBVIOUS
  <2>2. SumFunctionOnSet(f, {}) \in Int
    BY SumEmpty
  <2> HIDE DEF B
  <2> QED
    BY <2>1, <2>2, FS_Subset
<1>3. Pick(T) \in T
  BY <1>2, PickIn
<1>4. SumFunctionOnSet(f, T \ {Pick(T)}) \in Int
  BY <1>1, <1>3
<1>5. f[Pick(T)] \in Int
  BY <1>3
<1> QED
  BY <1>2, <1>4, <1>5, SumFirst

(* Any summand can be taken out first. *)
LEMMA SumTakeOut ==
  ASSUME NEW S, IsFiniteSet(S), NEW f, \A x \in S : f[x] \in Int
  PROVE  \A y \in S : SumFunctionOnSet(f, S) = f[y] + SumFunctionOnSet(f, S \ {y})
<1> DEFINE P(T) == \A y \in T : SumFunctionOnSet(f, T) = f[y] + SumFunctionOnSet(f, T \ {y})
           B == {T \in SUBSET S : ~P(T)}
<1> SUFFICES ASSUME B # {} PROVE FALSE
  OBVIOUS
<1>1. PICK T \in B : \A U \in B : U \subseteq T => U = T
  <2>1. B \in SUBSET SUBSET S
    OBVIOUS
  <2> HIDE DEF B
  <2> QED
    BY <2>1, MinimalSubset
<1>2. PICK y \in T : SumFunctionOnSet(f, T) # f[y] + SumFunctionOnSet(f, T \ {y})
  OBVIOUS
<1>3. IsFiniteSet(T) /\ T # {} /\ T \subseteq S
  BY <1>2, FS_Subset
<1>4. \A U \in SUBSET T : U # T => P(U)
  BY <1>1
<1> HIDE DEF B
<1> DEFINE x == Pick(T)
<1>5. x \in T /\ SumFunctionOnSet(f, T) = f[x] + SumFunctionOnSet(f, T \ {x})
  BY <1>3, PickIn, SumFirst
<1>6. x # y
  BY <1>2, <1>5
<1> HIDE DEF x
<1> DEFINE V == T \ {x, y}
<1>7. SumFunctionOnSet(f, T \ {x}) = f[y] + SumFunctionOnSet(f, V)
  <2>1. T \ {x} \in SUBSET T /\ T \ {x} # T /\ y \in T \ {x} /\ (T \ {x}) \ {y} = V
    BY <1>5, <1>6
  <2> HIDE DEF V
  <2> QED
    BY <1>4, <2>1
<1>8. SumFunctionOnSet(f, T \ {y}) = f[x] + SumFunctionOnSet(f, V)
  <2>1. T \ {y} \in SUBSET T /\ T \ {y} # T /\ x \in T \ {y} /\ (T \ {y}) \ {x} = V
    BY <1>5, <1>6
  <2> HIDE DEF V
  <2> QED
    BY <1>4, <2>1
<1>9. f[x] \in Int /\ f[y] \in Int /\ SumFunctionOnSet(f, V) \in Int
  <2>1. V \in SUBSET T /\ x \in S /\ y \in S
    BY <1>3, <1>5
  <2>2. IsFiniteSet(V) /\ \A z \in V : f[z] \in Int
    BY <1>3, <2>1, FS_Subset
  <2> HIDE DEF V
  <2> QED
    BY <2>1, <2>2, SumInt
<1> HIDE DEF V
<1> QED
  BY <1>2, <1>5, <1>7, <1>8, <1>9

(* Fewer summands, a smaller sum. *)
LEMMA SumSubset ==
  ASSUME NEW S, IsFiniteSet(S), NEW f, \A x \in S : f[x] \in Nat, NEW T \in SUBSET S
  PROVE  SumFunctionOnSet(f, T) <= SumFunctionOnSet(f, S)
<1> DEFINE B == {U \in SUBSET S : T \subseteq U /\ ~(SumFunctionOnSet(f, T) <= SumFunctionOnSet(f, U))}
<1> SUFFICES ASSUME B # {} PROVE FALSE
  OBVIOUS
<1>1. PICK U \in B : \A V \in B : V \subseteq U => V = U
  <2>1. B \in SUBSET SUBSET S
    OBVIOUS
  <2> HIDE DEF B
  <2> QED
    BY <2>1, MinimalSubset
<1>2. /\ U \in SUBSET S /\ T \subseteq U /\ IsFiniteSet(U) /\ IsFiniteSet(T)
      /\ ~(SumFunctionOnSet(f, T) <= SumFunctionOnSet(f, U))
  BY FS_Subset
<1>3. SumFunctionOnSet(f, T) \in Nat /\ SumFunctionOnSet(f, U) \in Nat
  BY <1>2, SumNat
<1>4. PICK y \in U : y \notin T
  BY <1>2, <1>3
<1>5. SumFunctionOnSet(f, T) <= SumFunctionOnSet(f, U \ {y})
  BY <1>1, <1>2, <1>4
<1>6. SumFunctionOnSet(f, U) = f[y] + SumFunctionOnSet(f, U \ {y})
  BY <1>2, SumTakeOut
<1>7. f[y] \in Nat /\ SumFunctionOnSet(f, U \ {y}) \in Nat
  <2>1. IsFiniteSet(U \ {y}) /\ \A z \in U \ {y} : f[z] \in Nat
    BY <1>2, FS_Subset
  <2> QED
    BY <1>2, <2>1, SumNat
<1> QED
  BY <1>2, <1>3, <1>5, <1>6, <1>7

(* When one summand grows by q, so does the sum. *)
LEMMA SumBump ==
  ASSUME NEW S, IsFiniteSet(S), NEW f, \A x \in S : f[x] \in Nat,
         NEW y \in S, NEW q \in Nat, NEW g,
         g[y] = f[y] + q, \A x \in S \ {y} : g[x] = f[x]
  PROVE  SumFunctionOnSet(g, S) = SumFunctionOnSet(f, S) + q
<1>1. IsFiniteSet(S \ {y})
  BY FS_Subset
<1>2. \A x \in S : g[x] \in Nat
  OBVIOUS
<1>3. /\ SumFunctionOnSet(f, S) = f[y] + SumFunctionOnSet(f, S \ {y})
      /\ SumFunctionOnSet(g, S) = g[y] + SumFunctionOnSet(g, S \ {y})
  BY <1>2, SumTakeOut
<1>4. SumFunctionOnSet(g, S \ {y}) = SumFunctionOnSet(f, S \ {y})
  BY <1>1, SumSame
<1>5. SumFunctionOnSet(f, S \ {y}) \in Nat /\ f[y] \in Nat
  <2>1. \A x \in S \ {y} : f[x] \in Nat
    OBVIOUS
  <2> QED
    BY <1>1, <2>1, SumNat
<1> QED
  BY <1>3, <1>4, <1>5

(* A set of summands that adds only zeros to another has no larger sum. *)
LEMMA SumZeros ==
  ASSUME NEW S, IsFiniteSet(S), NEW T, IsFiniteSet(T), NEW f,
         \A x \in S \cup T : f[x] \in Nat,
         \A x \in T : x \in S \/ f[x] = 0
  PROVE  SumFunctionOnSet(f, T) <= SumFunctionOnSet(f, S)
<1> DEFINE Sum(U) == SumFunctionOnSet(f, U)
<1>1. ASSUME NEW U \in SUBSET (S \cup T) PROVE IsFiniteSet(U) /\ Sum(U) \in Nat
  <2>1. IsFiniteSet(U)
    <3>1. IsFiniteSet(S \cup T)
      BY FS_Union
    <3> QED
      BY <3>1, FS_Subset
  <2>2. \A x \in U : f[x] \in Nat
    OBVIOUS
  <2> QED
    BY <2>1, <2>2, SumNat
<1> DEFINE B == {V \in SUBSET T : ~(Sum(V) <= Sum(V \cap S))}
<1>2. ASSUME B # {} PROVE FALSE
  <2>1. PICK V \in B : \A W \in B : W \subseteq V => W = V
    <3>1. B \in SUBSET SUBSET T
      OBVIOUS
    <3> HIDE DEF B
    <3> QED
      BY <1>2, <3>1, MinimalSubset
  <2>2. V \in SUBSET T /\ ~(Sum(V) <= Sum(V \cap S))
    OBVIOUS
  <2>3. V # {}
    <3>1. Sum({}) = 0
      BY SumEmpty
    <3>2. V = {} => V \cap S = V
      OBVIOUS
    <3>3. V = {} => Sum(V) = 0 /\ Sum(V \cap S) = 0
      BY <3>1, <3>2
    <3> HIDE DEF Sum, B
    <3> QED
      BY <2>2, <3>3
  <2>4. PICK z : z \in V
    BY <2>3
  <2> DEFINE W == V \ {z}
  <2>5. Sum(W) <= Sum(W \cap S)
    <3> HIDE DEF Sum
    <3> QED
      BY <2>1, <2>2, <2>4
  <2>6. Sum(V) = f[z] + Sum(W)
    <3>1. IsFiniteSet(V) /\ \A x \in V : f[x] \in Nat
      BY <1>1, <2>2
    <3> QED
      BY <2>4, <3>1, SumTakeOut
  <2>7. z \in S => Sum(V \cap S) = f[z] + Sum(W \cap S)
    <3> SUFFICES ASSUME z \in S PROVE Sum(V \cap S) = f[z] + Sum(W \cap S)
      OBVIOUS
    <3>1. /\ (V \cap S) \ {z} = W \cap S /\ z \in V \cap S /\ IsFiniteSet(V \cap S)
          /\ \A x \in V \cap S : f[x] \in Nat
      BY <1>1, <2>2, <2>4
    <3> HIDE DEF W
    <3> QED
      BY <3>1, SumTakeOut
  <2>8. z \notin S => V \cap S = W \cap S /\ f[z] = 0
    BY <2>2, <2>4
  <2>9. Sum(V) \in Nat /\ Sum(W) \in Nat /\ Sum(W \cap S) \in Nat /\ f[z] \in Nat
    <3>1. V \in SUBSET (S \cup T) /\ W \in SUBSET (S \cup T) /\ W \cap S \in SUBSET (S \cup T) /\ z \in T
      BY <2>2, <2>4
    <3> HIDE DEF W, Sum, B
    <3> QED
      BY <1>1, <3>1
  <2> HIDE DEF W, Sum, B
  <2>10. CASE z \in S
    BY <2>2, <2>5, <2>6, <2>7, <2>9, <2>10
  <2>11. CASE z \notin S
    <3>1. Sum(V \cap S) = Sum(W \cap S) /\ f[z] = 0
      BY <2>8, <2>11
    <3> QED
      BY <2>2, <2>5, <2>6, <2>9, <3>1
  <2> QED
    BY <2>10, <2>11
<1>3. Sum(T) <= Sum(T \cap S)
  BY <1>2
<1>4. Sum(T \cap S) <= Sum(S)
  <2>1. T \cap S \in SUBSET S
    OBVIOUS
  <2> QED
    BY <2>1, SumSubset
<1>5. Sum(T) \in Nat /\ Sum(T \cap S) \in Nat /\ Sum(S) \in Nat
  BY <1>1
<1> HIDE DEF B
<1> QED
  BY <1>3, <1>4, <1>5

(* The sum of other summands over another set, when what is new in the set  *)
(* was 0 and one summand at most, y, grew, by q.                             *)
LEMMA SumGrowth ==
  ASSUME NEW S, IsFiniteSet(S), NEW T, IsFiniteSet(T), NEW f, NEW g,
         \A x \in S \cup T : f[x] \in Nat,
         \A x \in T : x \in S \/ f[x] = 0,
         NEW y, NEW q \in Nat,
         \A x \in T \ {y} : g[x] = f[x],
         y \in T => g[y] = f[y] + q
  PROVE  SumFunctionOnSet(g, T) <= SumFunctionOnSet(f, S) + q
<1>1. SumFunctionOnSet(f, T) <= SumFunctionOnSet(f, S)
  BY SumZeros
<1>2. SumFunctionOnSet(f, T) \in Nat /\ SumFunctionOnSet(f, S) \in Nat
  BY SumNat
<1>3. CASE y \notin T
  <2>1. SumFunctionOnSet(g, T) = SumFunctionOnSet(f, T)
    BY <1>3, SumSame
  <2> QED
    BY <1>1, <1>2, <2>1
<1>4. CASE y \in T
  <2>1. SumFunctionOnSet(g, T) = SumFunctionOnSet(f, T) + q
    <3>1. \A x \in T : f[x] \in Nat
      OBVIOUS
    <3> QED
      BY <1>4, <3>1, SumBump
  <2> QED
    BY <1>1, <1>2, <2>1
<1> QED
  BY <1>3, <1>4

-----------------------------------------------------------------------------
(* The inductive invariant.                                                *)

\* The operations of create of linkage_service, which hold the lock of the order.
LinkOps == {"linking", "booking", "linked", "booked"}

Booking == {"booking", "booked"}

Writing == {"update", "cancel", "archive", "delete", "settle"}

\* What a request x is about to write to exists; only a booking names a
\* contract that nobody has inserted.
RequestSound(x) ==
  /\ x.op = "idle" => x = Idle
  /\ x.op \in LinkOps => x.order \in Orders /\ x.contract \in Contracts
  /\ x.op = "archive_order" => x.order \in Orders /\ orders[x.order] # "absent"
  /\ x.op \in Writing => x.contract \in Contracts
  /\ x.op = "settle" => x.event \in Events
  /\ x.op \in Writing \cup {"linking", "linked"} => contracts[x.contract].status # "absent"
  /\ x.op \in Booking => contracts[x.contract].status = "absent"

\* The requests x and y of two sessions: the lock of an order has one holder,
\* that of a contract too, and nobody else names a contract being booked.
Excludes(x, y) ==
  /\ x.op \in LinkOps /\ y.op \in LinkOps => x.order # y.order
  /\ x.op = "linked" /\ y.op = "linked" => x.contract # y.contract
  /\ x.op \in Booking => x.contract # y.contract

\* What x checked under its locks is true still.
CheckHolds(x) ==
  /\ x.op = "linked" => MayLink(x.order, x.contract, x.qty)
  /\ x.op = "booked" =>
       LiveOrder(x.order) /\ Linkable(x.order, x.contract) /\ OrderHasRoom(x.order, x.qty)

RequestsSound == \A s \in Sessions: RequestSound(tx[s])

LocksExclude == \A s, t \in Sessions: s # t => Excludes(tx[s], tx[t])

ChecksStillHold == \A s \in Sessions: CheckHolds(tx[s])

\* No linkage names a row before the row is there, with its tonnes.
AbsentUnlinked ==
  /\ \A o \in Orders, c \in Contracts:
       orders[o] = "absent" \/ contracts[c].status = "absent" => linked[o, c] = 0
  /\ \A c \in Contracts: contracts[c].status = "absent" => contracts[c].qty = 0

\* A contract with booked cash is at the end of its life.
CashedIsOver ==
  \A e \in Events: ledger[e] # None => contracts[ledger[e]].status \in {"settled", "cancelled"}

SettledHasCash ==
  \A c \in Contracts: contracts[c].status = "settled" => \E e \in Events: ledger[e] = c

HedgeInv ==
  /\ HedgeTypeOK
  /\ RequestsSound
  /\ LocksExclude
  /\ ChecksStillHold
  /\ AbsentUnlinked
  /\ CapacityHeld
  /\ CashedIsOver
  /\ SettledHasCash

\* The sums are over finite sets of natural numbers.
SumsNat ==
  /\ \A o \in Orders: LinkedToOrder(o) \in Nat
  /\ \A c \in Contracts: LinkedToContract(c) \in Nat

\* The sums of linked tonnes are natural numbers.
LEMMA LinkedNat == HedgeTypeOK => SumsNat
<1> SUFFICES ASSUME HedgeTypeOK PROVE SumsNat
  OBVIOUS
<1>1. ASSUME NEW o \in Orders PROVE LinkedToOrder(o) \in Nat
  <2> DEFINE f == [c \in Contracts |-> linked[o, c]]
             S == {c \in Contracts: LiveContract(c)}
  <2>1. IsFiniteSet(S)
    BY HedgeBookConstants, FS_Subset
  <2>2. \A c \in S: f[c] \in Nat
    BY DEF HedgeTypeOK
  <2> HIDE DEF f, S
  <2>3. SumFunctionOnSet(f, S) \in Nat
    BY <2>1, <2>2, SumNat
  <2> QED
    BY <2>3 DEF LinkedToOrder, f, S
<1>2. ASSUME NEW c \in Contracts PROVE LinkedToContract(c) \in Nat
  <2> DEFINE f == [o \in Orders |-> linked[o, c]]
             S == {o \in Orders: LiveOrder(o)}
  <2>1. IsFiniteSet(S)
    BY HedgeBookConstants, FS_Subset
  <2>2. \A o \in S: f[o] \in Nat
    BY DEF HedgeTypeOK
  <2> HIDE DEF f, S
  <2>3. SumFunctionOnSet(f, S) \in Nat
    BY <2>1, <2>2, SumNat
  <2> QED
    BY <2>3 DEF LinkedToContract, f, S
<1> QED
  BY <1>1, <1>2 DEF SumsNat

(* The same after a step. *)
LEMMA LinkedNatNext == HedgeTypeOK' => SumsNat'
  BY LinkedNat, PTL

(* The tonnes linked to order o after a step in which at most the linkage   *)
(* with k grew, by q, and contracts that became live had none of o.         *)
LEMMA OrderSumStep ==
  ASSUME HedgeTypeOK, HedgeTypeOK', NEW o \in Orders, NEW k, NEW q \in Nat,
         \A c \in Contracts: LiveContract(c)' => LiveContract(c) \/ linked[o, c] = 0,
         \A c \in Contracts \ {k}: linked'[o, c] = linked[o, c],
         k \in Contracts => linked'[o, k] = linked[o, k] + q
  PROVE  LinkedToOrder(o)' <= LinkedToOrder(o) + q
<1> DEFINE f == [c \in Contracts |-> linked[o, c]]
           g == [c \in Contracts |-> linked'[o, c]]
           S == {c \in Contracts: LiveContract(c)}
           T == {c \in Contracts: LiveContract(c)'}
<1>1. IsFiniteSet(S) /\ IsFiniteSet(T)
  BY HedgeBookConstants, FS_Subset
<1>2. \A x \in S \cup T : f[x] \in Nat
  BY DEF HedgeTypeOK
<1>3. \A x \in T : x \in S \/ f[x] = 0
  OBVIOUS
<1>4. \A x \in T \ {k} : g[x] = f[x]
  OBVIOUS
<1>5. k \in T => g[k] = f[k] + q
  OBVIOUS
<1>6. LinkedToOrder(o)' = SumFunctionOnSet(g, T) /\ LinkedToOrder(o) = SumFunctionOnSet(f, S)
  BY DEF LinkedToOrder
<1> HIDE DEF f, g, S, T
<1>7. SumFunctionOnSet(g, T) <= SumFunctionOnSet(f, S) + q
  BY <1>1, <1>2, <1>3, <1>4, <1>5, SumGrowth
<1> QED
  BY <1>6, <1>7

(* The same for the tonnes of contract c, and orders. *)
LEMMA ContractSumStep ==
  ASSUME HedgeTypeOK, HedgeTypeOK', NEW c \in Contracts, NEW k, NEW q \in Nat,
         \A o \in Orders: LiveOrder(o)' => LiveOrder(o) \/ linked[o, c] = 0,
         \A o \in Orders \ {k}: linked'[o, c] = linked[o, c],
         k \in Orders => linked'[k, c] = linked[k, c] + q
  PROVE  LinkedToContract(c)' <= LinkedToContract(c) + q
<1> DEFINE f == [o \in Orders |-> linked[o, c]]
           g == [o \in Orders |-> linked'[o, c]]
           S == {o \in Orders: LiveOrder(o)}
           T == {o \in Orders: LiveOrder(o)'}
<1>1. IsFiniteSet(S) /\ IsFiniteSet(T)
  BY HedgeBookConstants, FS_Subset
<1>2. \A x \in S \cup T : f[x] \in Nat
  BY DEF HedgeTypeOK
<1>3. \A x \in T : x \in S \/ f[x] = 0
  OBVIOUS
<1>4. \A x \in T \ {k} : g[x] = f[x]
  OBVIOUS
<1>5. k \in T => g[k] = f[k] + q
  OBVIOUS
<1>6. LinkedToContract(c)' = SumFunctionOnSet(g, T) /\ LinkedToContract(c) = SumFunctionOnSet(f, S)
  BY DEF LinkedToContract
<1> HIDE DEF f, g, S, T
<1>7. SumFunctionOnSet(g, T) <= SumFunctionOnSet(f, S) + q
  BY <1>1, <1>2, <1>3, <1>4, <1>5, SumGrowth
<1> QED
  BY <1>6, <1>7

-----------------------------------------------------------------------------
(* Steps.                                                                  *)

(* A sum does not grow when no linkage in it does and nothing comes to life *)
(* that had any.                                                             *)
LEMMA NoGrowth ==
  ASSUME HedgeInv, HedgeTypeOK'
  PROVE  /\ \A o \in Orders:
              (\A c \in Contracts: /\ LiveContract(c)' => LiveContract(c) \/ linked[o, c] = 0
                                   /\ linked'[o, c] = linked[o, c])
                => LinkedToOrder(o)' <= LinkedToOrder(o)
         /\ \A c \in Contracts:
              (\A o \in Orders: /\ LiveOrder(o)' => LiveOrder(o) \/ linked[o, c] = 0
                                /\ linked'[o, c] = linked[o, c])
                => LinkedToContract(c)' <= LinkedToContract(c)
<1>0. HedgeTypeOK
  BY DEF HedgeInv
<1>1. ASSUME NEW o \in Orders,
             \A c \in Contracts: /\ LiveContract(c)' => LiveContract(c) \/ linked[o, c] = 0
                                 /\ linked'[o, c] = linked[o, c]
      PROVE  LinkedToOrder(o)' <= LinkedToOrder(o)
  <2>1. None \notin Contracts
    BY HedgeBookConstants
  <2>2. LinkedToOrder(o)' <= LinkedToOrder(o) + 0
    BY <1>0, <1>1, <2>1, OrderSumStep
  <2> QED
    BY <1>0, <2>2, LinkedNat, LinkedNatNext DEF SumsNat
<1>2. ASSUME NEW c \in Contracts,
             \A o \in Orders: /\ LiveOrder(o)' => LiveOrder(o) \/ linked[o, c] = 0
                              /\ linked'[o, c] = linked[o, c]
      PROVE  LinkedToContract(c)' <= LinkedToContract(c)
  <2>1. None \notin Orders
    BY HedgeBookConstants
  <2>2. LinkedToContract(c)' <= LinkedToContract(c) + 0
    BY <1>0, <1>2, <2>1, ContractSumStep
  <2> QED
    BY <1>0, <2>2, LinkedNat, LinkedNatNext DEF SumsNat
<1> QED
  BY <1>1, <1>2

(* A step of session s that leaves the tables alone. *)
LEMMA QuietStep ==
  ASSUME HedgeInv, NEW s \in Sessions, NEW x \in Requests,
         UNCHANGED book, tx' = [tx EXCEPT ![s] = x],
         RequestSound(x), CheckHolds(x),
         \A t \in Sessions \ {s}: Excludes(x, tx[t]) /\ Excludes(tx[t], x)
  PROVE  HedgeInv'
<1>1. orders' = orders /\ contracts' = contracts /\ linked' = linked /\ ledger' = ledger
  BY DEF book
<1>2. tx'[s] = x /\ \A t \in Sessions \ {s}: tx'[t] = tx[t]
  BY DEF HedgeInv, HedgeTypeOK
<1>3. HedgeTypeOK'
  BY <1>1 DEF HedgeInv, HedgeTypeOK
<1>4. RequestsSound'
  BY <1>1, <1>2 DEF HedgeInv, RequestsSound, RequestSound
<1>5. LocksExclude'
  <2> SUFFICES ASSUME NEW t \in Sessions, NEW u \in Sessions, t # u
               PROVE  Excludes(tx'[t], tx'[u])
    BY DEF LocksExclude, Excludes
  <2> QED
    BY <1>2 DEF HedgeInv, LocksExclude
<1>6. /\ \A o \in Orders: LinkedToOrder(o)' = LinkedToOrder(o)
      /\ \A c \in Contracts: LinkedToContract(c)' = LinkedToContract(c)
  BY <1>1 DEF LinkedToOrder, LinkedToContract, LiveContract, LiveOrder
<1>7. ChecksStillHold'
  <2> SUFFICES ASSUME NEW t \in Sessions PROVE CheckHolds(tx[t])'
    BY DEF ChecksStillHold
  <2>1. CheckHolds(tx'[t]) /\ RequestSound(tx'[t])
    BY <1>2 DEF HedgeInv, ChecksStillHold, RequestsSound
  <2> QED
    BY <1>1, <1>6, <2>1
       DEF CheckHolds, RequestSound, MayLink, OrderHasRoom, ContractHasRoom, LiveContract, LiveOrder,
           Linkable, DirectionOK, LinkOps
<1>8. AbsentUnlinked' /\ CashedIsOver' /\ SettledHasCash'
  BY <1>1 DEF HedgeInv, AbsentUnlinked, CashedIsOver, SettledHasCash
<1>9. CapacityHeld'
  BY <1>1, <1>6 DEF HedgeInv, CapacityHeld
<1> QED
  BY <1>3, <1>4, <1>5, <1>7, <1>8, <1>9 DEF HedgeInv

(* The requests that start, or go on, are well typed. *)
LEMMA IdleTyped == Idle \in Requests /\ Idle.op = "idle" /\ Idle.contract = None /\ Idle.order = None
  BY HedgeBookConstants DEF Idle, Requests

(* A session without a request is in nobody's way. *)
LEMMA IdleHarmless ==
  ASSUME HedgeInv
  PROVE  /\ RequestSound(Idle) /\ CheckHolds(Idle)
         /\ \A s \in Sessions: Excludes(Idle, tx[s]) /\ Excludes(tx[s], Idle)
<1>1. RequestSound(Idle) /\ CheckHolds(Idle)
  BY IdleTyped DEF RequestSound, CheckHolds, LinkOps, Writing, Booking
<1>2. ASSUME NEW s \in Sessions PROVE Excludes(Idle, tx[s]) /\ Excludes(tx[s], Idle)
  <2>1. tx[s].op \in Booking => tx[s].contract \in Contracts
    BY DEF HedgeInv, RequestsSound, RequestSound, Booking, LinkOps
  <2> QED
    BY <2>1, IdleTyped, HedgeBookConstants DEF Excludes, LinkOps, Booking
<1> QED
  BY <1>1, <1>2

(* A request to write to a contract that is there. *)
LEMMA WritingLoad ==
  ASSUME HedgeInv, NEW s \in Sessions, NEW x \in Requests,
         UNCHANGED book, tx' = [tx EXCEPT ![s] = x],
         x.op \in Writing, x.contract \in Contracts, contracts[x.contract].status # "absent",
         x.op = "settle" => x.event \in Events
  PROVE  HedgeInv'
<1>1. RequestSound(x) /\ CheckHolds(x)
  BY DEF RequestSound, CheckHolds, Writing, LinkOps, Booking
<1>2. ASSUME NEW t \in Sessions PROVE Excludes(x, tx[t]) /\ Excludes(tx[t], x)
  <2>1. tx[t].op \in Booking => contracts[tx[t].contract].status = "absent"
    BY DEF HedgeInv, RequestsSound, RequestSound
  <2> QED
    BY <2>1 DEF Excludes, Writing, LinkOps, Booking
<1> QED
  BY <1>1, <1>2, QuietStep

(* The steps of OrderStep, LinkStep and ContractStep that only load, lock   *)
(* or check, and Abort.                                                     *)
LEMMA LoadsKeepInv ==
  ASSUME HedgeInv, NEW s \in Sessions
  PROVE  /\ \A o \in Orders: ArchiveOrderLoad(s, o) => HedgeInv'
         /\ \A o \in Orders, c \in Contracts, q \in 1..MaxQty:
              LinkLockOrder(s, o, c, q) \/ BookLockOrder(s, o, c, q) => HedgeInv'
         /\ LinkLockContract(s) => HedgeInv'
         /\ BookFlush(s) => HedgeInv'
         /\ \A c \in Contracts: CancelLoad(s, c) \/ ArchiveLoad(s, c) \/ DeleteLoad(s, c) => HedgeInv'
         /\ \A c \in Contracts, q \in 0..MaxQty: UpdateLoad(s, c, q) => HedgeInv'
         /\ \A c \in Contracts, e \in Events: SettleLoad(s, c, e) => HedgeInv'
         /\ Abort(s) => HedgeInv'
<1>0. /\ tx \in [Sessions -> Requests]
      /\ \A t \in Sessions: tx[t] \in Requests /\ RequestSound(tx[t]) /\ CheckHolds(tx[t])
      /\ \A t \in Sessions: tx[t].op \in Booking =>
           tx[t].contract \in Contracts /\ contracts[tx[t].contract].status = "absent"
  BY DEF HedgeInv, HedgeTypeOK, RequestsSound, RequestSound, ChecksStillHold, Booking, LinkOps
<1>1. ASSUME NEW o \in Orders, ArchiveOrderLoad(s, o) PROVE HedgeInv'
  <2> DEFINE x == [Idle EXCEPT !.op = "archive_order", !.order = o]
  <2>1. x \in Requests /\ x.op = "archive_order" /\ x.order = o /\ x.contract = None
    BY IdleTyped DEF Idle, Requests
  <2>2. UNCHANGED book /\ tx' = [tx EXCEPT ![s] = x] /\ orders[o] # "absent"
    BY <1>1 DEF ArchiveOrderLoad, Start, LiveOrder
  <2> HIDE DEF x
  <2>3. RequestSound(x) /\ CheckHolds(x)
    BY <2>1, <2>2 DEF RequestSound, CheckHolds, Writing, LinkOps, Booking
  <2>4. \A t \in Sessions: Excludes(x, tx[t]) /\ Excludes(tx[t], x)
    BY <1>0, <2>1, HedgeBookConstants DEF Excludes, LinkOps, Booking
  <2> QED
    BY <2>1, <2>2, <2>3, <2>4, QuietStep
<1>2. ASSUME NEW o \in Orders, NEW c \in Contracts, NEW q \in 1..MaxQty, LinkLockOrder(s, o, c, q)
      PROVE  HedgeInv'
  <2> DEFINE x == [Idle EXCEPT !.op = "linking", !.order = o, !.contract = c, !.qty = q]
  <2>0. q \in 0..MaxQty
    BY HedgeBookConstants
  <2>1. x \in Requests /\ x.op = "linking" /\ x.order = o /\ x.contract = c
    BY <2>0, IdleTyped DEF Idle, Requests
  <2>2. UNCHANGED book /\ tx' = [tx EXCEPT ![s] = x]
    BY <1>2 DEF LinkLockOrder, Start
  <2> HIDE DEF x
  <2>3. RequestSound(x) /\ CheckHolds(x)
    BY <1>2, <2>1 DEF LinkLockOrder, RequestSound, CheckHolds, Writing, LinkOps, Booking
  <2>4. \A t \in Sessions \ {s}: Excludes(x, tx[t]) /\ Excludes(tx[t], x)
    BY <1>0, <1>2, <2>1 DEF LinkLockOrder, OrderUnlocked, Excludes, LinkOps, Booking
  <2> QED
    BY <2>1, <2>2, <2>3, <2>4, QuietStep
<1>3. ASSUME NEW o \in Orders, NEW c \in Contracts, NEW q \in 1..MaxQty, BookLockOrder(s, o, c, q)
      PROVE  HedgeInv'
  <2> DEFINE x == [Idle EXCEPT !.op = "booking", !.order = o, !.contract = c, !.qty = q]
  <2>0. q \in 0..MaxQty
    BY HedgeBookConstants
  <2>1. x \in Requests /\ x.op = "booking" /\ x.order = o /\ x.contract = c
    BY <2>0, IdleTyped DEF Idle, Requests
  <2>2. UNCHANGED book /\ tx' = [tx EXCEPT ![s] = x]
    BY <1>3 DEF BookLockOrder, Start
  <2> HIDE DEF x
  <2>3. RequestSound(x) /\ CheckHolds(x)
    BY <1>3, <2>1 DEF BookLockOrder, RequestSound, CheckHolds, Writing, LinkOps, Booking
  <2>4. \A t \in Sessions \ {s}: Excludes(x, tx[t]) /\ Excludes(tx[t], x)
    BY <1>0, <1>3, <2>1 DEF BookLockOrder, OrderUnlocked, Excludes, LinkOps, Booking
  <2> QED
    BY <2>1, <2>2, <2>3, <2>4, QuietStep
<1>4. ASSUME LinkLockContract(s) PROVE HedgeInv'
  <2> DEFINE x == [tx[s] EXCEPT !.op = "linked"]
  <2>1. /\ x \in Requests /\ x.op = "linked" /\ x.order = tx[s].order
        /\ x.contract = tx[s].contract /\ x.qty = tx[s].qty
    BY <1>0 DEF Requests
  <2>2. UNCHANGED book /\ tx' = [tx EXCEPT ![s] = x]
    BY <1>4 DEF LinkLockContract
  <2> HIDE DEF x
  <2>3. RequestSound(x) /\ CheckHolds(x)
    BY <1>0, <1>4, <2>1 DEF LinkLockContract, RequestSound, CheckHolds, Writing, LinkOps, Booking
  <2>4. \A t \in Sessions \ {s}: Excludes(tx[s], tx[t]) /\ Excludes(tx[t], tx[s])
    BY DEF HedgeInv, LocksExclude
  <2>5. \A t \in Sessions \ {s}: Excludes(x, tx[t]) /\ Excludes(tx[t], x)
    BY <1>0, <1>4, <2>1, <2>4 DEF LinkLockContract, ContractUnlocked, Excludes, LinkOps, Booking
  <2> QED
    BY <2>1, <2>2, <2>3, <2>5, QuietStep
<1>5. ASSUME BookFlush(s) PROVE HedgeInv'
  <2> DEFINE x == [tx[s] EXCEPT !.op = "booked"]
  <2>1. /\ x \in Requests /\ x.op = "booked" /\ x.order = tx[s].order
        /\ x.contract = tx[s].contract /\ x.qty = tx[s].qty
    BY <1>0 DEF Requests
  <2>2. UNCHANGED book /\ tx' = [tx EXCEPT ![s] = x]
    BY <1>5 DEF BookFlush
  <2> HIDE DEF x
  <2>3. RequestSound(x) /\ CheckHolds(x)
    BY <1>0, <1>5, <2>1 DEF BookFlush, RequestSound, CheckHolds, Writing, LinkOps, Booking
  <2>4. \A t \in Sessions \ {s}: Excludes(tx[s], tx[t]) /\ Excludes(tx[t], tx[s])
    BY DEF HedgeInv, LocksExclude
  <2>5. \A t \in Sessions \ {s}: Excludes(x, tx[t]) /\ Excludes(tx[t], x)
    BY <1>5, <2>1, <2>4 DEF BookFlush, Excludes, LinkOps, Booking
  <2> QED
    BY <2>1, <2>2, <2>3, <2>5, QuietStep
<1>6. ASSUME NEW c \in Contracts, CancelLoad(s, c) \/ ArchiveLoad(s, c) PROVE HedgeInv'
  <2>1. PICK op \in {"cancel", "archive"}: LoadContract(s, c, [Idle EXCEPT !.op = op])
    BY <1>6 DEF CancelLoad, ArchiveLoad
  <2> DEFINE x == [[Idle EXCEPT !.op = op] EXCEPT !.contract = c]
  <2>2. x \in Requests /\ x.op \in Writing /\ x.op # "settle" /\ x.contract = c
    BY IdleTyped DEF Idle, Requests, Writing
  <2>3. UNCHANGED book /\ tx' = [tx EXCEPT ![s] = x] /\ contracts[c].status # "absent"
    BY <2>1 DEF LoadContract, Start
  <2> HIDE DEF x
  <2> QED
    BY <2>2, <2>3, WritingLoad
<1>7. ASSUME NEW c \in Contracts, DeleteLoad(s, c) PROVE HedgeInv'
  <2> DEFINE x == [[Idle EXCEPT !.op = "delete", !.seen = contracts[c].status] EXCEPT !.contract = c]
  <2>1. contracts[c].status \in Statuses \cup {"absent"}
    BY DEF HedgeInv, HedgeTypeOK, ContractRows
  <2>2. x \in Requests /\ x.op \in Writing /\ x.op # "settle" /\ x.contract = c
    BY <2>1, IdleTyped DEF Idle, Requests, Writing
  <2>3. UNCHANGED book /\ tx' = [tx EXCEPT ![s] = x] /\ contracts[c].status # "absent"
    BY <1>7 DEF DeleteLoad, LoadContract, Start
  <2> HIDE DEF x
  <2> QED
    BY <2>2, <2>3, WritingLoad
<1>8. ASSUME NEW c \in Contracts, NEW q \in 0..MaxQty, UpdateLoad(s, c, q) PROVE HedgeInv'
  <2> DEFINE x == [[Idle EXCEPT !.op = "update", !.qty = q] EXCEPT !.contract = c]
  <2>1. x \in Requests /\ x.op \in Writing /\ x.op # "settle" /\ x.contract = c
    BY IdleTyped DEF Idle, Requests, Writing
  <2>2. UNCHANGED book /\ tx' = [tx EXCEPT ![s] = x] /\ contracts[c].status # "absent"
    BY <1>8 DEF UpdateLoad, LoadContract, Start
  <2> HIDE DEF x
  <2> QED
    BY <2>1, <2>2, WritingLoad
<1>9. ASSUME NEW c \in Contracts, NEW e \in Events, SettleLoad(s, c, e) PROVE HedgeInv'
  <2> DEFINE x == [[Idle EXCEPT !.op = "settle", !.event = e] EXCEPT !.contract = c]
  <2>1. x \in Requests /\ x.op \in Writing /\ x.event = e /\ x.contract = c
    BY IdleTyped DEF Idle, Requests, Writing
  <2>2. UNCHANGED book /\ tx' = [tx EXCEPT ![s] = x] /\ contracts[c].status # "absent"
    BY <1>9 DEF SettleLoad, LoadContract, Start
  <2> HIDE DEF x
  <2> QED
    BY <2>1, <2>2, WritingLoad
<1>10. ASSUME Abort(s) PROVE HedgeInv'
  BY <1>10, IdleTyped, IdleHarmless, QuietStep DEF Abort, End
<1> QED
  BY <1>1, <1>2, <1>3, <1>4, <1>5, <1>6, <1>7, <1>8, <1>9, <1>10

(* After a commit the other sessions hold what they held: rows do not       *)
(* disappear, and a contract being booked is inserted by its own session.   *)
LEMMA OthersSound ==
  ASSUME HedgeInv, HedgeTypeOK',
         \A t \in Sessions: tx'[t] \in {tx[t], Idle},
         \A o \in Orders: orders[o] # "absent" => orders'[o] # "absent",
         \A c \in Contracts: contracts[c].status # "absent" => contracts'[c].status # "absent",
         \A t \in Sessions: tx'[t].op \in Booking => contracts'[tx[t].contract].status = "absent"
  PROVE  RequestsSound' /\ LocksExclude'
<1>1. ASSUME NEW t \in Sessions PROVE RequestSound(tx[t])'
  <2>1. CASE tx'[t] = Idle
    BY <2>1, IdleTyped DEF RequestSound, LinkOps, Writing, Booking
  <2>2. CASE tx'[t] = tx[t]
    <3>1. RequestSound(tx[t])
      BY DEF HedgeInv, RequestsSound
    <3>2. tx[t].op \in Writing \cup {"linking", "linked"} => tx[t].contract \in Contracts
      BY <3>1 DEF RequestSound, LinkOps
    <3> QED
      BY <2>2, <3>1, <3>2 DEF RequestSound
  <2> QED
    BY <2>1, <2>2
<1>2. ASSUME NEW t \in Sessions, NEW u \in Sessions, t # u PROVE Excludes(tx'[t], tx'[u])
  <2>1. Excludes(tx[t], tx[u]) /\ Excludes(tx[t], Idle) /\ Excludes(Idle, tx[u]) /\ Excludes(Idle, Idle)
    BY <1>2, IdleHarmless, IdleTyped DEF HedgeInv, LocksExclude, Excludes, LinkOps, Booking
  <2> QED
    BY <2>1
<1>3. LocksExclude'
  BY <1>2 DEF LocksExclude, Excludes
<1> QED
  BY <1>1, <1>3 DEF RequestsSound

(* And what they checked still holds, if the rows they have locked keep     *)
(* their state and have no more linked than before.                         *)
LEMMA ChecksKept ==
  ASSUME HedgeInv, HedgeTypeOK',
         \A t \in Sessions: tx'[t] \in {tx[t], Idle},
         \A t \in Sessions: tx'[t].op \in {"linked", "booked"} =>
           orders'[tx[t].order] = orders[tx[t].order],
         \A t \in Sessions, o \in Orders: tx'[t].op \in {"linked", "booked"} /\ tx[t].order = o =>
           LinkedToOrder(o)' <= LinkedToOrder(o),
         \A t \in Sessions: tx'[t].op = "linked" =>
           contracts'[tx[t].contract] = contracts[tx[t].contract],
         \A t \in Sessions, c \in Contracts: tx'[t].op = "linked" /\ tx[t].contract = c =>
           LinkedToContract(c)' <= LinkedToContract(c)
  PROVE  ChecksStillHold'
<1> SUFFICES ASSUME NEW t \in Sessions PROVE CheckHolds(tx[t])'
  BY DEF ChecksStillHold
<1>1. CASE tx'[t] = Idle
  BY <1>1, IdleTyped DEF CheckHolds
<1>2. CASE tx'[t] = tx[t] /\ tx[t].op \in {"linked", "booked"}
  <2>1. PICK o \in Orders, c \in Contracts, q \in Nat:
          tx[t].order = o /\ tx[t].contract = c /\ tx[t].qty = q
    BY <1>2, HedgeBookConstants DEF HedgeInv, RequestsSound, RequestSound, LinkOps, HedgeTypeOK, Requests
  <2>2. CheckHolds(tx[t])
    BY DEF HedgeInv, ChecksStillHold
  <2>3. /\ LinkedToOrder(o) \in Nat /\ LinkedToOrder(o)' \in Nat /\ OrderQty[o] \in Nat
        /\ LinkedToContract(c) \in Nat /\ LinkedToContract(c)' \in Nat
        /\ contracts[c].qty \in Nat
    <3>1. OrderQty[o] \in Nat /\ contracts[c].qty \in Nat
      BY HedgeBookConstants DEF HedgeInv, HedgeTypeOK, ContractRows
    <3> QED
      BY <3>1, LinkedNat, LinkedNatNext DEF SumsNat, HedgeInv
  <2>4. /\ tx'[t].op = tx[t].op /\ tx'[t].order = o /\ tx'[t].contract = c /\ tx'[t].qty = q
        /\ orders'[o] = orders[o] /\ LinkedToOrder(o)' <= LinkedToOrder(o)
    BY <1>2, <2>1
  <2>5. tx[t].op = "linked" =>
          contracts'[c] = contracts[c] /\ LinkedToContract(c)' <= LinkedToContract(c)
    BY <1>2, <2>1
  <2>6. /\ LiveOrder(o) /\ Linkable(o, c) /\ OrderHasRoom(o, q)
        /\ tx[t].op = "linked" => LiveContract(c) /\ ContractHasRoom(c, q)
    BY <1>2, <2>1, <2>2 DEF CheckHolds, MayLink
  <2>7. LiveOrder(o)' /\ Linkable(o, c)' /\ OrderHasRoom(o, q)'
    BY <2>3, <2>4, <2>6 DEF LiveOrder, Linkable, DirectionOK, OrderHasRoom
  <2>8. tx[t].op = "linked" => LiveContract(c)' /\ ContractHasRoom(c, q)'
    BY <2>3, <2>5, <2>6 DEF LiveContract, ContractHasRoom
  <2> QED
    BY <1>2, <2>4, <2>7, <2>8 DEF CheckHolds, MayLink
<1>3. CASE tx'[t] = tx[t] /\ tx[t].op \notin {"linked", "booked"}
  BY <1>3 DEF CheckHolds
<1> QED
  BY <1>1, <1>2, <1>3

(* End of a transaction, seen by the others. *)
LEMMA EndStep ==
  ASSUME HedgeTypeOK, NEW s \in Sessions, End(s)
  PROVE  /\ tx' \in [Sessions -> Requests]
         /\ tx'[s] = Idle
         /\ \A t \in Sessions: tx'[t] \in {tx[t], Idle}
         /\ \A t \in Sessions: tx'[t].op # "idle" => t # s /\ tx'[t] = tx[t]
  BY IdleTyped DEF HedgeTypeOK, End

(* What the invariant says of a session that holds a lock. *)
LEMMA LockHolder ==
  ASSUME HedgeInv, NEW t \in Sessions, tx[t].op \in {"linked", "booked"}
  PROVE  /\ tx[t].order \in Orders /\ tx[t].contract \in Contracts /\ tx[t].qty \in 0..MaxQty
         /\ LiveOrder(tx[t].order) /\ Linkable(tx[t].order, tx[t].contract)
         /\ OrderHasRoom(tx[t].order, tx[t].qty)
         /\ tx[t].op = "linked" =>
              /\ LiveContract(tx[t].contract)
              /\ ContractHasRoom(tx[t].contract, tx[t].qty)
         /\ tx[t].op = "booked" => contracts[tx[t].contract].status = "absent"
<1>1. RequestSound(tx[t]) /\ CheckHolds(tx[t]) /\ tx[t] \in Requests
  BY DEF HedgeInv, RequestsSound, ChecksStillHold, HedgeTypeOK
<1> QED
  BY <1>1 DEF RequestSound, CheckHolds, LinkOps, Booking, MayLink, Requests

\* A new order has no linkage.
LEMMA CreateOrderStep ==
  ASSUME HedgeInv, NEW o \in Orders, CreateOrder(o)
  PROVE  HedgeInv'
<1>1. /\ orders' = [orders EXCEPT ![o] = "live"] /\ orders[o] = "absent"
      /\ contracts' = contracts /\ linked' = linked /\ ledger' = ledger /\ tx' = tx
  BY DEF CreateOrder
<1>2. HedgeTypeOK'
  BY <1>1 DEF HedgeInv, HedgeTypeOK, OrderRows
<1>3. orders'[o] = "live" /\ \A p \in Orders \ {o}: orders'[p] = orders[p]
  BY <1>1 DEF HedgeInv, HedgeTypeOK
<1>4. RequestsSound' /\ LocksExclude'
  <2>1. \A t \in Sessions: tx[t].op \in Booking => contracts[tx[t].contract].status = "absent"
    BY DEF HedgeInv, RequestsSound, RequestSound
  <2> QED
    BY <1>1, <1>2, <1>3, <2>1, OthersSound
<1>5. /\ \A p \in Orders: LinkedToOrder(p)' <= LinkedToOrder(p)
      /\ \A c \in Contracts: LinkedToContract(c)' <= LinkedToContract(c)
  <2>1. \A c \in Contracts: LiveContract(c)' => LiveContract(c)
    BY <1>1 DEF LiveContract
  <2>2. \A p \in Orders, c \in Contracts: LiveOrder(p)' => LiveOrder(p) \/ linked[p, c] = 0
    BY <1>1, <1>3 DEF HedgeInv, AbsentUnlinked, LiveOrder
  <2> QED
    BY <1>1, <1>2, <2>1, <2>2, NoGrowth
<1>6. ChecksStillHold'
  <2>1. \A t \in Sessions: tx[t].op \in {"linked", "booked"} => orders'[tx[t].order] = orders[tx[t].order]
    BY <1>1, <1>3, LockHolder DEF LiveOrder
  <2> QED
    BY <1>1, <1>2, <1>5, <2>1, ChecksKept
<1>7. AbsentUnlinked' /\ CashedIsOver' /\ SettledHasCash'
  BY <1>1, <1>3 DEF HedgeInv, AbsentUnlinked, CashedIsOver, SettledHasCash
<1>8. CapacityHeld'
  <2>1. \A c \in Contracts: contracts[c].qty \in Nat
    BY HedgeBookConstants DEF HedgeInv, HedgeTypeOK, ContractRows
  <2>2. \A p \in Orders: OrderQty[p] \in Nat
    BY HedgeBookConstants
  <2> QED
    BY <1>1, <1>2, <1>5, <2>1, <2>2, LinkedNat, LinkedNatNext DEF HedgeInv, CapacityHeld, SumsNat
<1> QED
  BY <1>2, <1>4, <1>6, <1>7, <1>8 DEF HedgeInv

\* Archiving an order leaves its linkages.
LEMMA ArchiveOrderStep ==
  ASSUME HedgeInv, NEW s \in Sessions, ArchiveOrderCommit(s)
  PROVE  HedgeInv'
<1>0. PICK o \in Orders: tx[s].order = o
  BY DEF HedgeInv, RequestsSound, RequestSound, ArchiveOrderCommit
<1>1. /\ orders' = [orders EXCEPT ![o] = "archived"] /\ End(s)
      /\ contracts' = contracts /\ linked' = linked /\ ledger' = ledger
  BY <1>0 DEF ArchiveOrderCommit
<1>2. /\ tx' \in [Sessions -> Requests] /\ tx'[s] = Idle
      /\ \A t \in Sessions: tx'[t] \in {tx[t], Idle}
      /\ \A t \in Sessions: tx'[t].op # "idle" => t # s /\ tx'[t] = tx[t]
  BY <1>1, EndStep DEF HedgeInv
<1>3. HedgeTypeOK'
  BY <1>1, <1>2 DEF HedgeInv, HedgeTypeOK, OrderRows
<1>4. orders'[o] = "archived" /\ \A p \in Orders \ {o}: orders'[p] = orders[p]
  BY <1>1 DEF HedgeInv, HedgeTypeOK
<1>5. RequestsSound' /\ LocksExclude'
  <2>1. \A t \in Sessions: tx'[t].op \in Booking => contracts'[tx[t].contract].status = "absent"
    BY <1>1, <1>2 DEF HedgeInv, RequestsSound, RequestSound, Booking
  <2> QED
    BY <1>1, <1>2, <1>3, <1>4, <2>1, OthersSound
<1>6. /\ \A p \in Orders: LinkedToOrder(p)' <= LinkedToOrder(p)
      /\ \A c \in Contracts: LinkedToContract(c)' <= LinkedToContract(c)
  <2>1. \A c \in Contracts: LiveContract(c)' => LiveContract(c)
    BY <1>1 DEF LiveContract
  <2>2. \A p \in Orders: LiveOrder(p)' => LiveOrder(p)
    BY <1>4 DEF LiveOrder
  <2> QED
    BY <1>1, <1>3, <2>1, <2>2, NoGrowth
<1>7. ChecksStillHold'
  <2>1. \A t \in Sessions: tx'[t].op \in {"linked", "booked"} => orders'[tx[t].order] = orders[tx[t].order]
    <3> SUFFICES ASSUME NEW t \in Sessions, tx'[t].op \in {"linked", "booked"}
                 PROVE  orders'[tx[t].order] = orders[tx[t].order]
      OBVIOUS
    <3>1. t # s /\ tx'[t] = tx[t] /\ tx[t].op \in {"linked", "booked"}
      BY <1>2
    <3>2. tx[t].order # o
      BY <1>0, <3>1 DEF ArchiveOrderCommit, OrderUnlocked
    <3> QED
      BY <1>4, <3>1, <3>2, LockHolder
  <2> QED
    BY <1>1, <1>2, <1>3, <1>6, <2>1, ChecksKept
<1>8. AbsentUnlinked' /\ CashedIsOver' /\ SettledHasCash'
  BY <1>1, <1>4, ZenonT(40) DEF HedgeInv, AbsentUnlinked, CashedIsOver, SettledHasCash
<1>9. CapacityHeld'
  <2>1. \A c \in Contracts: contracts[c].qty \in Nat
    BY HedgeBookConstants DEF HedgeInv, HedgeTypeOK, ContractRows
  <2>2. \A p \in Orders: OrderQty[p] \in Nat
    BY HedgeBookConstants
  <2> QED
    BY <1>1, <1>3, <1>6, <2>1, <2>2, LinkedNat, LinkedNatNext DEF HedgeInv, CapacityHeld, SumsNat
<1> QED
  BY <1>3, <1>5, <1>7, <1>8, <1>9 DEF HedgeInv

\* A new contract has no linkage.
LEMMA CreateContractStep ==
  ASSUME HedgeInv, NEW k \in Contracts, NEW q \in 1..MaxQty, CreateContract(k, q)
  PROVE  HedgeInv'
<1>1. /\ contracts' = [contracts EXCEPT ![k] = NewContract(q)] /\ contracts[k].status = "absent"
      /\ orders' = orders /\ linked' = linked /\ ledger' = ledger /\ tx' = tx
      /\ \A s \in Sessions: tx[s].contract # k
  BY DEF CreateContract
<1>2. /\ q \in 0..MaxQty /\ q \in Nat /\ NewContract(q) \in ContractRows
      /\ NewContract(q).status = "active" /\ NewContract(q).qty = q
  BY HedgeBookConstants DEF NewContract, ContractRows, Statuses
<1>3. HedgeTypeOK'
  BY <1>1, <1>2 DEF HedgeInv, HedgeTypeOK
<1>4. contracts'[k] = NewContract(q) /\ \A c \in Contracts \ {k}: contracts'[c] = contracts[c]
  BY <1>1 DEF HedgeInv, HedgeTypeOK
<1>5. RequestsSound' /\ LocksExclude'
  <2>1. \A t \in Sessions: tx[t].op \in Booking => contracts'[tx[t].contract].status = "absent"
    BY <1>1, <1>4 DEF HedgeInv, RequestsSound, RequestSound, Booking, LinkOps
  <2> QED
    BY <1>1, <1>2, <1>3, <1>4, <2>1, OthersSound
<1>6. /\ \A p \in Orders: LinkedToOrder(p)' <= LinkedToOrder(p)
      /\ \A c \in Contracts: LinkedToContract(c)' <= LinkedToContract(c)
  <2>1. \A p \in Orders, c \in Contracts: LiveContract(c)' => LiveContract(c) \/ linked[p, c] = 0
    BY <1>1, <1>4 DEF HedgeInv, AbsentUnlinked, LiveContract
  <2>2. \A p \in Orders: LiveOrder(p)' => LiveOrder(p)
    BY <1>1 DEF LiveOrder
  <2> QED
    BY <1>1, <1>3, <2>1, <2>2, NoGrowth
<1>7. ChecksStillHold'
  <2>1. \A t \in Sessions: tx'[t].op = "linked" => contracts'[tx[t].contract] = contracts[tx[t].contract]
    BY <1>1, <1>4, LockHolder
  <2> QED
    BY <1>1, <1>3, <1>6, <2>1, ChecksKept
<1>8. AbsentUnlinked' /\ CashedIsOver' /\ SettledHasCash'
  <2>1. AbsentUnlinked'
    BY <1>1, <1>2, <1>4 DEF HedgeInv, AbsentUnlinked
  <2>2. CashedIsOver'
    BY <1>1, <1>4 DEF HedgeInv, CashedIsOver, HedgeTypeOK, LedgerRows
  <2>3. SettledHasCash'
    BY <1>1, <1>2, <1>4 DEF HedgeInv, SettledHasCash
  <2> QED
    BY <2>1, <2>2, <2>3
<1>9. CapacityHeld'
  <2>1. \A c \in Contracts: contracts[c].qty \in Nat
    BY HedgeBookConstants DEF HedgeInv, HedgeTypeOK, ContractRows
  <2>2. \A p \in Orders: OrderQty[p] \in Nat
    BY HedgeBookConstants
  <2>3. contracts[k].qty = 0 /\ contracts'[k].qty = q
    BY <1>1, <1>2, <1>4 DEF HedgeInv, AbsentUnlinked
  <2> QED
    BY <1>1, <1>2, <1>3, <1>4, <1>6, <2>1, <2>2, <2>3, LinkedNat, LinkedNatNext
       DEF HedgeInv, CapacityHeld, SumsNat
<1> QED
  BY <1>3, <1>5, <1>7, <1>8, <1>9 DEF HedgeInv

(* A handler's UPDATE of a contract: what it writes may end the contract's  *)
(* life but never begin it, and leaves the tonnes at what is linked.        *)
LEMMA WriteStep ==
  ASSUME HedgeInv, NEW s \in Sessions, NEW r \in ContractRows, tx[s].op \in Writing,
         WriteContract(s, r),
         r.status # "absent",
         r.status \in {"active", "partially_settled"} /\ ~r.deleted => LiveContract(tx[s].contract),
         LinkedToContract(tx[s].contract) <= r.qty,
         ledger' \in [Events -> LedgerRows], CashedIsOver', SettledHasCash'
  PROVE  HedgeInv'
<1>0. PICK k \in Contracts: tx[s].contract = k
  BY DEF HedgeInv, RequestsSound, RequestSound
<1>1. /\ contracts' = [contracts EXCEPT ![k] = r] /\ End(s)
      /\ orders' = orders /\ linked' = linked
      /\ contracts[k].status # "absent"
  BY <1>0 DEF WriteContract, HedgeInv, RequestsSound, RequestSound
<1>2. /\ tx' \in [Sessions -> Requests] /\ tx'[s] = Idle
      /\ \A t \in Sessions: tx'[t] \in {tx[t], Idle}
      /\ \A t \in Sessions: tx'[t].op # "idle" => t # s /\ tx'[t] = tx[t]
  BY <1>1, EndStep DEF HedgeInv
<1>3. HedgeTypeOK'
  BY <1>1, <1>2 DEF HedgeInv, HedgeTypeOK
<1>4. contracts'[k] = r /\ \A c \in Contracts \ {k}: contracts'[c] = contracts[c]
  BY <1>1 DEF HedgeInv, HedgeTypeOK
<1>5. RequestsSound' /\ LocksExclude'
  <2>1. ASSUME NEW t \in Sessions, tx'[t].op \in Booking
        PROVE  contracts'[tx[t].contract].status = "absent"
    <3>1. tx[t].op \in Booking
      BY <1>2, <2>1 DEF Booking
    <3>2. tx[t].contract \in Contracts /\ contracts[tx[t].contract].status = "absent"
      BY <3>1 DEF HedgeInv, RequestsSound, RequestSound, Booking, LinkOps
    <3> QED
      BY <1>1, <1>4, <3>2
  <2> QED
    BY <1>1, <1>2, <1>3, <1>4, <2>1, OthersSound
<1>6. /\ \A p \in Orders: LinkedToOrder(p)' <= LinkedToOrder(p)
      /\ \A c \in Contracts: LinkedToContract(c)' <= LinkedToContract(c)
  <2>1. \A c \in Contracts: LiveContract(c)' => LiveContract(c)
    BY <1>0, <1>4 DEF LiveContract
  <2>2. \A p \in Orders: LiveOrder(p)' => LiveOrder(p)
    BY <1>1 DEF LiveOrder
  <2> QED
    BY <1>1, <1>3, <2>1, <2>2, NoGrowth
<1>7. ChecksStillHold'
  <2>1. ASSUME NEW t \in Sessions, tx'[t].op = "linked"
        PROVE  contracts'[tx[t].contract] = contracts[tx[t].contract]
    <3>1. t # s /\ tx[t].op = "linked"
      BY <1>2, <2>1
    <3>2. tx[t].contract # k
      BY <1>0, <3>1 DEF WriteContract, ContractUnlocked
    <3> QED
      BY <1>4, <3>1, <3>2, LockHolder
  <2> QED
    BY <1>1, <1>2, <1>3, <1>6, <2>1, ChecksKept
<1>8. AbsentUnlinked'
  BY <1>1, <1>4 DEF HedgeInv, AbsentUnlinked
<1>9. CapacityHeld'
  <2>1. \A c \in Contracts: contracts[c].qty \in Nat
    BY HedgeBookConstants DEF HedgeInv, HedgeTypeOK, ContractRows
  <2>2. \A p \in Orders: OrderQty[p] \in Nat
    BY HedgeBookConstants
  <2>3. r.qty \in Nat
    BY HedgeBookConstants DEF ContractRows
  <2>4. LinkedToContract(k) <= r.qty
    BY <1>0
  <2>5. SumsNat /\ SumsNat'
    BY <1>3, LinkedNat, LinkedNatNext DEF HedgeInv
  <2>6. ASSUME NEW c \in Contracts PROVE LinkedToContract(c)' <= contracts'[c].qty
    <3>1. LinkedToContract(c)' <= LinkedToContract(c) /\ LinkedToContract(c)' \in Nat /\ LinkedToContract(c) \in Nat
      BY <1>6, <2>5 DEF SumsNat
    <3>2. CASE c = k
      <4>1. contracts'[c].qty = r.qty /\ LinkedToContract(c) <= r.qty
        BY <1>4, <2>4, <3>2
      <4> QED
        BY <2>3, <3>1, <4>1
    <3>3. CASE c # k
      <4>1. contracts'[c].qty = contracts[c].qty /\ LinkedToContract(c) <= contracts[c].qty
        BY <1>4, <3>3 DEF HedgeInv, CapacityHeld
      <4> QED
        BY <2>1, <3>1, <4>1
    <3> QED
      BY <3>2, <3>3
  <2>7. \A p \in Orders: LinkedToOrder(p)' <= OrderQty[p]
    BY <1>6, <2>2, <2>5 DEF HedgeInv, CapacityHeld, SumsNat
  <2> QED
    BY <2>6, <2>7 DEF CapacityHeld
<1> QED
  BY <1>3, <1>5, <1>7, <1>8, <1>9 DEF HedgeInv

(* Update, cancel, archive and delete touch no cash. *)
LEMMA CashKept ==
  ASSUME HedgeInv, NEW s \in Sessions, NEW r \in ContractRows, tx[s].op \in Writing,
         WriteContract(s, r), ledger' = ledger,
         r.status \in {Row(s).status, "cancelled"}
  PROVE  CashedIsOver' /\ SettledHasCash'
<1>0. PICK k \in Contracts: tx[s].contract = k
  BY DEF HedgeInv, RequestsSound, RequestSound
<1>1. /\ contracts'[k] = r /\ \A c \in Contracts \ {k}: contracts'[c] = contracts[c]
      /\ r.status \in {contracts[k].status, "cancelled"}
  BY <1>0 DEF WriteContract, HedgeInv, HedgeTypeOK, Row
<1>2. CashedIsOver'
  BY <1>1 DEF HedgeInv, CashedIsOver, HedgeTypeOK, LedgerRows
<1>3. SettledHasCash'
  BY <1>1 DEF HedgeInv, SettledHasCash
<1> QED
  BY <1>2, <1>3

(* The five handlers that write to a contract. *)
LEMMA WritesKeepInv ==
  ASSUME HedgeInv, NEW s \in Sessions,
         UpdateCommit(s) \/ CancelCommit(s) \/ ArchiveCommit(s) \/ DeleteCommit(s) \/ SettleCommit(s)
  PROVE  HedgeInv'
<1>0. tx[s].op \in Writing
  BY DEF UpdateCommit, CancelCommit, ArchiveCommit, DeleteCommit, SettleCommit, Writing
<1>1. PICK k \in Contracts: tx[s].contract = k
  BY <1>0 DEF HedgeInv, RequestsSound, RequestSound
<1>2. /\ Row(s) = contracts[k] /\ contracts[k] \in ContractRows /\ contracts[k].status # "absent"
      /\ LinkedToContract(k) <= contracts[k].qty
  BY <1>0, <1>1 DEF HedgeInv, HedgeTypeOK, RequestsSound, RequestSound, CapacityHeld, Row
<1>3. CASE UpdateCommit(s)
  <2> DEFINE r == [Row(s) EXCEPT !.qty = tx[s].qty]
  <2>1. WriteContract(s, r) /\ ledger' = ledger /\ LinkedToContract(k) <= tx[s].qty
    BY <1>1, <1>3 DEF UpdateCommit
  <2>2. tx[s].qty \in 0..MaxQty
    BY DEF HedgeInv, HedgeTypeOK, Requests
  <2>3. r \in ContractRows /\ r.status = contracts[k].status /\ r.deleted = contracts[k].deleted /\ r.qty = tx[s].qty
    BY <1>2, <2>2 DEF ContractRows
  <2> HIDE DEF r
  <2>4. CashedIsOver' /\ SettledHasCash'
    BY <1>0, <1>2, <2>1, <2>3, CashKept
  <2>5. ledger' \in [Events -> LedgerRows]
    BY <2>1 DEF HedgeInv, HedgeTypeOK
  <2>6. r.status \in {"active", "partially_settled"} /\ ~r.deleted => LiveContract(tx[s].contract)
    BY <1>1, <2>3 DEF LiveContract
  <2> QED
    BY <1>0, <1>1, <1>2, <2>1, <2>3, <2>4, <2>5, <2>6, WriteStep
<1>4. CASE CancelCommit(s)
  <2> DEFINE r == [Row(s) EXCEPT !.status = "cancelled"]
  <2>1. WriteContract(s, r) /\ ledger' = ledger
    BY <1>4 DEF CancelCommit
  <2>2. r \in ContractRows /\ r.status = "cancelled" /\ r.qty = contracts[k].qty
    BY <1>2 DEF ContractRows, Statuses
  <2> HIDE DEF r
  <2>3. CashedIsOver' /\ SettledHasCash'
    BY <1>0, <1>2, <2>1, <2>2, CashKept
  <2>4. ledger' \in [Events -> LedgerRows]
    BY <2>1 DEF HedgeInv, HedgeTypeOK
  <2> QED
    BY <1>0, <1>1, <1>2, <2>1, <2>2, <2>3, <2>4, WriteStep
<1>5. CASE ArchiveCommit(s)
  <2> DEFINE r == [Row(s) EXCEPT !.deleted = TRUE]
  <2>1. WriteContract(s, r) /\ ledger' = ledger
    BY <1>5 DEF ArchiveCommit
  <2>2. r \in ContractRows /\ r.status = contracts[k].status /\ r.deleted /\ r.qty = contracts[k].qty
    BY <1>2 DEF ContractRows
  <2> HIDE DEF r
  <2>3. CashedIsOver' /\ SettledHasCash'
    BY <1>0, <1>2, <2>1, <2>2, CashKept
  <2>4. ledger' \in [Events -> LedgerRows]
    BY <2>1 DEF HedgeInv, HedgeTypeOK
  <2> QED
    BY <1>0, <1>1, <1>2, <2>1, <2>2, <2>3, <2>4, WriteStep
<1>6. CASE DeleteCommit(s)
  <2> DEFINE r == Deleted(Row(s), tx[s].seen)
  <2>1. WriteContract(s, r) /\ ledger' = ledger
    BY <1>6 DEF DeleteCommit
  <2>2. /\ r \in ContractRows /\ r.status \in {contracts[k].status, "cancelled"}
        /\ r.deleted /\ r.qty = contracts[k].qty
    BY <1>2 DEF ContractRows, Deleted, Statuses
  <2> HIDE DEF r
  <2>3. CashedIsOver' /\ SettledHasCash'
    BY <1>0, <1>2, <2>1, <2>2, CashKept
  <2>4. ledger' \in [Events -> LedgerRows]
    BY <2>1 DEF HedgeInv, HedgeTypeOK
  <2> QED
    BY <1>0, <1>1, <1>2, <2>1, <2>2, <2>3, <2>4, WriteStep
<1>7. CASE SettleCommit(s)
  <2> DEFINE r == [Row(s) EXCEPT !.status = "settled"]
  <2>1. PICK e \in Events: tx[s].event = e
    BY <1>7 DEF SettleCommit, HedgeInv, RequestsSound, RequestSound
  <2>2. WriteContract(s, r) /\ ledger' = [ledger EXCEPT ![e] = k] /\ ledger[e] = None
    BY <1>1, <1>7, <2>1 DEF SettleCommit
  <2>3. r \in ContractRows /\ r.status = "settled" /\ r.qty = contracts[k].qty
    BY <1>2 DEF ContractRows, Statuses
  <2> HIDE DEF r
  <2>4. ledger' \in [Events -> LedgerRows] /\ ledger'[e] = k /\ \A d \in Events \ {e}: ledger'[d] = ledger[d]
    BY <2>2 DEF HedgeInv, HedgeTypeOK, LedgerRows
  <2>5. contracts'[k] = r /\ \A c \in Contracts \ {k}: contracts'[c] = contracts[c]
    BY <1>1, <2>2 DEF WriteContract, HedgeInv, HedgeTypeOK
  <2>6. CashedIsOver'
    BY <2>3, <2>4, <2>5 DEF HedgeInv, CashedIsOver, HedgeTypeOK, LedgerRows
  <2>7. SettledHasCash'
    <3> SUFFICES ASSUME NEW c \in Contracts, contracts'[c].status = "settled"
                 PROVE  \E d \in Events: ledger'[d] = c
      BY DEF SettledHasCash
    <3>1. CASE c = k
      BY <2>4, <3>1
    <3>2. CASE c # k
      <4>1. PICK d \in Events: ledger[d] = c
        BY <2>5, <3>2 DEF HedgeInv, SettledHasCash
      <4>2. d # e
        BY <2>2, <4>1, HedgeBookConstants
      <4> QED
        BY <2>4, <4>1, <4>2
    <3> QED
      BY <3>1, <3>2
  <2> QED
    BY <1>0, <1>1, <1>2, <2>2, <2>3, <2>4, <2>6, <2>7, WriteStep
<1> QED
  BY <1>3, <1>4, <1>5, <1>6, <1>7

(* The insert of q tonnes of o and k becomes visible; k may become live with *)
(* it when it had nothing linked.                                           *)
LEMMA AddStep ==
  ASSUME HedgeInv, HedgeTypeOK', NEW o \in Orders, NEW k \in Contracts, NEW q \in Nat,
         AddLinkage(o, k, q), orders' = orders,
         \A c \in Contracts: LiveContract(c)' => LiveContract(c) \/ \A p \in Orders: linked[p, c] = 0
  PROVE  /\ \A p \in Orders, c \in Contracts: <<p, c>> # <<o, k>> => linked'[p, c] = linked[p, c]
         /\ linked'[o, k] = linked[o, k] + q
         /\ LinkedToOrder(o)' <= LinkedToOrder(o) + q
         /\ LinkedToContract(k)' <= LinkedToContract(k) + q
         /\ \A p \in Orders \ {o}: LinkedToOrder(p)' <= LinkedToOrder(p)
         /\ \A c \in Contracts \ {k}: LinkedToContract(c)' <= LinkedToContract(c)
<1>0. HedgeTypeOK
  BY DEF HedgeInv
<1>1. /\ \A p \in Orders, c \in Contracts: <<p, c>> # <<o, k>> => linked'[p, c] = linked[p, c]
      /\ linked'[o, k] = linked[o, k] + q
  BY <1>0 DEF HedgeTypeOK, AddLinkage
<1>2. \A p \in Orders, c \in Contracts: p # o \/ c # k => linked'[p, c] = linked[p, c]
  BY <1>1
<1>3. LinkedToOrder(o)' <= LinkedToOrder(o) + q
  <2>1. \A c \in Contracts: LiveContract(c)' => LiveContract(c) \/ linked[o, c] = 0
    OBVIOUS
  <2>2. \A c \in Contracts \ {k}: linked'[o, c] = linked[o, c]
    BY <1>2
  <2> QED
    BY <1>0, <1>1, <2>1, <2>2, OrderSumStep
<1>4. LinkedToContract(k)' <= LinkedToContract(k) + q
  <2>1. \A p \in Orders: LiveOrder(p)' => LiveOrder(p) \/ linked[p, k] = 0
    BY DEF LiveOrder
  <2>2. \A p \in Orders \ {o}: linked'[p, k] = linked[p, k]
    BY <1>2
  <2> QED
    BY <1>0, <1>1, <2>1, <2>2, ContractSumStep
<1>5. ASSUME NEW p \in Orders, p # o PROVE LinkedToOrder(p)' <= LinkedToOrder(p)
  <2>1. \A c \in Contracts: /\ LiveContract(c)' => LiveContract(c) \/ linked[p, c] = 0
                            /\ linked'[p, c] = linked[p, c]
    BY <1>2, <1>5
  <2> QED
    BY <2>1, NoGrowth
<1>6. ASSUME NEW c \in Contracts, c # k PROVE LinkedToContract(c)' <= LinkedToContract(c)
  <2>1. \A p \in Orders: /\ LiveOrder(p)' => LiveOrder(p) \/ linked[p, c] = 0
                         /\ linked'[p, c] = linked[p, c]
    BY <1>2, <1>6 DEF LiveOrder
  <2> QED
    BY <2>1, NoGrowth
<1> QED
  BY <1>1, <1>3, <1>4, <1>5, <1>6

(* Both commits of an insert: the order is still locked by its session, and *)
(* so is the contract, or nobody else has seen it.                          *)
LEMMA InsertStep ==
  ASSUME HedgeInv, NEW s \in Sessions, LinkCommit(s) \/ BookCommit(s)
  PROVE  HedgeInv'
<1>0. tx[s].op \in {"linked", "booked"}
  BY DEF LinkCommit, BookCommit
<1>1. PICK o \in Orders, k \in Contracts, q \in 0..MaxQty:
        tx[s].order = o /\ tx[s].contract = k /\ tx[s].qty = q
  BY <1>0, LockHolder
<1>2. q \in Nat
  BY HedgeBookConstants
<1>3. AddLinkage(o, k, q) /\ End(s) /\ orders' = orders /\ ledger' = ledger
  BY <1>1 DEF LinkCommit, BookCommit
<1>4. /\ tx' \in [Sessions -> Requests] /\ tx'[s] = Idle
      /\ \A t \in Sessions: tx'[t] \in {tx[t], Idle}
      /\ \A t \in Sessions: tx'[t].op # "idle" => t # s /\ tx'[t] = tx[t]
  BY <1>3, EndStep DEF HedgeInv
<1>5. LiveOrder(o) /\ LinkedToOrder(o) + q <= OrderQty[o]
  BY <1>0, <1>1, LockHolder DEF OrderHasRoom
<1>6. /\ \A c \in Contracts \ {k}: contracts'[c] = contracts[c]
      /\ \/ /\ LiveContract(k) /\ LinkedToContract(k) + q <= contracts[k].qty
            /\ contracts'[k] = contracts[k]
         \/ /\ contracts[k].status = "absent" /\ contracts'[k] = NewContract(q)
      /\ contracts' \in [Contracts -> ContractRows]
  <2>1. CASE LinkCommit(s)
    BY <1>1, <2>1, LockHolder DEF LinkCommit, ContractHasRoom, HedgeInv, HedgeTypeOK
  <2>2. CASE BookCommit(s)
    <3>1. NewContract(q) \in ContractRows
      BY DEF NewContract, ContractRows, Statuses
    <3> QED
      BY <1>1, <2>2, <3>1, LockHolder DEF BookCommit, HedgeInv, HedgeTypeOK
  <2> QED
    BY <2>1, <2>2
<1>7. HedgeTypeOK'
  <2>1. linked' \in [Orders \X Contracts -> Nat]
    BY <1>2, <1>3 DEF HedgeInv, HedgeTypeOK, AddLinkage
  <2> QED
    BY <1>3, <1>4, <1>6, <2>1 DEF HedgeInv, HedgeTypeOK
<1>8. NewContract(q).status = "active" /\ NewContract(q).qty = q
  BY DEF NewContract
<1>9. \A c \in Contracts: LiveContract(c)' => LiveContract(c) \/ \A p \in Orders: linked[p, c] = 0
  BY <1>6 DEF LiveContract, HedgeInv, AbsentUnlinked
<1>10. /\ \A p \in Orders, c \in Contracts: <<p, c>> # <<o, k>> => linked'[p, c] = linked[p, c]
       /\ LinkedToOrder(o)' <= LinkedToOrder(o) + q
       /\ LinkedToContract(k)' <= LinkedToContract(k) + q
       /\ \A p \in Orders \ {o}: LinkedToOrder(p)' <= LinkedToOrder(p)
       /\ \A c \in Contracts \ {k}: LinkedToContract(c)' <= LinkedToContract(c)
  BY <1>2, <1>3, <1>7, <1>9, AddStep
<1>11. ASSUME NEW t \in Sessions, tx'[t].op \in LinkOps
       PROVE  /\ t # s /\ tx'[t] = tx[t] /\ tx[t].op \in LinkOps
              /\ tx[t].order # o
              /\ tx[t].op \in Booking \cup {"linked"} => tx[t].contract # k
  <2>1. t # s /\ tx'[t] = tx[t]
    BY <1>4, <1>11 DEF LinkOps
  <2>2. Excludes(tx[s], tx[t]) /\ Excludes(tx[t], tx[s])
    BY <2>1 DEF HedgeInv, LocksExclude
  <2> QED
    BY <1>0, <1>1, <1>11, <2>1, <2>2 DEF Excludes, LinkOps, Booking
<1>12. RequestsSound' /\ LocksExclude'
  <2>1. ASSUME NEW t \in Sessions, tx'[t].op \in Booking
        PROVE  contracts'[tx[t].contract].status = "absent"
    <3>1. tx[t].op \in Booking /\ tx[t].contract # k
      BY <1>11, <2>1 DEF Booking, LinkOps
    <3>2. tx[t].contract \in Contracts /\ contracts[tx[t].contract].status = "absent"
      BY <3>1 DEF HedgeInv, RequestsSound, RequestSound, Booking, LinkOps
    <3> QED
      BY <1>6, <3>1, <3>2
  <2>2. \A c \in Contracts: contracts[c].status # "absent" => contracts'[c].status # "absent"
    BY <1>6
  <2> QED
    BY <1>3, <1>4, <1>7, <2>1, <2>2, OthersSound
<1>13. ChecksStillHold'
  <2>1. ASSUME NEW t \in Sessions, tx'[t].op \in {"linked", "booked"}
        PROVE  tx[t].order \in Orders \ {o} /\ (tx'[t].op = "linked" => tx[t].contract \in Contracts \ {k})
    BY <1>11, <2>1, LockHolder DEF LinkOps
  <2> QED
    BY <1>3, <1>4, <1>6, <1>7, <1>10, <2>1, ChecksKept
<1>14. AbsentUnlinked'
  <2>1. orders[o] # "absent" /\ contracts'[k].status # "absent"
    BY <1>5, <1>6, <1>8 DEF LiveOrder, LiveContract
  <2>2. \A c \in Contracts: contracts'[c].status = "absent" => c # k /\ contracts'[c] = contracts[c]
    BY <1>6, <2>1
  <2> QED
    BY <1>3, <1>10, <2>1, <2>2, ZenonT(40) DEF HedgeInv, AbsentUnlinked
<1>15. CashedIsOver' /\ SettledHasCash'
  <2>1. \A e \in Events: ledger[e] # None => ledger[e] \in Contracts
    BY DEF HedgeInv, HedgeTypeOK, LedgerRows
  <2> QED
    BY <1>3, <1>6, <1>8, <2>1 DEF HedgeInv, CashedIsOver, SettledHasCash
<1>16. CapacityHeld'
  <2>1. /\ \A p \in Orders: /\ LinkedToOrder(p) \in Nat /\ LinkedToOrder(p)' \in Nat
                            /\ OrderQty[p] \in Nat /\ LinkedToOrder(p) <= OrderQty[p]
        /\ \A c \in Contracts: /\ LinkedToContract(c) \in Nat /\ LinkedToContract(c)' \in Nat
                               /\ contracts[c].qty \in Nat /\ LinkedToContract(c) <= contracts[c].qty
    <3>1. SumsNat /\ SumsNat'
      BY <1>7, LinkedNat, LinkedNatNext DEF HedgeInv
    <3>2. /\ \A c \in Contracts: contracts[c].qty \in Nat /\ LinkedToContract(c) <= contracts[c].qty
          /\ \A p \in Orders: OrderQty[p] \in Nat /\ LinkedToOrder(p) <= OrderQty[p]
      BY HedgeBookConstants DEF HedgeInv, HedgeTypeOK, ContractRows, CapacityHeld
    <3> QED
      BY <3>1, <3>2 DEF SumsNat
  <2>2. LinkedToOrder(o)' <= LinkedToOrder(o) + q /\ LinkedToContract(k)' <= LinkedToContract(k) + q
    BY <1>10
  <2>3. ASSUME NEW p \in Orders PROVE LinkedToOrder(p)' <= OrderQty[p]
    <3>1. CASE p = o
      <4>1. LinkedToOrder(o)' <= OrderQty[o]
        BY <1>2, <1>5, <2>1, <2>2
      <4> QED
        BY <3>1, <4>1
    <3>2. CASE p # o
      <4>1. LinkedToOrder(p)' <= LinkedToOrder(p)
        BY <1>10, <3>2
      <4> QED
        BY <2>1, <4>1
    <3> QED
      BY <3>1, <3>2
  <2>4. LinkedToContract(k)' <= contracts'[k].qty
    <3>1. CASE LinkedToContract(k) + q <= contracts[k].qty /\ contracts'[k] = contracts[k]
      BY <1>2, <2>1, <2>2, <3>1
    <3>2. CASE contracts[k].status = "absent" /\ contracts'[k] = NewContract(q)
      <4>1. contracts[k].qty = 0 /\ contracts'[k].qty = q
        BY <1>8, <3>2 DEF HedgeInv, AbsentUnlinked
      <4> QED
        BY <1>2, <2>1, <2>2, <4>1
    <3> QED
      BY <1>6, <3>1, <3>2
  <2>5. ASSUME NEW c \in Contracts, c # k PROVE LinkedToContract(c)' <= contracts'[c].qty
    <3>1. LinkedToContract(c)' <= LinkedToContract(c) /\ contracts'[c].qty = contracts[c].qty
      BY <1>6, <1>10, <2>5
    <3> QED
      BY <2>1, <3>1
  <2> QED
    BY <2>3, <2>4, <2>5 DEF CapacityHeld
<1> QED
  BY <1>7, <1>12, <1>13, <1>14, <1>15, <1>16 DEF HedgeInv

-----------------------------------------------------------------------------
\* An empty book satisfies the invariant.
LEMMA HedgeInitInv == HedgeInit => HedgeInv
<1> SUFFICES ASSUME HedgeInit PROVE HedgeInv
  OBVIOUS
<1>1. [status |-> "absent", deleted |-> FALSE, qty |-> 0] \in ContractRows
  BY HedgeBookConstants DEF ContractRows
<1>2. HedgeTypeOK
  BY <1>1, IdleTyped DEF HedgeInit, HedgeTypeOK, OrderRows, LedgerRows
<1>3. \A s \in Sessions: tx[s] = Idle
  BY DEF HedgeInit
<1>4. RequestsSound /\ LocksExclude /\ ChecksStillHold
  BY <1>3, IdleTyped
     DEF RequestsSound, RequestSound, LocksExclude, Excludes, ChecksStillHold, CheckHolds, LinkOps, Writing, Booking
<1>5. \A c \in Contracts: contracts[c].status = "absent" /\ contracts[c].qty = 0 /\ ~LiveContract(c)
  BY DEF HedgeInit, LiveContract
<1>6. AbsentUnlinked /\ CashedIsOver /\ SettledHasCash
  BY <1>5 DEF HedgeInit, AbsentUnlinked, CashedIsOver, SettledHasCash
<1>7. CapacityHeld
  <2>1. ASSUME NEW o \in Orders PROVE LinkedToOrder(o) <= OrderQty[o]
    <3>1. {c \in Contracts: LiveContract(c)} = {}
      BY <1>5
    <3>2. LinkedToOrder(o) = 0
      BY <3>1, SumEmpty DEF LinkedToOrder
    <3> QED
      BY <3>2, HedgeBookConstants
  <2>2. ASSUME NEW c \in Contracts PROVE LinkedToContract(c) <= contracts[c].qty
    <3>1. {o \in Orders: LiveOrder(o)} = {}
      BY DEF HedgeInit, LiveOrder
    <3>2. LinkedToContract(c) = 0
      BY <3>1, SumEmpty DEF LinkedToContract
    <3> QED
      BY <1>5, <3>2
  <2> QED
    BY <2>1, <2>2 DEF CapacityHeld
<1> QED
  BY <1>2, <1>4, <1>6, <1>7 DEF HedgeInv

\* One case per action.
LEMMA HedgeNextInv == HedgeInv /\ [HedgeNext]_vars => HedgeInv'
<1> SUFFICES ASSUME HedgeInv, [HedgeNext]_vars PROVE HedgeInv'
  OBVIOUS
<1>1. CASE Create
  BY <1>1, CreateOrderStep, CreateContractStep DEF Create
<1>2. ASSUME NEW s \in Sessions, OrderStep(s) PROVE HedgeInv'
  BY <1>2, LoadsKeepInv, ArchiveOrderStep DEF OrderStep
<1>3. ASSUME NEW s \in Sessions, LinkStep(s) PROVE HedgeInv'
  BY <1>3, LoadsKeepInv, InsertStep DEF LinkStep
<1>4. ASSUME NEW s \in Sessions, ContractStep(s) PROVE HedgeInv'
  BY <1>4, LoadsKeepInv, WritesKeepInv DEF ContractStep
<1>5. ASSUME NEW s \in Sessions, Abort(s) PROVE HedgeInv'
  BY <1>5, LoadsKeepInv
<1>6. CASE UNCHANGED vars
  <2>1. UNCHANGED book /\ tx' = tx
    BY <1>6 DEF vars
  <2>2. CASE Sessions = {}
    <3>1. /\ orders' = orders /\ contracts' = contracts /\ linked' = linked /\ ledger' = ledger
      BY <2>1 DEF book
    <3>2. CapacityHeld'
      BY <3>1 DEF HedgeInv, CapacityHeld, LinkedToOrder, LinkedToContract, LiveContract, LiveOrder
    <3> QED
      BY <2>1, <2>2, <3>1, <3>2
         DEF HedgeInv, HedgeTypeOK, RequestsSound, LocksExclude, ChecksStillHold, AbsentUnlinked,
             CashedIsOver, SettledHasCash
  <2>3. ASSUME NEW s \in Sessions PROVE HedgeInv'
    <3>1. /\ tx' = [tx EXCEPT ![s] = tx[s]] /\ tx[s] \in Requests
          /\ RequestSound(tx[s]) /\ CheckHolds(tx[s])
      BY <2>1 DEF HedgeInv, HedgeTypeOK, RequestsSound, ChecksStillHold
    <3>2. \A t \in Sessions \ {s}: Excludes(tx[s], tx[t]) /\ Excludes(tx[t], tx[s])
      BY DEF HedgeInv, LocksExclude
    <3> QED
      BY <2>1, <3>1, <3>2, QuietStep
  <2> QED
    BY <2>2, <2>3
<1> QED
  BY <1>1, <1>2, <1>3, <1>4, <1>5, <1>6 DEF HedgeNext

(* Every reachable state satisfies the inductive invariant. *)
THEOREM HedgeInvHolds == HedgeSpec => []HedgeInv
  BY HedgeInitInv, HedgeNextInv, PTL DEF HedgeSpec

(* The rows, the sums and the requests stay well typed; no tonnage linked   *)
(* is negative.                                                             *)
THEOREM HedgeTypeCorrect == HedgeSpec => []HedgeTypeOK
<1>1. HedgeInv => HedgeTypeOK
  BY DEF HedgeInv
<1> QED
  BY <1>1, HedgeInvHolds, PTL

(* For any number of sessions that link, book, update, cancel, archive,     *)
(* delete and settle at once, no order is hedged and no contract allocated  *)
(* beyond its tonnes (create of linkage_service, trigger of migration 032). *)
THEOREM CapacityHeldHolds == HedgeSpec => []CapacityHeld
<1>1. HedgeInv => CapacityHeld
  BY DEF HedgeInv
<1> QED
  BY <1>1, HedgeInvHolds, PTL

(* A contract with cash in the ledger never counts as a live hedge again,   *)
(* and a settled contract has its event in the ledger, however settlements  *)
(* and retirements overlap (ingest_hedge_contract_settlement).              *)
THEOREM CashRetiresHedgeHolds == HedgeSpec => []CashRetiresHedge
<1>1. HedgeInv => CashRetiresHedge
  BY DEF HedgeInv, CashRetiresHedge, CashedIsOver, SettledHasCash, LiveContract
<1> QED
  BY <1>1, HedgeInvHolds, PTL

-----------------------------------------------------------------------------
(* Refinement: every step of the sessions is a step of Allocation, or       *)
(* changes nothing that Allocation sees.                                    *)

\* The tonnes of every order and contract, as the refinement mapping has them.
Sizes == [x \in Orders \cup Contracts |-> IF x \in Orders THEN OrderQty[x] ELSE contracts[x].qty]

seen == <<OpenParties, ClosedParties, Sizes, linked>>

(* Allocation adds up the same way. *)
LEMMA SameSum ==
  ASSUME NEW f, NEW S PROVE Promise!SumFunctionOnSet(f, S) = SumFunctionOnSet(f, S)
<1>1. Promise!SumFunctionOnSet(f, S) = SumGraph(f, S)[S]
  BY DEF Promise!SumFunctionOnSet, Promise!FoldFunctionOnSet, Promise!MapThenFoldSet, SumGraph, IsSum, Pick
<1> QED
  BY <1>1, SumIsGraph

(* Orders and contracts do not share ids, so the sums of Allocation are the *)
(* sums of the book.                                                        *)
LEMMA SumsAgree ==
  /\ \A o \in Orders: Promise!OfOrder(o) = LinkedToOrder(o)
  /\ \A c \in Contracts: Promise!OfContract(c) = LinkedToContract(c)
<1>1. Contracts \cap OpenParties = {c \in Contracts: LiveContract(c)}
  BY HedgeBookConstants DEF OpenParties
<1>2. Orders \cap OpenParties = {o \in Orders: LiveOrder(o)}
  BY HedgeBookConstants DEF OpenParties
<1> QED
  BY <1>1, <1>2, SameSum DEF Promise!OfOrder, Promise!OfContract, LinkedToOrder, LinkedToContract

\* An empty book is an empty allocation.
LEMMA InitRefines == HedgeInit => Promise!Init
<1> SUFFICES ASSUME HedgeInit PROVE Promise!Init
  OBVIOUS
<1>1. \A c \in Contracts: contracts[c].status = "absent" /\ contracts[c].qty = 0
  BY DEF HedgeInit
<1>2. OpenParties = {} /\ ClosedParties = {}
  BY <1>1 DEF HedgeInit, OpenParties, ClosedParties, LiveOrder, LiveContract
<1>3. Sizes \in [Orders \cup Contracts -> Nat]
  BY <1>1, HedgeBookConstants DEF Sizes
<1> QED
  BY <1>2, <1>3 DEF Promise!Init, Promise!Parties, HedgeInit, Sizes

\* What changes no row of orders, contracts or linkages is a stutter of the promise.
LEMMA QuietRefines ==
  ASSUME UNCHANGED book PROVE UNCHANGED seen
  BY DEF book, seen, OpenParties, ClosedParties, Sizes, LiveOrder, LiveContract

\* A step that Allocation allows or does not see.
Refines == Promise!Next \/ UNCHANGED seen

\* A new order is opened.
LEMMA CreateOrderRefines ==
  ASSUME HedgeInv, NEW o \in Orders, CreateOrder(o) PROVE Refines
<1>1. /\ orders[o] = "absent" /\ orders' = [orders EXCEPT ![o] = "live"]
      /\ contracts' = contracts /\ linked' = linked
      /\ orders \in [Orders -> OrderRows]
  BY DEF CreateOrder, HedgeInv, HedgeTypeOK
<1>2. o \notin OpenParties \cup ClosedParties
  BY <1>1, HedgeBookConstants DEF OpenParties, ClosedParties, LiveOrder
<1>3. OpenParties' = OpenParties \cup {o}
  BY <1>1 DEF OpenParties, LiveOrder, LiveContract
<1>4. ClosedParties' = ClosedParties
  BY <1>1 DEF ClosedParties, LiveContract
<1>5. Sizes' = [Sizes EXCEPT ![o] = OrderQty[o]] /\ OrderQty[o] \in 0..MaxQty
  <2>1. Sizes' = Sizes /\ Sizes[o] = OrderQty[o]
    BY <1>1 DEF Sizes
  <2>2. Sizes = [x \in Orders \cup Contracts |-> Sizes[x]]
    BY DEF Sizes
  <2>3. OrderQty[o] \in 0..MaxQty
    BY HedgeBookConstants
  <2> HIDE DEF Sizes
  <2> QED
    BY <2>1, <2>2, <2>3
<1>6. Promise!Open(o)
  BY <1>1, <1>2, <1>3, <1>4, <1>5 DEF Promise!Open, Sizes
<1> QED
  BY <1>6 DEF Refines, Promise!Next, Promise!Parties

\* Archiving closes an order.
LEMMA ArchiveOrderRefines ==
  ASSUME HedgeInv, NEW s \in Sessions, ArchiveOrderCommit(s) PROVE Refines
<1>0. PICK o \in Orders: tx[s].order = o /\ orders[o] # "absent"
  BY DEF HedgeInv, RequestsSound, RequestSound, ArchiveOrderCommit
<1>1. /\ orders' = [orders EXCEPT ![o] = "archived"]
      /\ contracts' = contracts /\ linked' = linked
      /\ orders \in [Orders -> OrderRows]
  BY <1>0 DEF ArchiveOrderCommit, HedgeInv, HedgeTypeOK
<1>2. Sizes' = Sizes
  BY <1>1 DEF Sizes
<1>3. CASE LiveOrder(o)
  <2>1. o \in OpenParties /\ OpenParties' = OpenParties \ {o}
    BY <1>1, <1>3, HedgeBookConstants DEF OpenParties, LiveOrder, LiveContract
  <2>2. ClosedParties' = ClosedParties \cup {o}
    BY <1>1 DEF ClosedParties, LiveContract
  <2>3. Promise!Close(o)
    BY <1>1, <1>2, <2>1, <2>2 DEF Promise!Close, Sizes
  <2> QED
    BY <2>3 DEF Refines, Promise!Next, Promise!Parties
<1>4. CASE ~LiveOrder(o)
  <2>1. orders' = orders
    BY <1>0, <1>1, <1>4 DEF LiveOrder, OrderRows
  <2> QED
    BY <1>1, <1>2, <2>1 DEF Refines, seen, OpenParties, ClosedParties, LiveOrder, LiveContract
<1> QED
  BY <1>3, <1>4

\* A contract of the API is opened with its quantity.
LEMMA CreateContractRefines ==
  ASSUME HedgeInv, NEW k \in Contracts, NEW q \in 1..MaxQty, CreateContract(k, q) PROVE Refines
<1>1. /\ contracts[k].status = "absent" /\ contracts' = [contracts EXCEPT ![k] = NewContract(q)]
      /\ orders' = orders /\ linked' = linked
      /\ contracts \in [Contracts -> ContractRows]
  BY DEF CreateContract, HedgeInv, HedgeTypeOK
<1>2. /\ NewContract(q).status = "active" /\ NewContract(q).deleted = FALSE /\ NewContract(q).qty = q
      /\ q \in 0..MaxQty
  BY HedgeBookConstants DEF NewContract
<1>3. contracts'[k] = NewContract(q) /\ \A c \in Contracts \ {k}: contracts'[c] = contracts[c]
  BY <1>1
<1>4. LiveContract(k)' /\ ~LiveContract(k) /\ \A c \in Contracts \ {k}: LiveContract(c)' = LiveContract(c)
  BY <1>1, <1>2, <1>3 DEF LiveContract
<1>5. k \notin OpenParties \cup ClosedParties
  BY <1>1, HedgeBookConstants DEF OpenParties, ClosedParties, LiveContract
<1>6. OpenParties' = OpenParties \cup {k}
  BY <1>1, <1>4 DEF OpenParties, LiveOrder
<1>7. ClosedParties' = ClosedParties
  BY <1>1, <1>3, <1>4 DEF ClosedParties
<1>8. Sizes' = [Sizes EXCEPT ![k] = q]
  BY <1>2, <1>3, HedgeBookConstants DEF Sizes
<1>9. Promise!Open(k)
  BY <1>1, <1>2, <1>5, <1>6, <1>7, <1>8 DEF Promise!Open, Sizes
<1> QED
  BY <1>9 DEF Refines, Promise!Next, Promise!Parties

\* The commit of a checked linkage is one allocation that fits.
LEMMA LinkCommitRefines ==
  ASSUME HedgeInv, NEW s \in Sessions, LinkCommit(s) PROVE Refines
<1>1. PICK o \in Orders, k \in Contracts, q \in 0..MaxQty:
        /\ tx[s].order = o /\ tx[s].contract = k /\ tx[s].qty = q
        /\ LiveOrder(o) /\ LiveContract(k) /\ Linkable(o, k)
        /\ LinkedToOrder(o) + q <= OrderQty[o] /\ LinkedToContract(k) + q <= contracts[k].qty
  BY LockHolder DEF LinkCommit, OrderHasRoom, ContractHasRoom
<1>2. orders' = orders /\ contracts' = contracts /\ linked' = [linked EXCEPT ![<<o, k>>] = @ + q]
  BY <1>1 DEF LinkCommit, AddLinkage
<1>3. OpenParties' = OpenParties /\ ClosedParties' = ClosedParties /\ Sizes' = Sizes
  BY <1>2 DEF OpenParties, ClosedParties, Sizes, LiveOrder, LiveContract
<1>4. o \in OpenParties /\ k \in OpenParties
  BY <1>1 DEF OpenParties
<1>5. Sizes[o] = OrderQty[o] /\ Sizes[k] = contracts[k].qty
  BY HedgeBookConstants DEF Sizes
<1>6. Promise!OfOrder(o) + q <= Sizes[o] /\ Promise!OfContract(k) + q <= Sizes[k]
  BY <1>1, <1>5, SumsAgree
<1>7. Promise!Allocate(o, k, q)
  BY <1>1, <1>2, <1>3, <1>4, <1>6 DEF Promise!Allocate, Sizes
<1> QED
  BY <1>7 DEF Refines, Promise!Next

\* The commit of an award is a contract and its allocation.
LEMMA BookCommitRefines ==
  ASSUME HedgeInv, NEW s \in Sessions, BookCommit(s) PROVE Refines
<1>1. PICK o \in Orders, k \in Contracts, q \in 0..MaxQty:
        /\ tx[s].order = o /\ tx[s].contract = k /\ tx[s].qty = q
        /\ LiveOrder(o) /\ contracts[k].status = "absent" /\ Linkable(o, k)
        /\ LinkedToOrder(o) + q <= OrderQty[o]
  BY LockHolder DEF BookCommit, OrderHasRoom
<1>2. /\ orders' = orders /\ contracts' = [contracts EXCEPT ![k] = NewContract(q)]
      /\ linked' = [linked EXCEPT ![<<o, k>>] = @ + q]
      /\ contracts \in [Contracts -> ContractRows]
  BY <1>1 DEF BookCommit, AddLinkage, HedgeInv, HedgeTypeOK
<1>3. NewContract(q).status = "active" /\ NewContract(q).deleted = FALSE /\ NewContract(q).qty = q
  BY DEF NewContract
<1>4. contracts'[k] = NewContract(q) /\ \A c \in Contracts \ {k}: contracts'[c] = contracts[c]
  BY <1>2
<1>5. LiveContract(k)' /\ ~LiveContract(k) /\ \A c \in Contracts \ {k}: LiveContract(c)' = LiveContract(c)
  BY <1>1, <1>3, <1>4 DEF LiveContract
<1>6. k \notin OpenParties \cup ClosedParties /\ o \in OpenParties
  BY <1>1, HedgeBookConstants DEF OpenParties, ClosedParties, LiveContract
<1>7. OpenParties' = OpenParties \cup {k}
  BY <1>2, <1>5 DEF OpenParties, LiveOrder
<1>8. ClosedParties' = ClosedParties
  BY <1>1, <1>2, <1>4, <1>5 DEF ClosedParties
<1>9. Sizes' = [Sizes EXCEPT ![k] = q]
  BY <1>3, <1>4, HedgeBookConstants DEF Sizes
<1>10. Promise!OfOrder(o) + q <= Sizes[o]
  BY <1>1, SumsAgree DEF Sizes
<1>11. Promise!OpenAllocated(o, k, q)
  BY <1>1, <1>2, <1>6, <1>7, <1>8, <1>9, <1>10 DEF Promise!OpenAllocated, Sizes
<1> QED
  BY <1>11 DEF Refines, Promise!Next

(* Cancel, archive, delete and settle close a contract that was open and    *)
(* change nothing of one that was closed.                                   *)
LEMMA RetireRefines ==
  ASSUME HedgeInv, NEW s \in Sessions,
         CancelCommit(s) \/ ArchiveCommit(s) \/ DeleteCommit(s) \/ SettleCommit(s)
  PROVE  Refines
<1>0. PICK k \in Contracts: tx[s].contract = k /\ contracts[k].status # "absent"
  BY DEF HedgeInv, RequestsSound, RequestSound, Writing, CancelCommit, ArchiveCommit, DeleteCommit, SettleCommit
<1>1. /\ Row(s) = contracts[k] /\ contracts[k] \in ContractRows
      /\ contracts \in [Contracts -> ContractRows]
  BY <1>0 DEF HedgeInv, HedgeTypeOK, Row
<1>2. PICK r \in ContractRows:
        /\ WriteContract(s, r) /\ r.qty = contracts[k].qty /\ r.status # "absent"
        /\ r.status \in {"cancelled", "settled"} \/ r.deleted
  <2>1. CASE CancelCommit(s)
    <3>1. WriteContract(s, [Row(s) EXCEPT !.status = "cancelled"])
      BY <2>1 DEF CancelCommit
    <3> QED
      BY <1>1, <3>1 DEF ContractRows, Statuses
  <2>2. CASE ArchiveCommit(s)
    <3> DEFINE r == [Row(s) EXCEPT !.deleted = TRUE]
    <3>1. WriteContract(s, r)
      BY <2>2 DEF ArchiveCommit
    <3>2. r \in ContractRows /\ r.qty = contracts[k].qty /\ r.status = contracts[k].status /\ r.deleted
      BY <1>1 DEF ContractRows
    <3> HIDE DEF r
    <3> QED
      BY <1>0, <3>1, <3>2
  <2>3. CASE DeleteCommit(s)
    <3> DEFINE r == Deleted(Row(s), tx[s].seen)
    <3>1. WriteContract(s, r)
      BY <2>3 DEF DeleteCommit
    <3>2. /\ r \in ContractRows /\ r.qty = contracts[k].qty
          /\ r.status \in {contracts[k].status, "cancelled"} /\ r.deleted
      BY <1>1 DEF ContractRows, Statuses, Deleted
    <3> HIDE DEF r
    <3> QED
      BY <1>0, <3>1, <3>2
  <2>4. CASE SettleCommit(s)
    <3>1. WriteContract(s, [Row(s) EXCEPT !.status = "settled"])
      BY <2>4 DEF SettleCommit
    <3> QED
      BY <1>1, <3>1 DEF ContractRows, Statuses
  <2> QED
    BY <2>1, <2>2, <2>3, <2>4
<1>3. orders' = orders /\ linked' = linked /\ contracts' = [contracts EXCEPT ![k] = r]
  BY <1>0, <1>2 DEF WriteContract
<1>4. contracts'[k] = r /\ \A c \in Contracts \ {k}: contracts'[c] = contracts[c]
  BY <1>1, <1>3
<1>5. /\ ~LiveContract(k)' /\ contracts'[k].status # "absent"
      /\ \A c \in Contracts \ {k}: LiveContract(c)' = LiveContract(c)
  BY <1>2, <1>4 DEF LiveContract
<1>6. Sizes' = Sizes
  BY <1>2, <1>4 DEF Sizes
<1>7. ClosedParties' = ClosedParties \cup {k}
  BY <1>3, <1>4, <1>5 DEF ClosedParties
<1>8. CASE LiveContract(k)
  <2>1. k \in OpenParties /\ OpenParties' = OpenParties \ {k}
    BY <1>3, <1>5, <1>8, HedgeBookConstants DEF OpenParties, LiveOrder
  <2>2. Promise!Close(k)
    BY <1>3, <1>6, <1>7, <2>1 DEF Promise!Close, Sizes
  <2> QED
    BY <2>2 DEF Refines, Promise!Next, Promise!Parties
<1>9. CASE ~LiveContract(k)
  <2>1. OpenParties' = OpenParties
    BY <1>3, <1>5, <1>9 DEF OpenParties, LiveOrder
  <2>2. ClosedParties' = ClosedParties
    BY <1>0, <1>7, <1>9 DEF ClosedParties
  <2> QED
    BY <1>3, <1>6, <2>1, <2>2 DEF Refines, seen
<1> QED
  BY <1>8, <1>9

\* An amendment resizes a contract, never below what is allocated to it.
LEMMA UpdateRefines ==
  ASSUME HedgeInv, NEW s \in Sessions, UpdateCommit(s) PROVE Refines
<1>0. PICK k \in Contracts, q \in 0..MaxQty: tx[s].contract = k /\ tx[s].qty = q
  BY DEF HedgeInv, HedgeTypeOK, Requests, RequestsSound, RequestSound, Writing, UpdateCommit
<1>1. /\ orders' = orders /\ linked' = linked
      /\ contracts' = [contracts EXCEPT ![k] = [contracts[k] EXCEPT !.qty = q]]
      /\ contracts \in [Contracts -> ContractRows]
      /\ LinkedToContract(k) <= q
  BY <1>0 DEF UpdateCommit, WriteContract, Row, HedgeInv, HedgeTypeOK
<1>2. /\ contracts'[k] = [contracts[k] EXCEPT !.qty = q]
      /\ \A c \in Contracts \ {k}: contracts'[c] = contracts[c]
  BY <1>1
<1>3. /\ contracts'[k].status = contracts[k].status /\ contracts'[k].deleted = contracts[k].deleted
      /\ contracts'[k].qty = q
  BY <1>1, <1>2 DEF ContractRows
<1>4. \A c \in Contracts: LiveContract(c)' = LiveContract(c) /\ contracts'[c].status = contracts[c].status
  BY <1>2, <1>3 DEF LiveContract
<1>5. OpenParties' = OpenParties /\ ClosedParties' = ClosedParties
  BY <1>1, <1>4 DEF OpenParties, ClosedParties, LiveOrder
<1>6. Sizes' = [Sizes EXCEPT ![k] = q]
  BY <1>2, <1>3, HedgeBookConstants DEF Sizes
<1>7. Promise!OfContract(k) <= q
  BY <1>1, SumsAgree
<1>8. Promise!Resize(k, q)
  BY <1>1, <1>5, <1>6, <1>7 DEF Promise!Resize, Sizes
<1> QED
  BY <1>8 DEF Refines, Promise!Next

\* One case per action.
LEMMA NextRefines == HedgeInv /\ [HedgeNext]_vars => Refines
<1> SUFFICES ASSUME HedgeInv, [HedgeNext]_vars PROVE Refines
  OBVIOUS
<1>1. CASE Create
  BY <1>1, CreateOrderRefines, CreateContractRefines DEF Create
<1>2. ASSUME NEW s \in Sessions, OrderStep(s) PROVE Refines
  <2>1. ASSUME NEW o \in Orders, ArchiveOrderLoad(s, o) PROVE UNCHANGED book
    BY <2>1 DEF ArchiveOrderLoad, Start
  <2> QED
    BY <1>2, <2>1, QuietRefines, ArchiveOrderRefines DEF OrderStep, Refines
<1>3. ASSUME NEW s \in Sessions, LinkStep(s) PROVE Refines
  <2>1. \/ UNCHANGED book \/ LinkCommit(s) \/ BookCommit(s)
    BY <1>3 DEF LinkStep, LinkLockOrder, BookLockOrder, Start, LinkLockContract, BookFlush
  <2> QED
    BY <2>1, QuietRefines, LinkCommitRefines, BookCommitRefines DEF Refines
<1>4. ASSUME NEW s \in Sessions, ContractStep(s) PROVE Refines
  <2>1. \/ UNCHANGED book \/ UpdateCommit(s)
        \/ CancelCommit(s) \/ ArchiveCommit(s) \/ DeleteCommit(s) \/ SettleCommit(s)
    BY <1>4 DEF ContractStep, CancelLoad, ArchiveLoad, DeleteLoad, UpdateLoad, SettleLoad, LoadContract, Start
  <2> QED
    BY <2>1, QuietRefines, UpdateRefines, RetireRefines DEF Refines
<1>5. ASSUME NEW s \in Sessions, Abort(s) PROVE Refines
  BY <1>5, QuietRefines DEF Abort, Refines
<1>6. CASE UNCHANGED vars
  BY <1>6, QuietRefines DEF vars, Refines
<1> QED
  BY <1>1, <1>2, <1>3, <1>4, <1>5, <1>6 DEF HedgeNext

(* The overlapping, partly locked transactions of the book implement the    *)
(* atomic allocation of module Allocation, for any orders, contracts and    *)
(* sessions: what each commit does was allowed when it committed.           *)
THEOREM ImplementsAllocationHolds == HedgeSpec => ImplementsAllocation
<1>1. HedgeInv /\ [HedgeNext]_vars
        => [Promise!Next]_<<OpenParties, ClosedParties, Sizes, linked>>
  BY NextRefines DEF Refines, seen
<1> QED
  BY <1>1, InitRefines, HedgeInvHolds, PTL DEF HedgeSpec, ImplementsAllocation, Promise!Spec, Sizes

-----------------------------------------------------------------------------
(* Sums again, of integers this time.                                      *)

(* A sum is that of a part of its summands and that of the others. *)
LEMMA SumSplit ==
  ASSUME NEW S, IsFiniteSet(S), NEW f, \A x \in S : f[x] \in Int, NEW T \in SUBSET S
  PROVE  SumFunctionOnSet(f, S) = SumFunctionOnSet(f, T) + SumFunctionOnSet(f, S \ T)
<1> DEFINE Splits(U) ==
             SumFunctionOnSet(f, U) = SumFunctionOnSet(f, T) + SumFunctionOnSet(f, U \ T)
           B == {U \in SUBSET S : T \subseteq U /\ ~Splits(U)}
<1> SUFFICES ASSUME B # {} PROVE FALSE
  OBVIOUS
<1>1. PICK U \in B : \A V \in B : V \subseteq U => V = U
  <2>1. B \in SUBSET SUBSET S
    OBVIOUS
  <2> HIDE DEF B
  <2> QED
    BY <2>1, MinimalSubset
<1>2. U \in SUBSET S /\ T \subseteq U /\ IsFiniteSet(U) /\ IsFiniteSet(T) /\ ~Splits(U)
  BY FS_Subset
<1>3. U # T
  <2>1. SumFunctionOnSet(f, T \ T) = 0
    <3>1. T \ T = {}
      OBVIOUS
    <3> QED
      BY <3>1, SumEmpty
  <2>2. SumFunctionOnSet(f, T) \in Int
    BY <1>2, SumInt
  <2> QED
    BY <1>2, <2>1, <2>2
<1>4. PICK y \in U : y \notin T
  BY <1>2, <1>3
<1> DEFINE V == U \ {y}
<1>5. V \in SUBSET S /\ T \subseteq V /\ V # U /\ V \subseteq U /\ Splits(V)
  BY <1>1, <1>2, <1>4
<1> HIDE DEF B
<1>6. SumFunctionOnSet(f, U) = f[y] + SumFunctionOnSet(f, V)
  BY <1>2, SumTakeOut
<1>7. SumFunctionOnSet(f, U \ T) = f[y] + SumFunctionOnSet(f, V \ T)
  <2>1. IsFiniteSet(U \ T) /\ (\A x \in U \ T : f[x] \in Int) /\ y \in U \ T
    BY <1>2, <1>4, FS_Subset
  <2>2. (U \ T) \ {y} = V \ T
    OBVIOUS
  <2> HIDE DEF V
  <2> QED
    BY <2>1, <2>2, SumTakeOut
<1>8. /\ f[y] \in Int /\ SumFunctionOnSet(f, T) \in Int
      /\ SumFunctionOnSet(f, V) \in Int /\ SumFunctionOnSet(f, V \ T) \in Int
  <2>1. IsFiniteSet(V) /\ IsFiniteSet(V \ T)
    BY <1>2, <1>5, FS_Subset
  <2>2. \A x \in T \cup V : f[x] \in Int
    BY <1>5
  <2> HIDE DEF V
  <2> QED
    BY <1>2, <1>4, <2>1, <2>2, SumInt
<1> HIDE DEF V
<1> QED
  BY <1>2, <1>5, <1>6, <1>7, <1>8

(* A sum of zeros. *)
LEMMA SumOfZeros ==
  ASSUME NEW S, IsFiniteSet(S), NEW f, \A x \in S : f[x] = 0
  PROVE  SumFunctionOnSet(f, S) = 0
<1> DEFINE B == {T \in SUBSET S : SumFunctionOnSet(f, T) # 0}
<1> SUFFICES ASSUME B # {} PROVE FALSE
  OBVIOUS
<1>1. PICK T \in B : \A U \in B : U \subseteq T => U = T
  <2>1. B \in SUBSET SUBSET S
    OBVIOUS
  <2> HIDE DEF B
  <2> QED
    BY <2>1, MinimalSubset
<1>2. IsFiniteSet(T) /\ T # {}
  BY FS_Subset, SumEmpty
<1>3. Pick(T) \in T /\ f[Pick(T)] = 0
  BY <1>2, PickIn
<1>4. SumFunctionOnSet(f, T \ {Pick(T)}) = 0
  BY <1>1, <1>3
<1> QED
  BY <1>2, <1>3, <1>4, SumFirst

(* Summands that are zero may be left out. *)
LEMMA SumDropZeros ==
  ASSUME NEW S, IsFiniteSet(S), NEW f, \A x \in S : f[x] \in Int,
         NEW T \in SUBSET S, \A x \in S \ T : f[x] = 0
  PROVE  SumFunctionOnSet(f, S) = SumFunctionOnSet(f, T)
<1>1. IsFiniteSet(T) /\ IsFiniteSet(S \ T) /\ \A x \in T : f[x] \in Int
  BY FS_Subset
<1>2. SumFunctionOnSet(f, S \ T) = 0
  BY <1>1, SumOfZeros
<1>3. SumFunctionOnSet(f, T) \in Int
  BY <1>1, SumInt
<1> QED
  BY <1>2, <1>3, SumSplit

(* The sum of the opposites is the opposite of the sum. *)
LEMMA SumOpposite ==
  ASSUME NEW S, IsFiniteSet(S), NEW f, \A x \in S : f[x] \in Int,
         NEW g, \A x \in S : g[x] = 0 - f[x]
  PROVE  SumFunctionOnSet(g, S) = 0 - SumFunctionOnSet(f, S)
<1> DEFINE B == {T \in SUBSET S : SumFunctionOnSet(g, T) # 0 - SumFunctionOnSet(f, T)}
<1> SUFFICES ASSUME B # {} PROVE FALSE
  OBVIOUS
<1>1. PICK T \in B : \A U \in B : U \subseteq T => U = T
  <2>1. B \in SUBSET SUBSET S
    OBVIOUS
  <2> HIDE DEF B
  <2> QED
    BY <2>1, MinimalSubset
<1>2. IsFiniteSet(T) /\ T # {} /\ T \subseteq S
  <2>1. SumFunctionOnSet(g, {}) = 0 /\ SumFunctionOnSet(f, {}) = 0
    BY SumEmpty
  <2>2. T \in SUBSET S /\ SumFunctionOnSet(g, T) # 0 - SumFunctionOnSet(f, T)
    OBVIOUS
  <2>3. T # {}
    BY <2>1, <2>2
  <2> QED
    BY <2>2, <2>3, FS_Subset
<1>3. Pick(T) \in T /\ g[Pick(T)] = 0 - f[Pick(T)] /\ f[Pick(T)] \in Int
  BY <1>2, PickIn
<1>4. SumFunctionOnSet(g, T \ {Pick(T)}) = 0 - SumFunctionOnSet(f, T \ {Pick(T)})
  BY <1>1, <1>3
<1>5. SumFunctionOnSet(f, T \ {Pick(T)}) \in Int
  <2>1. IsFiniteSet(T \ {Pick(T)}) /\ \A x \in T \ {Pick(T)} : f[x] \in Int
    BY <1>2, FS_Subset
  <2> QED
    BY <2>1, SumInt
<1>6. /\ SumFunctionOnSet(f, T) = f[Pick(T)] + SumFunctionOnSet(f, T \ {Pick(T)})
      /\ SumFunctionOnSet(g, T) = g[Pick(T)] + SumFunctionOnSet(g, T \ {Pick(T)})
  BY <1>2, SumFirst
<1> QED
  BY <1>3, <1>4, <1>5, <1>6

(* The sum of one summand. *)
LEMMA SumOne ==
  ASSUME NEW x, NEW f, f[x] \in Int
  PROVE  SumFunctionOnSet(f, {x}) = f[x]
<1>1. IsFiniteSet({x}) /\ {x} \ {x} = {}
  BY FS_Singleton
<1>2. SumFunctionOnSet(f, {x}) = f[x] + SumFunctionOnSet(f, {x} \ {x})
  BY <1>1, SumTakeOut
<1> QED
  BY <1>1, <1>2, SumEmpty

-----------------------------------------------------------------------------
(* The inductive invariant.                                                *)

(* The link rows there can be, and the P&L snapshots over them. *)
Rows == {NewRow(d, t) : d \in Deals, t \in Targets}

SnapshotRows ==
  [inputs: [deal: Deals, links: SUBSET Rows, prices: SUBSET (Commodities \X Prices)],
   pnl: Int,
   seen: [Contracts -> Nat]]

(* Rows, totals and prices keep their shape; deals have finitely many links. *)
PortfolioTypes ==
  /\ HedgeTypeOK
  /\ deals \in [Deals -> DealRows]
  /\ dealLinks \in SUBSET Rows
  /\ IsFiniteSet(dealLinks)
  /\ exposures \in [Orders -> ExposureRows]
  /\ pending \in SUBSET Orders
  /\ snapshots \in SUBSET SnapshotRows
  /\ price \in [Commodities -> Prices]
  /\ amended \in SUBSET Deals
  /\ synced \in BOOLEAN

(* What a link row names is on record, so no later insert brings it to life. *)
Exists(l) ==
  IF l.type \in OrderTypes THEN orders[l.id] # "absent" ELSE contracts[l.id].status # "absent"

TargetsExist == \A l \in dealLinks : Exists(l)

(* A contract that is not on record has no linkage, and none is settled in part. *)
BookSound ==
  \A c \in Contracts :
    /\ contracts[c].status = "absent" => \A o \in Orders : linked[o, c] = 0
    /\ contracts[c].status # "partially_settled"

(* Only floating orders are exposed; since a reconcile, as the orders are. *)
ExposedFloat == \A o \in Orders : exposures[o].state = "live" => PriceType[o] = "variable"

SyncedRows == synced => \A o \in ExposedOrders : exposures[o] = Exposed(o)

(* What a row is worth at the prices P with the tonnes T open, and whether  *)
(* that takes a price.                                                       *)
WorthAt(l, P, T) ==
  IF l.type \in OrderTypes
  THEN Sign(l.type = "sales_order") * OrderQty[l.id]
         * (IF PriceType[l.id] = "fixed" THEN EntryPrice[l.id] ELSE P[Commodity[l.id]])
  ELSE Sign(Classification[l.id] = "short") * T[l.id]
         * (EntryPrice[l.id] - P[Commodity[l.id]])

Priced(l, T) ==
  IF l.type \in OrderTypes THEN PriceType[l.id] = "variable" ELSE T[l.id] # 0

SumAt(L, P, T) == SumFunctionOnSet([l \in L |-> WorthAt(l, P, T)], L)

(* A snapshot is the sum over its rows at prices that are in its inputs.     *)
SnapshotSound(snap) ==
  \E P \in [Commodities -> Prices] :
    /\ \A l \in snap.inputs.links : Priced(l, snap.seen) =>
         <<Commodity[l.id], P[Commodity[l.id]]>> \in snap.inputs.prices
    /\ snap.pnl = SumAt(snap.inputs.links, P, snap.seen)

SnapshotsSound == \A snap \in snapshots : SnapshotSound(snap)

PortfolioInv ==
  /\ PortfolioTypes
  /\ TargetsExist
  /\ BookSound
  /\ NoTaskForRetired
  /\ ExposedFloat
  /\ SyncedRows
  /\ DealTotalsFresh
  /\ SnapshotsSound

-----------------------------------------------------------------------------
(* Shapes.                                                                 *)

(* A link row names an order or a contract by its type. *)
LEMMA RowTyped ==
  ASSUME NEW l \in Rows
  PROVE  /\ l.deal \in Deals
         /\ l.type \in OrderTypes => l.id \in Orders /\ l.type \notin HedgeTypes
         /\ l.type \notin OrderTypes => l.id \in Contracts /\ l.type \in HedgeTypes
  BY PortfolioConstants DEF Rows, NewRow, OrderTypes, HedgeTypes

(* The rows that one request inserts are finitely many. *)
LEMMA NewRowsFinite ==
  ASSUME NEW d, NEW T \in SUBSET Targets
  PROVE  IsFiniteSet({NewRow(d, t) : t \in T})
<1>1. IsFiniteSet({"sales_order", "purchase_order"}) /\ IsFiniteSet({"hedge", "contract"})
  <2>1. /\ {"sales_order", "purchase_order"} = {"sales_order"} \cup {"purchase_order"}
        /\ {"hedge", "contract"} = {"hedge"} \cup {"contract"}
    OBVIOUS
  <2>2. /\ IsFiniteSet({"sales_order"} \cup {"purchase_order"})
        /\ IsFiniteSet({"hedge"} \cup {"contract"})
    <3>1. /\ IsFiniteSet({"sales_order"}) /\ IsFiniteSet({"purchase_order"})
          /\ IsFiniteSet({"hedge"}) /\ IsFiniteSet({"contract"})
      BY FS_Singleton
    <3> QED
      BY <3>1, FS_Union, Zenon
  <2> QED
    BY <2>1, <2>2, Zenon
<1>2. /\ IsFiniteSet({"sales_order", "purchase_order"} \X Orders)
      /\ IsFiniteSet({"hedge", "contract"} \X Contracts)
  BY <1>1, HedgeBookConstants, FS_Product
<1>3. IsFiniteSet(T)
  <2>1. T \subseteq
          ({"sales_order", "purchase_order"} \X Orders) \cup ({"hedge", "contract"} \X Contracts)
    BY PortfolioConstants
  <2>2. IsFiniteSet(
          ({"sales_order", "purchase_order"} \X Orders) \cup ({"hedge", "contract"} \X Contracts))
    BY <1>2, FS_Union
  <2> QED
    BY <2>1, <2>2, FS_Subset
<1> DEFINE R == {NewRow(d, t) : t \in T}
           f == [t \in T |-> NewRow(d, t)]
<1>4. f \in [T -> R] /\ \A r \in R : \E t \in T : f[t] = r
  OBVIOUS
<1> HIDE DEF R, f
<1>5. f \in Surjection(T, R)
  BY <1>4 DEF Surjection
<1>6. IsFiniteSet(R)
  BY <1>3, <1>5, FS_Surjection
<1> QED
  BY <1>6 DEF R

(* The live rows of a deal are rows of it, finitely many of finitely many. *)
LEMMA LiveRowsTyped ==
  ASSUME NEW d, NEW L \in SUBSET Rows, IsFiniteSet(L), NEW O, NEW C
  PROVE  LiveRows(d, L, O, C) \in SUBSET L /\ IsFiniteSet(LiveRows(d, L, O, C))
<1>1. LiveRows(d, L, O, C) \in SUBSET L
  BY DEF LiveRows, RowsOf
<1> QED
  BY <1>1, FS_Subset

(* A recompute gives a deal's row totals in tonnes and a status. *)
LEMMA RecomputedTyped ==
  ASSUME NEW d \in Deals, NEW L \in SUBSET Rows, IsFiniteSet(L), NEW O,
         NEW C \in [Contracts -> ContractRows]
  PROVE  Recomputed(d, L, O, C) \in DealRows /\ Recomputed(d, L, O, C).made
<1> DEFINE live == LiveRows(d, L, O, C)
           inOrders == {l \in live : l.type \in OrderTypes}
           inHedges == {l \in live : l.type \in HedgeTypes}
           f == [l \in inOrders |-> OrderQty[l.id]]
           g == [l \in inHedges |-> C[l.id].qty]
           physical == SumFunctionOnSet(f, inOrders)
           hedge == SumFunctionOnSet(g, inHedges)
<1>1. /\ live \subseteq Rows
      /\ IsFiniteSet(inOrders) /\ IsFiniteSet(inHedges)
  <2>1. live \in SUBSET L /\ IsFiniteSet(live)
    BY LiveRowsTyped
  <2>2. inOrders \in SUBSET live /\ inHedges \in SUBSET live
    OBVIOUS
  <2> HIDE DEF live, inOrders, inHedges
  <2> QED
    BY <2>1, <2>2, FS_Subset
<1>2. \A l \in inOrders : f[l] \in Nat
  <2>1. \A l \in inOrders : l \in Rows /\ l.type \in OrderTypes
    BY <1>1
  <2> HIDE DEF live, inOrders
  <2>2. \A l \in inOrders : OrderQty[l.id] \in Nat
    BY <2>1, RowTyped, HedgeBookConstants
  <2> QED
    BY <2>2
<1>3. \A l \in inHedges : g[l] \in Nat
  <2>1. \A l \in inHedges : l \in Rows /\ l.type \in HedgeTypes
    BY <1>1
  <2> HIDE DEF live, inHedges
  <2>2. \A l \in inHedges : C[l.id].qty \in Nat
    BY <2>1, RowTyped, HedgeBookConstants DEF ContractRows
  <2> QED
    BY <2>2
<1>4. physical \in Nat /\ hedge \in Nat
  <2> HIDE DEF f, g, inOrders, inHedges
  <2> QED
    BY <1>1, <1>2, <1>3, SumNat
<1>5. Recomputed(d, L, O, C) =
        LET ratio == IF physical > 0 THEN Hundredths(hedge, physical) ELSE 0
        IN  [made |-> TRUE, physical |-> physical, hedge |-> hedge,
             status |-> IF ratio = 0 THEN "open"
                        ELSE IF ratio < 100 THEN "partially_hedged" ELSE "fully_hedged"]
  BY DEF Recomputed
<1> HIDE DEF physical, hedge
<1> QED
  BY <1>4, <1>5 DEF DealRows

(* A recompute sees the rows of its deal, which of them are live, and the   *)
(* tonnes of the live hedges, and nothing else.                              *)
LEMMA RecomputedSame ==
  ASSUME NEW d, NEW L, NEW M, NEW O, NEW P, NEW C, NEW D,
         RowsOf(d, L) = RowsOf(d, M),
         \A l \in RowsOf(d, L) :
           /\ IsLive(l, O, C) <=> IsLive(l, P, D)
           /\ l.type \in HedgeTypes => C[l.id].qty = D[l.id].qty
  PROVE  Recomputed(d, L, O, C) = Recomputed(d, M, P, D)
<1>1. LiveRows(d, L, O, C) = LiveRows(d, M, P, D)
  BY DEF LiveRows
<1> DEFINE live == LiveRows(d, L, O, C)
           inHedges == {l \in live : l.type \in HedgeTypes}
<1>2. \A l \in inHedges : C[l.id].qty = D[l.id].qty
  BY DEF LiveRows
<1> HIDE DEF live
<1>3. [l \in inHedges |-> C[l.id].qty] = [l \in inHedges |-> D[l.id].qty]
  <2> HIDE DEF inHedges
  <2> QED
    BY <1>2
<1>4. live = LiveRows(d, L, O, C) /\ live = LiveRows(d, M, P, D)
  BY <1>1 DEF live
<1> QED
  BY <1>3, <1>4, Zenon DEF Recomputed

-----------------------------------------------------------------------------
(* The steps, by what they leave alone.                                    *)

DealStep ==
  \/ \E d \in Deals, T \in SUBSET Targets : CreateDeal(d, T)
  \/ \E d \in Deals, t \in Targets : AddLink(d, t)
  \/ \E d \in Deals, l \in dealLinks : RemoveLink(d, l)

BookStep ==
  \/ \E o \in Orders : AddOrder(o) \/ ArchiveOrder(o)
  \/ \E c \in Contracts : RetireContract(c) \/ CloseContract(c)
  \/ \E c \in Contracts, q \in 0..MaxQty : AmendContract(c, q)
  \/ \E c \in Contracts, q \in 1..MaxQty : AddContract(c, q)
  \/ \E o \in Orders, c \in Contracts, q \in 1..MaxQty : Link(o, c, q)

ExposureStep ==
  \/ Reconcile
  \/ CreateHedgeTasks
  \/ CancelStaleTasks
  \/ \E o \in Orders : ExecuteTask(o)

PnlStep ==
  \/ \E d \in Deals : ComputeDealPnl(d)
  \/ \E k \in Commodities, p \in Prices : PriceMove(k, p)

(* Every step is of one of these kinds. *)
LEMMA StepKinds ==
  ASSUME PortfolioNext
  PROVE  \/ DealStep /\ UNCHANGED <<vars, exposureVars, price>>
         \/ BookStep
         \/ ExposureStep /\ UNCHANGED <<vars, dealVars, pnlVars>>
         \/ PnlStep /\ UNCHANGED <<vars, dealVars, exposureVars>>
<1>1. DealStep \/ BookStep \/ ExposureStep \/ PnlStep
  BY Zenon DEF PortfolioNext, DealStep, BookStep, ExposureStep, PnlStep
<1>2. DealStep => UNCHANGED <<vars, exposureVars, price>>
  BY Zenon DEF DealStep, CreateDeal, AddLink, RemoveLink, Relink
<1>3. ExposureStep => UNCHANGED <<vars, dealVars, pnlVars>>
  BY Zenon DEF ExposureStep, Reconcile, CreateHedgeTasks, CancelStaleTasks, ExecuteTask
<1>4. PnlStep => UNCHANGED <<vars, dealVars, exposureVars>>
  BY Zenon DEF PnlStep, ComputeDealPnl, PriceMove
<1> QED
  BY <1>1, <1>2, <1>3, <1>4, Zenon

(* What a step on the book does to the tables of this module: it prices     *)
(* nothing, takes no snapshot, moves no link row and no exposure.            *)
LEMMA BookStepFrame ==
  ASSUME BookStep
  PROVE  UNCHANGED <<tx, dealLinks, exposures, pending, snapshots, price>>
  BY DEF BookStep, AddOrder, ArchiveOrder, RetireContract, CloseContract, AmendContract,
     AddContract, Link, CreateOrder, CreateContract, SetContract, RecomputeDealsOf,
     dealVars, exposureVars, pnlVars

(* The rows that the steps on contracts write keep their shape. *)
LEMMA WrittenRows ==
  ASSUME NEW r \in ContractRows
  PROVE  /\ [r EXCEPT !.deleted = TRUE] \in ContractRows
         /\ Deleted(r, r.status) \in ContractRows
         /\ \A s \in Statuses : [r EXCEPT !.status = s] \in ContractRows
         /\ \A q \in 0..MaxQty : [r EXCEPT !.qty = q] \in ContractRows
  BY DEF ContractRows, Deleted, Statuses

(* A step on a contract writes one row, in one of these ways. *)
LEMMA ContractWritten ==
  ASSUME HedgeTypeOK, NEW c \in Contracts,
         \/ RetireContract(c)
         \/ CloseContract(c)
         \/ \E q \in 0..MaxQty : AmendContract(c, q)
  PROVE  /\ contracts[c].status # "absent"
         /\ UNCHANGED <<orders, linked>>
         /\ contracts' \in [Contracts -> ContractRows]
         /\ \A k \in Contracts \ {c} : contracts'[k] = contracts[k]
         /\ contracts'[c].status # "absent"
         /\ \/ contracts'[c].status = contracts[c].status
            \/ contracts'[c].status \in {"cancelled", "settled"}
         /\ contracts[c].deleted => contracts'[c].deleted
<1> DEFINE r == contracts[c]
<1>1. r \in ContractRows
  BY DEF HedgeTypeOK
<1> DEFINE Writes(w) ==
             /\ contracts' = [contracts EXCEPT ![c] = w]
             /\ UNCHANGED <<orders, linked>>
             /\ r.status # "absent"
             /\ w.status # "absent"
             /\ w.status = r.status \/ w.status \in {"cancelled", "settled"}
             /\ r.deleted => w.deleted
<1>2. PICK w \in ContractRows : Writes(w)
  <2>1. ASSUME RetireContract(c) PROVE \E w \in ContractRows : Writes(w)
    <3>1. r.status # "absent" /\ ~r.deleted
      BY <2>1 DEF RetireContract, MayRetire
    <3>2. CASE SetContract(c, [r EXCEPT !.deleted = TRUE])
      <4>1. /\ [r EXCEPT !.deleted = TRUE] \in ContractRows
            /\ [r EXCEPT !.deleted = TRUE].status = r.status
        BY <1>1, WrittenRows DEF ContractRows
      <4> QED
        BY <3>1, <3>2, <4>1 DEF SetContract
    <3>3. CASE SetContract(c, Deleted(r, r.status))
      <4>1. /\ Deleted(r, r.status) \in ContractRows
            /\ Deleted(r, r.status).status = "cancelled"
        BY <1>1, WrittenRows DEF ContractRows, Deleted
      <4> QED
        BY <3>1, <3>3, <4>1 DEF SetContract
    <3> QED
      BY <2>1, <3>2, <3>3 DEF RetireContract
  <2>2. ASSUME CloseContract(c) PROVE \E w \in ContractRows : Writes(w)
    <3>1. PICK s \in {"cancelled", "settled"} :
            SetContract(c, [r EXCEPT !.status = s]) /\ r.status # "absent"
      BY <2>2 DEF CloseContract, MayCancel, LiveContract, MaySettle
    <3>2. /\ [r EXCEPT !.status = s] \in ContractRows
          /\ [r EXCEPT !.status = s].status = s
          /\ [r EXCEPT !.status = s].deleted = r.deleted
      BY <1>1, WrittenRows DEF ContractRows, Statuses
    <3> QED
      BY <3>1, <3>2 DEF SetContract
  <2>3. ASSUME NEW q \in 0..MaxQty, AmendContract(c, q) PROVE \E w \in ContractRows : Writes(w)
    <3>1. /\ [r EXCEPT !.qty = q] \in ContractRows
          /\ [r EXCEPT !.qty = q].status = r.status
          /\ [r EXCEPT !.qty = q].deleted = r.deleted
      BY <1>1, WrittenRows DEF ContractRows
    <3> QED
      BY <2>3, <3>1 DEF AmendContract, SetContract
  <2> QED
    BY <2>1, <2>2, <2>3
<1> QED
  BY <1>2 DEF HedgeTypeOK

(* The book keeps its shape, and its contracts are as BookSound says. *)
LEMMA BookKept ==
  ASSUME HedgeTypeOK, BookSound, BookStep
  PROVE  HedgeTypeOK' /\ BookSound'
<1>1. ASSUME NEW o \in Orders, AddOrder(o) \/ ArchiveOrder(o) PROVE HedgeTypeOK' /\ BookSound'
  <2>1. UNCHANGED <<contracts, linked, ledger, tx>> /\ orders' \in [Orders -> OrderRows]
    BY <1>1 DEF AddOrder, ArchiveOrder, CreateOrder, HedgeTypeOK, OrderRows
  <2> QED
    BY <2>1 DEF HedgeTypeOK, BookSound
<1>2. ASSUME NEW c \in Contracts,
             \/ RetireContract(c)
             \/ CloseContract(c)
             \/ \E q \in 0..MaxQty : AmendContract(c, q)
      PROVE  HedgeTypeOK' /\ BookSound'
  <2>1. /\ contracts[c].status # "absent"
        /\ UNCHANGED <<orders, linked>>
        /\ contracts' \in [Contracts -> ContractRows]
        /\ \A k \in Contracts \ {c} : contracts'[k] = contracts[k]
        /\ contracts'[c].status # "absent"
        /\ \/ contracts'[c].status = contracts[c].status
           \/ contracts'[c].status \in {"cancelled", "settled"}
    BY <1>2, ContractWritten
  <2>2. ledger' \in [Events -> LedgerRows] /\ tx' = tx
    BY <1>2 DEF RetireContract, CloseContract, AmendContract, SetContract, HedgeTypeOK, LedgerRows
  <2>3. BookSound'
    BY <2>1 DEF BookSound
  <2> QED
    BY <2>1, <2>2, <2>3 DEF HedgeTypeOK
<1>3. ASSUME NEW c \in Contracts, NEW q \in 1..MaxQty, AddContract(c, q)
      PROVE  HedgeTypeOK' /\ BookSound'
  <2>1. NewContract(q) \in ContractRows /\ NewContract(q).status = "active"
    BY HedgeBookConstants DEF NewContract, ContractRows, Statuses
  <2>2. /\ UNCHANGED <<orders, linked, ledger, tx>>
        /\ contracts' = [contracts EXCEPT ![c] = NewContract(q)]
    BY <1>3 DEF AddContract, CreateContract
  <2> QED
    BY <2>1, <2>2 DEF HedgeTypeOK, BookSound
<1>4. ASSUME NEW o \in Orders, NEW c \in Contracts, NEW q \in 1..MaxQty, Link(o, c, q)
      PROVE  HedgeTypeOK' /\ BookSound'
  <2>1. /\ UNCHANGED <<orders, contracts, ledger, tx>>
        /\ contracts[c].status # "absent"
        /\ linked' = [linked EXCEPT ![<<o, c>>] = @ + q]
    BY <1>4 DEF Link, MayLink, LiveContract, AddLinkage
  <2>2. q \in Nat /\ linked[<<o, c>>] \in Nat
    BY HedgeBookConstants DEF HedgeTypeOK
  <2>3. linked' \in [Orders \X Contracts -> Nat]
    BY <2>1, <2>2 DEF HedgeTypeOK
  <2>4. \A p \in Orders, k \in Contracts : k # c => linked'[p, k] = linked[p, k]
    BY <2>1 DEF HedgeTypeOK
  <2>5. BookSound'
    BY <2>1, <2>4 DEF BookSound
  <2> QED
    BY <2>1, <2>3, <2>5 DEF HedgeTypeOK
<1> QED
  BY <1>1, <1>2, <1>3, <1>4 DEF BookStep

(* What exists stays on record; what is not live stays so, but for inserts. *)
LEMMA RowsLast ==
  ASSUME HedgeTypeOK, BookStep, NEW l \in Rows, Exists(l)
  PROVE  Exists(l)' /\ (IsLive(l, orders', contracts') => IsLive(l, orders, contracts))
<1>1. ASSUME NEW o \in Orders, AddOrder(o) \/ ArchiveOrder(o)
      PROVE  Exists(l)' /\ (IsLive(l, orders', contracts') => IsLive(l, orders, contracts))
  <2>1. UNCHANGED contracts /\ orders' \in [Orders -> OrderRows]
    BY <1>1 DEF AddOrder, ArchiveOrder, CreateOrder, HedgeTypeOK, OrderRows
  <2>2. \A p \in Orders : orders[p] # "absent" =>
          orders'[p] # "absent" /\ (orders'[p] = "live" => orders[p] = "live")
    BY <1>1 DEF AddOrder, ArchiveOrder, CreateOrder, LiveOrder, HedgeTypeOK, OrderRows
  <2> QED
    BY <2>1, <2>2, RowTyped DEF Exists, IsLive
<1>2. ASSUME NEW c \in Contracts,
             \/ RetireContract(c)
             \/ CloseContract(c)
             \/ \E q \in 0..MaxQty : AmendContract(c, q)
      PROVE  Exists(l)' /\ (IsLive(l, orders', contracts') => IsLive(l, orders, contracts))
  <2>1. /\ contracts[c].status # "absent"
        /\ orders' = orders
        /\ \A k \in Contracts \ {c} : contracts'[k] = contracts[k]
        /\ contracts'[c].status # "absent"
        /\ contracts[c].deleted => contracts'[c].deleted
    BY <1>2, ContractWritten
  <2>2. l.type \in OrderTypes \/ l.id \in Contracts
    BY RowTyped
  <2> QED
    BY <2>1, <2>2 DEF Exists, IsLive
<1>3. ASSUME NEW c \in Contracts, NEW q \in 1..MaxQty, AddContract(c, q)
      PROVE  Exists(l)' /\ (IsLive(l, orders', contracts') => IsLive(l, orders, contracts))
  <2>1. /\ orders' = orders
        /\ contracts[c].status = "absent"
        /\ \A k \in Contracts \ {c} : contracts'[k] = contracts[k]
    BY <1>3 DEF AddContract, CreateContract, HedgeTypeOK
  <2>2. l.type \in OrderTypes \/ l.id \in Contracts \ {c}
    BY <2>1, RowTyped DEF Exists
  <2> QED
    BY <2>1, <2>2 DEF Exists, IsLive
<1>4. ASSUME NEW o \in Orders, NEW c \in Contracts, NEW q \in 1..MaxQty, Link(o, c, q)
      PROVE  Exists(l)' /\ (IsLive(l, orders', contracts') => IsLive(l, orders, contracts))
  BY <1>4 DEF Link, Exists, IsLive
<1> QED
  BY <1>1, <1>2, <1>3, <1>4 DEF BookStep

(* Requests link what is on record, and it stays on record. *)
LEMMA TargetsExistKept ==
  ASSUME PortfolioTypes, TargetsExist, PortfolioNext
  PROVE  TargetsExist' /\ dealLinks' \in SUBSET Rows /\ IsFiniteSet(dealLinks')
<1>1. CASE DealStep /\ UNCHANGED vars
  <2>1. ASSUME NEW l, Exists(l) PROVE Exists(l)'
    BY <1>1, <2>1 DEF Exists, vars, book
  <2>2. ASSUME NEW t \in Targets, NEW d \in Deals, Attachable(t)
        PROVE  NewRow(d, t) \in Rows /\ Exists(NewRow(d, t))
    <3>1. NewRow(d, t).type = t[1] /\ NewRow(d, t).id = t[2] /\ NewRow(d, t) \in Rows
      BY DEF NewRow, Rows
    <3> QED
      BY <2>2, <3>1 DEF Attachable, LiveOrder, Exists
  <2>3. ASSUME NEW d \in Deals, NEW T \in SUBSET Targets, CreateDeal(d, T)
        PROVE  TargetsExist' /\ dealLinks' \in SUBSET Rows /\ IsFiniteSet(dealLinks')
    <3> DEFINE R == {NewRow(d, t) : t \in T}
    <3>1. \A l \in R : l \in Rows /\ Exists(l)
      BY <2>2, <2>3 DEF CreateDeal
    <3>2. dealLinks' = dealLinks \cup R
      BY <2>3 DEF CreateDeal, Relink
    <3>3. IsFiniteSet(R)
      BY NewRowsFinite
    <3> HIDE DEF R
    <3>4. IsFiniteSet(dealLinks')
      BY <3>2, <3>3, FS_Union DEF PortfolioTypes
    <3> QED
      BY <2>1, <3>1, <3>2, <3>4 DEF TargetsExist, PortfolioTypes
  <2>4. ASSUME NEW d \in Deals, NEW t \in Targets, AddLink(d, t)
        PROVE  TargetsExist' /\ dealLinks' \in SUBSET Rows /\ IsFiniteSet(dealLinks')
    <3>1. NewRow(d, t) \in Rows /\ Exists(NewRow(d, t))
      BY <2>2, <2>4 DEF AddLink
    <3>2. dealLinks' = dealLinks \cup {NewRow(d, t)}
      BY <2>4 DEF AddLink, Relink
    <3>3. IsFiniteSet({NewRow(d, t)})
      BY FS_Singleton
    <3>4. IsFiniteSet(dealLinks')
      BY <3>2, <3>3, FS_Union DEF PortfolioTypes
    <3> QED
      BY <2>1, <3>1, <3>2, <3>4 DEF TargetsExist, PortfolioTypes
  <2>5. ASSUME NEW d \in Deals, NEW l \in dealLinks, RemoveLink(d, l)
        PROVE  TargetsExist' /\ dealLinks' \in SUBSET Rows /\ IsFiniteSet(dealLinks')
    <3>1. dealLinks' \in SUBSET dealLinks
      BY <2>5 DEF RemoveLink, Relink
    <3>2. IsFiniteSet(dealLinks')
      BY <3>1, FS_Subset DEF PortfolioTypes
    <3> QED
      BY <2>1, <3>1, <3>2 DEF TargetsExist, PortfolioTypes
  <2> QED
    BY <1>1, <2>3, <2>4, <2>5 DEF DealStep
<1>2. CASE BookStep
  <2>1. dealLinks' = dealLinks
    BY <1>2, BookStepFrame
  <2>2. \A l \in dealLinks : Exists(l)'
    BY <1>2, RowsLast DEF PortfolioTypes, TargetsExist
  <2> QED
    BY <2>1, <2>2 DEF TargetsExist, PortfolioTypes
<1>3. CASE UNCHANGED <<vars, dealVars>>
  BY <1>3 DEF TargetsExist, Exists, PortfolioTypes, vars, book, dealVars
<1> QED
  BY <1>1, <1>2, <1>3, StepKinds, Zenon

-----------------------------------------------------------------------------
(* Deals.                                                                  *)

(* The rows of the deals that do not link x name other things. *)
LEMMA NotLinking ==
  ASSUME NEW x, NEW d \in Deals, d \notin Linking(x), NEW l \in RowsOf(d, dealLinks)
  PROVE  l.id # x
  BY DEF Linking

(* Deals keep their shape and, unless a contract was amended, their totals *)
(* are those of their rows.                                                *)
LEMMA TotalsKept ==
  ASSUME PortfolioTypes, TargetsExist, DealTotalsFresh, PortfolioNext,
         HedgeTypeOK', dealLinks' \in SUBSET Rows, IsFiniteSet(dealLinks')
  PROVE  /\ deals' \in [Deals -> DealRows]
         /\ amended' \in SUBSET Deals
         /\ DealTotalsFresh'
<1> DEFINE Goal == deals' \in [Deals -> DealRows] /\ amended' \in SUBSET Deals /\ DealTotalsFresh'
           Now(d) == Recomputed(d, dealLinks, orders, contracts)
           Then(d) == Recomputed(d, dealLinks', orders', contracts')
<1>0. \A d \in Deals : Then(d) \in DealRows
  BY RecomputedTyped DEF HedgeTypeOK
<1>a. \A d \in Deals : \A l \in RowsOf(d, dealLinks) :
        l \in Rows /\ l.deal = d /\ Exists(l)
  BY DEF RowsOf, PortfolioTypes, TargetsExist
<1>b. ASSUME deals' \in [Deals -> DealRows], amended' \in SUBSET Deals,
             \A d \in Deals : deals'[d].made /\ d \notin amended' =>
               \/ deals'[d] = Then(d)
               \/ deals[d].made /\ d \notin amended /\ deals'[d] = deals[d] /\ Then(d) = Now(d)
      PROVE  Goal
  <2>1. \A d \in Deals : deals'[d].made /\ d \notin amended' => deals'[d] = Then(d)
    BY <1>b DEF DealTotalsFresh
  <2> QED
    BY <1>b, <2>1 DEF DealTotalsFresh
<1>1. ASSUME NEW d \in Deals, NEW L, Relink(d, L),
             \A e \in Deals \ {d} : RowsOf(e, L) = RowsOf(e, dealLinks)
      PROVE  Goal
  <2>1. /\ dealLinks' = L /\ UNCHANGED vars
        /\ deals' = [deals EXCEPT ![d] = Recomputed(d, L, orders, contracts)]
        /\ amended' = amended \ {d}
    BY <1>1 DEF Relink
  <2>2. UNCHANGED <<orders, contracts>>
    BY <2>1 DEF vars, book
  <2>3. deals' = [deals EXCEPT ![d] = Then(d)]
    BY <2>1, <2>2
  <2>4. \A e \in Deals \ {d} : Then(e) = Now(e)
    <3> SUFFICES ASSUME NEW e \in Deals \ {d} PROVE Then(e) = Now(e)
      OBVIOUS
    <3>1. RowsOf(e, dealLinks') = RowsOf(e, dealLinks)
      BY <1>1, <2>1
    <3> QED
      BY <2>2, <3>1, RecomputedSame
  <2> HIDE DEF Then, Now
  <2>5. deals' \in [Deals -> DealRows] /\ amended' \in SUBSET Deals
    BY <1>0, <2>1, <2>3 DEF PortfolioTypes
  <2>6. \A e \in Deals : deals'[e] = IF e = d THEN Then(d) ELSE deals[e]
    BY <2>3 DEF PortfolioTypes
  <2> QED
    BY <1>b, <2>1, <2>4, <2>5, <2>6
<1>2. CASE DealStep
  <2>1. ASSUME NEW d \in Deals, NEW T \in SUBSET Targets, CreateDeal(d, T) PROVE Goal
    <3>1. \A e \in Deals \ {d} :
            RowsOf(e, dealLinks \cup {NewRow(d, t) : t \in T}) = RowsOf(e, dealLinks)
      BY DEF RowsOf, NewRow
    <3> QED
      BY <1>1, <2>1, <3>1 DEF CreateDeal
  <2>2. ASSUME NEW d \in Deals, NEW t \in Targets, AddLink(d, t) PROVE Goal
    <3>1. \A e \in Deals \ {d} :
            RowsOf(e, dealLinks \cup {NewRow(d, t)}) = RowsOf(e, dealLinks)
      BY DEF RowsOf, NewRow
    <3> QED
      BY <1>1, <2>2, <3>1 DEF AddLink
  <2>3. ASSUME NEW d \in Deals, NEW l \in dealLinks, RemoveLink(d, l) PROVE Goal
    <3>1. \A e \in Deals \ {d} : RowsOf(e, dealLinks \ {l}) = RowsOf(e, dealLinks)
      BY <2>3 DEF RemoveLink, RowsOf
    <3> QED
      BY <1>1, <2>3, <3>1 DEF RemoveLink
  <2> QED
    BY <1>2, <2>1, <2>2, <2>3 DEF DealStep
<1>3. ASSUME NEW x, RecomputeDealsOf(x),
             \A d \in Deals \ Linking(x) : Then(d) = Now(d)
      PROVE  Goal
  <2>1. dealLinks' = dealLinks /\ amended' = amended \ Linking(x)
    BY <1>3 DEF RecomputeDealsOf
  <2>2. deals' = [d \in Deals |-> IF d \in Linking(x) THEN Then(d) ELSE deals[d]]
    BY <1>3, <2>1 DEF RecomputeDealsOf
  <2> HIDE DEF Then, Now
  <2>3. \A d \in Deals : deals'[d] = IF d \in Linking(x) THEN Then(d) ELSE deals[d]
    BY <2>2
  <2>4. deals' \in [Deals -> DealRows] /\ amended' \in SUBSET Deals
    BY <1>0, <2>1, <2>2 DEF PortfolioTypes
  <2> QED
    BY <1>3, <1>b, <2>1, <2>3, <2>4
<1>4. ASSUME NEW A \in SUBSET Deals, UNCHANGED <<deals, dealLinks>>, amended' = amended \cup A,
             \A d \in Deals \ A : Then(d) = Now(d)
      PROVE  Goal
  <2> HIDE DEF Then, Now
  <2>1. deals' \in [Deals -> DealRows] /\ amended' \in SUBSET Deals
    BY <1>4 DEF PortfolioTypes
  <2> QED
    BY <1>4, <1>b, <2>1
<1>c. ASSUME UNCHANGED <<deals, dealLinks, amended>>, \A d \in Deals : Then(d) = Now(d)
      PROVE  Goal
  <2> HIDE DEF Then, Now
  <2>1. deals' \in [Deals -> DealRows] /\ amended' \in SUBSET Deals
    BY <1>c DEF PortfolioTypes
  <2> QED
    BY <1>b, <1>c, <2>1
(* When the rows of d are as live as before and weigh the same. *)
<1>5. ASSUME NEW d \in Deals, dealLinks' = dealLinks,
             \A l \in RowsOf(d, dealLinks) :
               /\ IsLive(l, orders', contracts') <=> IsLive(l, orders, contracts)
               /\ l.type \in HedgeTypes => contracts'[l.id].qty = contracts[l.id].qty
      PROVE  Then(d) = Now(d)
  <2>1. RowsOf(d, dealLinks') = RowsOf(d, dealLinks)
    BY <1>5
  <2> QED
    BY <1>5, <2>1, RecomputedSame
<1>6. ASSUME NEW o \in Orders, AddOrder(o) PROVE Goal
  <2>1. /\ UNCHANGED <<contracts, deals, dealLinks, amended>>
        /\ orders[o] = "absent" /\ orders' = [orders EXCEPT ![o] = "live"]
    BY <1>6 DEF AddOrder, CreateOrder, dealVars
  <2>2. ASSUME NEW d \in Deals, NEW l \in RowsOf(d, dealLinks)
        PROVE  IsLive(l, orders', contracts') <=> IsLive(l, orders, contracts)
    <3>1. l.type \in OrderTypes => orders'[l.id] = orders[l.id]
      BY <1>a, <2>1, RowTyped DEF Exists, PortfolioTypes, HedgeTypeOK
    <3> QED
      BY <2>1, <3>1 DEF IsLive
  <2>3. \A d \in Deals : Then(d) = Now(d)
    BY <1>5, <2>1, <2>2
  <2> HIDE DEF Then, Now, Goal
  <2> QED
    BY <1>c, <2>1, <2>3
<1>7. ASSUME NEW o \in Orders, ArchiveOrder(o) PROVE Goal
  <2>1. /\ contracts' = contracts /\ dealLinks' = dealLinks
        /\ RecomputeDealsOf(o) /\ orders' = [orders EXCEPT ![o] = "archived"]
    BY <1>7 DEF ArchiveOrder, RecomputeDealsOf
  <2>2. ASSUME NEW d \in Deals \ Linking(o), NEW l \in RowsOf(d, dealLinks)
        PROVE  IsLive(l, orders', contracts') <=> IsLive(l, orders, contracts)
    <3>1. l.id # o
      BY NotLinking
    <3>2. l.type \in OrderTypes => orders'[l.id] = orders[l.id]
      BY <1>a, <2>1, <3>1, RowTyped DEF PortfolioTypes, HedgeTypeOK
    <3> QED
      BY <2>1, <3>2 DEF IsLive
  <2>3. \A d \in Deals \ Linking(o) : Then(d) = Now(d)
    BY <1>5, <2>1, <2>2
  <2> QED
    BY <1>3, <2>1, <2>3
(* A step on one contract leaves the rows of other contracts alone. *)
<1>8. ASSUME NEW c \in Contracts, orders' = orders,
             \A k \in Contracts \ {c} : contracts'[k] = contracts[k],
             NEW d \in Deals, NEW l \in RowsOf(d, dealLinks), l.id # c
      PROVE  /\ IsLive(l, orders', contracts') <=> IsLive(l, orders, contracts)
             /\ l.type \in HedgeTypes => contracts'[l.id].qty = contracts[l.id].qty
  <2>1. l.type \in OrderTypes \/ contracts'[l.id] = contracts[l.id]
    BY <1>8, <1>a, RowTyped
  <2>2. l.type \in HedgeTypes => l.type \notin OrderTypes
    BY <1>a, RowTyped
  <2> QED
    BY <1>8, <2>1, <2>2 DEF IsLive
<1>9. ASSUME NEW c \in Contracts, RetireContract(c) PROVE Goal
  <2>1. /\ orders' = orders /\ dealLinks' = dealLinks /\ RecomputeDealsOf(c)
        /\ \A k \in Contracts \ {c} : contracts'[k] = contracts[k]
    BY <1>9, ContractWritten DEF RetireContract, RecomputeDealsOf, PortfolioTypes
  <2>2. \A d \in Deals \ Linking(c) : \A l \in RowsOf(d, dealLinks) : l.id # c
    BY NotLinking
  <2>3. \A d \in Deals \ Linking(c) : Then(d) = Now(d)
    BY <1>5, <1>8, <2>1, <2>2
  <2> QED
    BY <1>3, <2>1, <2>3
<1>10. ASSUME NEW c \in Contracts, CloseContract(c) PROVE Goal
  <2>1. /\ orders' = orders /\ UNCHANGED <<deals, dealLinks, amended>>
        /\ \A k \in Contracts \ {c} : contracts'[k] = contracts[k]
        /\ contracts[c].status # "absent" /\ contracts'[c].status # "absent"
    BY <1>10, ContractWritten DEF CloseContract, PortfolioTypes, dealVars
  <2>2. contracts'[c].qty = contracts[c].qty /\ contracts'[c].deleted = contracts[c].deleted
    <3>1. contracts[c] \in ContractRows
      BY DEF PortfolioTypes, HedgeTypeOK
    <3>2. PICK s : contracts' = [contracts EXCEPT ![c] = [contracts[c] EXCEPT !.status = s]]
      BY <1>10 DEF CloseContract, SetContract
    <3> QED
      BY <3>1, <3>2 DEF PortfolioTypes, HedgeTypeOK, ContractRows
  <2>3. ASSUME NEW d \in Deals, NEW l \in RowsOf(d, dealLinks), l.id = c
        PROVE  /\ IsLive(l, orders', contracts') <=> IsLive(l, orders, contracts)
               /\ l.type \in HedgeTypes => contracts'[l.id].qty = contracts[l.id].qty
    <3>1. l.type \notin OrderTypes
      BY <1>a, <2>3, RowTyped, HedgeBookConstants
    <3> QED
      BY <2>1, <2>2, <2>3, <3>1 DEF IsLive
  <2>4. \A d \in Deals : Then(d) = Now(d)
    BY <1>5, <1>8, <2>1, <2>3
  <2> HIDE DEF Then, Now, Goal
  <2> QED
    BY <1>c, <2>1, <2>4
<1>11. ASSUME NEW c \in Contracts, NEW q \in 0..MaxQty, AmendContract(c, q) PROVE Goal
  <2>1. /\ orders' = orders /\ UNCHANGED <<deals, dealLinks>>
        /\ amended' = amended \cup Linking(c)
        /\ \A k \in Contracts \ {c} : contracts'[k] = contracts[k]
    BY <1>11, ContractWritten DEF AmendContract, PortfolioTypes
  <2>2. \A d \in Deals \ Linking(c) : \A l \in RowsOf(d, dealLinks) : l.id # c
    BY NotLinking
  <2>3. \A d \in Deals \ Linking(c) : Then(d) = Now(d)
    BY <1>5, <1>8, <2>1, <2>2
  <2>4. Linking(c) \in SUBSET Deals
    BY DEF Linking
  <2> HIDE DEF Then, Now, Goal
  <2> QED
    BY <1>4, <2>1, <2>3, <2>4
<1>12. ASSUME NEW c \in Contracts, NEW q \in 1..MaxQty, AddContract(c, q) PROVE Goal
  <2>1. /\ orders' = orders /\ UNCHANGED <<deals, dealLinks, amended>>
        /\ contracts[c].status = "absent"
        /\ \A k \in Contracts \ {c} : contracts'[k] = contracts[k]
    BY <1>12 DEF AddContract, CreateContract, PortfolioTypes, HedgeTypeOK, dealVars
  <2>2. \A d \in Deals : \A l \in RowsOf(d, dealLinks) : l.id # c
    BY <1>a, <2>1, RowTyped, HedgeBookConstants DEF Exists
  <2>3. \A d \in Deals : Then(d) = Now(d)
    BY <1>5, <1>8, <2>1, <2>2
  <2> HIDE DEF Then, Now, Goal
  <2> QED
    BY <1>c, <2>1, <2>3
<1>13. ASSUME UNCHANGED <<orders, contracts, deals, dealLinks, amended>> PROVE Goal
  <2>1. \A d \in Deals : Then(d) = Now(d)
    BY <1>13
  <2> HIDE DEF Then, Now, Goal
  <2> QED
    BY <1>c, <1>13, <2>1
<1>14. CASE BookStep
  <2>1. ASSUME NEW o \in Orders, NEW c \in Contracts, NEW q \in 1..MaxQty, Link(o, c, q) PROVE Goal
    BY <1>13, <2>1 DEF Link, dealVars
  <2> HIDE DEF Goal
  <2>2. Goal
    BY <1>14, <1>6, <1>7, <1>9, <1>10, <1>11, <1>12, <2>1, Zenon DEF BookStep
  <2> QED
    BY <2>2 DEF Goal
<1>15. CASE UNCHANGED <<vars, dealVars>>
  BY <1>13, <1>15 DEF vars, book, dealVars
<1> QED
  BY <1>2, <1>14, <1>15, StepKinds, Zenon

-----------------------------------------------------------------------------
(* Exposures and tasks.                                                    *)

(* Linkages have tonnes; one that does not unhedge anything has none. *)
LEMMA LinkedTyped ==
  ASSUME HedgeTypeOK, NEW o \in Orders, NEW c \in Contracts
  PROVE  linked[o, c] \in Int /\ (~(linked[o, c] > 0) => linked[o, c] = 0)
<1>1. linked[o, c] \in Nat
  BY DEF HedgeTypeOK
<1>2. \A n \in Nat : n \in Int /\ (~(n > 0) => n = 0)
  OBVIOUS
<1> QED
  BY <1>1, <1>2, Zenon

(* An order is hedged as before when only contracts that it has no tonnes   *)
(* of begin or cease to count.                                               *)
LEMMA HedgedSame ==
  ASSUME HedgeTypeOK, NEW o \in Orders, linked' = linked,
         \A c \in Contracts : (LiveContract(c)' <=> LiveContract(c)) \/ linked[o, c] = 0
  PROVE  LinkedToOrder(o)' = LinkedToOrder(o)
<1> DEFINE f == [c \in Contracts |-> linked[o, c]]
           S == {c \in Contracts : LiveContract(c)}
           T == {c \in Contracts : LiveContract(c)'}
<1>1. LinkedToOrder(o)' = SumFunctionOnSet(f, T) /\ LinkedToOrder(o) = SumFunctionOnSet(f, S)
  BY DEF LinkedToOrder
<1>2. IsFiniteSet(S) /\ IsFiniteSet(T)
  BY HedgeBookConstants, FS_Subset
<1>3. \A c \in Contracts : f[c] \in Int
  <2>1. \A c \in Contracts : linked[o, c] \in Int
    BY LinkedTyped, Zenon
  <2>2. \A c \in Contracts : f[c] = linked[o, c]
    BY Zenon
  <2> HIDE DEF f
  <2> QED
    BY <2>1, <2>2, Zenon
<1>4. /\ S \subseteq Contracts /\ T \subseteq Contracts
      /\ \A c \in S \ (S \cap T) : f[c] = 0
      /\ \A c \in T \ (S \cap T) : f[c] = 0
  OBVIOUS
<1> HIDE DEF f, S, T
<1>a. (\A c \in S : f[c] \in Int) /\ (\A c \in T : f[c] \in Int)
  BY <1>3, <1>4
<1>5. S \cap T \in SUBSET S /\ S \cap T \in SUBSET T
  OBVIOUS
<1>6. SumFunctionOnSet(f, S) = SumFunctionOnSet(f, S \cap T)
  BY <1>2, <1>a, <1>4, <1>5, SumDropZeros
<1>7. SumFunctionOnSet(f, T) = SumFunctionOnSet(f, S \cap T)
  BY <1>2, <1>a, <1>4, <1>5, SumDropZeros
<1> QED
  BY <1>1, <1>6, <1>7

(* The row that a reconcile writes keeps the shape of exposures. *)
LEMMA ExposedTyped ==
  ASSUME HedgeTypeOK, NEW o \in ExposedOrders, Hedged(o) <= OrderQty[o]
  PROVE  Exposed(o) \in ExposureRows /\ Exposed(o).state = "live"
<1>1. Hedged(o) \in Nat /\ OrderQty[o] \in Nat
  BY LinkedNat, HedgeBookConstants DEF Hedged, SumsNat, ExposedOrders
<1>2. OrderQty[o] - Hedged(o) \in Nat
  BY <1>1
<1> QED
  BY <1>2 DEF Exposed, ExposureRows

(* When the same contracts count for o, so does what a reconcile would write. *)
LEMMA ExposedSame ==
  ASSUME NEW o \in Orders, LiveOrder(o), LiveOrder(o)', LinkedToOrder(o)' = LinkedToOrder(o)
  PROVE  Exposed(o)' = Exposed(o)
<1>1. Hedged(o)' = Hedged(o)
  BY DEF Hedged
<1> QED
  BY <1>1 DEF Exposed

(* No pending task outlives its exposure; exposures are those of floating   *)
(* orders and, as long as nothing that matters changed, up to date.          *)
LEMMA ExposuresKept ==
  ASSUME PortfolioTypes, BookSound, NoTaskForRetired, ExposedFloat, SyncedRows,
         PortfolioNext, HedgeTypeOK'
  PROVE  /\ exposures' \in [Orders -> ExposureRows]
         /\ pending' \in SUBSET Orders
         /\ synced' \in BOOLEAN
         /\ NoTaskForRetired'
         /\ ExposedFloat'
         /\ SyncedRows'
<1> DEFINE Goal == /\ exposures' \in [Orders -> ExposureRows]
                   /\ pending' \in SUBSET Orders
                   /\ synced' \in BOOLEAN
                   /\ NoTaskForRetired'
                   /\ ExposedFloat'
                   /\ SyncedRows'
(* Steps that leave the exposures themselves alone. *)
<1>1. ASSUME exposures' = exposures, pending' \in SUBSET Orders,
             \A o \in pending' : o \in pending \/ exposures[o].state = "live",
             synced' \in BOOLEAN,
             synced' => synced /\ \A o \in ExposedOrders' :
                                    o \in ExposedOrders /\ Exposed(o)' = Exposed(o)
      PROVE  Goal
  <2>1. NoTaskForRetired' /\ ExposedFloat'
    BY <1>1 DEF NoTaskForRetired, ExposedFloat
  <2>2. SyncedRows'
    BY <1>1 DEF SyncedRows
  <2> QED
    BY <1>1, <2>1, <2>2 DEF PortfolioTypes
<1>2. ASSUME UNCHANGED <<orders, contracts, linked>>, NEW o \in Orders
      PROVE  /\ o \in ExposedOrders' <=> o \in ExposedOrders
             /\ o \in ExposedOrders => Exposed(o)' = Exposed(o)
  <2>1. LinkedToOrder(o)' = LinkedToOrder(o)
    BY <1>2, HedgedSame DEF LiveContract, PortfolioTypes
  <2> QED
    BY <1>2, <2>1, ExposedSame DEF ExposedOrders, LiveOrder
<1>3. CASE UNCHANGED <<vars, exposureVars>>
  <2>1. UNCHANGED <<orders, contracts, linked, exposures, pending, synced>>
    BY <1>3 DEF vars, book, exposureVars
  <2>2. \A o \in ExposedOrders' : o \in Orders
    BY DEF ExposedOrders
  <2> QED
    BY <1>1, <1>2, <2>1, <2>2 DEF PortfolioTypes
<1>4. CASE ExposureStep /\ UNCHANGED vars
  <2>1. UNCHANGED <<orders, contracts, linked>>
    BY <1>4 DEF vars, book
  <2>2. \A o \in ExposedOrders' : o \in ExposedOrders /\ Exposed(o)' = Exposed(o)
    BY <1>2, <2>1 DEF ExposedOrders
  <2>3. ASSUME Reconcile PROVE Goal
    <3>1. \A o \in ExposedOrders : Exposed(o) \in ExposureRows /\ Exposed(o).state = "live"
      BY <2>3, ExposedTyped DEF Reconcile, PortfolioTypes
    <3>2. \A o \in Orders : [exposures[o] EXCEPT !.state = "retired"] \in ExposureRows
      BY DEF PortfolioTypes, ExposureRows
    <3>3. /\ exposures' = [o \in Orders |->
               IF o \in ExposedOrders THEN Exposed(o)
               ELSE IF o \in Orphans THEN [exposures[o] EXCEPT !.state = "retired"]
               ELSE exposures[o]]
          /\ pending' = pending \ Orphans
          /\ synced' = TRUE
      BY <2>3 DEF Reconcile
    <3>4. exposures' \in [Orders -> ExposureRows] /\ pending' \in SUBSET Orders
      BY <3>1, <3>2, <3>3 DEF PortfolioTypes
    <3>5. NoTaskForRetired'
      BY <3>1, <3>3 DEF NoTaskForRetired, PortfolioTypes
    <3>6. ExposedFloat'
      <4>1. \A o \in ExposedOrders : PriceType[o] = "variable"
        BY DEF ExposedOrders
      <4>2. \A o \in Orders : [exposures[o] EXCEPT !.state = "retired"].state = "retired"
        BY DEF PortfolioTypes, ExposureRows
      <4> QED
        BY <3>3, <4>1, <4>2 DEF ExposedFloat
    <3>7. SyncedRows'
      <4>1. \A o \in ExposedOrders : exposures'[o] = Exposed(o)
        BY <3>3 DEF ExposedOrders
      <4> QED
        BY <2>2, <4>1 DEF SyncedRows
    <3> QED
      BY <3>3, <3>4, <3>5, <3>6, <3>7
  <2>4. ASSUME CreateHedgeTasks PROVE Goal
    <3>1. UNCHANGED <<exposures, synced>> /\ pending' \in SUBSET Orders
      BY <2>4 DEF CreateHedgeTasks, PortfolioTypes
    <3>2. \A o \in pending' : o \in pending \/ exposures[o].state = "live"
      BY <2>4 DEF CreateHedgeTasks
    <3> HIDE DEF Goal
    <3> QED
      BY <1>1, <2>2, <3>1, <3>2 DEF PortfolioTypes
  <2>5. ASSUME CancelStaleTasks \/ \E o \in Orders : ExecuteTask(o) PROVE Goal
    <3>1. UNCHANGED <<exposures, synced>> /\ pending' \in SUBSET pending
      BY <2>5 DEF CancelStaleTasks, ExecuteTask
    <3>2. pending' \in SUBSET Orders /\ \A o \in pending' : o \in pending
      BY <3>1 DEF PortfolioTypes
    <3> HIDE DEF Goal
    <3> QED
      BY <1>1, <2>2, <3>1, <3>2 DEF PortfolioTypes
  <2> QED
    BY <1>4, <2>3, <2>4, <2>5 DEF ExposureStep
<1>5. CASE BookStep
  <2>1. UNCHANGED <<exposures, pending>>
    BY <1>5, BookStepFrame
  <2>2. ASSUME synced' \in BOOLEAN,
               synced' => synced /\ \A o \in ExposedOrders' :
                                      o \in ExposedOrders /\ Exposed(o)' = Exposed(o)
        PROVE  Goal
    <3> HIDE DEF Goal
    <3> QED
      BY <1>1, <2>1, <2>2 DEF PortfolioTypes
  <2>3. ASSUME \/ \E o \in Orders : AddOrder(o)
               \/ \E o \in Orders, c \in Contracts, q \in 1..MaxQty : Link(o, c, q)
        PROVE  Goal
    <3>1. synced' = FALSE
      BY <2>3 DEF AddOrder, Link
    <3> HIDE DEF Goal
    <3> QED
      BY <2>2, <3>1
  <2>4. ASSUME NEW o \in Orders, ArchiveOrder(o) PROVE Goal
    <3>1. /\ UNCHANGED <<contracts, linked, synced>>
          /\ orders' = [orders EXCEPT ![o] = "archived"]
      BY <2>4 DEF ArchiveOrder, exposureVars
    <3>2. \A p \in ExposedOrders' :
            p \in Orders /\ LiveOrder(p)' /\ LiveOrder(p) /\ p \in ExposedOrders
      BY <3>1 DEF ExposedOrders, LiveOrder, PortfolioTypes, HedgeTypeOK
    <3>3. \A p \in Orders : LinkedToOrder(p)' = LinkedToOrder(p)
      BY <3>1, HedgedSame DEF LiveContract, PortfolioTypes
    <3>4. \A p \in ExposedOrders' : Exposed(p)' = Exposed(p)
      BY <3>2, <3>3, ExposedSame
    <3> HIDE DEF Goal
    <3> QED
      BY <2>2, <3>1, <3>2, <3>4 DEF PortfolioTypes
  (* Contracts that live orders have no tonnes of. *)
  <2>5. ASSUME UNCHANGED <<orders, linked>>, synced' \in BOOLEAN, synced' => synced,
               synced' => \A p \in Orders : LiveOrder(p) =>
                 \A k \in Contracts : (LiveContract(k)' <=> LiveContract(k)) \/ linked[p, k] = 0
        PROVE  Goal
    <3> SUFFICES ASSUME synced'
                 PROVE  \A p \in ExposedOrders' : p \in ExposedOrders /\ Exposed(p)' = Exposed(p)
      <4> HIDE DEF Goal
      <4> QED
        BY <2>2, <2>5
    <3>1. \A p \in ExposedOrders' :
            p \in Orders /\ LiveOrder(p)' /\ LiveOrder(p) /\ p \in ExposedOrders
      BY <2>5 DEF ExposedOrders, LiveOrder
    <3>2. \A p \in ExposedOrders' : LinkedToOrder(p)' = LinkedToOrder(p)
      BY <2>5, <3>1, HedgedSame DEF PortfolioTypes
    <3> QED
      BY <3>1, <3>2, ExposedSame
  <2>6. ASSUME NEW c \in Contracts, RetireContract(c) \/ CloseContract(c) PROVE Goal
    <3>1. /\ UNCHANGED <<orders, linked>>
          /\ \A k \in Contracts \ {c} : contracts'[k] = contracts[k]
      BY <2>6, ContractWritten DEF PortfolioTypes
    <3>2. synced' = (synced /\ ~Unhedges(c))
      BY <2>6 DEF RetireContract, CloseContract
    <3>3. \A k \in Contracts \ {c} : LiveContract(k)' <=> LiveContract(k)
      BY <3>1 DEF LiveContract
    <3>4. \A p \in Orders : ~(linked[p, c] > 0) => linked[p, c] = 0
      BY LinkedTyped DEF PortfolioTypes
    <3>5. ~Unhedges(c) => \A p \in Orders : LiveOrder(p) => linked[p, c] = 0
      <4> SUFFICES ASSUME ~Unhedges(c), NEW p \in Orders, LiveOrder(p) PROVE linked[p, c] = 0
        OBVIOUS
      <4>1. ~(linked[p, c] > 0)
        BY Zenon DEF Unhedges
      <4> QED
        BY <3>4, <4>1, Zenon
    <3> HIDE DEF Goal
    <3>6. synced' \in BOOLEAN /\ (synced' => synced) /\ (synced' => ~Unhedges(c))
      BY <3>2, Zenon DEF PortfolioTypes
    <3> QED
      BY <2>5, <3>1, <3>3, <3>5, <3>6
  <2>7. ASSUME NEW c \in Contracts, NEW q \in 0..MaxQty, AmendContract(c, q) PROVE Goal
    <3>1. /\ UNCHANGED <<orders, linked, synced>>
          /\ contracts' = [contracts EXCEPT ![c] = [contracts[c] EXCEPT !.qty = q]]
      BY <2>7 DEF AmendContract, SetContract, exposureVars
    <3>2. \A k \in Contracts : LiveContract(k)' <=> LiveContract(k)
      BY <3>1 DEF LiveContract, PortfolioTypes, HedgeTypeOK, ContractRows
    <3> HIDE DEF Goal
    <3> QED
      BY <2>5, <3>1, <3>2 DEF PortfolioTypes
  <2>8. ASSUME NEW c \in Contracts, NEW q \in 1..MaxQty, AddContract(c, q) PROVE Goal
    <3>1. /\ UNCHANGED <<orders, linked, synced>>
          /\ contracts[c].status = "absent"
          /\ \A k \in Contracts \ {c} : contracts'[k] = contracts[k]
      BY <2>8 DEF AddContract, CreateContract, exposureVars, PortfolioTypes, HedgeTypeOK
    <3>2. \A p \in Orders : linked[p, c] = 0
      BY <3>1 DEF BookSound
    <3>3. \A k \in Contracts \ {c} : LiveContract(k)' <=> LiveContract(k)
      BY <3>1 DEF LiveContract
    <3> HIDE DEF Goal
    <3> QED
      BY <2>5, <3>1, <3>2, <3>3 DEF PortfolioTypes
  <2> HIDE DEF Goal
  <2>9. Goal
    BY <1>5, <2>3, <2>4, <2>6, <2>7, <2>8, Zenon DEF BookStep
  <2> QED
    BY <2>9 DEF Goal
<1> QED
  BY <1>3, <1>4, <1>5, StepKinds, Zenon

-----------------------------------------------------------------------------
(* P&L snapshots.                                                          *)

(* The tonnes that are open now. *)
OpenNow == [c \in Contracts |-> OpenTonnes(c)]

LEMMA OpenNowTyped ==
  ASSUME HedgeTypeOK
  PROVE  OpenNow \in [Contracts -> Nat]
<1>1. \A c \in Contracts : contracts[c].qty \in Nat
  BY HedgeBookConstants DEF HedgeTypeOK, ContractRows
<1> QED
  BY <1>1 DEF OpenNow, OpenTonnes

(* Factors of what a row is worth. *)
LEMMA Factors ==
  ASSUME NEW l \in Rows, NEW P \in [Commodities -> Prices]
  PROVE  P[Commodity[l.id]] \in Int /\ EntryPrice[l.id] \in Int /\ \A b : Sign(b) \in Int
<1>1. l.id \in Orders \cup Contracts
  BY RowTyped DEF OrderTypes, HedgeTypes
<1>2. Commodity[l.id] \in Commodities
  BY <1>1 DEF Commodities
<1>3. P[Commodity[l.id]] \in Nat /\ EntryPrice[l.id] \in Nat
  BY <1>1, <1>2, PortfolioConstants
<1> QED
  BY <1>3 DEF Sign

(* A row is worth a whole amount, *)
LEMMA WorthInt ==
  ASSUME NEW l \in Rows, NEW P \in [Commodities -> Prices], NEW T \in [Contracts -> Nat]
  PROVE  WorthAt(l, P, T) \in Int
<1>1. P[Commodity[l.id]] \in Int /\ EntryPrice[l.id] \in Int /\ \A b : Sign(b) \in Int
  BY Factors
<1>2. CASE l.type \in OrderTypes
  <2>1. OrderQty[l.id] \in Int
    BY <1>2, RowTyped, HedgeBookConstants
  <2> DEFINE s == Sign(l.type = "sales_order")
             q == OrderQty[l.id]
             p == IF PriceType[l.id] = "fixed" THEN EntryPrice[l.id] ELSE P[Commodity[l.id]]
  <2>2. s \in Int /\ q \in Int /\ p \in Int
    BY <1>1, <2>1
  <2>3. WorthAt(l, P, T) = s * q * p
    BY <1>2 DEF WorthAt
  <2> HIDE DEF s, q, p
  <2>4. s * q * p \in Int
    BY <2>2
  <2> QED
    BY <2>3, <2>4
<1>3. CASE l.type \notin OrderTypes
  <2>1. T[l.id] \in Int
    BY <1>3, RowTyped
  <2> DEFINE s == Sign(Classification[l.id] = "short")
             q == T[l.id]
             e == EntryPrice[l.id]
             p == P[Commodity[l.id]]
  <2>2. s \in Int /\ q \in Int /\ e \in Int /\ p \in Int
    BY <1>1, <2>1
  <2>3. WorthAt(l, P, T) = s * q * (e - p)
    BY <1>3 DEF WorthAt
  <2> HIDE DEF s, q, e, p
  <2>4. s * q * (e - p) \in Int
    BY <2>2
  <2> QED
    BY <2>3, <2>4
<1> QED
  BY <1>2, <1>3

(* and a set of rows too. *)
LEMMA SumAtInt ==
  ASSUME NEW L \in SUBSET Rows, IsFiniteSet(L), NEW P \in [Commodities -> Prices],
         NEW T \in [Contracts -> Nat]
  PROVE  SumAt(L, P, T) \in Int
<1> DEFINE f == [l \in L |-> WorthAt(l, P, T)]
<1>1. \A l \in L : f[l] \in Int
  BY WorthInt
<1> HIDE DEF f
<1>2. SumFunctionOnSet(f, L) \in Int
  BY <1>1, SumInt
<1> QED
  BY <1>2 DEF SumAt, f

(* A hedge with nothing open is worth nothing at any price. *)
LEMMA NothingOpen ==
  ASSUME NEW l \in Rows, l.type \notin OrderTypes, NEW P \in [Commodities -> Prices],
         NEW T, T[l.id] = 0
  PROVE  WorthAt(l, P, T) = 0
<1> DEFINE s == Sign(Classification[l.id] = "short")
           e == EntryPrice[l.id]
           p == P[Commodity[l.id]]
<1>1. s \in Int /\ e \in Int /\ p \in Int
  BY Factors
<1>2. WorthAt(l, P, T) = s * 0 * (e - p)
  BY DEF WorthAt
<1> HIDE DEF s, e, p
<1>3. s * 0 * (e - p) = 0
  BY <1>1
<1> QED
  BY <1>2, <1>3

(* What rows are worth depends on the prices of those that take one. *)
LEMMA PricesDecide ==
  ASSUME NEW L \in SUBSET Rows, NEW T, NEW P \in [Commodities -> Prices],
         NEW Q \in [Commodities -> Prices],
         \A l \in L : Priced(l, T) => P[Commodity[l.id]] = Q[Commodity[l.id]]
  PROVE  SumAt(L, P, T) = SumAt(L, Q, T)
<1>1. ASSUME NEW l \in L PROVE WorthAt(l, P, T) = WorthAt(l, Q, T)
  <2>1. CASE Priced(l, T)
    <3>1. P[Commodity[l.id]] = Q[Commodity[l.id]]
      BY <2>1
    <3> QED
      BY <3>1, Zenon DEF WorthAt
  <2>2. CASE ~Priced(l, T) /\ l.type \in OrderTypes
    <3>1. PriceType[l.id] = "fixed"
      BY <2>2, RowTyped, HedgeBookConstants DEF Priced
    <3> QED
      BY <2>2, <3>1 DEF WorthAt
  <2>3. CASE ~Priced(l, T) /\ l.type \notin OrderTypes
    <3>1. T[l.id] = 0
      BY <2>3 DEF Priced
    <3>2. WorthAt(l, P, T) = 0 /\ WorthAt(l, Q, T) = 0
      BY <2>3, <3>1, NothingOpen
    <3> QED
      BY <3>2
  <2> QED
    BY <2>1, <2>2, <2>3
<1>2. [l \in L |-> WorthAt(l, P, T)] = [l \in L |-> WorthAt(l, Q, T)]
  BY <1>1
<1> QED
  BY <1>2, Zenon DEF SumAt

(* The P&L of a deal in these terms; its inputs have the prices it takes. *)
LEMMA PnlIsSum ==
  ASSUME PortfolioTypes, NEW d
  PROVE  LET live == LiveRows(d, dealLinks, orders, contracts)
         IN  /\ TotalPnl(d) = SumAt(live, price, OpenNow)
             /\ \A l \in live : Priced(l, OpenNow) => Commodity[l.id] \in NeedsPrice(d)
<1> DEFINE live == LiveRows(d, dealLinks, orders, contracts)
<1>0. live = LiveRows(d, dealLinks, orders, contracts)
  OBVIOUS
<1>1. live \in SUBSET Rows
  BY LiveRowsTyped DEF PortfolioTypes
<1>2. price \in [Commodities -> Prices]
  BY DEF PortfolioTypes
<1> HIDE DEF live
<1>3. ASSUME NEW l \in live
      PROVE  (IF l.type \in OrderTypes THEN OrderValue(l) ELSE Mtm(l.id)) = WorthAt(l, price, OpenNow)
  <2>1. CASE l.type \in OrderTypes
    BY <2>1, Zenon DEF OrderValue, WorthAt
  <2>2. CASE l.type \notin OrderTypes
    <3>1. OpenNow[l.id] = OpenTonnes(l.id)
      BY <1>1, <2>2, RowTyped DEF OpenNow
    <3>2. CASE OpenForMtm(l.id)
      <4>1. OpenNow[l.id] = contracts[l.id].qty
        BY <3>1, <3>2 DEF OpenTonnes
      <4> QED
        BY <2>2, <3>2, <4>1, Zenon DEF Mtm, WorthAt
    <3>3. CASE ~OpenForMtm(l.id)
      <4>1. OpenNow[l.id] = 0
        BY <3>1, <3>3 DEF OpenTonnes
      <4>2. WorthAt(l, price, OpenNow) = 0
        BY <1>1, <1>2, <2>2, <4>1, NothingOpen
      <4>3. Mtm(l.id) = 0
        BY <3>3 DEF Mtm
      <4> QED
        BY <2>2, <4>2, <4>3
    <3> QED
      BY <3>2, <3>3
  <2> QED
    BY <2>1, <2>2
<1>4. TotalPnl(d) = SumAt(live, price, OpenNow)
  <2>1. [l \in live |-> IF l.type \in OrderTypes THEN OrderValue(l) ELSE Mtm(l.id)]
          = [l \in live |-> WorthAt(l, price, OpenNow)]
    BY <1>3, Zenon
  <2> QED
    BY <1>0, <2>1, Zenon DEF TotalPnl, SumAt
<1>5. ASSUME NEW l \in live, Priced(l, OpenNow) PROVE Commodity[l.id] \in NeedsPrice(d)
  <2>1. IF l.type \in OrderTypes THEN PriceType[l.id] = "variable" ELSE OpenForMtm(l.id)
    <3>1. CASE l.type \in OrderTypes
      BY <1>5, <3>1 DEF Priced
    <3>2. CASE l.type \notin OrderTypes
      <4>1. OpenNow[l.id] = OpenTonnes(l.id) /\ OpenNow[l.id] # 0
        BY <1>1, <1>5, <3>2, RowTyped DEF OpenNow, Priced
      <4> QED
        BY <3>2, <4>1 DEF OpenTonnes
    <3> QED
      BY <3>1, <3>2
  <2> QED
    BY <1>0, <2>1, Zenon DEF NeedsPrice
<1> QED
  BY <1>0, <1>4, <1>5, Zenon

(* The row that compute_deal_pnl writes has the shape of one, and is sound. *)
LEMMA NewSnapshot ==
  ASSUME PortfolioTypes, NEW d \in Deals
  PROVE  SnapshotRow(d) \in SnapshotRows /\ SnapshotSound(SnapshotRow(d))
<1> DEFINE live == LiveRows(d, dealLinks, orders, contracts)
           needs == NeedsPrice(d)
           quotes == {<<k, price[k]>> : k \in needs}
           in == [deal |-> d, links |-> live, prices |-> quotes]
<1>1. live \in SUBSET Rows /\ IsFiniteSet(live)
  <2>1. live \in SUBSET dealLinks /\ IsFiniteSet(live)
    BY LiveRowsTyped DEF PortfolioTypes
  <2> QED
    BY <2>1 DEF PortfolioTypes
<1>2. /\ TotalPnl(d) = SumAt(live, price, OpenNow)
      /\ \A l \in live : Priced(l, OpenNow) => Commodity[l.id] \in needs
  BY PnlIsSum, Zenon
<1>3. SnapshotRow(d) = [inputs |-> in, pnl |-> TotalPnl(d), seen |-> OpenNow]
  BY Zenon DEF SnapshotRow, Inputs, OpenNow
<1>4. needs \subseteq Commodities
  <2>1. \A l \in live : Commodity[l.id] \in Commodities
    <3> HIDE DEF live
    <3> QED
      BY <1>1, RowTyped DEF Commodities, OrderTypes, HedgeTypes
  <2> QED
    BY <2>1 DEF NeedsPrice
<1> HIDE DEF live, needs
<1>5. price \in [Commodities -> Prices] /\ OpenNow \in [Contracts -> Nat]
  BY OpenNowTyped DEF PortfolioTypes
<1>6. TotalPnl(d) \in Int
  BY <1>1, <1>2, <1>5, SumAtInt
<1>7. quotes \in SUBSET (Commodities \X Prices)
  BY <1>4, <1>5
<1>8. \A l \in live : Priced(l, OpenNow) => <<Commodity[l.id], price[Commodity[l.id]]>> \in quotes
  BY <1>2
<1> HIDE DEF quotes
<1>9. PICK row : row = SnapshotRow(d)
  OBVIOUS
<1>10. row = [inputs |-> in, pnl |-> TotalPnl(d), seen |-> OpenNow]
  BY <1>3, <1>9
<1>11. row \in SnapshotRows
  BY <1>1, <1>5, <1>6, <1>7, <1>10 DEF SnapshotRows
<1>12. /\ row.inputs.links = live /\ row.inputs.prices = quotes
       /\ row.seen = OpenNow /\ row.pnl = SumAt(live, price, OpenNow)
  BY <1>2, <1>10
<1>13. SnapshotSound(row)
  BY <1>5, <1>8, <1>12, Zenon DEF SnapshotSound
<1> QED
  BY <1>9, <1>11, <1>13

(* Snapshots keep their shape and stay sound: the table only gains the row   *)
(* that compute_deal_pnl writes.                                              *)
LEMMA SnapshotsKept ==
  ASSUME PortfolioTypes, SnapshotsSound, PortfolioNext
  PROVE  /\ snapshots' \in SUBSET SnapshotRows
         /\ price' \in [Commodities -> Prices]
         /\ SnapshotsSound'
<1>1. ASSUME NEW snap \in snapshots PROVE snap \in SnapshotRows /\ SnapshotSound(snap)
  BY DEF PortfolioTypes, SnapshotsSound
<1>2. \/ snapshots' \subseteq snapshots
      \/ \E d \in Deals : snapshots' = snapshots \cup {SnapshotRow(d)}
  <2>1. CASE DealStep
    BY <2>1 DEF DealStep, CreateDeal, AddLink, RemoveLink
  <2>2. CASE BookStep
    BY <2>2, BookStepFrame
  <2>3. CASE UNCHANGED <<vars, dealVars, pnlVars>>
    BY <2>3 DEF pnlVars
  <2>4. CASE PnlStep
    BY <2>4, Zenon DEF PnlStep, ComputeDealPnl, PriceMove
  <2> QED
    BY <2>1, <2>2, <2>3, <2>4, StepKinds, Zenon
<1>3. price' \in [Commodities -> Prices]
  <2>1. CASE UNCHANGED price
    BY <2>1 DEF PortfolioTypes
  <2>2. CASE PnlStep
    <3>1. ASSUME NEW k \in Commodities, NEW p \in Prices, PriceMove(k, p)
          PROVE  price' \in [Commodities -> Prices]
      BY <3>1 DEF PriceMove, PortfolioTypes
    <3>2. ASSUME NEW d \in Deals, ComputeDealPnl(d) PROVE UNCHANGED price
      BY <3>2 DEF ComputeDealPnl
    <3> QED
      BY <2>1, <2>2, <3>1, <3>2 DEF PnlStep
  <2>3. CASE BookStep
    BY <2>1, <2>3, BookStepFrame
  <2>4. CASE UNCHANGED <<vars, dealVars, pnlVars>>
    BY <2>1, <2>4 DEF pnlVars
  <2> QED
    BY <2>1, <2>2, <2>3, <2>4, StepKinds, Zenon
<1>4. \A snap \in snapshots' : snap \in SnapshotRows /\ SnapshotSound(snap)
  <2>1. CASE snapshots' \subseteq snapshots
    BY <1>1, <2>1
  <2>2. ASSUME NEW d \in Deals, snapshots' = snapshots \cup {SnapshotRow(d)}
        PROVE  \A snap \in snapshots' : snap \in SnapshotRows /\ SnapshotSound(snap)
    <3>1. PICK row : row = SnapshotRow(d)
      OBVIOUS
    <3>2. row \in SnapshotRows /\ SnapshotSound(row)
      BY <3>1, NewSnapshot, Zenon
    <3> QED
      BY <1>1, <2>2, <3>1, <3>2
  <2> QED
    BY <1>2, <2>1, <2>2
<1>5. SnapshotsSound'
  BY <1>4, Zenon DEF SnapshotsSound, SnapshotSound
<1> QED
  BY <1>3, <1>4, <1>5

-----------------------------------------------------------------------------
(* The invariant.                                                          *)

(* It holds of the empty portfolio. *)
LEMMA PortfolioInitInv == PortfolioInit => PortfolioInv
<1> SUFFICES ASSUME PortfolioInit PROVE PortfolioInv
  OBVIOUS
<1>1. HedgeTypeOK
  BY HedgeInitInv DEF PortfolioInit, HedgeInv
<1>2. PortfolioTypes
  <2>1. NoExposure \in ExposureRows
    BY DEF NoExposure, ExposureRows
  <2>2. [made |-> FALSE, physical |-> 0, hedge |-> 0, status |-> "open"] \in DealRows
    BY DEF DealRows
  <2>3. IsFiniteSet({})
    BY FS_EmptySet
  <2> QED
    BY <1>1, <2>1, <2>2, <2>3 DEF PortfolioInit, PortfolioTypes
<1>3. TargetsExist /\ NoTaskForRetired /\ SnapshotsSound
  BY DEF PortfolioInit, TargetsExist, NoTaskForRetired, SnapshotsSound
<1>4. BookSound
  BY DEF PortfolioInit, HedgeInit, BookSound
<1>5. ExposedFloat /\ SyncedRows
  BY DEF PortfolioInit, ExposedFloat, SyncedRows, NoExposure
<1>6. DealTotalsFresh
  BY DEF PortfolioInit, DealTotalsFresh
<1> QED
  BY <1>2, <1>3, <1>4, <1>5, <1>6 DEF PortfolioInv

(* Every step keeps it. *)
LEMMA PortfolioNextInv == PortfolioInv /\ [PortfolioNext]_portfolioVars => PortfolioInv'
<1>1. ASSUME PortfolioInv, PortfolioNext PROVE PortfolioInv'
  <2> USE <1>1 DEF PortfolioInv
  <2>1. HedgeTypeOK' /\ BookSound'
    <3>1. CASE BookStep
      BY <3>1, BookKept DEF PortfolioTypes
    <3>2. CASE UNCHANGED vars
      BY <3>2 DEF vars, book, HedgeTypeOK, BookSound, PortfolioTypes
    <3> QED
      BY <3>1, <3>2, StepKinds, Zenon
  <2>2. TargetsExist' /\ dealLinks' \in SUBSET Rows /\ IsFiniteSet(dealLinks')
    BY TargetsExistKept
  <2>3. deals' \in [Deals -> DealRows] /\ amended' \in SUBSET Deals /\ DealTotalsFresh'
    BY <2>1, <2>2, TotalsKept
  <2>4. /\ exposures' \in [Orders -> ExposureRows]
        /\ pending' \in SUBSET Orders
        /\ synced' \in BOOLEAN
        /\ NoTaskForRetired'
        /\ ExposedFloat'
        /\ SyncedRows'
    BY <2>1, ExposuresKept
  <2>5. /\ snapshots' \in SUBSET SnapshotRows
        /\ price' \in [Commodities -> Prices]
        /\ SnapshotsSound'
    BY SnapshotsKept
  <2>6. PortfolioTypes'
    BY <2>1, <2>2, <2>3, <2>4, <2>5 DEF PortfolioTypes
  <2> QED
    BY <2>1, <2>2, <2>3, <2>4, <2>5, <2>6 DEF PortfolioInv
<1>2. ASSUME PortfolioInv, UNCHANGED portfolioVars PROVE PortfolioInv'
  <2>1. /\ UNCHANGED <<orders, contracts, linked, ledger, tx>>
        /\ UNCHANGED <<deals, dealLinks, amended, exposures, pending, synced>>
        /\ UNCHANGED <<snapshots, price>>
    BY <1>2 DEF portfolioVars, vars, book, dealVars, exposureVars, pnlVars
  <2>2. PortfolioTypes' /\ TargetsExist' /\ BookSound' /\ NoTaskForRetired' /\ ExposedFloat'
    BY <1>2, <2>1 DEF PortfolioInv, PortfolioTypes, HedgeTypeOK, TargetsExist, Exists, BookSound,
       NoTaskForRetired, ExposedFloat
  <2>3. DealTotalsFresh'
    BY <1>2, <2>1 DEF PortfolioInv, DealTotalsFresh
  <2>4. SyncedRows'
    <3>1. \A o \in Orders : LinkedToOrder(o)' = LinkedToOrder(o)
      BY <1>2, <2>1, HedgedSame DEF LiveContract, PortfolioInv, PortfolioTypes
    <3>2. \A o \in ExposedOrders' : o \in ExposedOrders /\ Exposed(o)' = Exposed(o)
      BY <2>1, <3>1, ExposedSame DEF ExposedOrders, LiveOrder
    <3> QED
      BY <1>2, <2>1, <3>2 DEF PortfolioInv, SyncedRows
  <2>5. SnapshotsSound'
    BY <1>2, <2>1 DEF PortfolioInv, SnapshotsSound, SnapshotSound
  <2> QED
    BY <2>2, <2>3, <2>4, <2>5 DEF PortfolioInv
<1> QED
  BY <1>1, <1>2

(* The inductive invariant holds of every reachable portfolio. *)
THEOREM PortfolioInvHolds == PortfolioSpec => []PortfolioInv
  BY PortfolioInitInv, PortfolioNextInv, PTL DEF PortfolioSpec

(* The stored totals of deals are fresh, for any number of deals over any   *)
(* book (deal_engine.py _recompute_tons and its callers).                   *)
THEOREM DealTotalsFreshHolds == PortfolioSpec => []DealTotalsFresh
<1>1. PortfolioInv => DealTotalsFresh
  BY DEF PortfolioInv
<1> QED
  BY <1>1, PortfolioInvHolds, PTL

(* No task is pending for an exposure that was retired (exposure_engine.py  *)
(* reconcile_from_orders, execute_task).                                    *)
THEOREM NoTaskForRetiredHolds == PortfolioSpec => []NoTaskForRetired
<1>1. PortfolioInv => NoTaskForRetired
  BY DEF PortfolioInv
<1> QED
  BY <1>1, PortfolioInvHolds, PTL

(* A snapshot found by its hash is the P&L of the rows that are live in the *)
(* deal, at the prices of now, with the tonnes open at its computation: the *)
(* row ids and prices in the hash decide the rest (deal_engine.py            *)
(* compute_deal_pnl).                                                        *)
THEOREM ReusedPnlIsCurrentHolds == PortfolioSpec => []ReusedPnlIsCurrent
<1>1. PortfolioInv => ReusedPnlIsCurrent
  <2> DEFINE live(snap) == LiveRows(snap.inputs.deal, dealLinks, orders, contracts)
  <2> SUFFICES ASSUME PortfolioInv, NEW snap \in snapshots, Reusable(snap)
               PROVE  snap.pnl = PnlOver(live(snap), snap.seen)
    BY DEF ReusedPnlIsCurrent
  <2>1. PICK L : L = live(snap)
    OBVIOUS
  <2>2. PICK N : N = NeedsPrice(snap.inputs.deal)
    OBVIOUS
  <2>3. snap.inputs.links = L /\ snap.inputs.prices = {<<k, price[k]>> : k \in N}
    <3>1. Inputs(snap.inputs.deal)
            = [deal |-> snap.inputs.deal, links |-> L, prices |-> {<<k, price[k]>> : k \in N}]
      BY <2>1, <2>2, Zenon DEF Inputs
    <3> HIDE DEF live
    <3> QED
      BY <3>1 DEF Reusable
  <2>4. L \in SUBSET Rows /\ price \in [Commodities -> Prices]
    BY <2>1, LiveRowsTyped DEF PortfolioInv, PortfolioTypes
  <2>5. PICK P \in [Commodities -> Prices] :
          /\ \A l \in L : Priced(l, snap.seen) =>
               <<Commodity[l.id], P[Commodity[l.id]]>> \in snap.inputs.prices
          /\ snap.pnl = SumAt(L, P, snap.seen)
    BY <2>3, Zenon DEF PortfolioInv, SnapshotsSound, SnapshotSound
  <2>6. \A l \in L : Priced(l, snap.seen) => P[Commodity[l.id]] = price[Commodity[l.id]]
    BY <2>3, <2>5
  <2>7. SumAt(L, P, snap.seen) = SumAt(L, price, snap.seen)
    BY <2>4, <2>6, PricesDecide
  <2>8. SumAt(L, price, snap.seen) = PnlOver(L, snap.seen)
    BY Zenon DEF SumAt, WorthAt, PnlOver, OrderValue
  <2> QED
    BY <2>1, <2>5, <2>7, <2>8, Zenon
<1> QED
  BY <1>1, PortfolioInvHolds, PTL

-----------------------------------------------------------------------------
(* Net exposure.                                                           *)

(* The signed tonnes of contracts and of exposures are integers. *)
LEMMA SignedTonnes ==
  ASSUME HedgeTypeOK
  PROVE  /\ \A c \in Contracts : Unlinked(c) \in Int
         /\ \A o \in Orders : /\ Sign(OrderType[o] = "SO") * (OrderQty[o] - Hedged(o)) \in Int
                              /\ OrderQty[o] = Hedged(o) =>
                                   Sign(OrderType[o] = "SO") * (OrderQty[o] - Hedged(o)) = 0
<1>1. \A b : Sign(b) \in Int
  BY DEF Sign
<1>2. \A i, j, k \in Int : i * (j - k) \in Int /\ (j = k => i * (j - k) = 0)
  OBVIOUS
<1>3. \A c \in Contracts : contracts[c].qty \in Int /\ LinkedToContract(c) \in Int
  <2>1. \A c \in Contracts : contracts[c].qty \in Int
    BY HedgeBookConstants DEF HedgeTypeOK, ContractRows
  <2>2. \A c \in Contracts : LinkedToContract(c) \in Nat
    BY LinkedNat DEF SumsNat
  <2> QED
    BY <2>1, <2>2
<1>4. \A o \in Orders : OrderQty[o] \in Int /\ Hedged(o) \in Int
  <2>1. \A o \in Orders : OrderQty[o] \in Nat
    BY HedgeBookConstants
  <2>2. \A o \in Orders : LinkedToOrder(o) \in Nat
    BY LinkedNat DEF SumsNat
  <2> QED
    BY <2>1, <2>2 DEF Hedged
<1>5. \A c \in Contracts : Unlinked(c) \in Int
  BY <1>1, <1>2, <1>3, Zenon DEF Unlinked
<1>6. \A o \in Orders : /\ Sign(OrderType[o] = "SO") * (OrderQty[o] - Hedged(o)) \in Int
                        /\ OrderQty[o] = Hedged(o) =>
                             Sign(OrderType[o] = "SO") * (OrderQty[o] - Hedged(o)) = 0
  <2> SUFFICES ASSUME NEW o \in Orders
               PROVE  /\ Sign(OrderType[o] = "SO") * (OrderQty[o] - Hedged(o)) \in Int
                      /\ OrderQty[o] = Hedged(o) =>
                           Sign(OrderType[o] = "SO") * (OrderQty[o] - Hedged(o)) = 0
    OBVIOUS
  <2> DEFINE i == Sign(OrderType[o] = "SO")
             j == OrderQty[o]
             h == Hedged(o)
  <2>1. i \in Int /\ j \in Int /\ h \in Int
    BY <1>1, <1>4
  <2> HIDE DEF i, j, h
  <2>2. i * (j - h) \in Int /\ (j = h => i * (j - h) = 0)
    BY <1>2, <2>1
  <2> QED
    BY <2>2 DEF i, j, h
<1> QED
  BY <1>5, <1>6

(* What the commercial part of a snapshot sums: the floating live orders. *)
LEMMA CommercialSum ==
  ASSUME HedgeTypeOK, NEW k, NEW G \in SUBSET Orders,
         \A o \in G : LiveOrder(o)
  PROVE  LET f == [o \in Orders |-> Sign(OrderType[o] = "SO") * (OrderQty[o] - Hedged(o))]
             S == {o \in G : PriceType[o] = "variable" /\ Commodity[o] = k}
         IN  CommercialNet(k, G, OrderQty) = SumFunctionOnSet(f, S)
             /\ SumFunctionOnSet(f, S) \in Int
<1> DEFINE f == [o \in Orders |-> Sign(OrderType[o] = "SO") * (OrderQty[o] - Hedged(o))]
           g == [o \in G |-> Sign(OrderType[o] = "SO") * (OrderQty[o] - Hedged(o))]
           S == {o \in G : PriceType[o] = "variable" /\ Commodity[o] = k}
<1>1. IsFiniteSet(S)
  BY HedgeBookConstants, FS_Subset
<1>2. (\A o \in S : g[o] = f[o]) /\ S \subseteq Orders
  BY Zenon
<1>3. \A o \in Orders : f[o] \in Int
  BY SignedTonnes
<1>4. CommercialNet(k, G, OrderQty) = SumFunctionOnSet(g, S)
  BY Zenon DEF CommercialNet
<1> HIDE DEF f, g, S
<1>5. SumFunctionOnSet(g, S) = SumFunctionOnSet(f, S)
  BY <1>1, <1>2, SumSame
<1>6. SumFunctionOnSet(f, S) \in Int
  BY <1>1, <1>2, <1>3, SumInt
<1> QED
  BY <1>4, <1>5, <1>6 DEF f, S

(* What its hedge part sums, and what the engine sums for it. *)
LEMMA HedgeSum ==
  ASSUME HedgeTypeOK, NEW k
  PROVE  LET H == {c \in Contracts : LiveContract(c)}
             g == [c \in H |-> Unlinked(c)]
         IN  /\ SumFunctionOnSet(g, {c \in H : Commodity[c] = k}) = UnlinkedHedges(k)
             /\ UnlinkedHedges(k) \in Int
<1> DEFINE H == {c \in Contracts : LiveContract(c)}
           f == [c \in Contracts |-> Unlinked(c)]
           g == [c \in H |-> Unlinked(c)]
           S == {c \in H : Commodity[c] = k}
<1>1. IsFiniteSet(S)
  BY HedgeBookConstants, FS_Subset
<1>2. (\A c \in S : g[c] = f[c]) /\ S \subseteq Contracts
  BY Zenon
<1>3. \A c \in Contracts : f[c] \in Int
  BY SignedTonnes
<1>4. UnlinkedHedges(k) = SumFunctionOnSet(f, S)
  <2>1. S = {c \in Contracts : LiveContract(c) /\ Commodity[c] = k}
    OBVIOUS
  <2> HIDE DEF S
  <2> QED
    BY <2>1, Zenon DEF UnlinkedHedges
<1> HIDE DEF f, g, S
<1>5. SumFunctionOnSet(g, S) = SumFunctionOnSet(f, S) /\ SumFunctionOnSet(f, S) \in Int
  BY <1>1, <1>2, <1>3, SumSame, SumInt
<1> QED
  BY <1>4, <1>5 DEF g, S

(* The exposure of a book without virtual hedges. *)
LEMMA GlobalSum ==
  ASSUME HedgeTypeOK, NEW k, NEW G \in SUBSET Orders, \A o \in G : LiveOrder(o)
  PROVE  /\ GlobalNet(k, G, OrderQty, {c \in Contracts : LiveContract(c)}, {})
              = CommercialNet(k, G, OrderQty) + UnlinkedHedges(k)
         /\ CommercialNet(k, G, OrderQty) \in Int
         /\ UnlinkedHedges(k) \in Int
<1> DEFINE H == {c \in Contracts : LiveContract(c)}
           h == SumFunctionOnSet([c \in H |-> Unlinked(c)], {c \in H : Commodity[c] = k})
           v == SumFunctionOnSet([x \in {} |-> Sign(x.short) * x.qty],
                                 {x \in {} : x.commodity = k})
<1>1. h = UnlinkedHedges(k) /\ UnlinkedHedges(k) \in Int
  BY HedgeSum, Zenon
<1>2. CommercialNet(k, G, OrderQty) \in Int
  BY CommercialSum, Zenon
<1>3. v = 0
  <2>1. {x \in {} : x.commodity = k} = {}
    OBVIOUS
  <2> QED
    BY <2>1, SumEmpty
<1>4. GlobalNet(k, G, OrderQty, H, {}) = CommercialNet(k, G, OrderQty) + h + v
  BY Zenon DEF GlobalNet
<1> HIDE DEF H, h, v
<1>5. GlobalNet(k, G, OrderQty, H, {}) = CommercialNet(k, G, OrderQty) + UnlinkedHedges(k)
  BY <1>1, <1>2, <1>3, <1>4
<1> QED
  BY <1>1, <1>2, <1>5 DEF H

(* What an exposure row that is up to date says. *)
LEMMA ExposedFields ==
  ASSUME NEW o
  PROVE  /\ Exposed(o).state = "live"
         /\ Exposed(o).open = OrderQty[o] - Hedged(o)
         /\ Exposed(o).status \in {"open", "partially_hedged"} \/ Hedged(o) = OrderQty[o]
<1> DEFINE q == OrderQty[o] - Hedged(o)
           s == IF Hedged(o) = 0 THEN "open"
                ELSE IF Hedged(o) = OrderQty[o] THEN "fully_hedged" ELSE "partially_hedged"
<1>1. Exposed(o) = [state |-> "live", open |-> q, status |-> s]
  BY Zenon DEF Exposed
<1>2. s \in {"open", "partially_hedged"} \/ Hedged(o) = OrderQty[o]
  BY Zenon
<1> HIDE DEF q, s
<1>3. Exposed(o).state = "live" /\ Exposed(o).open = q /\ Exposed(o).status = s
  BY <1>1
<1> QED
  BY <1>2, <1>3, Zenon DEF q

(* The engine's net exposure is the snapshot's from a reconcile on: the rows *)
(* the engine leaves out are of exposures that are wholly hedged             *)
(* (exposure_engine.py compute_net_exposure).                                *)
THEOREM NetExposuresAgreeHolds == PortfolioSpec => []NetExposuresAgree
<1>1. PortfolioInv => NetExposuresAgree
  <2> SUFFICES ASSUME PortfolioInv, synced, NEW k \in Commodities
               PROVE  EngineNet(k) = SnapshotNet(k)
    BY DEF NetExposuresAgree
  <2>0. HedgeTypeOK
    BY DEF PortfolioInv, PortfolioTypes
  <2> DEFINE f == [o \in Orders |-> Sign(OrderType[o] = "SO") * (OrderQty[o] - Hedged(o))]
             g == [o \in Orders |-> Open(o)]
             S == {o \in ExposedOrders : PriceType[o] = "variable" /\ Commodity[o] = k}
             T == {o \in Orders : /\ exposures[o].state = "live"
                                  /\ exposures[o].status \in {"open", "partially_hedged"}
                                  /\ LiveOrder(o)
                                  /\ Commodity[o] = k}
  <2>1. ExposedOrders \in SUBSET Orders /\ \A o \in ExposedOrders : LiveOrder(o)
    BY DEF ExposedOrders
  <2>2. SnapshotNet(k) = SumFunctionOnSet(f, S) + UnlinkedHedges(k)
    <3>1. CommercialNet(k, ExposedOrders, OrderQty) = SumFunctionOnSet(f, S)
      BY <2>0, <2>1, CommercialSum, Zenon
    <3>2. SnapshotNet(k) = CommercialNet(k, ExposedOrders, OrderQty) + UnlinkedHedges(k)
      BY <2>0, <2>1, GlobalSum, Zenon DEF SnapshotNet
    <3> QED
      BY <3>1, <3>2, Zenon
  <2>3. SumFunctionOnSet(f, S) \in Int /\ UnlinkedHedges(k) \in Int
    BY <2>0, <2>1, CommercialSum, HedgeSum, Zenon
  <2>4. EngineNet(k) = UnlinkedHedges(k) + SumFunctionOnSet(g, T)
    BY Zenon DEF EngineNet
  <2>5. \A o \in ExposedOrders : exposures[o] = Exposed(o)
    BY DEF PortfolioInv, SyncedRows
  <2>6. T \subseteq S
    BY DEF PortfolioInv, ExposedFloat, ExposedOrders
  <2>7. \A o \in T : g[o] = f[o]
    <3>1. \A o \in ExposedOrders : exposures[o].open = OrderQty[o] - Hedged(o)
      BY <2>5, ExposedFields, Zenon
    <3>2. \A o \in T : o \in Orders /\ o \in ExposedOrders
      BY <2>1, <2>6
    <3>3. \A o \in T : g[o] = Sign(OrderType[o] = "SO") * exposures[o].open
      BY <3>2, Zenon DEF Open
    <3>4. \A o \in T : f[o] = Sign(OrderType[o] = "SO") * (OrderQty[o] - Hedged(o))
      BY <3>2, Zenon
    <3> HIDE DEF f, g, T
    <3> QED
      BY <3>1, <3>2, <3>3, <3>4, Zenon
  <2>8. \A o \in S \ T : f[o] = 0
    <3> SUFFICES ASSUME NEW o \in S \ T PROVE f[o] = 0
      OBVIOUS
    <3>1. o \in Orders /\ o \in ExposedOrders /\ Commodity[o] = k
      BY <2>1
    <3>2. exposures[o].state = "live"
          /\ (exposures[o].status \in {"open", "partially_hedged"} \/ Hedged(o) = OrderQty[o])
      BY <2>5, <3>1, ExposedFields, Zenon
    <3>3. Hedged(o) = OrderQty[o]
      BY <2>1, <3>1, <3>2
    <3>4. f[o] = Sign(OrderType[o] = "SO") * (OrderQty[o] - Hedged(o))
      BY <3>1, Zenon
    <3> HIDE DEF f, S, T
    <3> QED
      BY <2>0, <3>1, <3>3, <3>4, SignedTonnes, Zenon
  <2>9. \A o \in S : f[o] \in Int
    <3>1. \A o \in S : o \in Orders
      BY <2>1
    <3>2. \A o \in Orders : f[o] \in Int
      BY <2>0, SignedTonnes
    <3> QED
      BY <3>1, <3>2, Zenon
  <2>10. IsFiniteSet(S) /\ IsFiniteSet(T)
    BY <2>1, HedgeBookConstants, FS_Subset
  <2> HIDE DEF f, g, S, T
  <2>11. SumFunctionOnSet(g, T) = SumFunctionOnSet(f, T)
    BY <2>7, <2>10, SumSame
  <2>12. SumFunctionOnSet(f, S) = SumFunctionOnSet(f, T)
    BY <2>6, <2>8, <2>9, <2>10, SumDropZeros
  <2> QED
    BY <2>2, <2>3, <2>4, <2>11, <2>12
<1> QED
  BY <1>1, PortfolioInvHolds, PTL

-----------------------------------------------------------------------------
(* The read views.                                                         *)

(* Signs, out of the way of the tonnes and prices. *)
LEMMA SignedLine ==
  ASSUME NEW q \in Int, NEW p \in Int
  PROVE  /\ Sign(TRUE) * q * p = q * p
         /\ Sign(FALSE) * q * p = 0 - q * p
         /\ Sign(FALSE) * q * p = -(q * p)
         /\ q * p \in Int
<1>1. Sign(TRUE) = 1 /\ Sign(FALSE) = 0 - 1
  BY DEF Sign
<1>2. 1 * q * p = q * p /\ (0 - 1) * q * p = 0 - q * p /\ (0 - 1) * q * p = -(q * p)
  OBVIOUS
<1>3. q * p \in Int
  OBVIOUS
<1> QED
  BY <1>1, <1>2, <1>3, Zenon

(* The same for the margin over an entry price. *)
LEMMA SignedMargin ==
  ASSUME NEW q \in Int, NEW e \in Int, NEW p \in Int
  PROVE  /\ Sign(TRUE) * q * (e - p) = q * (e - p)
         /\ Sign(FALSE) * q * (e - p) = q * (p - e)
         /\ q * (e - p) \in Int /\ q * (p - e) \in Int
<1>1. Sign(TRUE) = 1 /\ Sign(FALSE) = 0 - 1
  BY DEF Sign
<1>2. 1 * q * (e - p) = q * (e - p) /\ (0 - 1) * q * (e - p) = q * (p - e)
  OBVIOUS
<1>3. q * (e - p) \in Int /\ q * (p - e) \in Int
  OBVIOUS
<1> QED
  BY <1>1, <1>2, <1>3, Zenon

(* Tonnes and prices of what a link row names. *)
LEMMA Amounts ==
  ASSUME PortfolioTypes
  PROVE  /\ \A x \in Orders \cup Contracts : price[Commodity[x]] \in Int /\ EntryPrice[x] \in Int
         /\ \A o \in Orders : OrderQty[o] \in Int
         /\ \A c \in Contracts : contracts[c].qty \in Int
<1>1. ASSUME NEW x \in Orders \cup Contracts
      PROVE  price[Commodity[x]] \in Int /\ EntryPrice[x] \in Int
  <2>1. Commodity[x] \in Commodities
    BY DEF Commodities
  <2>2. price[Commodity[x]] \in Prices
    BY <2>1 DEF PortfolioTypes
  <2>3. price[Commodity[x]] \in Nat
    BY <2>2, PortfolioConstants
  <2>4. EntryPrice[x] \in Nat
    BY PortfolioConstants
  <2> QED
    BY <2>3, <2>4
<1>2. \A o \in Orders : OrderQty[o] \in Int
  BY HedgeBookConstants
<1>3. \A c \in Contracts : contracts[c].qty \in Int
  BY HedgeBookConstants DEF PortfolioTypes, HedgeTypeOK, ContractRows
<1> QED
  BY <1>1, <1>2, <1>3

(* The value of an order in the P&L, by its side. *)
LEMMA OrderWorth ==
  ASSUME PortfolioTypes, NEW l \in Rows, l.type \in OrderTypes
  PROVE  LET line == OrderQty[l.id] * (IF PriceType[l.id] = "variable"
                                       THEN price[Commodity[l.id]] ELSE EntryPrice[l.id])
         IN  /\ line \in Int
             /\ l.type = "sales_order" => OrderValue(l) = line
             /\ l.type = "purchase_order" => OrderValue(l) = 0 - line /\ OrderValue(l) = -line
<1>1. l.id \in Orders
  BY RowTyped
<1> DEFINE q == OrderQty[l.id]
           p == IF PriceType[l.id] = "variable" THEN price[Commodity[l.id]] ELSE EntryPrice[l.id]
<1>2. q \in Int /\ p \in Int
  BY <1>1, Amounts
<1>3. p = IF PriceType[l.id] = "fixed" THEN EntryPrice[l.id] ELSE price[Commodity[l.id]]
  BY <1>1, HedgeBookConstants
<1>4. OrderValue(l) = Sign(l.type = "sales_order") * q * p
  BY <1>3, Zenon DEF OrderValue
<1>5. l.type = "sales_order" => (l.type = "sales_order") = TRUE
  OBVIOUS
<1>6. l.type = "purchase_order" => (l.type = "sales_order") = FALSE
  OBVIOUS
<1> HIDE DEF q, p
<1>7. /\ Sign(TRUE) * q * p = q * p /\ q * p \in Int
      /\ Sign(FALSE) * q * p = 0 - q * p /\ Sign(FALSE) * q * p = -(q * p)
  BY <1>2, SignedLine, Zenon
<1>8. /\ q * p \in Int
      /\ l.type = "sales_order" => OrderValue(l) = q * p
      /\ l.type = "purchase_order" => OrderValue(l) = 0 - q * p /\ OrderValue(l) = -(q * p)
  BY <1>4, <1>5, <1>6, <1>7, Zenon
<1> QED
  BY <1>8, Zenon DEF q, p

(* The value of a hedge in the P&L, by its side. *)
LEMMA HedgeWorth ==
  ASSUME PortfolioTypes, NEW c \in Contracts
  PROVE  LET line == IF Classification[c] = "short"
                     THEN contracts[c].qty * (EntryPrice[c] - price[Commodity[c]])
                     ELSE contracts[c].qty * (price[Commodity[c]] - EntryPrice[c])
         IN  /\ line \in Int
             /\ Mtm(c) = IF OpenForMtm(c) THEN line ELSE 0
<1> DEFINE q == contracts[c].qty
           e == EntryPrice[c]
           p == price[Commodity[c]]
           line == IF Classification[c] = "short" THEN q * (e - p) ELSE q * (p - e)
<1>1. q \in Int /\ e \in Int /\ p \in Int
  BY Amounts
<1>2. Mtm(c) = IF OpenForMtm(c) THEN Sign(Classification[c] = "short") * q * (e - p) ELSE 0
  BY Zenon DEF Mtm
<1> HIDE DEF q, e, p
<1>3. /\ Sign(TRUE) * q * (e - p) = q * (e - p)
      /\ Sign(FALSE) * q * (e - p) = q * (p - e)
      /\ q * (e - p) \in Int /\ q * (p - e) \in Int
  BY <1>1, SignedMargin, Zenon
<1>4. line \in Int /\ Sign(Classification[c] = "short") * q * (e - p) = line
  <2>1. CASE Classification[c] = "short"
    <3>1. (Classification[c] = "short") = TRUE /\ line = q * (e - p)
      BY <2>1
    <3> QED
      BY <1>3, <3>1, Zenon
  <2>2. CASE Classification[c] # "short"
    <3>1. (Classification[c] = "short") = FALSE /\ line = q * (p - e)
      BY <2>2
    <3> QED
      BY <1>3, <3>1, Zenon
  <2> QED
    BY <2>1, <2>2
<1> HIDE DEF line
<1>5. line \in Int /\ Mtm(c) = IF OpenForMtm(c) THEN line ELSE 0
  BY <1>2, <1>4, Zenon
<1> QED
  BY <1>5, Zenon DEF line, q, e, p

(* A projection values what it projects as the P&L of a deal does. *)
LEMMA ProjectedWorth ==
  ASSUME PortfolioInv, NEW l \in dealLinks
  PROVE  /\ l.type \in OrderTypes /\ TypedRight(l) => ProjectedOrder(l.id) = OrderValue(l)
         /\ l.type \notin OrderTypes /\ OpenForMtm(l.id) => ProjectedHedge(l.id) = Mtm(l.id)
<1>1. PortfolioTypes /\ l \in Rows
  BY DEF PortfolioInv, PortfolioTypes
<1>2. CASE l.type \in OrderTypes
  <2> SUFFICES ASSUME l.type = (IF OrderType[l.id] = "SO" THEN "sales_order" ELSE "purchase_order")
               PROVE  ProjectedOrder(l.id) = OrderValue(l)
    BY <1>2 DEF TypedRight
  <2>1. l.id \in Orders
    BY <1>1, <1>2, RowTyped
  <2> DEFINE u == IF PriceType[l.id] = "variable" THEN price[Commodity[l.id]] ELSE EntryPrice[l.id]
             line == OrderQty[l.id] * u
  <2>2. u = IF PriceType[l.id] = "fixed" THEN EntryPrice[l.id] ELSE price[Commodity[l.id]]
    BY <2>1, HedgeBookConstants
  <2>3. ProjectedOrder(l.id) = IF OrderType[l.id] = "SO" THEN line ELSE -line
    <3> HIDE DEF u
    <3> QED
      BY <2>2, Zenon DEF ProjectedOrder
  <2>4. /\ l.type = "sales_order" => OrderValue(l) = line
        /\ l.type = "purchase_order" => OrderValue(l) = -line
    BY <1>1, <1>2, OrderWorth, Zenon
  <2> HIDE DEF line
  <2> QED
    BY <2>3, <2>4, Zenon
<1>3. CASE l.type \notin OrderTypes
  <2>1. l.id \in Contracts
    BY <1>1, <1>3, RowTyped
  <2>2. Classification[l.id] = "long" \/ Classification[l.id] = "short"
    BY <2>1, HedgeBookConstants
  <2> DEFINE line == IF Classification[l.id] = "short"
                     THEN contracts[l.id].qty * (EntryPrice[l.id] - price[Commodity[l.id]])
                     ELSE contracts[l.id].qty * (price[Commodity[l.id]] - EntryPrice[l.id])
  <2>3. Mtm(l.id) = IF OpenForMtm(l.id) THEN line ELSE 0
    BY <1>1, <2>1, HedgeWorth, Zenon
  <2>4. "long" # "short"
    OBVIOUS
  <2>5. ProjectedHedge(l.id) = line
    BY <2>2, <2>4, Zenon DEF ProjectedHedge
  <2> HIDE DEF line
  <2> QED
    BY <1>3, <2>3, <2>5, Zenon
<1> QED
  BY <1>2, <1>3

(* What is live in a deal and falls due is projected, unless it is a closed  *)
(* hedge.  No id is of an order and of a contract.                            *)
LEMMA ProjectedWhenDue ==
  ASSUME PortfolioInv, NEW l \in dealLinks, IsLive(l, orders, contracts),
         NEW due \in DueDates, due[l.id] >= AsOf
  PROVE  /\ l.type \in OrderTypes => l.id \in ProjectedOrders(due)
         /\ l.type \notin OrderTypes =>
              l.id \notin ProjectedOrders(due) /\ (l.id \in ProjectedHedges(due) <=> OpenForMtm(l.id))
<1>1. l \in Rows
  BY DEF PortfolioInv, PortfolioTypes
<1>2. l.id \in Orders \cup Contracts
  BY <1>1, RowTyped DEF OrderTypes, HedgeTypes
<1>3. due[l.id] \in Nat /\ due[l.id] # 0
  BY <1>2, ValuationConstants
<1>4. ASSUME l.type \in OrderTypes PROVE l.id \in ProjectedOrders(due)
  BY <1>1, <1>3, <1>4, RowTyped DEF ProjectedOrders, IsLive, LiveOrder
<1>5. ASSUME l.type \notin OrderTypes
      PROVE  l.id \notin ProjectedOrders(due) /\ (l.id \in ProjectedHedges(due) <=> OpenForMtm(l.id))
  <2>1. l.id \in Contracts /\ ~contracts[l.id].deleted
    BY <1>1, <1>5, RowTyped DEF IsLive
  <2>2. l.id \notin ProjectedOrders(due)
    BY <2>1, HedgeBookConstants DEF ProjectedOrders
  <2> QED
    BY <2>1, <2>2 DEF ProjectedHedges, OpenHedges
<1> QED
  BY <1>4, <1>5

(* A projection of what is live and due in a deal agrees with its P&L, and   *)
(* goes through only where the P&L finds its quotes.                         *)
LEMMA ProjectionSame == PortfolioInv => ProjectionMatchesPnl
<1> SUFFICES ASSUME PortfolioInv, NEW due \in DueDates, Projectable(due)
             PROVE  /\ \A l \in dealLinks :
                         IsLive(l, orders, contracts) /\ TypedRight(l) /\ due[l.id] >= AsOf =>
                           Projected(l.id, due)
                             = IF l.type \in OrderTypes THEN OrderValue(l) ELSE Mtm(l.id)
                    /\ \A d \in Deals :
                         (\A l \in LiveRows(d, dealLinks, orders, contracts) : due[l.id] >= AsOf) =>
                           \A k \in NeedsPrice(d) : price[k] # 0
  BY Zenon DEF ProjectionMatchesPnl
<1>1. ASSUME NEW l \in dealLinks, IsLive(l, orders, contracts), TypedRight(l), due[l.id] >= AsOf
      PROVE  Projected(l.id, due) = IF l.type \in OrderTypes THEN OrderValue(l) ELSE Mtm(l.id)
  <2>1. /\ l.type \in OrderTypes => l.id \in ProjectedOrders(due)
        /\ l.type \notin OrderTypes =>
             l.id \notin ProjectedOrders(due) /\ (l.id \in ProjectedHedges(due) <=> OpenForMtm(l.id))
    BY <1>1, ProjectedWhenDue
  <2>2. /\ l.type \in OrderTypes => ProjectedOrder(l.id) = OrderValue(l)
        /\ l.type \notin OrderTypes /\ OpenForMtm(l.id) => ProjectedHedge(l.id) = Mtm(l.id)
    BY <1>1, ProjectedWorth
  <2>3. ~OpenForMtm(l.id) => Mtm(l.id) = 0
    BY DEF Mtm
  <2> QED
    BY <2>1, <2>2, <2>3, Zenon DEF Projected
<1>2. ASSUME NEW d \in Deals,
             \A l \in LiveRows(d, dealLinks, orders, contracts) : due[l.id] >= AsOf,
             NEW k \in NeedsPrice(d)
      PROVE  price[k] # 0
  <2>1. PICK l \in LiveRows(d, dealLinks, orders, contracts) :
          /\ k = Commodity[l.id]
          /\ IF l.type \in OrderTypes THEN PriceType[l.id] = "variable" ELSE OpenForMtm(l.id)
    BY <1>2, Zenon DEF NeedsPrice
  <2>2. l \in dealLinks /\ IsLive(l, orders, contracts) /\ due[l.id] >= AsOf
    BY <1>2 DEF LiveRows, RowsOf
  <2>3. /\ l.type \in OrderTypes => l.id \in ProjectedOrders(due)
        /\ l.type \notin OrderTypes => l.id \in ProjectedHedges(due)
    BY <2>1, <2>2, ProjectedWhenDue
  <2> QED
    BY <2>1, <2>3, Zenon DEF Projectable
<1> QED
  BY <1>1, <1>2

(* The P&L breakdown adds up to the P&L: the sales, less the purchases, and *)
(* the hedges that are still open.                                           *)
LEMMA BreakdownSame ==
  ASSUME PortfolioInv, NEW d
  PROVE  Breakdown(d) = TotalPnl(d)
<1> DEFINE live == LiveRows(d, dealLinks, orders, contracts)
           f == [l \in live |-> IF l.type \in OrderTypes THEN OrderValue(l) ELSE Mtm(l.id)]
           Physical(l) == OrderQty[l.id] * (IF PriceType[l.id] = "variable"
                                            THEN price[Commodity[l.id]] ELSE EntryPrice[l.id])
           Financial(l) == IF Classification[l.id] = "short"
                           THEN contracts[l.id].qty * (EntryPrice[l.id] - price[Commodity[l.id]])
                           ELSE contracts[l.id].qty * (price[Commodity[l.id]] - EntryPrice[l.id])
           sales == {l \in live : l.type = "sales_order"}
           purchases == {l \in live : l.type = "purchase_order"}
           hedges == (live \ sales) \ purchases
           open == {l \in live : l.type \in HedgeTypes /\ OpenForMtm(l.id)}
           s == [l \in sales |-> Physical(l)]
           p == [l \in purchases |-> Physical(l)]
           h == [l \in open |-> Financial(l)]
<1>0. PortfolioTypes
  BY DEF PortfolioInv
<1>1. live \in SUBSET Rows /\ IsFiniteSet(live)
  <2>1. dealLinks \in SUBSET Rows /\ IsFiniteSet(dealLinks)
    BY <1>0 DEF PortfolioTypes
  <2>2. live \in SUBSET dealLinks /\ IsFiniteSet(live)
    BY <2>1, LiveRowsTyped
  <2> QED
    BY <2>1, <2>2
<1>2. /\ TotalPnl(d) = SumFunctionOnSet(f, live)
      /\ PhysicalLines(d, "sales_order") = SumFunctionOnSet(s, sales)
      /\ PhysicalLines(d, "purchase_order") = SumFunctionOnSet(p, purchases)
      /\ FinancialLines(d) = SumFunctionOnSet(h, open)
  BY Zenon DEF TotalPnl, PhysicalLines, FinancialLines
<1> HIDE DEF live
<1>3. /\ sales \subseteq live /\ purchases \subseteq live /\ purchases \subseteq live \ sales
      /\ hedges \subseteq live
      /\ \A l \in sales : l.type \in OrderTypes /\ l.type = "sales_order"
      /\ \A l \in purchases : l.type \in OrderTypes /\ l.type = "purchase_order"
      /\ \A l \in open : l.type \in HedgeTypes /\ OpenForMtm(l.id)
  BY DEF OrderTypes
<1>4. \A l \in live : l \in hedges <=> l.type \in HedgeTypes
  BY <1>1, RowTyped DEF OrderTypes
<1>5. open \subseteq hedges /\ \A l \in hedges \ open : l.type \in HedgeTypes /\ ~OpenForMtm(l.id)
  BY <1>4
<1>6. \A l \in hedges : l \in live /\ l \in Rows /\ l.type \notin OrderTypes /\ l.id \in Contracts
  BY <1>1, <1>3, <1>4, RowTyped
(* Line by line. *)
<1>7. \A l \in sales : f[l] \in Int /\ s[l] = f[l]
  <2> SUFFICES ASSUME NEW l \in sales PROVE f[l] \in Int /\ s[l] = f[l]
    OBVIOUS
  <2>1. l \in live /\ l \in Rows /\ l.type \in OrderTypes /\ l.type = "sales_order"
    BY <1>1, <1>3
  <2>2. f[l] = OrderValue(l) /\ s[l] = Physical(l)
    BY <2>1, Zenon
  <2>3. Physical(l) \in Int /\ OrderValue(l) = Physical(l)
    BY <1>0, <2>1, OrderWorth, Zenon
  <2> HIDE DEF f, s, Physical
  <2> QED
    BY <2>2, <2>3, Zenon
<1>8. \A l \in purchases : p[l] \in Int /\ f[l] = 0 - p[l]
  <2> SUFFICES ASSUME NEW l \in purchases PROVE p[l] \in Int /\ f[l] = 0 - p[l]
    OBVIOUS
  <2>1. l \in live /\ l \in Rows /\ l.type \in OrderTypes /\ l.type = "purchase_order"
    BY <1>1, <1>3
  <2>2. f[l] = OrderValue(l) /\ p[l] = Physical(l)
    BY <2>1, Zenon
  <2>3. Physical(l) \in Int /\ OrderValue(l) = 0 - Physical(l)
    BY <1>0, <2>1, OrderWorth, Zenon
  <2> HIDE DEF f, p, Physical
  <2> QED
    BY <2>2, <2>3, Zenon
<1>9. \A l \in hedges : /\ f[l] \in Int
                        /\ l \in open => h[l] = f[l]
                        /\ l \notin open => f[l] = 0
  <2> SUFFICES ASSUME NEW l \in hedges
               PROVE  /\ f[l] \in Int
                      /\ l \in open => h[l] = f[l]
                      /\ l \notin open => f[l] = 0
    OBVIOUS
  <2>1. l \in live /\ l.type \notin OrderTypes /\ l.id \in Contracts
    BY <1>6
  <2>2. f[l] = Mtm(l.id)
    BY <2>1, Zenon
  <2>3. Financial(l) \in Int /\ Mtm(l.id) = IF OpenForMtm(l.id) THEN Financial(l) ELSE 0
    BY <1>0, <2>1, HedgeWorth, Zenon
  <2>4. l \in open => h[l] = Financial(l)
    BY Zenon
  <2>5. l \in open <=> OpenForMtm(l.id)
    BY <1>3, <1>5
  <2>6. 0 \in Int
    OBVIOUS
  <2> HIDE DEF f, h, Financial, open, hedges
  <2> QED
    BY <2>2, <2>3, <2>4, <2>5, <2>6, Zenon
<1> HIDE DEF f, s, p, h, Physical, Financial, sales, purchases, open
<1>10. /\ IsFiniteSet(sales) /\ IsFiniteSet(purchases) /\ IsFiniteSet(hedges)
       /\ IsFiniteSet(live \ sales) /\ IsFiniteSet(open)
  <2>1. live \ sales \in SUBSET live /\ open \in SUBSET live
    BY <1>3, <1>5
  <2> QED
    BY <1>1, <1>3, <2>1, FS_Subset
<1>11. \A i \in Int : 0 - i \in Int
  OBVIOUS
<1>12. \A l \in live : f[l] \in Int
  <2>1. \A l \in live : l \in sales \/ l \in purchases \/ l \in hedges
    BY Zenon
  <2>2. \A l \in purchases : f[l] \in Int
    BY <1>8, <1>11, Zenon
  <2> HIDE DEF hedges
  <2> QED
    BY <1>7, <1>9, <2>1, <2>2, Zenon
(* Part by part. *)
<1>13. SumFunctionOnSet(f, live) = SumFunctionOnSet(f, sales) + SumFunctionOnSet(f, live \ sales)
  BY <1>1, <1>3, <1>12, SumSplit
<1>14. SumFunctionOnSet(f, live \ sales)
         = SumFunctionOnSet(f, purchases) + SumFunctionOnSet(f, hedges)
  BY <1>3, <1>10, <1>12, SumSplit
<1>15. SumFunctionOnSet(s, sales) = SumFunctionOnSet(f, sales)
  BY <1>7, <1>10, SumSame
<1>16. SumFunctionOnSet(f, purchases) = 0 - SumFunctionOnSet(p, purchases)
  BY <1>8, <1>10, SumOpposite
<1>17. SumFunctionOnSet(f, hedges) = SumFunctionOnSet(f, open)
  <2> HIDE DEF hedges
  <2>1. open \in SUBSET hedges /\ \A l \in hedges \ open : f[l] = 0
    BY <1>5, <1>9
  <2> QED
    BY <1>9, <1>10, <2>1, SumDropZeros
<1>18. SumFunctionOnSet(h, open) = SumFunctionOnSet(f, open)
  <2> HIDE DEF hedges
  <2>1. \A l \in open : h[l] = f[l]
    BY <1>5, <1>9
  <2> QED
    BY <1>10, <2>1, SumSame
<1>19. /\ SumFunctionOnSet(s, sales) \in Int /\ SumFunctionOnSet(p, purchases) \in Int
       /\ SumFunctionOnSet(h, open) \in Int
  <2>1. \A l \in sales : s[l] \in Int
    BY <1>7
  <2>2. \A l \in open : h[l] \in Int
    BY <1>5, <1>9
  <2> QED
    BY <1>8, <1>10, <2>1, <2>2, SumInt
<1>20. Breakdown(d) = SumFunctionOnSet(s, sales) - SumFunctionOnSet(p, purchases)
                        + SumFunctionOnSet(h, open)
  BY <1>2, Zenon DEF Breakdown
<1> HIDE DEF hedges
<1> QED
  BY <1>2, <1>13, <1>14, <1>15, <1>16, <1>17, <1>18, <1>19, <1>20

(* The scenario's exposure, with virtual hedges. *)
LEMMA WhatIfSum ==
  ASSUME HedgeTypeOK, NEW k, NEW virtual
  PROVE  LET v == SumFunctionOnSet([x \in virtual |-> Sign(x.short) * x.qty],
                                   {x \in virtual : x.commodity = k})
         IN  /\ SnapshotNet(k) \in Int
             /\ v \in Int => WhatIfNet(k, OrderQty, virtual) = SnapshotNet(k) + v
<1> DEFINE H == {c \in Contracts : LiveContract(c)}
           h == SumFunctionOnSet([c \in H |-> Unlinked(c)], {c \in H : Commodity[c] = k})
           v == SumFunctionOnSet([x \in virtual |-> Sign(x.short) * x.qty],
                                 {x \in virtual : x.commodity = k})
           f == [o \in Orders |-> Sign(OrderType[o] = "SO") * (OrderQty[o] - Hedged(o))]
           S == {o \in ScenarioOrders : PriceType[o] = "variable" /\ Commodity[o] = k}
           T == {o \in ExposedOrders : PriceType[o] = "variable" /\ Commodity[o] = k}
<1>1. /\ ScenarioOrders \in SUBSET Orders /\ \A o \in ScenarioOrders : LiveOrder(o)
      /\ ExposedOrders \in SUBSET Orders /\ \A o \in ExposedOrders : LiveOrder(o)
  BY DEF ScenarioOrders, ExposedOrders
<1>2. S = T
  BY DEF ScenarioOrders, ExposedOrders
<1>3. /\ CommercialNet(k, ScenarioOrders, OrderQty) = SumFunctionOnSet(f, S)
      /\ CommercialNet(k, ExposedOrders, OrderQty) = SumFunctionOnSet(f, T)
      /\ SumFunctionOnSet(f, T) \in Int
  BY <1>1, CommercialSum, Zenon
<1>4. h = UnlinkedHedges(k) /\ UnlinkedHedges(k) \in Int
  BY HedgeSum, Zenon
<1>5. SnapshotNet(k) = CommercialNet(k, ExposedOrders, OrderQty) + UnlinkedHedges(k)
  BY <1>1, GlobalSum, Zenon DEF SnapshotNet
<1>6. WhatIfNet(k, OrderQty, virtual) = CommercialNet(k, ScenarioOrders, OrderQty) + h + v
  BY Zenon DEF WhatIfNet, GlobalNet, ExposureContracts
<1> DEFINE a == SumFunctionOnSet(f, T)
           b == UnlinkedHedges(k)
<1>7. /\ SnapshotNet(k) = a + b /\ WhatIfNet(k, OrderQty, virtual) = a + b + v
      /\ a \in Int /\ b \in Int
  BY <1>2, <1>3, <1>4, <1>5, <1>6, Zenon
<1> HIDE DEF a, b, v
<1>8. SnapshotNet(k) \in Int /\ WhatIfNet(k, OrderQty, virtual) = SnapshotNet(k) + v
  BY <1>7
<1> QED
  BY <1>8, Zenon DEF v

(* A hypothetical hedge moves the exposure as booking it would. *)
LEMMA WhatIfPredictsSame == PortfolioInv => WhatIfPredicts
<1> SUFFICES ASSUME PortfolioInv, NEW k \in Commodities, NEW c \in NewIds, NEW q \in 1..MaxQty
             PROVE  WhatIfNet(k, OrderQty, {Virtual(c, q)}) - SnapshotNet(k) =
                      IF Commodity[c] = k THEN Sign(Classification[c] = "short") * q ELSE 0
  BY DEF WhatIfPredicts
<1> DEFINE x == Virtual(c, q)
           g == [y \in {x} |-> Sign(y.short) * y.qty]
           R == {y \in {x} : y.commodity = k}
           v == SumFunctionOnSet(g, R)
           m == Sign(Classification[c] = "short") * q
<1>0. HedgeTypeOK
  BY DEF PortfolioInv, PortfolioTypes
<1>1. x.commodity = Commodity[c] /\ x.short = (Classification[c] = "short") /\ x.qty = q
  BY DEF Virtual
<1>2. m \in Int
  <2>1. q \in Int
    BY HedgeBookConstants
  <2>2. Sign(Classification[c] = "short") \in Int
    BY DEF Sign
  <2> QED
    BY <2>1, <2>2
<1> HIDE DEF x
<1>3. g[x] = m
  BY <1>1, Zenon
<1>4. v = IF Commodity[c] = k THEN m ELSE 0
  <2>1. CASE Commodity[c] = k
    <3>1. R = {x}
      BY <1>1, <2>1
    <3> HIDE DEF g, m, R
    <3>2. SumFunctionOnSet(g, {x}) = m
      BY <1>2, <1>3, SumOne
    <3> QED
      BY <2>1, <3>1, <3>2, Zenon
  <2>2. CASE Commodity[c] # k
    <3>1. R = {}
      BY <1>1, <2>2
    <3> HIDE DEF g, m, R
    <3>2. SumFunctionOnSet(g, {}) = 0
      BY SumEmpty
    <3> QED
      BY <2>2, <3>1, <3>2, Zenon
  <2> QED
    BY <2>1, <2>2
<1>5. /\ SnapshotNet(k) \in Int
      /\ v \in Int => WhatIfNet(k, OrderQty, {x}) = SnapshotNet(k) + v
  BY <1>0, WhatIfSum, Zenon
<1> HIDE DEF m, v
<1>6. v \in Int
  BY <1>2, <1>4
<1>7. WhatIfNet(k, OrderQty, {x}) - SnapshotNet(k) = v
  BY <1>5, <1>6
<1> QED
  BY <1>4, <1>7, Zenon DEF m, x

(* A what-if without deltas is the present. *)
LEMMA WhatIfOfNothingSame == PortfolioInv => WhatIfOfNothing
<1> SUFFICES ASSUME PortfolioInv PROVE WhatIfOfNothing
  OBVIOUS
<1>0. PortfolioTypes /\ HedgeTypeOK
  BY DEF PortfolioInv, PortfolioTypes
<1>1. ASSUME NEW k \in Commodities PROVE WhatIfNet(k, OrderQty, {}) = SnapshotNet(k)
  <2> DEFINE v == SumFunctionOnSet([x \in {} |-> Sign(x.short) * x.qty],
                                   {x \in {} : x.commodity = k})
  <2>1. v = 0
    <3>1. {x \in {} : x.commodity = k} = {}
      OBVIOUS
    <3> QED
      BY <3>1, SumEmpty
  <2>2. /\ SnapshotNet(k) \in Int
        /\ v \in Int => WhatIfNet(k, OrderQty, {}) = SnapshotNet(k) + v
    BY <1>0, WhatIfSum, Zenon
  <2> HIDE DEF v
  <2> QED
    BY <2>1, <2>2
<1>2. ASSUME \A o \in Floating(Orders) : orders[o] # "archived"
      PROVE  WhatIfCash(OrderQty, {}) = AnalyticCash
  <2> DEFINE f == [c \in Contracts |-> MtmOfContract(c)]
             S == {c \in Contracts : contracts[c].status = "active"}
             g == [o \in Orders |-> MtmOfOrder(o)]
             T == Floating({o \in Orders : orders[o] # "absent"})
             a == SumFunctionOnSet(f, S)
             b == SumFunctionOnSet(g, T)
             v == SumFunctionOnSet([x \in {} |-> x.qty * (price[x.commodity] - EntryPrice[x.id])], {})
  <2>1. T = Floating(ScenarioOrders)
    <3>1. \A o \in Orders : orders[o] \in {"absent", "live", "archived"}
      BY <1>0 DEF HedgeTypeOK, OrderRows
    <3> QED
      BY <1>2, <3>1 DEF Floating, ScenarioOrders, LiveOrder
  <2>2. g = [o \in Orders |-> OrderQty[o] * (price[Commodity[o]] - EntryPrice[o])]
    BY Zenon DEF MtmOfOrder
  <2>3. AnalyticCash = a + b
    BY Zenon DEF AnalyticCash
  <2>4. WhatIfCash(OrderQty, {}) = a + v + b
    <3> HIDE DEF T, g, f
    <3> QED
      BY <2>1, <2>2, Zenon DEF WhatIfCash, f
  <2>5. v = 0
    BY SumEmpty
  <2>6. a \in Int
    <3>1. IsFiniteSet(S)
      BY HedgeBookConstants, FS_Subset
    <3>2. \A c \in Contracts : contracts[c].qty * (price[Commodity[c]] - EntryPrice[c]) \in Int
      BY <1>0, Amounts, SignedMargin, Zenon
    <3>3. \A c \in S : f[c] \in Int
      BY <3>2, Zenon DEF MtmOfContract
    <3> HIDE DEF f, S
    <3> QED
      BY <3>1, <3>3, SumInt
  <2> HIDE DEF a, b, v
  <2>7. a + v = a
    BY <2>5, <2>6
  <2> QED
    BY <2>3, <2>4, <2>7, Zenon
<1>3. ASSUME NEW c \in AllOnRecord PROVE WhatIfPl(c) = Pl(c)
  <2>1. contracts[c].status # "partially_settled"
    BY DEF PortfolioInv, BookSound, AllOnRecord
  <2>2. OpenForMtm(c) <=> contracts[c].status = "active"
    BY <2>1 DEF OpenForMtm
  <2> QED
    BY <2>2, Zenon DEF WhatIfPl, Pl
<1> QED
  BY <1>1, <1>2, <1>3, Zenon DEF WhatIfOfNothing

(* The read views tell the same story of any book that the program reaches  *)
(* (scenario_whatif_service.py, cashflow_projection_service.py,             *)
(* cashflow_analytic_service.py, deal_engine.py compute_pnl_breakdown).     *)
THEOREM ViewsAgreeHolds == PortfolioSpec => []ViewsAgree
<1>1. PortfolioInv => ViewsAgree
  <2> SUFFICES ASSUME PortfolioInv PROVE ViewsAgree
    OBVIOUS
  <2>1. WhatIfOfNothing /\ WhatIfPredicts /\ ProjectionMatchesPnl
    BY WhatIfOfNothingSame, WhatIfPredictsSame, ProjectionSame, Zenon
  <2>2. \A d \in Deals : Breakdown(d) = TotalPnl(d)
    BY BreakdownSame, Zenon
  <2> QED
    BY <2>1, <2>2, Zenon DEF ViewsAgree
<1> QED
  BY <1>1, PortfolioInvHolds, PTL
=============================================================================
