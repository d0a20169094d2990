------------------------- MODULE RfqRanking_proofs -------------------------
(***************************************************************************)
(* Proofs about RfqRanking for any counterparties, prices and stamps and   *)
(* any number of submissions and rejections: the sort-and-scan code        *)
(* computes what RfqQuotes declares.                                       *)
(*                                                                         *)
(* Induction over a sequence is by a smallest counterexample: the library's*)
(* induction theorems take operators, which the provers cannot instantiate.*)
(***************************************************************************)
EXTENDS RfqRanking, FiniteSetTheorems, TLAPS

-----------------------------------------------------------------------------
(* Sorting.                                                                *)

(* R orders the elements of S strictly and totally. *)
StrictOrder(R, S) ==
  /\ \A x \in S : <<x, x>> \notin R
  /\ \A x, y, z \in S : <<x, y>> \in R /\ <<y, z>> \in R => <<x, z>> \in R
  /\ \A x, y \in S : x # y => <<x, y>> \in R \/ <<y, x>> \in R

(* s lists the elements of S in the order R, each once. *)
Lists(s, S, R) ==
  /\ s \in [1..Cardinality(S) -> S]
  /\ \A i, j \in 1..Cardinality(S) : i < j => <<s[i], s[j]>> \in R
  /\ \A x \in S : \E i \in 1..Cardinality(S) : s[i] = x

(* A finite set has a sorted sequence: each element at the place that the    *)
(* number of smaller ones gives it.                                          *)
LEMMA SortExists ==
  ASSUME NEW S, IsFiniteSet(S), NEW R, StrictOrder(R, S)
  PROVE  \E s \in SetToSeqs(S) : \A i, j \in DOMAIN s : i < j => <<s[j], s[i]>> \notin R
<1> DEFINE n == Cardinality(S)
           Below(x) == {y \in S : <<y, x>> \in R}
           rank == [x \in S |-> Cardinality(Below(x)) + 1]
<1>1. n \in Nat /\ IsFiniteSet(1..n) /\ Cardinality(1..n) = n
  BY FS_CardinalityType, FS_Interval
<1>2. ASSUME NEW x \in S
      PROVE  /\ IsFiniteSet(Below(x)) /\ Cardinality(Below(x)) \in Nat
             /\ Cardinality(Below(x)) < n
  <2>1. Below(x) \in SUBSET (S \ {x})
    BY DEF StrictOrder
  <2>2. IsFiniteSet(S \ {x}) /\ Cardinality(S \ {x}) = n - 1
    BY FS_RemoveElement
  <2> HIDE DEF n, Below
  <2>3. /\ IsFiniteSet(Below(x)) /\ Cardinality(Below(x)) \in Nat
        /\ Cardinality(Below(x)) <= Cardinality(S \ {x})
    BY <2>1, <2>2, FS_Subset, FS_CardinalityType
  <2> QED
    BY <1>1, <2>2, <2>3
<1>3. ASSUME NEW x \in S, NEW y \in S, <<x, y>> \in R
      PROVE  Cardinality(Below(x)) < Cardinality(Below(y))
  <2>1. Below(x) \in SUBSET Below(y) /\ x \in Below(y) /\ x \notin Below(x)
    BY <1>3 DEF StrictOrder
  <2>2. IsFiniteSet(Below(x)) /\ Cardinality(Below(x)) \in Nat
    BY <1>2
  <2>3. IsFiniteSet(Below(y)) /\ Cardinality(Below(y)) \in Nat
    BY <1>2
  <2> HIDE DEF Below
  <2>4. /\ Cardinality(Below(x)) <= Cardinality(Below(y))
        /\ Cardinality(Below(y)) = Cardinality(Below(x)) => Below(y) = Below(x)
    BY <2>1, <2>3, FS_Subset
  <2> QED
    BY <2>1, <2>2, <2>3, <2>4
<1> HIDE DEF n, Below
<1>4. rank \in [S -> 1..n]
  BY <1>1, <1>2
<1>5. \A x, y \in S : rank[x] = rank[y] => x = y
  <2> SUFFICES ASSUME NEW x \in S, NEW y \in S, rank[x] = rank[y], x # y PROVE FALSE
    OBVIOUS
  <2>1. rank[x] = Cardinality(Below(x)) + 1 /\ rank[y] = Cardinality(Below(y)) + 1
    OBVIOUS
  <2>2. <<x, y>> \in R \/ <<y, x>> \in R
    BY DEF StrictOrder
  <2> QED
    BY <1>2, <1>3, <2>1, <2>2
<1>6. ASSUME NEW x \in S, NEW y \in S, <<x, y>> \in R PROVE rank[x] < rank[y]
  BY <1>2, <1>3, <1>6
<1> HIDE DEF rank
<1>7. rank \in Injection(S, 1..n)
  BY <1>4, <1>5 DEF Injection, IsInjective
<1>8. rank \in Surjection(S, 1..n)
  <2>1. Cardinality(S) = Cardinality(1..n)
    BY <1>1 DEF n
  <2> QED
    BY <1>1, <1>7, <2>1, FS_Injection
<1>9. \A i \in 1..n : \E x \in S : rank[x] = i
  BY <1>8 DEF Surjection
<1> DEFINE e == [i \in 1..n |-> CHOOSE x \in S : rank[x] = i]
<1>10. \A i \in 1..n : e[i] \in S /\ rank[e[i]] = i
  BY <1>9
<1>11. e \in [1..n -> S] /\ DOMAIN e = 1..n
  BY <1>10
<1> HIDE DEF e
<1>12. e \in SetToSeqs(S)
  <2>1. \A i, j \in 1..n : i # j => e[i] # e[j]
    BY <1>10
  <2> QED
    BY <1>11, <2>1 DEF SetToSeqs, n
<1>13. ASSUME NEW i \in 1..n, NEW j \in 1..n, i < j PROVE <<e[j], e[i]>> \notin R
  <2>1. rank[e[j]] = j /\ rank[e[i]] = i /\ e[i] \in S /\ e[j] \in S
    BY <1>10
  <2>2. ~(rank[e[j]] < rank[e[i]])
    BY <1>1, <1>13, <2>1
  <2> QED
    BY <1>6, <2>1, <2>2
<1> QED
  BY <1>11, <1>12, <1>13

(* And such a sequence lists the set in that order. *)
LEMMA SortLists ==
  ASSUME NEW S, IsFiniteSet(S), NEW R, StrictOrder(R, S), NEW s \in SetToSeqs(S),
         \A i, j \in DOMAIN s : i < j => <<s[j], s[i]>> \notin R
  PROVE  Lists(s, S, R)
<1> DEFINE n == Cardinality(S)
<1>1. n \in Nat /\ IsFiniteSet(1..n) /\ Cardinality(1..n) = n
  BY FS_CardinalityType, FS_Interval
<1>2. /\ s \in [1..n -> S] /\ DOMAIN s = 1..n
      /\ \A i, j \in 1..n : i # j => s[i] # s[j]
  BY DEF SetToSeqs
<1>3. s \in Surjection(1..n, S)
  <2>1. s \in Injection(1..n, S)
    BY <1>2 DEF Injection, IsInjective
  <2>2. Cardinality(1..n) = Cardinality(S)
    BY <1>1
  <2> HIDE DEF n
  <2> QED
    BY <2>1, <2>2, FS_Injection
<1>4. \A x \in S : \E i \in 1..n : s[i] = x
  BY <1>3 DEF Surjection
<1> HIDE DEF n
<1>5. ASSUME NEW i \in 1..n, NEW j \in 1..n, i < j PROVE <<s[i], s[j]>> \in R
  <2>1. i # j /\ s[i] \in S /\ s[j] \in S
    BY <1>1, <1>2, <1>5
  <2>2. s[i] # s[j] /\ <<s[j], s[i]>> \notin R
    BY <1>2, <1>5, <2>1
  <2> QED
    BY <2>1, <2>2 DEF StrictOrder
<1> QED
  BY <1>2, <1>4, <1>5 DEF Lists, n
-----------------------------------------------------------------------------
(* The fold that is the loop of select_latest_quotes_by_counterparty.      *)

Start == [latest |-> {}, best |-> {}]

(* The graph of the recursion that the library's FoldLeft stands for: what the *)
(* loop has after the places in s, taking the last of them last.               *)
IsScan(g, o, S) ==
  g = [s \in SUBSET S |-> IF s = {} THEN Start
                          ELSE ScanLatest(g[s \ {Max(s)}], o[Max(s)])]

ScanGraph(o, S) == CHOOSE g : IsScan(g, o, S)

(* The fold is the last value of that recursion. *)
LEMMA FoldIsGraph ==
  ASSUME NEW o
  PROVE  FoldLeft(ScanLatest, Start, o) = ScanGraph(o, DOMAIN o)[DOMAIN o]
  BY DEF FoldLeft, MapThenFoldSet, ScanGraph, IsScan

(* A set of numbers that is not empty has a smallest one. *)
LEMMA SmallestNumber ==
  ASSUME NEW T \in SUBSET Nat, T # {}
  PROVE  \E n \in T : \A m \in T : n <= m
<1>1. PICK n \in T : \A m \in T : ~(<<m, n>> \in OpToRel(<, Nat))
  BY NatLessThanWellFounded, WFMin
<1>2. ASSUME NEW m \in T PROVE n <= m
  <2>1. m < n => <<m, n>> \in OpToRel(<, Nat)
    BY DEF OpToRel
  <2>2. ~(m < n)
    BY <1>1, <2>1
  <2>3. m \in Nat /\ n \in Nat
    OBVIOUS
  <2> QED
    BY <2>2, <2>3
<1> QED
  BY <1>2

(* Places of a sequence have a last one. *)
LEMMA MaxIn ==
  ASSUME NEW n \in Nat, NEW s \in SUBSET (1..n), s # {}
  PROVE  Max(s) \in s /\ \A y \in s : y <= Max(s)
<1> DEFINE T == {k \in Nat : n - k \in s}
<1>1. T # {}
  <2>1. PICK x \in s : TRUE
    OBVIOUS
  <2>2. n - x \in Nat /\ n - (n - x) = x
    BY <2>1
  <2> QED
    BY <2>1, <2>2
<1>2. PICK k \in T : \A m \in T : k <= m
  <2>1. T \in SUBSET Nat
    OBVIOUS
  <2> HIDE DEF T
  <2> QED
    BY <1>1, <2>1, SmallestNumber
<1>3. n - k \in s /\ k \in Nat
  OBVIOUS
<1>4. ASSUME NEW y \in s PROVE n - k >= y
  <2>1. n - y \in Nat /\ n - (n - y) = y /\ y \in Int
    OBVIOUS
  <2>2. n - y \in T
    BY <2>1
  <2>3. k <= n - y
    BY <1>2, <2>2
  <2> QED
    BY <1>3, <2>1, <2>3
<1>5. Max(s) \in s /\ \A y \in s : Max(s) >= y
  <2>1. \E x \in s : \A y \in s : x >= y
    BY <1>3, <1>4
  <2> QED
    BY <2>1 DEF Max
<1> QED
  BY <1>5

(* A set of places of some sequence, with what is used of such sets. *)
Places(S) == \E n \in Nat : S \in SUBSET (1..n)

(* Places are finitely many. *)
LEMMA PlacesFinite == ASSUME NEW S, Places(S) PROVE IsFiniteSet(S)
<1>1. PICK n \in Nat : S \in SUBSET (1..n)
  BY DEF Places
<1>2. IsFiniteSet(1..n)
  BY FS_Interval
<1> QED
  BY <1>1, <1>2, FS_Subset

(* Some of the places are places again, and have a last one. *)
LEMMA PlacesPart ==
  ASSUME NEW S, Places(S), NEW T \in SUBSET S
  PROVE  Places(T) /\ (T # {} => Max(T) \in T)
<1>1. PICK n \in Nat : S \in SUBSET (1..n)
  BY DEF Places
<1>2. T \in SUBSET (1..n)
  BY <1>1
<1> QED
  BY <1>2, MaxIn DEF Places

(* Among subsets of a finite set there is a minimal one. *)
LEMMA MinimalSubset ==
  ASSUME NEW S, IsFiniteSet(S), NEW B \in SUBSET SUBSET S, B # {}
  PROVE  \E T \in B : \A U \in B : U \subseteq T => U = T
<1>1. IsWellFoundedOn(StrictSubsetOrdering(S), SUBSET S)
  BY FS_StrictSubsetOrderingWellFounded, FS_FiniteSubsetsOfFinite
<1>2. PICK T \in B : \A U \in B : ~(<<U, T>> \in StrictSubsetOrdering(S))
  BY <1>1, WFMin
<1>3. ASSUME NEW U \in B, U \subseteq T, U # T PROVE FALSE
  <2>1. <<U, T>> \in StrictSubsetOrdering(S)
    BY <1>3 DEF StrictSubsetOrdering
  <2> QED
    BY <1>2, <2>1
<1>4. \A U \in B : U \subseteq T => U = T
  BY <1>3
<1> QED
  BY <1>4

(* One step of the recursion. *)
LEMMA ScanUnfold ==
  ASSUME NEW o, NEW S, NEW g, IsScan(g, o, S), NEW s \in SUBSET S
  PROVE  g[s] = IF s = {} THEN Start ELSE ScanLatest(g[s \ {Max(s)}], o[Max(s)])
<1> DEFINE E(t) == IF t = {} THEN Start ELSE ScanLatest(g[t \ {Max(t)}], o[Max(t)])
<1>1. g = [t \in SUBSET S |-> E(t)]
  BY Zenon DEF IsScan
<1> HIDE DEF E
<1>2. g[s] = E(s)
  BY <1>1
<1> QED
  BY <1>2, Zenon DEF E

(* It has one solution on the sets of places of a set. *)
LEMMA ScanUnique ==
  ASSUME NEW o, NEW S, Places(S), NEW T \in SUBSET S,
         NEW g, NEW h, IsScan(g, o, S), IsScan(h, o, T)
  PROVE  g[T] = h[T]
<1> DEFINE B == {s \in SUBSET T : g[s] # h[s]}
<1> SUFFICES ASSUME B # {} PROVE FALSE
  OBVIOUS
<1>1. PICK s \in B : \A u \in B : u \subseteq s => u = s
  <2>1. B \in SUBSET SUBSET S
    OBVIOUS
  <2> HIDE DEF B
  <2> QED
    BY <2>1, PlacesFinite, MinimalSubset
<1>2. s \in SUBSET T /\ s \in SUBSET S /\ g[s] # h[s]
  OBVIOUS
<1>3. s # {}
  <2>1. g[{}] = Start /\ h[{}] = Start
    BY ScanUnfold, Zenon
  <2> QED
    BY <1>2, <2>1
<1> DEFINE u == s \ {Max(s)}
<1>4. u \in SUBSET T /\ u \subseteq s /\ u # s
  BY <1>2, <1>3, PlacesPart
<1>5. g[u] = h[u]
  BY <1>1, <1>4
<1> HIDE DEF B
<1>6. g[s] = ScanLatest(g[u], o[Max(s)]) /\ h[s] = ScanLatest(h[u], o[Max(s)])
  BY <1>2, <1>3, ScanUnfold
<1> HIDE DEF u
<1> QED
  BY <1>2, <1>5, <1>6, Zenon

(* It has a solution, so the fold is no arbitrary value. *)
LEMMA ScanExists ==
  ASSUME NEW o, NEW S, Places(S)
  PROVE  IsScan(ScanGraph(o, S), o, S)
<1> DEFINE B == {T \in SUBSET S : ~ \E g : IsScan(g, o, T)}
<1> SUFFICES ASSUME B # {} PROVE FALSE
  <2>1. S \notin B => \E g : IsScan(g, o, S)
    BY Zenon
  <2> QED
    BY <2>1, Zenon DEF ScanGraph
<1>1. PICK T \in B : \A U \in B : U \subseteq T => U = T
  <2>1. B \in SUBSET SUBSET S
    OBVIOUS
  <2> HIDE DEF B
  <2> QED
    BY <2>1, PlacesFinite, MinimalSubset
<1>2. T \in SUBSET S /\ ~ \E g : IsScan(g, o, T)
  BY Zenon
<1> DEFINE G(u) == ScanGraph(o, u)
<1>3. ASSUME NEW u \in SUBSET T, u # T PROVE IsScan(G(u), o, u)
  <2>1. u \notin B /\ u \in SUBSET S
    BY <1>1, <1>2, <1>3
  <2>2. \E g : IsScan(g, o, u)
    BY <2>1, Zenon
  <2> QED
    BY <1>2, <2>2, Zenon DEF ScanGraph
<1> HIDE DEF B
<1> DEFINE Less(s) == s \ {Max(s)}
           E(s) == IF s = {} THEN Start ELSE ScanLatest(G(Less(s))[Less(s)], o[Max(s)])
           h == [s \in SUBSET T |-> E(s)]
<1>4. ASSUME NEW s \in SUBSET T, s # {}
      PROVE  Less(s) \in SUBSET s /\ Less(s) \in SUBSET T /\ Less(s) # s /\ Less(s) # T
  <2>1. s \in SUBSET S
    BY <1>2
  <2>2. Max(s) \in s
    BY <1>4, <2>1, PlacesPart
  <2> QED
    BY <2>2
<1> HIDE DEF Less
<1>5. ASSUME NEW s \in SUBSET T, s # {} PROVE h[Less(s)] = G(Less(s))[Less(s)]
  <2> DEFINE u == Less(s)
             v == Less(u)
  <2>1. u \in SUBSET T /\ u # T
    BY <1>4, <1>5
  <2>2. h[u] = E(u)
    <3> HIDE DEF E
    <3> QED
      BY <2>1
  <2>3. IsScan(G(u), o, u) /\ Places(u)
    BY <1>2, <1>3, <2>1, PlacesPart
  <2> HIDE DEF G, u
  <2>4. G(u)[u] = IF u = {} THEN Start ELSE ScanLatest(G(u)[v], o[Max(u)])
    <3>1. u \in SUBSET u
      OBVIOUS
    <3> HIDE DEF E, h
    <3>2. G(u)[u] = IF u = {} THEN Start ELSE ScanLatest(G(u)[u \ {Max(u)}], o[Max(u)])
      BY <2>3, <3>1, ScanUnfold
    <3> QED
      BY <3>2, Zenon DEF Less
  <2>5. u # {} => G(u)[v] = G(v)[v]
    <3> SUFFICES ASSUME u # {} PROVE G(u)[v] = G(v)[v]
      OBVIOUS
    <3>1. v \in SUBSET u /\ v \in SUBSET T /\ v # T
      BY <1>4, <2>1
    <3>2. IsScan(G(v), o, v)
      BY <1>3, <3>1
    <3> HIDE DEF v
    <3> QED
      BY <2>3, <3>1, <3>2, ScanUnique
  <2>6. E(u) = G(u)[u]
    BY <2>4, <2>5, Zenon
  <2> QED
    BY <2>2, <2>6, Zenon DEF u
<1>6. \A s \in SUBSET T :
        E(s) = IF s = {} THEN Start ELSE ScanLatest(h[Less(s)], o[Max(s)])
  <2> HIDE DEF h, G
  <2> QED
    BY <1>5, Zenon
<1>7. h = [s \in SUBSET T |-> IF s = {} THEN Start ELSE ScanLatest(h[Less(s)], o[Max(s)])]
  <2> DEFINE F(s) == IF s = {} THEN Start ELSE ScanLatest(h[Less(s)], o[Max(s)])
  <2>1. \A s \in SUBSET T : E(s) = F(s)
    BY <1>6, Zenon
  <2>2. h = [s \in SUBSET T |-> E(s)]
    OBVIOUS
  <2> HIDE DEF h, E, F
  <2>3. [s \in SUBSET T |-> E(s)] = [s \in SUBSET T |-> F(s)]
    BY <2>1
  <2>4. h = [s \in SUBSET T |-> F(s)]
    BY <2>2, <2>3
  <2> QED
    BY <2>4, Zenon DEF F
<1> HIDE DEF h
<1>8. IsScan(h, o, T)
  BY <1>7, Zenon DEF IsScan, Less
<1> QED
  BY <1>2, <1>8, Zenon

(* So the values of the fold satisfy the recursion. *)
LEMMA ScanValue ==
  ASSUME NEW o, NEW S, Places(S), NEW s \in SUBSET S
  PROVE  ScanGraph(o, S)[s] =
           IF s = {} THEN Start ELSE ScanLatest(ScanGraph(o, S)[s \ {Max(s)}], o[Max(s)])
<1> DEFINE g == ScanGraph(o, S)
<1>1. IsScan(g, o, S)
  BY ScanExists
<1> HIDE DEF g
<1>2. g[s] = IF s = {} THEN Start ELSE ScanLatest(g[s \ {Max(s)}], o[Max(s)])
  BY <1>1, ScanUnfold
<1> QED
  BY <1>2, Zenon DEF g

(* The loop has nothing before its first quote. *)
LEMMA ScanEmpty == ASSUME NEW n \in Nat, NEW o PROVE ScanGraph(o, 1..n)[{}] = Start
<1> DEFINE S == 1..n
<1>1. Places(S) /\ {} \in SUBSET S
  BY DEF Places
<1> HIDE DEF S
<1>2. ScanGraph(o, S)[{}] = Start
  BY <1>1, ScanValue, Zenon
<1> QED
  BY <1>2 DEF S

(* After k quotes it has what it makes of the k-th and the state before. *)
LEMMA ScanStep ==
  ASSUME NEW n \in Nat, NEW o, NEW k \in 1..n
  PROVE  ScanGraph(o, 1..n)[1..k] = ScanLatest(ScanGraph(o, 1..n)[1..(k-1)], o[k])
<1> DEFINE S == 1..n
           s == 1..k
           t == 1..(k-1)
<1>0. Places(S)
  BY DEF Places
<1>1. s \in SUBSET (1..n) /\ s # {} /\ k \in s /\ s \ {k} = t
  OBVIOUS
<1>2. Max(s) = k
  <2> HIDE DEF s
  <2>1. Max(s) \in s /\ \A y \in s : y <= Max(s)
    BY <1>1, MaxIn
  <2>2. Max(s) \in 1..k
    BY <2>1 DEF s
  <2> QED
    BY <1>1, <2>1, <2>2
<1> HIDE DEF S, s, t
<1>3. ScanGraph(o, S)[s] =
        IF s = {} THEN Start ELSE ScanLatest(ScanGraph(o, S)[s \ {Max(s)}], o[Max(s)])
  <2>1. s \in SUBSET S
    BY <1>1 DEF S
  <2> QED
    BY <1>0, <2>1, ScanValue, Zenon
<1>4. ScanGraph(o, S)[s] = ScanLatest(ScanGraph(o, S)[t], o[k])
  BY <1>1, <1>2, <1>3, Zenon
<1> QED
  BY <1>4 DEF S, s, t

-----------------------------------------------------------------------------
(* select_latest_quotes_by_counterparty.                                   *)

Quote == [id : Nat, rfq : Trades, cp : Cps, price : Prices, received : Stamps]

(* Quotes of a table: finitely many, and no two with one id. *)
QuoteSet(Q) ==
  /\ Q \in SUBSET Quote
  /\ IsFiniteSet(Q)
  /\ \A p, q \in Q : p.id = q.id => p = q

(* What is compared of a quote is a number. *)
LEMMA QuoteNumbers ==
  ASSUME NEW q \in Quote
  PROVE  q.id \in Nat /\ q.cp \in Nat /\ q.price \in Nat /\ q.received \in Nat
  BY RankingConstants DEF Quote

CpOrder(Q) == {w \in Q \X Q : CpThenRecency(w[1], w[2])}

(* The sort key orders quotes strictly, as no two have one id. *)
LEMMA CpOrderStrict == ASSUME NEW Q, QuoteSet(Q) PROVE StrictOrder(CpOrder(Q), Q)
<1>1. \A x, y \in Q : <<x, y>> \in CpOrder(Q) <=> CpThenRecency(x, y)
  BY DEF CpOrder
<1>2. \A q \in Q : q.id \in Nat /\ q.cp \in Nat /\ q.received \in Nat
  BY QuoteNumbers DEF QuoteSet
<1>3. \A x \in Q : ~CpThenRecency(x, x)
  BY <1>2 DEF CpThenRecency, Newer
<1>4. \A x, y, z \in Q : CpThenRecency(x, y) /\ CpThenRecency(y, z) => CpThenRecency(x, z)
  BY <1>2 DEF CpThenRecency, Newer
<1>5. \A x, y \in Q : x # y => CpThenRecency(x, y) \/ CpThenRecency(y, x)
  <2> SUFFICES ASSUME NEW x \in Q, NEW y \in Q, x # y
               PROVE  CpThenRecency(x, y) \/ CpThenRecency(y, x)
    OBVIOUS
  <2>1. x.id # y.id
    BY DEF QuoteSet
  <2> QED
    BY <1>2, <2>1 DEF CpThenRecency, Newer
<1> QED
  BY <1>1, <1>3, <1>4, <1>5 DEF StrictOrder

(* The sort of the quotes lists them by counterparty and recency. *)
LEMMA QuotesSorted ==
  ASSUME NEW Q, QuoteSet(Q) PROVE Lists(Sorted(Q, CpThenRecency), Q, CpOrder(Q))
<1> DEFINE R == CpOrder(Q)
           InOrder(s) == \A i, j \in DOMAIN s : i < j => ~CpThenRecency(s[j], s[i])
<1>1. IsFiniteSet(Q) /\ StrictOrder(R, Q)
  BY CpOrderStrict DEF QuoteSet
<1>2. ASSUME NEW s \in SetToSeqs(Q), NEW i \in DOMAIN s, NEW j \in DOMAIN s
      PROVE  <<s[j], s[i]>> \in R <=> CpThenRecency(s[j], s[i])
  <2>1. s[i] \in Q /\ s[j] \in Q
    BY <1>2 DEF SetToSeqs
  <2> QED
    BY <2>1 DEF CpOrder
<1> HIDE DEF R
<1>3. \E s \in SetToSeqs(Q) : InOrder(s)
  <2>1. PICK s \in SetToSeqs(Q) : \A i, j \in DOMAIN s : i < j => <<s[j], s[i]>> \notin R
    BY <1>1, SortExists
  <2> QED
    BY <1>2, <2>1
<1> DEFINE o == Sorted(Q, CpThenRecency)
<1>4. o \in SetToSeqs(Q) /\ InOrder(o)
  <2>1. o = CHOOSE s \in SetToSeqs(Q) : InOrder(s)
    BY Zenon DEF Sorted
  <2> HIDE DEF o, InOrder
  <2> QED
    BY <1>3, <2>1, Zenon
<1> HIDE DEF o
<1>5. \A i, j \in DOMAIN o : i < j => <<o[j], o[i]>> \notin R
  BY <1>2, <1>4
<1>6. Lists(o, Q, R)
  BY <1>1, <1>4, <1>5, SortLists
<1> QED
  BY <1>6 DEF o, R

(* What has been filed before the k-th quote is looked at. *)
Filed(o, k) == {o[i] : i \in {j \in 1..(k-1) : o[j].cp # o[j+1].cp}}

(* The loop's body on the first quote: it is the best so far. *)
LEMMA ScanFirst ==
  ASSUME NEW L, NEW q
  PROVE  ScanLatest([latest |-> L, best |-> {}], q) = [latest |-> L, best |-> {q}]
  BY DEF ScanLatest

(* The loop's body on another counterparty: the best so far is filed. *)
LEMMA ScanOther ==
  ASSUME NEW L, NEW q, NEW b, b.cp # q.cp
  PROVE  ScanLatest([latest |-> L, best |-> {b}], q) = [latest |-> L \cup {b}, best |-> {q}]
  BY DEF ScanLatest

(* The loop's body on a newer quote of the same counterparty: it takes over. *)
LEMMA ScanNewer ==
  ASSUME NEW L, NEW q, NEW b, b.cp = q.cp, Newer(q, b)
  PROVE  ScanLatest([latest |-> L, best |-> {b}], q) = [latest |-> L, best |-> {q}]
  BY DEF ScanLatest

(* Between two neighbours in the order. *)
LEMMA Neighbours ==
  ASSUME NEW Q, QuoteSet(Q), NEW o, Lists(o, Q, CpOrder(Q)),
         NEW i \in 1..Cardinality(Q), NEW j \in 1..Cardinality(Q), i < j
  PROVE  /\ o[i] \in Q /\ o[j] \in Q /\ o[i].cp \in Nat /\ o[j].cp \in Nat
         /\ o[i].cp <= o[j].cp
         /\ o[i].cp = o[j].cp => Newer(o[j], o[i])
<1>1. o[i] \in Q /\ o[j] \in Q /\ <<o[i], o[j]>> \in CpOrder(Q)
  BY DEF Lists
<1>2. CpThenRecency(o[i], o[j])
  BY <1>1 DEF CpOrder
<1>3. o[i].cp \in Nat /\ o[j].cp \in Nat
  BY <1>1, QuoteNumbers DEF QuoteSet
<1> QED
  BY <1>1, <1>2, <1>3 DEF CpThenRecency
(* Where the loop stands after k quotes: the last of them is the best of its *)
(* counterparty, and the last of each earlier counterparty is filed.         *)
LEMMA ScanState ==
  ASSUME NEW Q, QuoteSet(Q), NEW o, Lists(o, Q, CpOrder(Q)), NEW k \in 0..Cardinality(Q)
  PROVE  ScanGraph(o, 1..Cardinality(Q))[1..k]
           = [latest |-> Filed(o, k), best |-> IF k = 0 THEN {} ELSE {o[k]}]
<1> DEFINE n == Cardinality(Q)
           At(m) == ScanGraph(o, 1..n)[1..m]
           Goal(m) == At(m) = [latest |-> Filed(o, m), best |-> IF m = 0 THEN {} ELSE {o[m]}]
           T == {m \in 0..n : ~Goal(m)}
<1>1. n \in Nat
  BY FS_CardinalityType DEF QuoteSet
<1>2. Goal(0)
  <2>1. 1..0 = {} /\ Filed(o, 0) = {}
    BY DEF Filed
  <2>2. At(0) = Start
    BY <1>1, <2>1, ScanEmpty
  <2> QED
    BY <2>1, <2>2 DEF Start
<1>3. ASSUME NEW m \in 1..n, Goal(m-1) PROVE Goal(m)
  <2> DEFINE L == Filed(o, m-1)
  <2>1. At(m) = ScanLatest(At(m-1), o[m])
    BY <1>1, ScanStep
  <2> HIDE DEF At
  <2>2. CASE m = 1
    <3>1. At(m) = ScanLatest([latest |-> L, best |-> {}], o[m])
      BY <1>3, <2>1, <2>2
    <3>2. At(m) = [latest |-> L, best |-> {o[m]}]
      <4> HIDE DEF L
      <4> QED
        BY <3>1, ScanFirst
    <3>3. L = {} /\ Filed(o, m) = {}
      BY <2>2 DEF Filed
    <3> QED
      BY <2>2, <3>2, <3>3
  <2>3. CASE m > 1
    <3>1. At(m-1) = [latest |-> L, best |-> {o[m-1]}]
      BY <1>3, <2>3
    <3>2. /\ m-1 \in 1..n /\ (m-1) + 1 = m /\ m-1 < m
          /\ 1..(m-1) = (1..((m-1)-1)) \cup {m-1}
      BY <1>1, <2>3
    <3> DEFINE D == {j \in 1..(m-1) : o[j].cp # o[j+1].cp}
               C == {j \in 1..((m-1)-1) : o[j].cp # o[j+1].cp}
    <3>3. Filed(o, m) = {o[i] : i \in D} /\ L = {o[i] : i \in C}
      BY DEF Filed
    <3>4. CASE o[m-1].cp # o[m].cp
      <4>1. At(m) = [latest |-> L \cup {o[m-1]}, best |-> {o[m]}]
        <5> HIDE DEF L
        <5>1. ScanLatest([latest |-> L, best |-> {o[m-1]}], o[m])
                = [latest |-> L \cup {o[m-1]}, best |-> {o[m]}]
          BY <3>4, ScanOther
        <5> QED
          BY <2>1, <3>1, <5>1, Zenon
      <4>2. D = C \cup {m-1}
        BY <3>2, <3>4
      <4> HIDE DEF D, C, L
      <4>3. Filed(o, m) = L \cup {o[m-1]}
        BY <3>3, <4>2
      <4>4. (IF m = 0 THEN {} ELSE {o[m]}) = {o[m]}
        BY <2>3
      <4> QED
        BY <4>1, <4>3, <4>4, Zenon
    <3>5. CASE o[m-1].cp = o[m].cp
      <4>1. Newer(o[m], o[m-1])
        BY <3>2, <3>5, Neighbours
      <4>2. At(m) = [latest |-> L, best |-> {o[m]}]
        <5> HIDE DEF L
        <5>1. ScanLatest([latest |-> L, best |-> {o[m-1]}], o[m])
                = [latest |-> L, best |-> {o[m]}]
          BY <3>5, <4>1, ScanNewer
        <5> QED
          BY <2>1, <3>1, <5>1, Zenon
      <4>3. D = C
        BY <3>2, <3>5
      <4> HIDE DEF D, C, L
      <4>4. Filed(o, m) = L
        BY <3>3, <4>3
      <4>5. (IF m = 0 THEN {} ELSE {o[m]}) = {o[m]}
        BY <2>3
      <4> QED
        BY <4>2, <4>4, <4>5, Zenon
    <3> QED
      BY <3>4, <3>5
  <2> QED
    BY <2>2, <2>3
<1> HIDE DEF Goal
<1>4. T = {}
  <2> SUFFICES ASSUME T # {} PROVE FALSE
    OBVIOUS
  <2>1. PICK m \in T : \A l \in T : m <= l
    <3>1. T \in SUBSET Nat
      BY <1>1
    <3> HIDE DEF T
    <3> QED
      BY <3>1, SmallestNumber
  <2>2. m \in 0..n /\ ~Goal(m) /\ m # 0
    BY <1>2
  <2>3. m \in 1..n /\ m-1 \in 0..n /\ ~(m <= m-1)
    BY <1>1, <2>2
  <2>4. Goal(m-1)
    BY <2>1, <2>3
  <2> QED
    BY <1>3, <2>2, <2>3, <2>4
<1> QED
  BY <1>4 DEF Goal

(* The loop with its last filing returns the last quote of each run of a *)
(* counterparty in the sorted list.                                      *)
LEMMA SelectIsFiled ==
  ASSUME NEW Q, QuoteSet(Q), NEW o, o = Sorted(Q, CpThenRecency)
  PROVE  SelectLatest(Q) = IF Q = {} THEN {} ELSE Filed(o, Cardinality(Q)) \cup {o[Cardinality(Q)]}
<1> DEFINE n == Cardinality(Q)
<1>1. n \in Nat /\ (n = 0 <=> Q = {})
  BY FS_CardinalityType, FS_EmptySet DEF QuoteSet
<1>2. Lists(o, Q, CpOrder(Q))
  BY QuotesSorted
<1>3. DOMAIN o = 1..n
  BY <1>2 DEF Lists
<1> DEFINE end == FoldLeft(ScanLatest, Start, o)
<1>4. end = [latest |-> Filed(o, n), best |-> IF n = 0 THEN {} ELSE {o[n]}]
  <2>1. end = ScanGraph(o, 1..n)[1..n]
    BY <1>3, FoldIsGraph
  <2>2. n \in 0..n
    BY <1>1
  <2> QED
    BY <1>2, <2>1, <2>2, ScanState
<1>5. SelectLatest(Q) = end.latest \cup end.best
  BY Zenon DEF SelectLatest, Start
<1> HIDE DEF end
<1>6. Q = {} => Filed(o, n) = {}
  BY <1>1 DEF Filed
<1> QED
  BY <1>1, <1>4, <1>5, <1>6

(* The scan returns the latest quote of each counterparty. *)
LEMMA SelectFindsLatest ==
  ASSUME NEW Q, QuoteSet(Q) PROVE SelectLatest(Q) = LatestQuotes(Q)
<1> DEFINE n == Cardinality(Q)
           o == Sorted(Q, CpThenRecency)
<1>1. n \in Nat /\ (n = 0 <=> Q = {})
  BY FS_CardinalityType, FS_EmptySet DEF QuoteSet
<1>2. Lists(o, Q, CpOrder(Q))
  BY QuotesSorted
<1>3. SelectLatest(Q) = IF Q = {} THEN {} ELSE Filed(o, n) \cup {o[n]}
  BY SelectIsFiled
<1> HIDE DEF o, n
<1>4. /\ o \in [1..n -> Q] /\ \A x \in Q : \E i \in 1..n : o[i] = x
  BY <1>2 DEF Lists, n
<1>5. \A i, j \in 1..n : i < j =>
        /\ o[i].cp \in Nat /\ o[j].cp \in Nat /\ o[i].cp <= o[j].cp
        /\ o[i].cp = o[j].cp => Newer(o[j], o[i])
  BY <1>2, Neighbours DEF n
<1>6. \A p, q \in Q : Newer(p, q) => ~Newer(q, p)
  <2>1. \A q \in Q : q.id \in Nat /\ q.received \in Nat
    BY QuoteNumbers DEF QuoteSet
  <2> QED
    BY <2>1 DEF Newer
<1> DEFINE LastOf(i) == i = n \/ o[i].cp # o[i+1].cp
<1>7. ASSUME NEW i \in 1..n
      PROVE  LastOf(i) <=> o[i] \in LatestQuotes(Q)
  <2>1. ASSUME LastOf(i), NEW p \in Q \ {o[i]}, p.cp = o[i].cp PROVE Newer(o[i], p)
    <3>1. PICK j \in 1..n : o[j] = p
      BY <1>4
    <3>2. j # i
      BY <2>1, <3>1
    <3>3. ~(i < j)
      <4> SUFFICES ASSUME i < j PROVE FALSE
        OBVIOUS
      <4>1. i # n /\ i+1 \in 1..n /\ (i+1 = j \/ i+1 < j) /\ i < i+1
        BY <1>1
      <4>2. o[i].cp # o[i+1].cp
        BY <2>1, <4>1
      <4>3. /\ o[i].cp \in Nat /\ o[i+1].cp \in Nat /\ o[j].cp \in Nat
            /\ o[i].cp <= o[i+1].cp /\ o[i+1].cp <= o[j].cp
        BY <1>5, <4>1
      <4> QED
        BY <2>1, <3>1, <4>2, <4>3
    <3>4. j < i
      BY <1>1, <3>2, <3>3
    <3> QED
      BY <1>5, <2>1, <3>1, <3>4
  <2>2. ASSUME ~LastOf(i) PROVE o[i] \notin LatestQuotes(Q)
    <3>1. i+1 \in 1..n /\ i < i+1 /\ o[i].cp = o[i+1].cp
      BY <1>1, <2>2
    <3>2. Newer(o[i+1], o[i]) /\ o[i] \in Q /\ o[i+1] \in Q
      BY <1>4, <1>5, <3>1
    <3>3. ~Newer(o[i], o[i+1])
      BY <1>6, <3>2
    <3>4. o[i+1] # o[i]
      BY <1>6, <3>2
    <3> QED
      BY <3>1, <3>2, <3>3, <3>4 DEF LatestQuotes
  <2>3. o[i] \in Q
    BY <1>4
  <2> QED
    BY <2>1, <2>2, <2>3 DEF LatestQuotes
<1> HIDE DEF LastOf
<1>8. LatestQuotes(Q) = {o[i] : i \in {j \in 1..n : LastOf(j)}}
  <2>1. LatestQuotes(Q) \subseteq Q
    BY DEF LatestQuotes
  <2>2. ASSUME NEW x \in LatestQuotes(Q) PROVE \E i \in 1..n : LastOf(i) /\ o[i] = x
    <3>1. PICK i \in 1..n : o[i] = x
      BY <1>4, <2>1
    <3> QED
      BY <1>7, <3>1
  <2> QED
    BY <1>7, <2>2
<1>9. CASE Q = {}
  BY <1>3, <1>9 DEF LatestQuotes
<1>10. CASE Q # {}
  <2>1. n \in 1..n
    BY <1>1, <1>10
  <2>2. {j \in 1..n : LastOf(j)} = {j \in 1..(n-1) : o[j].cp # o[j+1].cp} \cup {n}
    BY <1>1, <2>1 DEF LastOf
  <2>3. {o[i] : i \in {j \in 1..n : LastOf(j)}} = Filed(o, n) \cup {o[n]}
    BY <2>2 DEF Filed
  <2> QED
    BY <1>3, <1>8, <1>10, <2>3
<1> QED
  BY <1>9, <1>10
-----------------------------------------------------------------------------
(* The tables of quotes.                                                   *)

(* The quotes on record are finitely many, and an id is given once. *)
RankInv ==
  /\ QuoteSet(table)
  /\ nextId \in Nat
  /\ \A q \in table : q.id < nextId

(* The tables that submissions and rejections produce are sets of quotes. *)
THEOREM RankInvHolds == Spec => []RankInv
<1>1. Init => RankInv
  BY FS_EmptySet DEF Init, RankInv, QuoteSet
<1>2. RankInv /\ [Next]_<<table, nextId>> => RankInv'
  <2> SUFFICES ASSUME RankInv, [Next]_<<table, nextId>> PROVE RankInv'
    OBVIOUS
  <2>1. ASSUME NEW t \in Trades, NEW c \in Cps, NEW p \in Prices, NEW at \in Stamps,
               Submit(t, c, p, at)
        PROVE  RankInv'
    <3> DEFINE q == [id |-> nextId, rfq |-> t, cp |-> c, price |-> p, received |-> at]
    <3>1. table' = table \cup {q} /\ nextId' = nextId + 1
      BY <2>1 DEF Submit
    <3>2. q \in Quote /\ q.id = nextId
      BY DEF RankInv, Quote
    <3> HIDE DEF q
    <3>3. IsFiniteSet(table')
      BY <3>1, FS_AddElement DEF RankInv, QuoteSet
    <3>4. \A x \in table : x.id \in Nat /\ x.id < nextId
      BY QuoteNumbers DEF RankInv, QuoteSet
    <3>5. \A x, y \in table' : x.id = y.id => x = y
      BY <3>1, <3>2, <3>4 DEF RankInv, QuoteSet
    <3>6. \A x \in table' : x.id < nextId'
      BY <3>1, <3>2, <3>4 DEF RankInv
    <3>7. nextId' \in Nat /\ table' \in SUBSET Quote
      BY <3>1, <3>2 DEF RankInv, QuoteSet
    <3> QED
      BY <3>3, <3>5, <3>6, <3>7 DEF RankInv, QuoteSet
  <2>2. ASSUME NEW q \in table, Reject(q) PROVE RankInv'
    <3>1. table' \in SUBSET table /\ nextId' = nextId
      BY <2>2 DEF Reject
    <3>2. IsFiniteSet(table')
      BY <3>1, FS_Subset DEF RankInv, QuoteSet
    <3> QED
      BY <3>1, <3>2 DEF RankInv, QuoteSet
  <2>3. CASE UNCHANGED <<table, nextId>>
    BY <2>3 DEF RankInv, QuoteSet
  <2> QED
    BY <2>1, <2>2, <2>3 DEF Next
<1> QED
  BY <1>1, <1>2, PTL DEF Spec

(* So are the quotes on one leg. *)
LEMMA OnQuotes == ASSUME RankInv, NEW t PROVE QuoteSet(On(t))
<1>1. On(t) \in SUBSET table
  BY DEF On
<1>2. IsFiniteSet(On(t))
  BY <1>1, FS_Subset DEF RankInv, QuoteSet
<1> QED
  BY <1>1, <1>2 DEF RankInv, QuoteSet

(* The scan of select_latest_quotes_by_counterparty files exactly the newest *)
(* active quote of each counterparty, on every table of quotes.              *)
THEOREM ScanFindsLatestHolds == Spec => []ScanFindsLatest
<1>1. RankInv => ScanFindsLatest
  BY OnQuotes, SelectFindsLatest DEF ScanFindsLatest
<1> QED
  BY <1>1, RankInvHolds, PTL

-----------------------------------------------------------------------------
(* Rankings.                                                               *)

Directions == {"BUY", "SELL"}

(* Entries to rank, with values that can be compared. *)
EntrySet(E) == IsFiniteSet(E) /\ \A e \in E : e.value \in Int

ValueOrder(d, E) == {w \in E \X E : Better(d, w[1].value, w[2].value)}

(* Comparing lengths is a test for ties. *)
LEMMA TieTest ==
  ASSUME NEW E, IsFiniteSet(E)
  PROVE  Cardinality(Values(E)) = Cardinality(E)
           <=> \A x, y \in E : x.value = y.value => x = y
<1> DEFINE f == [e \in E |-> e.value]
           V == Values(E)
<1>1. f \in [E -> V] /\ \A v \in V : \E e \in E : f[e] = v
  BY DEF Values
<1>2. f \in Surjection(E, V)
  BY <1>1 DEF Surjection
<1>3. \A e \in E : f[e] = e.value
  OBVIOUS
<1> HIDE DEF f, V
<1>4. Cardinality(V) = Cardinality(E) <=> f \in Injection(E, V)
  BY <1>2, FS_Surjection
<1>5. f \in Injection(E, V) <=> \A x, y \in E : f[x] = f[y] => x = y
  BY <1>1 DEF Injection, IsInjective
<1>6. (\A x, y \in E : f[x] = f[y] => x = y)
        <=> (\A x, y \in E : x.value = y.value => x = y)
  BY <1>3
<1> QED
  BY <1>4, <1>5, <1>6 DEF V

(* Without ties the sort of a ranking lists the entries, best first. *)
LEMMA EntriesRanked ==
  ASSUME NEW E, EntrySet(E), NEW d \in Directions,
         \A x, y \in E : x.value = y.value => x = y
  PROVE  Lists(Ranked(d, E), E, ValueOrder(d, E))
<1> DEFINE R == ValueOrder(d, E)
           Ahead(x, y) == IF d = "SELL" THEN x.value > y.value ELSE x.value < y.value
           InOrder(s) == \A i, j \in DOMAIN s : i < j => ~Ahead(s[j], s[i])
<1>1. \A x, y \in E : Ahead(x, y) <=> Better(d, x.value, y.value)
  BY DEF Better, Directions
<1>2. \A x, y \in E : <<x, y>> \in R <=> Ahead(x, y)
  BY <1>1 DEF ValueOrder
<1>3. IsFiniteSet(E) /\ \A e \in E : e.value \in Int
  BY DEF EntrySet
<1>4. StrictOrder(R, E)
  <2>1. \A x \in E : ~Ahead(x, x)
    BY <1>3
  <2>2. \A x, y, z \in E : Ahead(x, y) /\ Ahead(y, z) => Ahead(x, z)
    BY <1>3
  <2>3. \A x, y \in E : x # y => Ahead(x, y) \/ Ahead(y, x)
    BY <1>3
  <2> HIDE DEF R, Ahead
  <2> QED
    BY <1>2, <2>1, <2>2, <2>3 DEF StrictOrder
<1>5. Ranked(d, E) = CHOOSE s \in SetToSeqs(E) : InOrder(s)
  BY Zenon DEF Ranked, Sorted
<1> HIDE DEF R, Ahead
<1>6. ASSUME NEW s \in SetToSeqs(E), NEW i \in DOMAIN s, NEW j \in DOMAIN s
      PROVE  <<s[j], s[i]>> \in R <=> Ahead(s[j], s[i])
  <2>1. s[i] \in E /\ s[j] \in E
    BY <1>6 DEF SetToSeqs
  <2> QED
    BY <1>2, <2>1
<1>7. \E s \in SetToSeqs(E) : InOrder(s)
  <2>1. PICK s \in SetToSeqs(E) : \A i, j \in DOMAIN s : i < j => <<s[j], s[i]>> \notin R
    BY <1>3, <1>4, SortExists
  <2> QED
    BY <1>6, <2>1
<1> DEFINE o == Ranked(d, E)
<1>8. o \in SetToSeqs(E) /\ InOrder(o)
  <2> HIDE DEF InOrder
  <2> QED
    BY <1>5, <1>7, Zenon
<1> HIDE DEF o
<1>9. \A i, j \in DOMAIN o : i < j => <<o[j], o[i]>> \notin R
  BY <1>6, <1>8
<1>10. Lists(o, E, R)
  BY <1>3, <1>4, <1>8, <1>9, SortLists
<1> QED
  BY <1>10 DEF o, R

(* Its head is better than every other entry. *)
LEMMA RankedHead ==
  ASSUME NEW E, EntrySet(E), E # {}, NEW d \in Directions,
         \A x, y \in E : x.value = y.value => x = y
  PROVE  LET s == Ranked(d, E) IN
         /\ BestFirst(d, s)
         /\ Head(s) \in E
         /\ \A e \in E \ {Head(s)} : Better(d, Head(s).value, e.value)
         /\ {s[i] : i \in DOMAIN s} = E
<1> DEFINE s == Ranked(d, E)
           n == Cardinality(E)
<1>1. Lists(s, E, ValueOrder(d, E))
  BY EntriesRanked
<1>2. n \in Nat /\ n # 0 /\ 1 \in 1..n
  BY FS_CardinalityType, FS_EmptySet DEF EntrySet
<1> HIDE DEF s
<1>3. /\ s \in [1..n -> E] /\ DOMAIN s = 1..n
      /\ \A x \in E : \E i \in 1..n : s[i] = x
  BY <1>1 DEF Lists
<1>4. \A i, j \in 1..n : i < j => Better(d, s[i].value, s[j].value)
  <2>1. \A i, j \in 1..n : i < j => <<s[i], s[j]>> \in ValueOrder(d, E)
    BY <1>1 DEF Lists
  <2> QED
    BY <2>1 DEF ValueOrder
<1> HIDE DEF n
<1>5. BestFirst(d, s)
  BY <1>3, <1>4 DEF BestFirst
<1>6. Head(s) = s[1]
  <2>1. s \in Seq(E) /\ Len(s) = n
    BY <1>2, <1>3
  <2> QED
    BY <1>2, <2>1
<1>7. ASSUME NEW e \in E \ {s[1]} PROVE Better(d, s[1].value, e.value)
  <2>1. PICK i \in 1..n : s[i] = e
    BY <1>3
  <2>2. i # 1 /\ 1 < i
    BY <1>2, <1>7, <2>1
  <2> QED
    BY <1>2, <1>4, <2>1, <2>2
<1>8. s[1] \in E /\ {s[i] : i \in DOMAIN s} = E
  BY <1>2, <1>3
<1> QED
  BY <1>5, <1>6, <1>7, <1>8 DEF s
(* What both rankers do with their entries. *)
Outcome(d, E) ==
  IF E = {} THEN Failure("no_eligible_quotes")
  ELSE IF Cardinality(Values(E)) # Cardinality(E) THEN Failure("tie")
  ELSE Success(Ranked(d, E))

(* The offers I with values v and quotes u as entries, and the quotes of the *)
(* best offer, none when two offers have one value.                          *)
EntriesOf(I, v, u) == {[value |-> v[i], quotes |-> u[i]] : i \in I}

Unequalled(d, I, v) == {i \in I : \A j \in I \ {i} : Better(d, v[i], v[j])}

WinnerOf(d, I, v, u) ==
  IF \E i, j \in I : i # j /\ v[i] = v[j] THEN {}
  ELSE UNION {u[i] : i \in Unequalled(d, I, v)}

(* Being better excludes being worse. *)
LEMMA BetterStrict ==
  ASSUME NEW d \in Directions, NEW a \in Int, NEW b \in Int, Better(d, a, b)
  PROVE  ~Better(d, b, a)
  BY DEF Better

(* The ranking r awards the winner, is strict, and is of all the groups. *)
SoundRanking(d, r, winner, groups) ==
  /\ Awarded(r) = winner
  /\ BestFirst(d, r.ranking)
  /\ r.status = "SUCCESS" => {r.ranking[k].quotes : k \in DOMAIN r.ranking} = groups

(* A failed ranking awards nothing and ranks nothing. *)
LEMMA FailureSound ==
  ASSUME NEW d, NEW c, c # "SUCCESS", NEW U
  PROVE  SoundRanking(d, Failure(c), {}, U)
<1>1. Failure(c).status = c /\ Failure(c).ranking = << >>
  BY DEF Failure
<1>2. BestFirst(d, << >>)
  BY DEF BestFirst
<1> QED
  BY <1>1, <1>2 DEF Awarded, SoundRanking

(* A ranking of finitely many offers awards the best, orders them strictly, *)
(* and lists all of them when it succeeds.                                  *)
LEMMA OutcomeSound ==
  ASSUME NEW I, IsFiniteSet(I), NEW v \in [I -> Int], NEW u,
         \A i, j \in I : u[i] = u[j] => i = j,
         NEW d \in Directions
  PROVE  SoundRanking(d, Outcome(d, EntriesOf(I, v, u)), WinnerOf(d, I, v, u), {u[i] : i \in I})
<1> DEFINE E == EntriesOf(I, v, u)
           Entry(i) == [value |-> v[i], quotes |-> u[i]]
           r == Outcome(d, E)
           U == {u[i] : i \in I}
           Goal == SoundRanking(d, r, WinnerOf(d, I, v, u), U)
<1> SUFFICES Goal
  BY Zenon
<1>1. E = {Entry(i) : i \in I}
  BY DEF EntriesOf
<1>2. \A i \in I : Entry(i).value = v[i] /\ Entry(i).quotes = u[i] /\ v[i] \in Int
  OBVIOUS
<1> HIDE DEF Entry, E
<1>3. \A i, j \in I : Entry(i) = Entry(j) => i = j
  BY <1>2
<1>4. EntrySet(E)
  <2> DEFINE f == [i \in I |-> Entry(i)]
  <2>1. f \in Surjection(I, E)
    <3>1. f \in [I -> E] /\ \A e \in E : \E i \in I : f[i] = e
      BY <1>1
    <3> QED
      BY <3>1 DEF Surjection
  <2> HIDE DEF f
  <2>2. IsFiniteSet(E)
    BY <2>1, FS_Surjection
  <2> QED
    BY <1>1, <1>2, <2>2 DEF EntrySet
<1>5. Cardinality(Values(E)) = Cardinality(E)
        <=> \A i, j \in I : v[i] = v[j] => i = j
  <2>1. Cardinality(Values(E)) = Cardinality(E)
          <=> \A x, y \in E : x.value = y.value => x = y
    BY <1>4, TieTest DEF EntrySet
  <2>2. (\A x, y \in E : x.value = y.value => x = y)
          <=> \A i, j \in I : v[i] = v[j] => i = j
    BY <1>1, <1>2, <1>3
  <2> QED
    BY <2>1, <2>2
<1>6. CASE E = {}
  <2>1. r = Failure("no_eligible_quotes")
    BY <1>6 DEF Outcome
  <2>2. I = {}
    BY <1>1, <1>6
  <2>3. WinnerOf(d, I, v, u) = {}
    BY <2>2 DEF WinnerOf, Unequalled
  <2> HIDE DEF r, U
  <2>4. SoundRanking(d, r, {}, U)
    BY <2>1, FailureSound
  <2> QED
    BY <2>3, <2>4, Zenon
<1>7. CASE E # {} /\ Cardinality(Values(E)) # Cardinality(E)
  <2>1. r = Failure("tie")
    BY <1>7 DEF Outcome
  <2>2. WinnerOf(d, I, v, u) = {}
    BY <1>5, <1>7 DEF WinnerOf
  <2> HIDE DEF r, U
  <2>3. SoundRanking(d, r, {}, U)
    BY <2>1, FailureSound
  <2> QED
    BY <2>2, <2>3, Zenon
<1>8. CASE E # {} /\ Cardinality(Values(E)) = Cardinality(E)
  <2> DEFINE s == Ranked(d, E)
             h == Head(s)
  <2>1. r = Success(s) /\ r.status = "SUCCESS" /\ r.ranking = s
    BY <1>8 DEF Outcome, Success
  <2>2. \A x, y \in E : x.value = y.value => x = y
    BY <1>4, <1>8, TieTest DEF EntrySet
  <2>3. /\ BestFirst(d, s)
        /\ h \in E
        /\ \A e \in E \ {h} : Better(d, h.value, e.value)
        /\ {s[i] : i \in DOMAIN s} = E
    BY <1>4, <1>8, <2>2, RankedHead
  <2>4. Awarded(r) = h.quotes
    BY <2>1 DEF Awarded
  <2> HIDE DEF r, s, h
  <2>5. PICK i \in I : h = Entry(i)
    BY <1>1, <2>3
  <2>6. ASSUME NEW j \in I, j # i PROVE Better(d, v[i], v[j])
    <3>1. Entry(j) \in E \ {h}
      BY <1>1, <1>3, <2>5, <2>6
    <3> QED
      BY <1>2, <2>3, <2>5, <3>1
  <2>7. Unequalled(d, I, v) = {i}
    <3>1. i \in Unequalled(d, I, v)
      BY <2>6 DEF Unequalled
    <3>2. ASSUME NEW j \in Unequalled(d, I, v), j # i PROVE FALSE
      <4>1. j \in I /\ Better(d, v[j], v[i])
        BY <3>2 DEF Unequalled
      <4>2. Better(d, v[i], v[j]) /\ v[i] \in Int /\ v[j] \in Int
        BY <1>2, <2>6, <3>2, <4>1
      <4> QED
        BY <4>1, <4>2, BetterStrict
    <3> QED
      BY <3>1, <3>2
  <2>8. WinnerOf(d, I, v, u) = u[i]
    <3>1. ~ \E k, j \in I : k # j /\ v[k] = v[j]
      BY <1>5, <1>8
    <3>2. UNION {u[k] : k \in {i}} = u[i]
      OBVIOUS
    <3> QED
      BY <2>7, <3>1, <3>2 DEF WinnerOf
  <2>9. {s[k].quotes : k \in DOMAIN s} = {u[k] : k \in I}
    <3>1. {s[k].quotes : k \in DOMAIN s} = {e.quotes : e \in E}
      BY <2>3
    <3>2. {e.quotes : e \in E} = {u[k] : k \in I}
      BY <1>1, <1>2
    <3> QED
      BY <3>1, <3>2
  <2>10. Awarded(r) = WinnerOf(d, I, v, u)
    BY <1>2, <2>4, <2>5, <2>8
  <2>11. BestFirst(d, r.ranking)
    BY <2>1, <2>3, Zenon
  <2>12. {r.ranking[k].quotes : k \in DOMAIN r.ranking} = U
    <3> HIDE DEF U
    <3>1. {s[k].quotes : k \in DOMAIN s} = U
      BY <2>9 DEF U
    <3> QED
      BY <2>1, <3>1
  <2> HIDE DEF U
  <2> QED
    BY <2>10, <2>11, <2>12, Zenon DEF SoundRanking
<1> HIDE DEF Goal
<1> QED
  BY <1>6, <1>7, <1>8
-----------------------------------------------------------------------------
(* compute_trade_ranking and compute_spread_ranking.                       *)

(* The latest quotes are quotes, one of each counterparty. *)
LEMMA LatestAreQuotes ==
  ASSUME NEW Q, QuoteSet(Q)
  PROVE  /\ LatestQuotes(Q) \in SUBSET Q
         /\ IsFiniteSet(LatestQuotes(Q))
         /\ \A q \in LatestQuotes(Q) : q.cp \in Nat /\ q.price \in Int
         /\ \A p, q \in LatestQuotes(Q) : p.cp = q.cp => p = q
<1>1. LatestQuotes(Q) \in SUBSET Q
  BY DEF LatestQuotes
<1>2. IsFiniteSet(LatestQuotes(Q))
  BY <1>1, FS_Subset DEF QuoteSet
<1>3. \A q \in Q : q.id \in Nat /\ q.cp \in Nat /\ q.price \in Nat /\ q.received \in Nat
  BY QuoteNumbers DEF QuoteSet
<1>4. ASSUME NEW p \in LatestQuotes(Q), NEW q \in LatestQuotes(Q), p.cp = q.cp PROVE p = q
  <2> SUFFICES ASSUME p # q PROVE FALSE
    OBVIOUS
  <2>1. Newer(p, q) /\ Newer(q, p) /\ p \in Q /\ q \in Q
    BY <1>4 DEF LatestQuotes
  <2> QED
    BY <1>3, <2>1 DEF Newer
<1> QED
  BY <1>1, <1>2, <1>3, <1>4

(* The trade ranking is sound for any quotes on a trade. *)
LEMMA TradeSound ==
  ASSUME NEW Q, QuoteSet(Q), NEW d \in Directions
  PROVE  SoundRanking(d, TradeRanking(d, Q), TradeWinner(d, Q), {{q} : q \in LatestQuotes(Q)})
<1> DEFINE L == LatestQuotes(Q)
           v == [q \in L |-> q.price]
           u == [q \in L |-> {q}]
<1>1. IsFiniteSet(L) /\ v \in [L -> Int]
  BY LatestAreQuotes
<1>2. \A i, j \in L : u[i] = u[j] => i = j
  OBVIOUS
<1>3. {[value |-> q.price, quotes |-> {q}] : q \in L} = EntriesOf(L, v, u)
  BY DEF EntriesOf
<1>4. TradeRanking(d, Q) = Outcome(d, EntriesOf(L, v, u))
  <2>1. SelectLatest(Q) = L
    BY SelectFindsLatest
  <2> HIDE DEF L, v, u
  <2> QED
    BY <1>3, <2>1, Zenon DEF TradeRanking, Outcome
<1>5. TradeWinner(d, Q) = WinnerOf(d, L, v, u)
  <2>1. (\E p, q \in L : p # q /\ p.price = q.price) <=> (\E i, j \in L : i # j /\ v[i] = v[j])
    OBVIOUS
  <2>2. {q \in L : \A p \in L \ {q} : Better(d, q.price, p.price)} = Unequalled(d, L, v)
    BY DEF Unequalled
  <2>3. Unequalled(d, L, v) \in SUBSET L
    BY DEF Unequalled
  <2>4. UNION {u[i] : i \in Unequalled(d, L, v)} = Unequalled(d, L, v)
    BY <2>3
  <2> HIDE DEF v, u
  <2> QED
    BY <2>1, <2>2, <2>4 DEF TradeWinner, WinnerOf
<1>6. {u[i] : i \in L} = {{q} : q \in L}
  OBVIOUS
<1> HIDE DEF L, v, u
<1>7. SoundRanking(d, Outcome(d, EntriesOf(L, v, u)), WinnerOf(d, L, v, u), {u[i] : i \in L})
  BY <1>1, <1>2, OutcomeSound
<1> QED
  BY <1>4, <1>5, <1>6, <1>7, Zenon DEF L

(* The ranking of a spread from the latest quotes B and S on its legs. *)
SpreadEntries(B, S) ==
  LET of(L, c) == CHOOSE q \in L : q.cp = c
  IN  {[value |-> of(S, c).price - of(B, c).price, quotes |-> {of(B, c), of(S, c)}] :
         c \in {q.cp : q \in B} \cap {q.cp : q \in S}}

SpreadOutcome(d, B, S) ==
  IF {q.cp : q \in B} # {q.cp : q \in S} THEN Failure("incomplete_quotes")
  ELSE Outcome(d, SpreadEntries(B, S))

(* It is what the code computes of them. *)
LEMMA SpreadIsOutcome ==
  ASSUME NEW d, NEW BuyQ, NEW SellQ
  PROVE  SpreadRanking(d, BuyQ, SellQ)
           = SpreadOutcome(d, SelectLatest(BuyQ), SelectLatest(SellQ))
  BY Zenon DEF SpreadRanking, SpreadOutcome, Outcome, SpreadEntries

(* The spread ranking is sound for any quotes on two legs. *)
LEMMA SpreadSound ==
  ASSUME NEW BuyQ, QuoteSet(BuyQ), NEW SellQ, QuoteSet(SellQ), BuyQ \cap SellQ = {},
         NEW d \in Directions
  PROVE  /\ Awarded(SpreadRanking(d, BuyQ, SellQ)) = SpreadWinner(d, BuyQ, SellQ)
         /\ BestFirst(d, SpreadRanking(d, BuyQ, SellQ).ranking)
<1> DEFINE B == LatestQuotes(BuyQ)
           S == LatestQuotes(SellQ)
           Keys(L) == {q.cp : q \in L}
           Of(L, c) == CHOOSE q \in L : q.cp = c
           Pairs == {w \in B \X S : w[1].cp = w[2].cp}
           v == [w \in Pairs |-> w[2].price - w[1].price]
           u == [w \in Pairs |-> {w[1], w[2]}]
           E == {[value |-> Of(S, c).price - Of(B, c).price,
                  quotes |-> {Of(B, c), Of(S, c)}] : c \in Keys(B) \cap Keys(S)}
<1>1. /\ B \in SUBSET BuyQ /\ S \in SUBSET SellQ
      /\ IsFiniteSet(B) /\ IsFiniteSet(S)
      /\ \A q \in B : q.cp \in Nat /\ q.price \in Int
      /\ \A q \in S : q.cp \in Nat /\ q.price \in Int
      /\ \A p, q \in B : p.cp = q.cp => p = q
      /\ \A p, q \in S : p.cp = q.cp => p = q
  BY LatestAreQuotes
<1>2. SelectLatest(BuyQ) = B /\ SelectLatest(SellQ) = S
  BY SelectFindsLatest
<1>3. SpreadRanking(d, BuyQ, SellQ) =
        IF Keys(B) # Keys(S) THEN Failure("incomplete_quotes") ELSE Outcome(d, E)
  <2> HIDE DEF B, S
  <2>1. SpreadRanking(d, BuyQ, SellQ) = SpreadOutcome(d, B, S)
    BY <1>2, SpreadIsOutcome
  <2>2. SpreadEntries(B, S) = E
    BY Zenon DEF SpreadEntries
  <2> HIDE DEF E
  <2> QED
    BY <2>1, <2>2, Zenon DEF SpreadOutcome
<1> HIDE DEF B, S
<1>4. IsFiniteSet(Pairs) /\ v \in [Pairs -> Int]
  <2>1. IsFiniteSet(B \X S)
    BY <1>1, FS_Product
  <2>2. IsFiniteSet(Pairs)
    BY <2>1, FS_Subset
  <2>3. \A w \in Pairs : w[1] \in B /\ w[2] \in S
    OBVIOUS
  <2>4. \A w \in Pairs : w[2].price - w[1].price \in Int
    BY <1>1, <2>3
  <2> QED
    BY <2>2, <2>4
<1>5. \A w, x \in Pairs : u[w] = u[x] => w = x
  <2> SUFFICES ASSUME NEW w \in Pairs, NEW x \in Pairs, u[w] = u[x] PROVE w = x
    OBVIOUS
  <2>1. /\ w = <<w[1], w[2]>> /\ x = <<x[1], x[2]>>
        /\ w[1] \in BuyQ /\ x[1] \in BuyQ /\ w[2] \in SellQ /\ x[2] \in SellQ
    BY <1>1
  <2>2. {w[1], w[2]} = {x[1], x[2]}
    OBVIOUS
  <2>3. w[1] = x[1] /\ w[2] = x[2]
    BY <2>1, <2>2
  <2> QED
    BY <2>1, <2>3
<1>6. E = EntriesOf(Pairs, v, u)
  <2> DEFINE Offer(b, s) == [value |-> s.price - b.price, quotes |-> {b, s}]
  <2>1. E = {Offer(Of(B, c), Of(S, c)) : c \in Keys(B) \cap Keys(S)}
    OBVIOUS
  <2>2. EntriesOf(Pairs, v, u) = {Offer(w[1], w[2]) : w \in Pairs}
    BY DEF EntriesOf
  <2> HIDE DEF Offer, E
  <2>3. ASSUME NEW c \in Keys(B) \cap Keys(S)
        PROVE  <<Of(B, c), Of(S, c)>> \in Pairs
    <3>1. Of(B, c) \in B /\ Of(B, c).cp = c
      BY <2>3
    <3>2. Of(S, c) \in S /\ Of(S, c).cp = c
      BY <2>3
    <3> HIDE DEF Of
    <3> QED
      BY <3>1, <3>2
  <2>4. ASSUME NEW w \in Pairs
        PROVE  \E c \in Keys(B) \cap Keys(S) : Of(B, c) = w[1] /\ Of(S, c) = w[2]
    <3> DEFINE c == w[1].cp
    <3>1. w[1] \in B /\ w[2] \in S /\ w[2].cp = c
      OBVIOUS
    <3>2. c \in Keys(B) \cap Keys(S)
      BY <3>1
    <3>3. Of(B, c) \in B /\ Of(B, c).cp = c
      BY <3>1
    <3>4. Of(S, c) \in S /\ Of(S, c).cp = c
      BY <3>1
    <3> HIDE DEF Of, Keys
    <3>5. Of(B, c) = w[1] /\ Of(S, c) = w[2]
      BY <1>1, <3>1, <3>3, <3>4
    <3> QED
      BY <3>2, <3>5
  <2> HIDE DEF Of, Keys, Pairs
  <2>5. ASSUME NEW e \in E PROVE e \in EntriesOf(Pairs, v, u)
    <3>1. PICK c \in Keys(B) \cap Keys(S) : e = Offer(Of(B, c), Of(S, c))
      BY <2>1
    <3> DEFINE w == <<Of(B, c), Of(S, c)>>
    <3>2. w \in Pairs /\ e = Offer(w[1], w[2])
      BY <2>3, <3>1
    <3> HIDE DEF w
    <3> QED
      BY <2>2, <3>2
  <2>6. ASSUME NEW e \in EntriesOf(Pairs, v, u) PROVE e \in E
    <3>1. PICK w \in Pairs : e = Offer(w[1], w[2])
      BY <2>2
    <3>2. PICK c \in Keys(B) \cap Keys(S) : Of(B, c) = w[1] /\ Of(S, c) = w[2]
      BY <2>4
    <3> QED
      BY <2>1, <3>1, <3>2
  <2> QED
    BY <2>5, <2>6
<1>7. SpreadWinner(d, BuyQ, SellQ) =
        IF Keys(B) # Keys(S) THEN {} ELSE WinnerOf(d, Pairs, v, u)
  <2> DEFINE Value(w) == w[2].price - w[1].price
             Tie == \E x, w \in Pairs : x # w /\ Value(x) = Value(w)
             Best == {w \in Pairs : \A x \in Pairs \ {w} : Better(d, Value(w), Value(x))}
  <2>1. SpreadWinner(d, BuyQ, SellQ) =
          IF ~(Keys(B) = Keys(S)) \/ Tie THEN {} ELSE UNION {{w[1], w[2]} : w \in Best}
    BY Zenon DEF SpreadWinner, B, S
  <2>2. Tie <=> \E x, w \in Pairs : x # w /\ v[x] = v[w]
    <3> HIDE DEF Pairs
    <3> QED
      OBVIOUS
  <2>3. Best = Unequalled(d, Pairs, v) /\ Best \in SUBSET Pairs
    <3> HIDE DEF Pairs
    <3> QED
      BY DEF Unequalled
  <2>4. {{w[1], w[2]} : w \in Best} = {u[w] : w \in Best}
    <3> HIDE DEF Pairs, Best
    <3> QED
      BY <2>3
  <2> HIDE DEF Pairs, v, u, Keys, Best, Tie
  <2> QED
    BY <2>1, <2>2, <2>3, <2>4, Zenon DEF WinnerOf
<1> HIDE DEF Pairs, v, u, E, Keys
<1>8. SoundRanking(d, Outcome(d, E), WinnerOf(d, Pairs, v, u), {u[w] : w \in Pairs})
  BY <1>4, <1>5, <1>6, OutcomeSound
<1>9. CASE Keys(B) # Keys(S)
  <2>1. SpreadRanking(d, BuyQ, SellQ) = Failure("incomplete_quotes")
    BY <1>3, <1>9, Zenon
  <2>2. SoundRanking(d, Failure("incomplete_quotes"), {}, {})
    BY FailureSound
  <2> QED
    BY <1>7, <1>9, <2>1, <2>2, Zenon DEF SoundRanking
<1>10. CASE Keys(B) = Keys(S)
  BY <1>3, <1>7, <1>8, <1>10, Zenon DEF SoundRanking
<1> QED
  BY <1>9, <1>10

(* The trade ranking of compute_trade_ranking awards the declared winner, is *)
(* a strict order of all the latest quotes and fails when there is no winner,*)
(* on every table of quotes.                                                 *)
THEOREM TradeRankingSoundHolds == Spec => []TradeRankingSound
<1>1. RankInv => TradeRankingSound
  <2> SUFFICES ASSUME RankInv, NEW t \in Trades, NEW d \in {"BUY", "SELL"}
               PROVE  LET r == TradeRanking(d, On(t)) IN
                      /\ Awarded(r) = TradeWinner(d, On(t))
                      /\ BestFirst(d, r.ranking)
                      /\ r.status = "SUCCESS" =>
                           UNION {r.ranking[i].quotes : i \in DOMAIN r.ranking}
                             = LatestQuotes(On(t))
    BY DEF TradeRankingSound
  <2> DEFINE r == TradeRanking(d, On(t))
             L == LatestQuotes(On(t))
  <2>1. SoundRanking(d, r, TradeWinner(d, On(t)), {{q} : q \in L})
    BY OnQuotes, TradeSound DEF Directions
  <2>2. UNION {{q} : q \in L} = L
    <3> HIDE DEF L
    <3> QED
      OBVIOUS
  <2> HIDE DEF r, L
  <2>3. /\ Awarded(r) = TradeWinner(d, On(t))
        /\ BestFirst(d, r.ranking)
        /\ r.status = "SUCCESS" =>
             UNION {r.ranking[i].quotes : i \in DOMAIN r.ranking} = L
    BY <2>1, <2>2, Zenon DEF SoundRanking
  <2> QED
    BY <2>3, Zenon DEF r, L
<1> QED
  BY <1>1, RankInvHolds, PTL

(* The spread ranking of compute_spread_ranking awards the declared pair of *)
(* quotes of one counterparty, best first, and fails when there is none, on *)
(* every table of quotes.                                                   *)
THEOREM SpreadRankingSoundHolds == Spec => []SpreadRankingSound
<1>1. RankInv => SpreadRankingSound
  <2> SUFFICES ASSUME RankInv, NEW d \in {"BUY", "SELL"}
               PROVE  LET r == SpreadRanking(d, On("buy"), On("sell")) IN
                      /\ Awarded(r) = SpreadWinner(d, On("buy"), On("sell"))
                      /\ BestFirst(d, r.ranking)
    BY DEF SpreadRankingSound
  <2>1. QuoteSet(On("buy")) /\ QuoteSet(On("sell"))
    BY OnQuotes
  <2>2. On("buy") \cap On("sell") = {}
    BY DEF On
  <2> QED
    BY <2>1, <2>2, SpreadSound DEF Directions
<1> QED
  BY <1>1, RankInvHolds, PTL
=============================================================================
