--------------------------- MODULE Outbox_proofs ---------------------------
(***************************************************************************)
(* Proofs for the outbox, for every set of counterparties, every number of *)
(* requests in progress and every bound on rows and faults.  A row is owed *)
(* while its batch holds it: what the provider accepted plus what is owed  *)
(* never exceeds the rows, nor what is said to be sent what it accepted.   *)
(***************************************************************************)
EXTENDS Outbox, FiniteSetTheorems, WellFoundedInduction, TLAPS

JobFields == {"purpose", "batch", "todo", "outcome"}

\* A request as its session holds it, in a table of n rows: the rows still to
\* send and those with an outcome.
IsJob(x, n) ==
  /\ x = [f \in JobFields |-> x[f]]
  /\ x.purpose \in Purposes \cup {"none"}
  /\ x.batch \in Seq(Nat)
  /\ \A k \in DOMAIN x.batch : x.batch[k] \in 1..n
  /\ x.todo \subseteq Cps
  /\ DOMAIN x.outcome \subseteq 1..n
  /\ \A i \in DOMAIN x.outcome : x.outcome[i] \in {"sent", "failed"}

Tables ==
  /\ state \in {"NONE", "CREATED", "SENT", "QUOTED", "CLOSED"}
  /\ quoted \subseteq Cps /\ kyc \subseteq Cps
  /\ rows \in Seq(Row)
  /\ wire \in [Purposes \X Cps -> Nat]
  /\ faults \in 0..MaxFaults
  /\ blamed \cup stranded \cup dropped \cup declined \subseteq 1..Len(rows)
  /\ job = [j \in Jobs |-> job[j]]
  /\ \A j \in Jobs : IsJob(job[j], Len(rows))

\* A row waits to be sent in one place of one batch.
Owes(j, i) == \E k \in DOMAIN job[j].batch : job[j].batch[k] = i

SentOnce ==
  /\ \A j \in Jobs : \A k, l \in DOMAIN job[j].batch :
       job[j].batch[k] = job[j].batch[l] => k = l
  /\ \A j, k \in Jobs : \A i \in DOMAIN rows : Owes(j, i) /\ Owes(k, i) => j = k

\* The rows still owed to a recipient, and those that are or will be `sent'.
OwedOf(p, c) == {i \in RowsOf(p, c) : \E j \in Jobs : Owes(j, i)}

SaysSent(i) ==
  \/ rows[i].status = "sent"
  \/ \E j \in Jobs : i \in DOMAIN job[j].outcome /\ job[j].outcome[i] = "sent"
SentOf(p, c) == {i \in RowsOf(p, c) : SaysSent(i)}

\* What was accepted lies between what the records say and what they allow.
Counts ==
  \A p \in Purposes, c \in Cps :
    /\ wire[<<p, c>>] + Cardinality(OwedOf(p, c)) <= Cardinality(RowsOf(p, c))
    /\ Cardinality(SentOf(p, c)) <= wire[<<p, c>>]

\* The number on file is not that of the recipient, in no form the provider tries.
WrongNumber(c) ==
  /\ Joined[c] # Stored[c]
  /\ Provider = "twilio" => Joined[c] # Variant(Stored[c])

Excused(i) ==
  \/ i \in blamed \cup declined
  \/ WrongNumber(rows[i].cp)

Excuses ==
  /\ \A i \in DOMAIN rows : rows[i].status = "failed" => Excused(i)
  /\ \A j \in Jobs : \A i \in DOMAIN job[j].outcome :
       job[j].outcome[i] = "failed" => Excused(i)

\* While create's request runs there is no other, and only its rows.
Inviting(j) == job[j].purpose = "rfq_invite"

Phases ==
  /\ state = "NONE" => /\ rows = <<>>
                       /\ \A m \in Purposes \X Cps : wire[m] = 0
                       /\ \A j \in Jobs : job[j] = NoJob
  /\ \A j \in Jobs : Inviting(j) =>
       /\ state \in {"CREATED", "CLOSED"}
       /\ \A k \in Jobs : job[k].todo = {} /\ (Inviting(k) => k = j)
       /\ \A i \in DOMAIN rows : rows[i].purpose = "rfq_invite"
  /\ Open => \E c \in Cps : wire[<<"rfq_invite", c>>] > 0

ObInv == Tables /\ SentOnce /\ Counts /\ Excuses /\ Phases

\* A set of natural numbers with a bound has a largest member.
LEMMA LargestNumber ==
  ASSUME NEW D \in SUBSET Nat, D # {}, NEW b \in Nat, \A m \in D : m <= b
  PROVE  \E m \in D : \A l \in D : m >= l
<1> DEFINE g == {b - m : m \in D}
<1>0. \A m \in D : m \in Nat /\ b - m \in Nat
  OBVIOUS
<1>1. g \in SUBSET Nat /\ g # {}
  BY <1>0, Zenon
<1>2. PICK x \in g : \A y \in g : ~(<<y, x>> \in OpToRel(<, Nat))
  <2> HIDE DEF g
  <2> QED
    BY <1>1, NatLessThanWellFounded, WFMin
<1>3. ASSUME NEW y \in g PROVE x <= y
  <2>1. x \in Nat /\ y \in Nat
    BY <1>1
  <2> HIDE DEF g
  <2>2. y < x => <<y, x>> \in OpToRel(<, Nat)
    BY <2>1 DEF OpToRel
  <2>3. ~(y < x)
    BY <1>2, <2>2
  <2> QED
    BY <2>1, <2>3
<1>4. PICK m \in D : x = b - m
  OBVIOUS
<1>5. ASSUME NEW l \in D PROVE m >= l
  <2>1. b - l \in g
    OBVIOUS
  <2>2. b - m <= b - l
    BY <1>3, <1>4, <2>1
  <2>3. m \in Nat /\ l \in Nat
    OBVIOUS
  <2> QED
    BY <2>2, <2>3
<1> QED
  BY <1>4, <1>5

-----------------------------------------------------------------------------
\* The sets that are counted are finite.
LEMMA RowsFinite ==
  ASSUME rows \in Seq(Row), NEW p, NEW c
  PROVE  /\ IsFiniteSet(RowsOf(p, c))
         /\ IsFiniteSet(OwedOf(p, c)) /\ IsFiniteSet(SentOf(p, c))
         /\ Cardinality(RowsOf(p, c)) \in Nat
         /\ Cardinality(OwedOf(p, c)) \in Nat /\ Cardinality(SentOf(p, c)) \in Nat
<1>1. IsFiniteSet(1..Len(rows))
  BY FS_Interval
<1>2. RowsOf(p, c) \in SUBSET (1..Len(rows))
  BY DEF RowsOf
<1>3. IsFiniteSet(RowsOf(p, c))
  BY <1>1, <1>2, FS_Subset
<1>4. OwedOf(p, c) \in SUBSET RowsOf(p, c) /\ SentOf(p, c) \in SUBSET RowsOf(p, c)
  BY DEF OwedOf, SentOf
<1>5. IsFiniteSet(OwedOf(p, c)) /\ IsFiniteSet(SentOf(p, c))
  BY <1>3, <1>4, FS_Subset
<1> QED
  BY <1>3, <1>5, FS_CardinalityType

\* The rows keep their purpose and recipient.
SameRows ==
  /\ rows' \in Seq(Row)
  /\ \A i \in DOMAIN rows : rows'[i].purpose = rows[i].purpose /\ rows'[i].cp = rows[i].cp

\* No row of the table is owed or said to be sent that was not before.
NoNewClaim ==
  \A i \in DOMAIN rows :
    /\ (\E j \in Jobs : Owes(j, i)') => \E j \in Jobs : Owes(j, i)
    /\ SaysSent(i)' => SaysSent(i)

\* A step that adds no row and sends nothing keeps the counts.
LEMMA KeptCounts ==
  ASSUME Tables, Counts, SameRows, NoNewClaim, Len(rows') = Len(rows), wire' = wire
  PROVE  Counts'
<1> SUFFICES ASSUME NEW p \in Purposes, NEW c \in Cps
             PROVE  /\ wire[<<p, c>>] + Cardinality(OwedOf(p, c)') <= Cardinality(RowsOf(p, c)')
                    /\ Cardinality(SentOf(p, c)') <= wire[<<p, c>>]
  BY DEF Counts
<1>1. rows \in Seq(Row) /\ rows' \in Seq(Row) /\ wire[<<p, c>>] \in Nat
  BY DEF Tables, SameRows
<1>2. DOMAIN rows' = DOMAIN rows
  BY <1>1
<1>3. RowsOf(p, c)' = RowsOf(p, c)
  BY <1>2 DEF RowsOf, SameRows
<1>4. OwedOf(p, c)' \in SUBSET OwedOf(p, c)
  <2> SUFFICES ASSUME NEW i \in OwedOf(p, c)' PROVE i \in OwedOf(p, c)
    OBVIOUS
  <2>1. i \in RowsOf(p, c) /\ (\E j \in Jobs : Owes(j, i)')
    BY <1>3, Zenon DEF OwedOf
  <2> QED
    BY <2>1, Zenon DEF OwedOf, NoNewClaim, RowsOf
<1>5. SentOf(p, c)' \in SUBSET SentOf(p, c)
  <2> SUFFICES ASSUME NEW i \in SentOf(p, c)' PROVE i \in SentOf(p, c)
    OBVIOUS
  <2>1. i \in RowsOf(p, c) /\ SaysSent(i)'
    BY <1>3, Zenon DEF SentOf
  <2> QED
    BY <2>1, Zenon DEF SentOf, NoNewClaim, RowsOf
<1>6. /\ Cardinality(OwedOf(p, c)') <= Cardinality(OwedOf(p, c)) /\ Cardinality(OwedOf(p, c)') \in Nat
      /\ Cardinality(SentOf(p, c)') <= Cardinality(SentOf(p, c)) /\ Cardinality(SentOf(p, c)') \in Nat
      /\ Cardinality(RowsOf(p, c)) \in Nat
      /\ Cardinality(OwedOf(p, c)) \in Nat /\ Cardinality(SentOf(p, c)) \in Nat
  BY <1>1, <1>4, <1>5, RowsFinite, FS_Subset, FS_CardinalityType
<1>7. /\ wire[<<p, c>>] + Cardinality(OwedOf(p, c)) <= Cardinality(RowsOf(p, c))
      /\ Cardinality(SentOf(p, c)) <= wire[<<p, c>>]
  BY DEF Counts
<1> QED
  BY <1>1, <1>3, <1>6, <1>7

\* A queued row that is added, and owed by the request that adds it, keeps them.
LEMMA AddedCounts ==
  ASSUME Tables, Counts, SameRows, NoNewClaim, wire' = wire,
         NEW n, n = Len(rows) + 1, Len(rows') = n, ~SaysSent(n)'
  PROVE  Counts'
<1> SUFFICES ASSUME NEW p \in Purposes, NEW c \in Cps
             PROVE  /\ wire[<<p, c>>] + Cardinality(OwedOf(p, c)') <= Cardinality(RowsOf(p, c)')
                    /\ Cardinality(SentOf(p, c)') <= wire[<<p, c>>]
  BY DEF Counts
<1>1. rows \in Seq(Row) /\ rows' \in Seq(Row) /\ wire[<<p, c>>] \in Nat
  BY DEF Tables, SameRows
<1>2. DOMAIN rows' = DOMAIN rows \cup {n} /\ n \notin DOMAIN rows
  BY <1>1
<1>3. \A i \in DOMAIN rows : i \in RowsOf(p, c)' <=> i \in RowsOf(p, c)
  BY <1>2 DEF RowsOf, SameRows
<1>4. RowsOf(p, c)' \subseteq RowsOf(p, c) \cup {n} /\ RowsOf(p, c) \subseteq RowsOf(p, c)'
  BY <1>2, <1>3 DEF RowsOf
<1>5. n \notin RowsOf(p, c)
  BY <1>2 DEF RowsOf
<1>6. SentOf(p, c)' \in SUBSET SentOf(p, c)
  <2> SUFFICES ASSUME NEW i \in SentOf(p, c)' PROVE i \in SentOf(p, c)
    OBVIOUS
  <2>1. i \in RowsOf(p, c)' /\ SaysSent(i)'
    BY Zenon DEF SentOf
  <2>2. i # n
    BY <2>1
  <2>3. i \in RowsOf(p, c) /\ i \in DOMAIN rows
    BY <2>1, <2>2, <1>4 DEF RowsOf
  <2> QED
    BY <2>1, <2>3, Zenon DEF SentOf, NoNewClaim
<1>7. OwedOf(p, c)' \ {n} \in SUBSET OwedOf(p, c)
  <2> SUFFICES ASSUME NEW i \in OwedOf(p, c)', i # n PROVE i \in OwedOf(p, c)
    OBVIOUS
  <2>1. i \in RowsOf(p, c)' /\ (\E j \in Jobs : Owes(j, i)')
    BY Zenon DEF OwedOf
  <2>3. i \in RowsOf(p, c) /\ i \in DOMAIN rows
    BY <2>1, <1>4 DEF RowsOf
  <2> QED
    BY <2>1, <2>3, Zenon DEF OwedOf, NoNewClaim
<1>8. /\ Cardinality(RowsOf(p, c)) \in Nat /\ Cardinality(OwedOf(p, c)) \in Nat
      /\ Cardinality(SentOf(p, c)) \in Nat /\ Cardinality(SentOf(p, c)') \in Nat
      /\ Cardinality(SentOf(p, c)') <= Cardinality(SentOf(p, c))
      /\ IsFiniteSet(OwedOf(p, c)) /\ IsFiniteSet(RowsOf(p, c))
  BY <1>1, <1>6, RowsFinite, FS_Subset, FS_CardinalityType
<1>9. /\ IsFiniteSet(OwedOf(p, c)' \ {n})
      /\ Cardinality(OwedOf(p, c)' \ {n}) <= Cardinality(OwedOf(p, c))
      /\ Cardinality(OwedOf(p, c)' \ {n}) \in Nat
  BY <1>7, <1>8, FS_Subset, FS_CardinalityType
<1>10. /\ wire[<<p, c>>] + Cardinality(OwedOf(p, c)) <= Cardinality(RowsOf(p, c))
       /\ Cardinality(SentOf(p, c)) <= wire[<<p, c>>]
  BY DEF Counts
<1> DEFINE w == wire[<<p, c>>]
           O == OwedOf(p, c)'
           o == Cardinality(OwedOf(p, c))
           r == Cardinality(RowsOf(p, c))
           R == RowsOf(p, c)'
<1>11. /\ w \in Nat /\ o \in Nat /\ r \in Nat /\ w + o <= r
       /\ IsFiniteSet(O \ {n}) /\ Cardinality(O \ {n}) <= o /\ Cardinality(O \ {n}) \in Nat
       /\ n \notin R => Cardinality(R) = r
       /\ n \in R => Cardinality(R) = r + 1
       /\ n \notin R => n \notin O
  <2>1. CASE n \in R
    <3>1. RowsOf(p, c) \cup {n} = R
      BY <2>1, <1>4
    <3> QED
      BY <3>1, <2>1, <1>1, <1>5, <1>8, <1>9, <1>10, FS_AddElement
  <2>2. CASE n \notin R
    <3>1. RowsOf(p, c) = R
      BY <2>2, <1>4
    <3>2. n \notin O
      BY <2>2, Zenon DEF OwedOf
    <3> QED
      BY <3>1, <3>2, <2>2, <1>1, <1>8, <1>9, <1>10
  <2> QED
    BY <2>1, <2>2
<1>12. Cardinality(SentOf(p, c)') <= wire[<<p, c>>]
  BY <1>1, <1>8, <1>10
<1> HIDE DEF w, O, o, r, R
<1>13. Cardinality(O) = IF n \in O THEN Cardinality(O \ {n}) + 1 ELSE Cardinality(O \ {n})
  <2>1. Cardinality((O \ {n}) \cup {n}) = Cardinality(O \ {n}) + 1
    BY <1>11, FS_AddElement
  <2>2. n \in O => (O \ {n}) \cup {n} = O
    OBVIOUS
  <2>3. n \notin O => O \ {n} = O
    OBVIOUS
  <2> QED
    BY <2>1, <2>2, <2>3
<1>14. w + Cardinality(O) <= Cardinality(R)
  BY <1>11, <1>13
<1> QED
  BY <1>12, <1>14 DEF w, O, R

\* Sending a row takes it off the rows owed; only an arrival makes it sent.
LEMMA SendCounts ==
  ASSUME Tables, Counts, UNCHANGED rows,
         NEW i \in DOMAIN rows, \E j \in Jobs : Owes(j, i), ~(\E j \in Jobs : Owes(j, i)'),
         \A k \in DOMAIN rows : (\E j \in Jobs : Owes(j, k)') => \E j \in Jobs : Owes(j, k),
         \A k \in DOMAIN rows : SaysSent(k)' => SaysSent(k) \/ k = i,
         \/ wire' = [wire EXCEPT ![<<rows[i].purpose, rows[i].cp>>] = @ + 1]
         \/ wire' = wire /\ (SaysSent(i)' => SaysSent(i))
  PROVE  Counts'
<1> SUFFICES ASSUME NEW p \in Purposes, NEW c \in Cps
             PROVE  /\ wire'[<<p, c>>] + Cardinality(OwedOf(p, c)') <= Cardinality(RowsOf(p, c)')
                    /\ Cardinality(SentOf(p, c)') <= wire'[<<p, c>>]
  BY DEF Counts
<1> DEFINE w == wire[<<p, c>>]
           O == OwedOf(p, c)
           Q == OwedOf(p, c)'
           R == RowsOf(p, c)
           S == SentOf(p, c)
           U == SentOf(p, c)'
           v == wire'[<<p, c>>]
<1>1. RowsOf(p, c)' = R
  BY DEF RowsOf
<1>2. rows \in Seq(Row) /\ w \in Nat
  BY DEF Tables
<1>3. /\ IsFiniteSet(O) /\ IsFiniteSet(S)
      /\ Cardinality(O) \in Nat /\ Cardinality(S) \in Nat /\ Cardinality(R) \in Nat
      /\ w + Cardinality(O) <= Cardinality(R) /\ Cardinality(S) <= w
  BY <1>2, RowsFinite DEF Counts
<1>4. Q \subseteq O /\ i \notin Q
  <2>1. ASSUME NEW k \in Q PROVE k \in O /\ k # i
    <3>1. k \in R /\ (\E j \in Jobs : Owes(j, k)')
      BY <1>1, Zenon DEF OwedOf
    <3> QED
      BY <3>1, Zenon DEF OwedOf, RowsOf
  <2> QED
    BY <2>1
<1>5. U \subseteq S \cup {i}
  <2>1. ASSUME NEW k \in U PROVE k \in S \/ k = i
    <3>1. k \in R /\ SaysSent(k)'
      BY <1>1, Zenon DEF SentOf
    <3> QED
      BY <3>1, Zenon DEF SentOf, RowsOf
  <2> QED
    BY <2>1
<1>6. i \in R => i \in O
  BY Zenon DEF OwedOf
<1>7. i \notin R => i \notin U
  BY <1>1, Zenon DEF SentOf
<1>8. /\ v \in {w, w + 1}
      /\ i \notin R => v = w
      /\ i \in U /\ i \notin S => v = w + 1
  <2>1. CASE wire' = [wire EXCEPT ![<<rows[i].purpose, rows[i].cp>>] = @ + 1]
    <3>1. CASE i \in R
      <4>1. rows[i].purpose = p /\ rows[i].cp = c
        BY <3>1 DEF RowsOf
      <4>2. wire \in [Purposes \X Cps -> Nat] /\ <<p, c>> \in Purposes \X Cps
        BY DEF Tables
      <4> QED
        BY <2>1, <3>1, <4>1, <4>2
    <3>2. CASE i \notin R
      <4>1. <<rows[i].purpose, rows[i].cp>> # <<p, c>>
        BY <3>2 DEF RowsOf
      <4>2. wire \in [Purposes \X Cps -> Nat] /\ <<p, c>> \in Purposes \X Cps
        BY DEF Tables
      <4>3. v = w
        BY <2>1, <4>1, <4>2
      <4> QED
        BY <3>2, <4>3, <1>7
    <3> QED
      BY <3>1, <3>2
  <2>2. CASE wire' = wire /\ (SaysSent(i)' => SaysSent(i))
    <3>1. i \in U => i \in S
      BY <2>2, <1>1, Zenon DEF SentOf
    <3> QED
      BY <2>2, <3>1
  <2> QED
    BY <2>1, <2>2
<1> HIDE DEF w, O, Q, R, S, U, v
<1>9. Q \in SUBSET (O \ {i})
  BY <1>4
<1>10. /\ IsFiniteSet(O \ {i})
       /\ Cardinality(O \ {i}) = IF i \in O THEN Cardinality(O) - 1 ELSE Cardinality(O)
  BY <1>3, FS_RemoveElement
<1>11. IsFiniteSet(Q) /\ Cardinality(Q) <= Cardinality(O \ {i}) /\ Cardinality(Q) \in Nat
  BY <1>9, <1>10, FS_Subset, FS_CardinalityType
<1>12. v + Cardinality(Q) <= Cardinality(R)
  <2>1. CASE i \in R
    BY <2>1, <1>2, <1>3, <1>6, <1>8, <1>10, <1>11
  <2>2. CASE i \notin R
    <3>1. v = w
      BY <2>2, <1>8
    <3>2. Cardinality(O \ {i}) <= Cardinality(O)
      BY <1>3, <1>10
    <3> QED
      BY <3>1, <3>2, <1>2, <1>3, <1>10, <1>11
  <2> QED
    BY <2>1, <2>2
<1>13. Cardinality(U) <= v
  <2>1. CASE i \in U /\ i \notin S
    <3>1. IsFiniteSet(S \cup {i}) /\ Cardinality(S \cup {i}) = Cardinality(S) + 1
      BY <2>1, <1>3, FS_AddElement
    <3>2. U \in SUBSET (S \cup {i})
      BY <1>5
    <3>3. IsFiniteSet(U) /\ Cardinality(U) <= Cardinality(S) + 1 /\ Cardinality(U) \in Nat
      BY <3>1, <3>2, FS_Subset, FS_CardinalityType
    <3> QED
      BY <3>3, <2>1, <1>2, <1>3, <1>8
  <2>2. CASE ~(i \in U /\ i \notin S)
    <3>1. U \in SUBSET S
      BY <2>2, <1>5
    <3>2. IsFiniteSet(U) /\ Cardinality(U) <= Cardinality(S) /\ Cardinality(U) \in Nat
      BY <3>1, <1>3, FS_Subset, FS_CardinalityType
    <3> QED
      BY <3>2, <1>2, <1>3, <1>8
  <2> QED
    BY <2>1, <2>2
<1> QED
  BY <1>1, <1>12, <1>13 DEF v, Q, R, U

-----------------------------------------------------------------------------
\* X is the table, with some of the outcomes of job j written into it.
Updated(j, X) ==
  /\ X \in Seq(Row) /\ Len(X) = Len(rows)
  /\ \A i \in DOMAIN rows :
       /\ X[i].purpose = rows[i].purpose /\ X[i].cp = rows[i].cp
       /\ \/ X[i].status = rows[i].status
          \/ i \in DOMAIN job[j].outcome /\ X[i].status = job[j].outcome[i]

\* The table as it is, or after the commit of what job j has learnt.
LEMMA UpdatedRows ==
  ASSUME Tables, NEW j \in Jobs
  PROVE  Updated(j, rows) /\ Updated(j, Settled(j))
<1>1. rows \in Seq(Row) /\ IsJob(job[j], Len(rows))
  BY DEF Tables
<1>2. Updated(j, rows)
  BY <1>1 DEF Updated
<1>3. ASSUME NEW i \in DOMAIN rows
      PROVE  /\ Settled(j)[i] \in Row
             /\ Settled(j)[i].purpose = rows[i].purpose /\ Settled(j)[i].cp = rows[i].cp
             /\ \/ Settled(j)[i].status = rows[i].status
                \/ i \in DOMAIN job[j].outcome /\ Settled(j)[i].status = job[j].outcome[i]
  <2>1. rows[i] \in Row
    BY <1>1
  <2>2. CASE i \in DOMAIN job[j].outcome
    <3>1. Settled(j)[i] = [rows[i] EXCEPT !.status = job[j].outcome[i]]
      BY <2>2 DEF Settled
    <3>2. job[j].outcome[i] \in {"sent", "failed"}
      BY <1>1, <2>2 DEF IsJob
    <3> QED
      BY <2>1, <2>2, <3>1, <3>2 DEF Row
  <2>3. CASE i \notin DOMAIN job[j].outcome
    <3>1. Settled(j)[i] = rows[i]
      BY <2>3 DEF Settled
    <3> QED
      BY <2>1, <3>1
  <2> QED
    BY <2>2, <2>3
<1>4. DOMAIN Settled(j) = 1..Len(rows) /\ Len(rows) \in Nat /\ DOMAIN rows = 1..Len(rows)
  BY <1>1 DEF Settled
<1>5. Settled(j) = [i \in 1..Len(rows) |-> Settled(j)[i]]
  BY <1>1 DEF Settled
<1>6. Settled(j) \in Seq(Row) /\ Len(Settled(j)) = Len(rows)
  BY <1>3, <1>4, <1>5
<1> QED
  BY <1>2, <1>3, <1>6 DEF Updated

JobsTyped ==
  /\ job = [j \in Jobs |-> job[j]]
  /\ \A j \in Jobs : IsJob(job[j], Len(rows))

JobFacts == JobsTyped /\ SentOnce /\ Counts /\ Excuses

\* A job that gives up its rows, whether it has committed their outcomes or not.
LEMMA Released ==
  ASSUME Tables, SentOnce, Counts, Excuses, NEW j \in Jobs, NEW y,
         Updated(j, rows'), job' = [job EXCEPT ![j] = y],
         IsJob(y, Len(rows)), y.batch = <<>>, y.outcome = <<>>,
         UNCHANGED <<wire, blamed, declined>>
  PROVE  JobFacts'
<1>1. /\ rows \in Seq(Row) /\ rows' \in Seq(Row)
      /\ Len(rows') = Len(rows) /\ DOMAIN rows' = DOMAIN rows
      /\ DOMAIN rows = 1..Len(rows) /\ Len(rows) \in Nat
  BY DEF Updated, Tables
<1>2. job = [k \in Jobs |-> job[k]] /\ \A k \in Jobs : IsJob(job[k], Len(rows))
  BY DEF Tables
<1>3. job'[j] = y /\ \A k \in Jobs : k # j => job'[k] = job[k]
  BY <1>2
<1>4. JobsTyped'
  <2>1. job' = [k \in Jobs |-> job'[k]]
    BY <1>2
  <2>2. \A k \in Jobs : IsJob(job'[k], Len(rows'))
    BY <1>1, <1>2, <1>3
  <2> QED
    BY <2>1, <2>2 DEF JobsTyped, IsJob
<1>5. ASSUME NEW k \in Jobs, NEW i, Owes(k, i)' PROVE k # j /\ Owes(k, i)
  BY <1>3, <1>5 DEF Owes
<1>6. SentOnce'
  <2>1. ASSUME NEW k \in Jobs, NEW a \in DOMAIN job'[k].batch, NEW b \in DOMAIN job'[k].batch,
               job'[k].batch[a] = job'[k].batch[b]
        PROVE  a = b
    BY <2>1, <1>3 DEF SentOnce
  <2>2. ASSUME NEW k \in Jobs, NEW l \in Jobs, NEW i \in DOMAIN rows', Owes(k, i)', Owes(l, i)'
        PROVE  k = l
    BY <2>2, <1>1, <1>5, Zenon DEF SentOnce
  <2> QED
    BY <2>1, <2>2 DEF SentOnce
<1>7. ASSUME NEW i \in DOMAIN rows, SaysSent(i)' PROVE SaysSent(i)
  <2>1. CASE rows'[i].status = "sent"
    BY <2>1 DEF SaysSent, Updated
  <2>2. CASE \E k \in Jobs : i \in DOMAIN job'[k].outcome /\ job'[k].outcome[i] = "sent"
    BY <2>2, <1>3 DEF SaysSent
  <2> QED
    BY <1>7, <2>1, <2>2 DEF SaysSent
<1>8. Counts'
  <2>1. SameRows
    BY <1>1 DEF SameRows, Updated
  <2>2. NoNewClaim
    BY <1>5, <1>7, Zenon DEF NoNewClaim
  <2> QED
    BY <2>1, <2>2, <1>1, KeptCounts
<1>9. ASSUME NEW i \in DOMAIN rows, Excused(i) PROVE Excused(i)'
  BY <1>9 DEF Excused, Updated
<1>10. Excuses'
  <2>1. ASSUME NEW i \in DOMAIN rows', rows'[i].status = "failed" PROVE Excused(i)'
    <3>1. Excused(i)
      BY <2>1, <1>1 DEF Updated, Excuses
    <3> QED
      BY <3>1, <1>1, <1>9
  <2>2. ASSUME NEW k \in Jobs, NEW i \in DOMAIN job'[k].outcome, job'[k].outcome[i] = "failed"
        PROVE  Excused(i)'
    <3>1. Excused(i) /\ i \in DOMAIN rows
      BY <2>2, <1>1, <1>2, <1>3 DEF Excuses, IsJob
    <3> QED
      BY <3>1, <1>9
  <2> QED
    BY <2>1, <2>2 DEF Excuses
<1> QED
  BY <1>4, <1>6, <1>8, <1>10 DEF JobFacts

\* A job that commits a queued row, the only one it then owes.
LEMMA Appended ==
  ASSUME Tables, SentOnce, Counts, Excuses, NEW j \in Jobs, NEW X, NEW y,
         NEW p \in Purposes, NEW c \in Cps, NEW n, n = Len(rows) + 1,
         Updated(j, X), rows' = Append(X, Queued(p, c)),
         job' = [job EXCEPT ![j] = y],
         IsJob(y, n), y.batch = <<n>>, y.outcome = <<>>,
         UNCHANGED <<wire, blamed, declined>>
  PROVE  rows' \in Seq(Row) /\ Len(rows') = n /\ JobFacts'
<1>1. /\ rows \in Seq(Row) /\ X \in Seq(Row) /\ Len(X) = Len(rows)
      /\ DOMAIN rows = 1..Len(rows) /\ Len(rows) \in Nat
  BY DEF Updated, Tables
<1>2. Queued(p, c) \in Row
  BY DEF Queued, Row
<1>3. /\ rows' \in Seq(Row) /\ Len(rows') = n /\ DOMAIN rows' = 1..n
      /\ \A i \in DOMAIN rows : rows'[i] = X[i]
      /\ rows'[n] = Queued(p, c)
  BY <1>1, <1>2
<1>4. job = [k \in Jobs |-> job[k]] /\ \A k \in Jobs : IsJob(job[k], Len(rows))
  BY DEF Tables
<1>5. job'[j] = y /\ \A k \in Jobs : k # j => job'[k] = job[k]
  BY <1>4
<1>6. JobsTyped'
  <2>1. job' = [k \in Jobs |-> job'[k]]
    BY <1>4
  <2>2. ASSUME NEW k \in Jobs PROVE IsJob(job'[k], Len(rows'))
    <3>1. CASE k = j
      BY <3>1, <1>3, <1>5
    <3>2. CASE k # j
      <4>1. IsJob(job[k], Len(rows)) /\ 1..Len(rows) \subseteq 1..n
        BY <1>1, <1>4
      <4>2. IsJob(job[k], n)
        BY <4>1 DEF IsJob
      <4> QED
        BY <3>2, <4>2, <1>3, <1>5
    <3> QED
      BY <3>1, <3>2
  <2> QED
    BY <2>1, <2>2 DEF JobsTyped, IsJob
<1>7. ASSUME NEW k \in Jobs, NEW i, Owes(k, i)'
      PROVE  (k = j /\ i = n) \/ (k # j /\ Owes(k, i) /\ i \in DOMAIN rows)
  <2>1. CASE k = j
    BY <2>1, <1>7, <1>5 DEF Owes
  <2>2. CASE k # j
    BY <2>2, <1>7, <1>4, <1>5, <1>1 DEF Owes, IsJob
  <2> QED
    BY <2>1, <2>2
<1>8. n \notin DOMAIN rows
  BY <1>1
<1>9. SentOnce'
  <2>1. ASSUME NEW k \in Jobs, NEW a \in DOMAIN job'[k].batch, NEW b \in DOMAIN job'[k].batch,
               job'[k].batch[a] = job'[k].batch[b]
        PROVE  a = b
    <3>1. CASE k = j
      BY <3>1, <1>5
    <3>2. CASE k # j
      BY <2>1, <3>2, <1>5 DEF SentOnce
    <3> QED
      BY <3>1, <3>2
  <2>2. ASSUME NEW k \in Jobs, NEW l \in Jobs, NEW i \in DOMAIN rows', Owes(k, i)', Owes(l, i)'
        PROVE  k = l
    BY <2>2, <1>7, <1>8, ZenonT(30) DEF SentOnce
  <2> QED
    BY <2>1, <2>2 DEF SentOnce
<1>10. ASSUME NEW i \in DOMAIN rows, SaysSent(i)' PROVE SaysSent(i)
  <2>1. CASE rows'[i].status = "sent"
    BY <2>1, <1>3 DEF SaysSent, Updated
  <2>2. CASE \E k \in Jobs : i \in DOMAIN job'[k].outcome /\ job'[k].outcome[i] = "sent"
    BY <2>2, <1>5 DEF SaysSent
  <2> QED
    BY <1>10, <2>1, <2>2 DEF SaysSent
<1>11. ~SaysSent(n)'
  <2>1. rows'[n].status # "sent"
    BY <1>3 DEF Queued
  <2>2. ASSUME NEW k \in Jobs, n \in DOMAIN job'[k].outcome PROVE FALSE
    BY <2>2, <1>1, <1>4, <1>5, <1>8 DEF IsJob
  <2> QED
    BY <2>1, <2>2 DEF SaysSent
<1>12. Counts'
  <2>1. SameRows
    BY <1>3 DEF SameRows, Updated
  <2>2. NoNewClaim
    BY <1>7, <1>8, <1>10, Zenon DEF NoNewClaim
  <2> QED
    BY <2>1, <2>2, <1>3, <1>11, AddedCounts
<1>13. ASSUME NEW i \in DOMAIN rows, Excused(i) PROVE Excused(i)'
  <2>1. rows'[i].cp = rows[i].cp
    BY <1>3 DEF Updated
  <2> QED
    BY <2>1, <1>13 DEF Excused
<1>14. Excuses'
  <2>1. ASSUME NEW i \in DOMAIN rows', rows'[i].status = "failed" PROVE Excused(i)'
    <3>1. i # n
      BY <2>1, <1>3 DEF Queued
    <3>2. i \in DOMAIN rows
      BY <3>1, <1>1, <1>3
    <3>3. Excused(i)
      BY <2>1, <3>2, <1>3 DEF Updated, Excuses
    <3> QED
      BY <3>2, <3>3, <1>13
  <2>2. ASSUME NEW k \in Jobs, NEW i \in DOMAIN job'[k].outcome, job'[k].outcome[i] = "failed"
        PROVE  Excused(i)'
    <3>1. Excused(i) /\ i \in DOMAIN rows
      BY <2>2, <1>1, <1>4, <1>5 DEF Excuses, IsJob
    <3> QED
      BY <3>1, <1>13
  <2> QED
    BY <2>1, <2>2 DEF Excuses
<1> QED
  BY <1>3, <1>6, <1>9, <1>12, <1>14 DEF JobFacts

-----------------------------------------------------------------------------
\* A free slot owes nothing and has learnt nothing.
LEMMA Idle ==
  ASSUME NEW n
  PROVE  IsJob(NoJob, n) /\ NoJob.batch = <<>> /\ NoJob.outcome = <<>>
<1>1. NoJob = [f \in JobFields |-> NoJob[f]]
  BY DEF NoJob, JobFields
<1>2. <<>> \in Seq(Nat) /\ DOMAIN <<>> = {}
  OBVIOUS
<1> QED
  BY <1>1, <1>2 DEF NoJob, IsJob

\* What a step that leaves rows and messages alone must not disturb.
LEMMA QuietStep ==
  ASSUME ObInv, UNCHANGED <<rows, wire, job, blamed, declined>>
  PROVE  JobFacts'
<1>1. JobsTyped'
  BY DEF ObInv, Tables, JobsTyped, IsJob
<1>2. SentOnce'
  BY DEF ObInv, SentOnce, Owes
<1>3. SameRows /\ NoNewClaim
  BY DEF ObInv, Tables, SameRows, NoNewClaim, Owes, SaysSent
<1>4. Counts'
  BY <1>3, KeptCounts DEF ObInv
<1>5. Excuses'
  BY Zenon DEF ObInv, Excuses, Excused
<1> QED
  BY <1>1, <1>2, <1>4, <1>5 DEF JobFacts

\* An open RFQ has no creation in progress.
LEMMA OpenNotInviting ==
  ASSUME Phases, Open
  PROVE  state # "NONE" /\ \A j \in Jobs : ~Inviting(j)
  BY DEF Phases, Open

\* A first quote comes only to an open RFQ, whose invitations have ended.
LEMMA QuoteStep ==
  ASSUME ObInv, NEW c \in Cps, Quote(c)
  PROVE  ObInv'
<1>1. JobFacts'
  BY QuietStep DEF Quote
<1>2. Tables'
  BY <1>1, SMT DEF JobFacts, JobsTyped, ObInv, Tables, Quote
<1>3. Phases'
  <2>1. Phases /\ Open
    BY DEF ObInv, Quote
  <2>2. \A j \in Jobs : ~Inviting(j)'
    BY <2>1, OpenNotInviting DEF Quote, Inviting
  <2>3. state' = "QUOTED" /\ \E d \in Cps : wire'[<<"rfq_invite", d>>] > 0
    BY <2>1 DEF Phases, Quote
  <2> QED
    BY <2>2, <2>3 DEF Phases
<1> QED
  BY <1>1, <1>2, <1>3 DEF ObInv, JobFacts

\* Closing an RFQ leaves a request that is creating it in progress.
LEMMA CloseStep ==
  ASSUME ObInv, Close
  PROVE  ObInv'
<1>1. JobFacts'
  BY QuietStep DEF Close
<1>2. Tables'
  BY <1>1 DEF JobFacts, JobsTyped, ObInv, Tables, Close
<1>3. Phases'
  <2>1. Phases
    BY DEF ObInv
  <2>2. state' = "CLOSED" /\ ~Open'
    BY DEF Close, Open
  <2> QED
    BY <2>1, <2>2 DEF Phases, Close, Inviting
<1> QED
  BY <1>1, <1>2, <1>3 DEF ObInv, JobFacts

\* Withdrawing a KYC approval touches no row.
LEMMA WithdrawStep ==
  ASSUME ObInv, NEW c \in Cps, WithdrawKyc(c)
  PROVE  ObInv'
<1>1. JobFacts'
  BY QuietStep DEF WithdrawKyc
<1>2. Tables'
  BY <1>1, OutboxConstants DEF JobFacts, JobsTyped, ObInv, Tables, WithdrawKyc
<1>3. Phases'
  BY DEF ObInv, Phases, WithdrawKyc, Inviting, Open
<1> QED
  BY <1>1, <1>2, <1>3 DEF ObInv, JobFacts

\* A refusal overwrites the status of the latest row, which is excused by it.
LEMMA DeclineStep ==
  ASSUME ObInv, NEW c \in Cps, Decline(c)
  PROVE  ObInv'
<1> DEFINE D == {k \in DOMAIN rows : rows[k].cp = c}
           i == Max(D)
<1>1. /\ Open /\ c \in Recipients
      /\ faults < MaxFaults /\ faults' = faults + 1
      /\ rows' = [rows EXCEPT ![i].status = "failed"]
      /\ declined' = declined \cup {i}
      /\ UNCHANGED <<state, quoted, kyc, wire, job, blamed, stranded, dropped>>
  BY DEF Decline
<1>2. rows \in Seq(Row) /\ DOMAIN rows = 1..Len(rows) /\ Len(rows) \in Nat
  BY DEF ObInv, Tables
<1>3. i \in D
  <2>1. PICK k \in DOMAIN rows : rows[k].cp = c
    BY <1>1 DEF Recipients
  <2>2. D \in SUBSET Nat /\ D # {} /\ \A m \in D : m <= Len(rows)
    BY <1>2, <2>1
  <2> HIDE DEF D
  <2>3. \E m \in D : \A l \in D : m >= l
    BY <2>2, <1>2, LargestNumber
  <2> QED
    BY <2>3, Zenon DEF Max
<1> HIDE DEF i
<1>4. i \in DOMAIN rows
  BY <1>3
<1>5. /\ rows' \in Seq(Row) /\ Len(rows') = Len(rows) /\ DOMAIN rows' = DOMAIN rows
      /\ rows'[i] = [rows[i] EXCEPT !.status = "failed"]
      /\ \A k \in DOMAIN rows : k # i => rows'[k] = rows[k]
  <2>1. rows[i] \in Row
    BY <1>2, <1>4
  <2>2. [rows[i] EXCEPT !.status = "failed"] \in Row
    BY <2>1 DEF Row
  <2> QED
    BY <2>2, <1>1, <1>2, <1>4
<1>6. \A k \in DOMAIN rows : /\ rows'[k].purpose = rows[k].purpose /\ rows'[k].cp = rows[k].cp
                             /\ k # i => rows'[k].status = rows[k].status
  <2>1. rows[i] \in Row
    BY <1>2, <1>4
  <2> QED
    BY <2>1, <1>5 DEF Row
<1>7. rows'[i].status = "failed"
  BY <1>2, <1>4, <1>5 DEF Row
<1>8. Tables'
  BY <1>1, <1>2, <1>4, <1>5, OutboxConstants DEF ObInv, Tables, IsJob
<1>9. SentOnce'
  BY <1>1, <1>5 DEF ObInv, SentOnce, Owes
<1>10. Counts'
  <2>1. SameRows
    BY <1>5, <1>6 DEF SameRows
  <2>2. ASSUME NEW k \in DOMAIN rows, SaysSent(k)' PROVE SaysSent(k)
    <3>1. CASE rows'[k].status = "sent"
      <4>1. k # i
        BY <3>1, <1>7
      <4> QED
        BY <3>1, <4>1, <1>6 DEF SaysSent
    <3>2. CASE \E j \in Jobs : k \in DOMAIN job'[j].outcome /\ job'[j].outcome[k] = "sent"
      BY <3>2, <1>1 DEF SaysSent
    <3> QED
      BY <2>2, <3>1, <3>2 DEF SaysSent
  <2>3. NoNewClaim
    BY <1>1, <2>2, Zenon DEF NoNewClaim, Owes
  <2> QED
    BY <1>1, <1>5, <2>1, <2>3, KeptCounts DEF ObInv
<1>11. ASSUME NEW k \in DOMAIN rows, Excused(k) PROVE Excused(k)'
  BY <1>1, <1>6, <1>11 DEF Excused
<1>12. Excuses'
  <2>1. ASSUME NEW k \in DOMAIN rows', rows'[k].status = "failed" PROVE Excused(k)'
    <3>1. CASE k = i
      BY <3>1, <1>1 DEF Excused
    <3>2. CASE k # i
      <4>1. Excused(k) /\ k \in DOMAIN rows
        BY <2>1, <3>2, <1>5, <1>6 DEF ObInv, Excuses
      <4> QED
        BY <4>1, <1>11
    <3> QED
      BY <3>1, <3>2
  <2>2. ASSUME NEW j \in Jobs, NEW k \in DOMAIN job'[j].outcome, job'[j].outcome[k] = "failed"
        PROVE  Excused(k)'
    <3>1. Excused(k) /\ k \in DOMAIN rows
      BY <2>2, <1>1, <1>2 DEF ObInv, Tables, Excuses, IsJob
    <3> QED
      BY <3>1, <1>11
  <2> QED
    BY <2>1, <2>2 DEF Excuses
<1>13. Phases'
  <2>1. state # "NONE" /\ \A j \in Jobs : ~Inviting(j)
    BY <1>1, OpenNotInviting DEF ObInv
  <2> QED
    BY <2>1, <1>1 DEF ObInv, Phases, Inviting, Open
<1> QED
  BY <1>8, <1>9, <1>10, <1>12, <1>13 DEF ObInv

-----------------------------------------------------------------------------
(* The steps of a request. *)

\* A refresh starts with its list of recipients and no row.
LEMMA RefreshLoadStep ==
  ASSUME ObInv, NEW j \in Jobs, NEW S \in SUBSET Cps, RefreshLoad(j, S)
  PROVE  ObInv'
<1> DEFINE y == [NoJob EXCEPT !.purpose = "refresh", !.todo = S]
<1>1. /\ Open /\ job' = [job EXCEPT ![j] = y]
      /\ UNCHANGED <<state, quoted, kyc, rows, wire, faults, blamed, stranded, dropped, declined>>
  BY DEF RefreshLoad
<1>2. y.purpose = "refresh" /\ y.batch = <<>> /\ y.todo = S /\ y.outcome = <<>>
  BY DEF NoJob
<1>3. IsJob(y, Len(rows)) /\ y.batch = <<>> /\ y.outcome = <<>> /\ y.purpose = "refresh"
  <2>1. y = [f \in JobFields |-> y[f]]
    BY DEF NoJob, JobFields
  <2>2. <<>> \in Seq(Nat) /\ DOMAIN <<>> = {}
    OBVIOUS
  <2> QED
    BY <1>2, <2>1, <2>2 DEF IsJob, Purposes
<1> HIDE DEF y
<1>4. Updated(j, rows')
  BY <1>1, UpdatedRows DEF ObInv
<1>5. JobFacts'
  BY <1>1, <1>3, <1>4, Released DEF ObInv
<1>6. Tables'
  BY <1>1, <1>5 DEF JobFacts, JobsTyped, ObInv, Tables
<1>7. Phases'
  <2>1. Phases /\ state # "NONE" /\ \A k \in Jobs : ~Inviting(k)
    BY <1>1, OpenNotInviting DEF ObInv
  <2>2. \A k \in Jobs : ~Inviting(k)'
    BY <1>1, <1>3, <2>1 DEF Inviting, ObInv, Tables
  <2>3. \E c \in Cps : wire'[<<"rfq_invite", c>>] > 0
    BY <2>1, <1>1 DEF Phases
  <2> QED
    BY <2>1, <2>2, <2>3, <1>1 DEF Phases
<1> QED
  BY <1>5, <1>6, <1>7 DEF ObInv, JobFacts

\* A request that ends without a commit loses what its session held.
LEMMA CutShort ==
  ASSUME ObInv, NEW j \in Jobs, job' = [job EXCEPT ![j] = NoJob],
         UNCHANGED <<state, quoted, kyc, rows, wire, blamed, declined>>,
         faults' \in 0..MaxFaults,
         stranded' \cup dropped' \subseteq stranded \cup dropped \cup Unsettled(j)
  PROVE  ObInv'
<1>1. Updated(j, rows')
  BY UpdatedRows DEF ObInv
<1>2. JobFacts'
  BY <1>1, Idle, Released DEF ObInv
<1>3. Unsettled(j) \subseteq 1..Len(rows)
  <2>1. IsJob(job[j], Len(rows))
    BY DEF ObInv, Tables
  <2> QED
    BY <2>1 DEF Unsettled, Range, IsJob
<1>4. Tables'
  BY <1>2, <1>3 DEF JobFacts, JobsTyped, ObInv, Tables
<1>5. job'[j] = NoJob /\ \A k \in Jobs : k # j => job'[k] = job[k]
  BY DEF ObInv, Tables
<1>6. Phases'
  <2>1. \A k \in Jobs : Inviting(k)' => Inviting(k)
    BY <1>5 DEF Inviting, NoJob
  <2>2. \A k \in Jobs : job[k].todo = {} => job'[k].todo = {}
    BY <1>5 DEF NoJob
  <2>3. (state = "NONE" => rows = <<>> /\ (\A m \in Purposes \X Cps : wire[m] = 0)
                           /\ \A k \in Jobs : job[k] = NoJob)'
    BY <1>5 DEF ObInv, Phases
  <2>4. ASSUME NEW k \in Jobs, Inviting(k)'
        PROVE  /\ state' \in {"CREATED", "CLOSED"}
               /\ \A l \in Jobs : job'[l].todo = {} /\ (Inviting(l)' => l = k)
               /\ \A i \in DOMAIN rows' : rows'[i].purpose = "rfq_invite"
    BY <2>1, <2>2, <2>4 DEF ObInv, Phases
  <2>5. Open' => \E c \in Cps : wire'[<<"rfq_invite", c>>] > 0
    BY DEF ObInv, Phases, Open
  <2> QED
    BY <2>3, <2>4, <2>5 DEF Phases
<1> QED
  BY <1>2, <1>4, <1>6 DEF ObInv, JobFacts

\* A crash or a failed commit.
LEMMA CrashStep ==
  ASSUME ObInv, NEW j \in Jobs, Crash(j)
  PROVE  ObInv'
<1>1. faults' \in 0..MaxFaults
  BY OutboxConstants DEF ObInv, Tables, Crash
<1> QED
  BY <1>1, CutShort DEF Crash

\* A recipient without KYC approval ends a refresh.
LEMMA RefusedStep ==
  ASSUME ObInv, NEW j \in Jobs, NEW c \in Cps, RefreshRefused(j, c)
  PROVE  ObInv'
<1>1. faults' \in 0..MaxFaults
  BY DEF ObInv, Tables, RefreshRefused
<1> QED
  BY <1>1, CutShort DEF RefreshRefused

\* The route's commit writes the outcomes; create's opens the RFQ only on a sent row.
LEMMA FinishStep ==
  ASSUME ObInv, NEW j \in Jobs, Finish(j)
  PROVE  ObInv'
<1>1. /\ job[j] # NoJob /\ rows' = Settled(j)
      /\ job' = [job EXCEPT ![j] = NoJob]
      /\ UNCHANGED <<quoted, kyc, wire, faults, blamed, stranded, dropped, declined>>
  BY DEF Finish, JobIdle
<1>2. Updated(j, rows') /\ Updated(j, rows)
  BY <1>1, UpdatedRows DEF ObInv
<1>3. JobFacts'
  BY <1>1, <1>2, Idle, Released DEF ObInv
<1>4. /\ rows \in Seq(Row) /\ rows' \in Seq(Row) /\ Len(rows') = Len(rows)
      /\ DOMAIN rows' = DOMAIN rows
  BY <1>2 DEF Updated, ObInv, Tables
<1>5. state' \in {state, "SENT"}
  BY DEF Finish
<1>6. Tables'
  BY <1>1, <1>3, <1>4, <1>5 DEF JobFacts, JobsTyped, ObInv, Tables
<1>7. job'[j] = NoJob /\ \A k \in Jobs : k # j => job'[k] = job[k]
  BY <1>1 DEF ObInv, Tables
<1>8. \A k \in Jobs : Inviting(k)' => Inviting(k) /\ k # j
  BY <1>7 DEF Inviting, NoJob
<1>9. state # "NONE"
  BY <1>1 DEF ObInv, Phases
<1>10. state' = state \/ (state' = "SENT" /\ Inviting(j) /\ \E i \in DOMAIN rows' : rows'[i].status = "sent")
  BY DEF Finish, Inviting
<1>11. ASSUME NEW k \in Jobs, Inviting(k)'
       PROVE  /\ state' \in {"CREATED", "CLOSED"}
              /\ \A l \in Jobs : job'[l].todo = {} /\ (Inviting(l)' => l = k)
              /\ \A i \in DOMAIN rows' : rows'[i].purpose = "rfq_invite"
  <2>1. Inviting(k) /\ k # j
    BY <1>8, <1>11
  <2>2. /\ state \in {"CREATED", "CLOSED"}
        /\ \A l \in Jobs : job[l].todo = {} /\ (Inviting(l) => l = k)
        /\ \A i \in DOMAIN rows : rows[i].purpose = "rfq_invite"
    BY <2>1, Zenon DEF ObInv, Phases
  <2>3. state' = state
    BY <1>10, <2>1, <2>2
  <2>4. \A l \in Jobs : job'[l].todo = {}
    BY <1>7, <2>2 DEF NoJob
  <2>5. \A i \in DOMAIN rows' : rows'[i].purpose = "rfq_invite"
    BY <1>2, <1>4, <2>2 DEF Updated
  <2> QED
    BY <1>8, <2>2, <2>3, <2>4, <2>5
<1>12. Open' => \E c \in Cps : wire'[<<"rfq_invite", c>>] > 0
  <2>1. CASE state' = state
    BY <2>1, <1>1 DEF ObInv, Phases, Open
  <2>2. CASE Inviting(j) /\ \E i \in DOMAIN rows' : rows'[i].status = "sent"
    <3>1. PICK i \in DOMAIN rows' : rows'[i].status = "sent"
      BY <2>2
    <3>2. rows[i].purpose = "rfq_invite"
      BY <2>2, <1>4 DEF ObInv, Phases
    <3>3. rows'[i].purpose = "rfq_invite" /\ rows'[i] \in Row
      BY <3>2, <1>2, <1>4 DEF Updated
    <3>4. PICK c \in Cps : rows'[i].cp = c
      BY <3>3 DEF Row
    <3>5. i \in SentOf("rfq_invite", c)'
      BY <3>1, <3>3, <3>4 DEF SentOf, RowsOf, SaysSent
    <3>6. Cardinality(SentOf("rfq_invite", c)') <= wire'[<<"rfq_invite", c>>]
      BY <1>3 DEF JobFacts, Counts, Purposes
    <3>7. IsFiniteSet(SentOf("rfq_invite", c)') /\ Cardinality(SentOf("rfq_invite", c)') \in Nat
      <4>1. SentOf("rfq_invite", c)' \in SUBSET (1..Len(rows'))
        BY <1>4 DEF SentOf, RowsOf
      <4>2. IsFiniteSet(1..Len(rows'))
        BY <1>4, FS_Interval
      <4> QED
        BY <4>1, <4>2, FS_Subset, FS_CardinalityType
    <3>8. Cardinality(SentOf("rfq_invite", c)') # 0
      BY <3>5, <3>7, FS_EmptySet
    <3>9. wire'[<<"rfq_invite", c>>] \in Nat
      BY <1>6 DEF Tables, Purposes
    <3>10. wire'[<<"rfq_invite", c>>] > 0
      BY <3>6, <3>7, <3>8, <3>9
    <3> QED
      BY <3>10
  <2> QED
    BY <1>10, <2>1, <2>2
<1>13. state' # "NONE"
  BY <1>5, <1>9
<1>14. Phases'
  BY <1>11, <1>12, <1>13 DEF Phases
<1> QED
  BY <1>3, <1>6, <1>14 DEF ObInv, JobFacts

\* The checkpoint of refresh commits the row of the next recipient.
LEMMA CheckpointStep ==
  ASSUME ObInv, NEW j \in Jobs, NEW c \in Cps, RefreshCheckpoint(j, c)
  PROVE  ObInv'
<1> DEFINE n == Len(rows) + 1
           y == [job[j] EXCEPT !.batch = <<n>>, !.todo = @ \ {c}, !.outcome = <<>>]
<1>1. /\ c \in job[j].todo
      /\ rows' = Append(Settled(j), Queued("refresh", c))
      /\ UNCHANGED <<state, quoted, kyc, wire, faults, blamed, stranded, dropped, declined>>
  BY DEF RefreshCheckpoint
<1>2. IsJob(job[j], Len(rows)) /\ job = [k \in Jobs |-> job[k]] /\ Len(rows) \in Nat
  BY DEF ObInv, Tables
<1>3. job' = [job EXCEPT ![j] = y]
  BY <1>2 DEF RefreshCheckpoint
<1>4. /\ y = [f \in JobFields |-> y[f]]
      /\ y.purpose = job[j].purpose /\ y.batch = <<n>>
      /\ y.todo = job[j].todo \ {c} /\ y.outcome = <<>>
  BY <1>2 DEF IsJob, JobFields
<1> HIDE DEF y
<1>5. IsJob(y, n)
  <2>1. <<n>> \in Seq(Nat) /\ (\A k \in DOMAIN <<n>> : <<n>>[k] \in 1..n)
    BY <1>2
  <2>2. DOMAIN <<>> = {}
    OBVIOUS
  <2> HIDE DEF n
  <2> QED
    BY <1>2, <1>4, <2>1, <2>2 DEF IsJob
<1>6. Updated(j, Settled(j)) /\ "refresh" \in Purposes
  BY UpdatedRows DEF ObInv, Purposes
<1> HIDE DEF n
<1>7. rows' \in Seq(Row) /\ Len(rows') = n /\ JobFacts'
  BY <1>1, <1>3, <1>4, <1>5, <1>6, Appended DEF ObInv, n
<1>8. Tables'
  <2>1. 1..Len(rows) \subseteq 1..Len(rows')
    BY <1>2, <1>7 DEF n
  <2> QED
    BY <1>1, <1>7, <2>1 DEF JobFacts, JobsTyped, ObInv, Tables
<1>9. Phases'
  <2>1. job[j] # NoJob
    BY <1>1 DEF NoJob
  <2>2. state # "NONE" /\ \A k \in Jobs : ~Inviting(k)
    BY <1>1, <2>1 DEF ObInv, Phases
  <2>3. \A k \in Jobs : ~Inviting(k)'
    BY <1>2, <1>3, <1>4, <2>2 DEF Inviting
  <2> QED
    BY <1>1, <2>2, <2>3 DEF ObInv, Phases, Open
<1> QED
  BY <1>7, <1>8, <1>9 DEF ObInv, JobFacts

\* reject_quote commits the rejection and, where it has a number, the row to send.
LEMMA RejectStep ==
  ASSUME ObInv, NEW j \in Jobs, NEW c \in Cps, RejectQuote(j, c)
  PROVE  ObInv'
<1> DEFINE n == Len(rows) + 1
           y == [purpose |-> "reject_quote", todo |-> {}, batch |-> <<n>>, outcome |-> <<>>]
<1>1. /\ Open /\ quoted' = quoted \ {c} /\ state' \in {state, "SENT"}
      /\ UNCHANGED <<kyc, wire, faults, blamed, stranded, dropped, declined>>
      /\ \/ rows' = Append(rows, Queued("reject_quote", c)) /\ job' = [job EXCEPT ![j] = y]
         \/ UNCHANGED <<rows, job>>
  BY DEF RejectQuote
<1>2. state # "NONE" /\ \A k \in Jobs : ~Inviting(k)
  BY <1>1, OpenNotInviting DEF ObInv
<1>3. job = [k \in Jobs |-> job[k]] /\ Len(rows) \in Nat
  BY DEF ObInv, Tables
<1>4. y.batch = <<n>> /\ y.outcome = <<>> /\ y.purpose = "reject_quote" /\ IsJob(y, n)
  <2>1. y = [f \in JobFields |-> y[f]]
    BY DEF JobFields
  <2>2. <<n>> \in Seq(Nat) /\ (\A k \in DOMAIN <<n>> : <<n>>[k] \in 1..n) /\ DOMAIN <<>> = {}
    BY <1>3
  <2> HIDE DEF n
  <2> QED
    BY <2>1, <2>2 DEF IsJob, Purposes
<1> HIDE DEF n, y
<1>5. /\ JobFacts'
      /\ rows' \in Seq(Row) /\ Len(rows) <= Len(rows')
      /\ \A k \in Jobs : ~Inviting(k)'
  <2>1. CASE rows' = Append(rows, Queued("reject_quote", c)) /\ job' = [job EXCEPT ![j] = y]
    <3>1. Updated(j, rows) /\ "reject_quote" \in Purposes
      BY UpdatedRows DEF ObInv, Purposes
    <3>2. rows' \in Seq(Row) /\ Len(rows') = n /\ JobFacts'
      BY <1>1, <1>4, <2>1, <3>1, Appended DEF ObInv, n
    <3>3. \A k \in Jobs : ~Inviting(k)'
      BY <1>2, <1>3, <1>4, <2>1 DEF Inviting
    <3> QED
      BY <1>3, <3>2, <3>3 DEF n
  <2>2. CASE UNCHANGED <<rows, job>>
    <3>1. JobFacts'
      BY <1>1, <2>2, QuietStep
    <3> QED
      BY <1>2, <1>3, <2>2, <3>1 DEF ObInv, Tables, Inviting
  <2> QED
    BY <1>1, <2>1, <2>2
<1>6. Tables'
  <2>1. 1..Len(rows) \subseteq 1..Len(rows')
    BY <1>3, <1>5
  <2> QED
    BY <1>1, <1>5, <2>1 DEF JobFacts, JobsTyped, ObInv, Tables
<1>7. Phases'
  <2>1. \E d \in Cps : wire'[<<"rfq_invite", d>>] > 0
    BY <1>1 DEF ObInv, Phases
  <2> QED
    BY <1>1, <1>2, <1>5, <2>1 DEF Phases
<1> QED
  BY <1>5, <1>6, <1>7 DEF ObInv, JobFacts

\* The sandbox's rewriting of a number costs nothing: the retry undoes it.
LEMMA Unreachable ==
  ASSUME NEW c \in Cps, Joined[c] \notin Tried(c)
  PROVE  WrongNumber(c)
<1>1. Stored[c] \in {"br8", "br9", "foreign"}
  BY OutboxConstants DEF Numbers
<1>2. CASE Provider # "twilio"
  BY <1>2 DEF Tried, WrongNumber
<1>3. CASE Provider = "twilio"
  <2>1. CASE Stored[c] = "br9"
    BY <1>3, <2>1 DEF Tried, SandboxNormalize, Variant, WrongNumber
  <2>2. CASE Stored[c] = "br8"
    BY <1>3, <2>2 DEF Tried, SandboxNormalize, Variant, WrongNumber
  <2>3. CASE Stored[c] = "foreign"
    BY <1>3, <2>3 DEF Tried, SandboxNormalize, Variant, WrongNumber
  <2> QED
    BY <1>1, <2>1, <2>2, <2>3
<1> QED
  BY <1>2, <1>3

\* The effect of Send on the row i it takes from the batch of j.
SendOf(j, i) ==
  \/ /\ job' = [job EXCEPT ![j].batch = Tail(@), ![j].outcome = Learnt(@, i, "sent")]
     /\ wire' = [wire EXCEPT ![<<rows[i].purpose, rows[i].cp>>] = @ + 1]
     /\ UNCHANGED <<faults, blamed>>
  \/ /\ job' = [job EXCEPT ![j].batch = Tail(@), ![j].outcome = Learnt(@, i, "failed")]
     /\ wire' = [wire EXCEPT ![<<rows[i].purpose, rows[i].cp>>] = @ + 1] \/ wire' = wire
     /\ faults < MaxFaults /\ faults' = faults + 1 /\ blamed' = blamed \cup {i}
  \/ /\ job' = [job EXCEPT ![j].batch = Tail(@), ![j].outcome = Learnt(@, i, "failed")]
     /\ Joined[rows[i].cp] \notin Tried(rows[i].cp) /\ UNCHANGED <<wire, faults, blamed>>

\* A send takes one row off the batch and leaves its outcome in the session.
LEMMA SendStep ==
  ASSUME ObInv, NEW j \in Jobs, Send(j)
  PROVE  ObInv'
<1> DEFINE b == job[j].batch
<1>1. /\ b # <<>>
      /\ UNCHANGED <<state, quoted, kyc, rows, stranded, dropped, declined>>
  BY DEF Send
<1>2. /\ IsJob(job[j], Len(rows)) /\ job = [k \in Jobs |-> job[k]]
      /\ rows \in Seq(Row) /\ DOMAIN rows = 1..Len(rows) /\ Len(rows) \in Nat
      /\ \A k \in Jobs : IsJob(job[k], Len(rows))
  BY DEF ObInv, Tables
<1>3. b \in Seq(Nat) /\ \A k \in DOMAIN b : b[k] \in DOMAIN rows
  BY <1>2 DEF IsJob
<1>4. PICK i \in DOMAIN rows : i = Head(b) /\ i = b[1] /\ 1 \in DOMAIN b
  BY <1>1, <1>3
<1> DEFINE c == rows[i].cp
           y(result) == [job[j] EXCEPT !.batch = Tail(b),
                                       !.outcome = Learnt(job[j].outcome, i, result)]
<1>5. /\ Tail(b) \in Seq(Nat)
      /\ \A k \in DOMAIN Tail(b) : k + 1 \in DOMAIN b /\ Tail(b)[k] = b[k + 1] /\ k \in Nat /\ k >= 1
  BY <1>1, <1>3
<1>6. PICK result \in {"sent", "failed"} :
        /\ job' = [job EXCEPT ![j] = y(result)]
        /\ \/ wire' = wire /\ result = "failed"
           \/ wire' = [wire EXCEPT ![<<rows[i].purpose, c>>] = @ + 1]
        /\ \/ UNCHANGED <<faults, blamed>>
           \/ faults < MaxFaults /\ faults' = faults + 1 /\ blamed' = blamed \cup {i}
        /\ result = "failed" => i \in blamed' \/ Joined[c] \notin Tried(c)
  <2>1. ASSUME NEW result,
               job' = [job EXCEPT ![j].batch = Tail(@), ![j].outcome = Learnt(@, i, result)]
        PROVE  job' = [job EXCEPT ![j] = y(result)]
    BY <1>2, <2>1 DEF IsJob, JobFields
  <2>2. SendOf(j, Head(b))
    BY Zenon DEF Send, SendOf
  <2>3. SendOf(j, i)
    BY <1>4, <2>2, Zenon
  <2> HIDE DEF y, c, b
  <2> QED
    BY <2>1, <2>3 DEF SendOf, c
<1>7. /\ y(result) = [f \in JobFields |-> y(result)[f]]
      /\ y(result).purpose = job[j].purpose /\ y(result).todo = job[j].todo
      /\ y(result).batch = Tail(b)
      /\ y(result).outcome = Learnt(job[j].outcome, i, result)
  BY <1>2 DEF IsJob, JobFields
<1> DEFINE z == job[j].outcome
<1>8. /\ DOMAIN Learnt(z, i, result) = {i} \cup DOMAIN z
      /\ Learnt(z, i, result)[i] = result
      /\ \A k \in DOMAIN z : k # i => Learnt(z, i, result)[k] = z[k]
  BY DEF Learnt
<1>9. job'[j] = y(result) /\ \A k \in Jobs : k # j => job'[k] = job[k]
  BY <1>2, <1>6
<1> HIDE DEF y, c, b
<1>10. Tables'
  <2>1. /\ state' \in {"NONE", "CREATED", "SENT", "QUOTED", "CLOSED"}
        /\ quoted' \subseteq Cps /\ kyc' \subseteq Cps
        /\ rows' \in Seq(Row)
    BY <1>1, <1>2 DEF ObInv, Tables
  <2>7. blamed' \cup stranded' \cup dropped' \cup declined' \subseteq 1..Len(rows')
    <3>1. blamed' \subseteq blamed \cup {i}
      BY <1>6
    <3> QED
      BY <1>1, <1>2, <3>1 DEF ObInv, Tables
  <2>2. wire' \in [Purposes \X Cps -> Nat]
    <3>1. wire \in [Purposes \X Cps -> Nat]
      BY DEF ObInv, Tables
    <3>2. CASE wire' = wire
      BY <3>1, <3>2
    <3>3. CASE wire' = [wire EXCEPT ![<<rows[i].purpose, c>>] = @ + 1]
      <4> DEFINE x == <<rows[i].purpose, c>>
                 M == Purposes \X Cps
      <4>1. wire \in [M -> Nat] /\ wire' = [wire EXCEPT ![x] = @ + 1]
        BY <3>1, <3>3
      <4> HIDE DEF x, M
      <4>2. \A m \in M : wire'[m] = IF m = x THEN wire[m] + 1 ELSE wire[m]
        BY <4>1
      <4>3. \A m \in M : wire[m] \in Nat /\ wire[m] + 1 \in Nat
        BY <4>1
      <4>4. \A m \in M : wire'[m] \in Nat
        BY <4>2, <4>3
      <4>5. wire' = [m \in M |-> wire'[m]]
        BY <4>1
      <4>6. wire' \in [M -> Nat]
        BY <4>4, <4>5
      <4> QED
        BY <4>6 DEF M
    <3> QED
      BY <1>6, <3>2, <3>3
  <2>3. faults' \in 0..MaxFaults
    BY <1>6, OutboxConstants DEF ObInv, Tables
  <2>4. job' = [k \in Jobs |-> job'[k]]
    BY <1>2, <1>6
  <2>5. IsJob(y(result), Len(rows))
    <3>1. \A k \in DOMAIN Tail(b) : Tail(b)[k] \in 1..Len(rows)
      BY <1>2, <1>3, <1>5
    <3>2. \A k \in DOMAIN Learnt(z, i, result) : /\ k \in 1..Len(rows)
                                                 /\ Learnt(z, i, result)[k] \in {"sent", "failed"}
      BY <1>2, <1>4, <1>8 DEF IsJob
    <3> HIDE DEF z
    <3> QED
      BY <1>2, <1>5, <1>7, <3>1, <3>2 DEF IsJob, z
  <2>6. \A k \in Jobs : IsJob(job'[k], Len(rows'))
    BY <1>1, <1>2, <1>9, <2>5
  <2> QED
    BY <2>1, <2>2, <2>3, <2>4, <2>6, <2>7 DEF Tables, IsJob
<1>11. \A k \in Jobs : \A m : Owes(k, m)' => Owes(k, m)
  <2>1. ASSUME NEW m, Owes(j, m)' PROVE Owes(j, m)
    <3>1. job'[j].batch = Tail(b)
      BY <1>7, <1>9
    <3>2. PICK k \in DOMAIN Tail(b) : Tail(b)[k] = m
      BY <2>1, <3>1 DEF Owes
    <3>3. k + 1 \in DOMAIN b /\ b[k + 1] = m
      BY <3>2, <1>5
    <3> QED
      BY <3>3 DEF Owes, b
  <2>2. ASSUME NEW k \in Jobs, k # j, NEW m, Owes(k, m)' PROVE Owes(k, m)
    BY <1>9, <2>2 DEF Owes
  <2> QED
    BY <2>1, <2>2
<1>12. Owes(j, i)
  BY <1>4 DEF Owes, b
<1>13. ASSUME NEW k \in Jobs PROVE ~Owes(k, i)'
  <2>1. CASE k = j
    <3>1. ASSUME NEW m \in DOMAIN Tail(b), Tail(b)[m] = i PROVE FALSE
      <4>1. m + 1 \in DOMAIN b /\ b[m + 1] = b[1] /\ m + 1 # 1
        BY <1>4, <1>5, <3>1
      <4> QED
        BY <4>1, <1>4 DEF ObInv, SentOnce, b
    <3> QED
      BY <2>1, <3>1, <1>7, <1>9 DEF Owes
  <2>2. CASE k # j
    <3>1. ~Owes(k, i)
      BY <2>2, <1>4, <1>12, Zenon DEF ObInv, SentOnce
    <3> QED
      BY <3>1, <1>11
  <2> QED
    BY <2>1, <2>2
<1>14. SentOnce'
  <2>1. ASSUME NEW k \in Jobs, NEW s \in DOMAIN job'[k].batch, NEW t \in DOMAIN job'[k].batch,
               job'[k].batch[s] = job'[k].batch[t]
        PROVE  s = t
    <3>1. CASE k = j
      <4>1. s \in DOMAIN Tail(b) /\ t \in DOMAIN Tail(b) /\ Tail(b)[s] = Tail(b)[t]
        BY <2>1, <3>1, <1>7, <1>9
      <4>2. s + 1 \in DOMAIN b /\ t + 1 \in DOMAIN b /\ b[s + 1] = b[t + 1] /\ s \in Nat /\ t \in Nat
        BY <4>1, <1>5
      <4>3. s + 1 = t + 1
        BY <4>2 DEF ObInv, SentOnce, b
      <4> QED
        BY <4>2, <4>3
    <3>2. CASE k # j
      BY <2>1, <3>2, <1>9 DEF ObInv, SentOnce
    <3> QED
      BY <3>1, <3>2
  <2>2. ASSUME NEW k \in Jobs, NEW l \in Jobs, NEW m \in DOMAIN rows', Owes(k, m)', Owes(l, m)'
        PROVE  k = l
    <3>1. DOMAIN rows' = DOMAIN rows
      BY <1>1
    <3> QED
      BY <2>2, <3>1, <1>11, Zenon DEF ObInv, SentOnce
  <2> QED
    BY <2>1, <2>2 DEF SentOnce
<1>15. Counts'
  <2>1. ASSUME NEW m \in DOMAIN rows, SaysSent(m)' PROVE SaysSent(m) \/ (m = i /\ result = "sent")
    <3>1. CASE rows'[m].status = "sent"
      BY <3>1, <1>1 DEF SaysSent
    <3>2. CASE \E k \in Jobs : m \in DOMAIN job'[k].outcome /\ job'[k].outcome[m] = "sent"
      <4>1. PICK k \in Jobs : m \in DOMAIN job'[k].outcome /\ job'[k].outcome[m] = "sent"
        BY <3>2
      <4>2. CASE k # j
        BY <4>1, <4>2, <1>9 DEF SaysSent
      <4>3. CASE k = j /\ m = i
        BY <4>1, <4>3, <1>7, <1>8, <1>9
      <4>4. CASE k = j /\ m # i
        <5>1. m \in DOMAIN z /\ z[m] = "sent"
          BY <4>1, <4>4, <1>7, <1>8, <1>9
        <5> QED
          BY <5>1 DEF SaysSent
      <4> QED
        BY <4>2, <4>3, <4>4
    <3> QED
      BY <2>1, <3>1, <3>2 DEF SaysSent
  <2>2. \A m \in DOMAIN rows : SaysSent(m)' => SaysSent(m) \/ m = i
    BY <2>1
  <2>3. result = "failed" => (SaysSent(i)' => SaysSent(i))
    BY <2>1, <1>4
  <2>4. \/ wire' = [wire EXCEPT ![<<rows[i].purpose, rows[i].cp>>] = @ + 1]
        \/ wire' = wire /\ (SaysSent(i)' => SaysSent(i))
    BY <1>6, <2>3 DEF c
  <2>5. \A m \in DOMAIN rows : (\E k \in Jobs : Owes(k, m)') => \E k \in Jobs : Owes(k, m)
    BY <1>11, Zenon
  <2>6. (\E k \in Jobs : Owes(k, i)) /\ ~(\E k \in Jobs : Owes(k, i)')
    BY <1>12, <1>13, Zenon
  <2> QED
    BY <1>1, <1>4, <2>2, <2>4, <2>5, <2>6, SendCounts DEF ObInv
<1>16. ASSUME NEW m, Excused(m) PROVE Excused(m)'
  BY <1>1, <1>6, <1>16 DEF Excused
<1>17. Excuses'
  <2>1. ASSUME NEW m \in DOMAIN rows', rows'[m].status = "failed" PROVE Excused(m)'
    BY <2>1, <1>1, <1>16 DEF ObInv, Excuses
  <2>2. ASSUME NEW k \in Jobs, NEW m \in DOMAIN job'[k].outcome, job'[k].outcome[m] = "failed"
        PROVE  Excused(m)'
    <3>1. CASE k # j
      BY <2>2, <3>1, <1>9, <1>16 DEF ObInv, Excuses
    <3>2. CASE k = j /\ m # i
      <4>1. m \in DOMAIN z /\ z[m] = "failed"
        BY <2>2, <3>2, <1>7, <1>8, <1>9
      <4> QED
        BY <4>1, <1>16 DEF ObInv, Excuses
    <3>3. CASE k = j /\ m = i
      <4>1. result = "failed"
        BY <2>2, <3>3, <1>7, <1>8, <1>9
      <4>2. CASE i \in blamed'
        BY <3>3, <4>2 DEF Excused
      <4>3. CASE Joined[c] \notin Tried(c)
        <5>1. rows[i] \in Row
          BY <1>2
        <5>2. c \in Cps
          BY <5>1 DEF c, Row
        <5>3. WrongNumber(rows'[i].cp)
          BY <4>3, <5>2, <1>1, Unreachable DEF c
        <5> QED
          BY <3>3, <5>3 DEF Excused
      <4> QED
        BY <4>1, <4>2, <4>3, <1>6
    <3> QED
      BY <3>1, <3>2, <3>3
  <2> QED
    BY <2>1, <2>2 DEF Excuses
<1>18. Phases'
  <2>1. job[j] # NoJob
    BY <1>1 DEF NoJob, b
  <2>2. state' = state /\ state # "NONE"
    BY <2>1, <1>1 DEF ObInv, Phases
  <2>3. \A k \in Jobs : job'[k].purpose = job[k].purpose /\ job'[k].todo = job[k].todo
    BY <1>7, <1>9
  <2>4. ASSUME NEW d \in Cps, wire[<<"rfq_invite", d>>] > 0 PROVE wire'[<<"rfq_invite", d>>] > 0
    <3>1. wire \in [Purposes \X Cps -> Nat] /\ <<"rfq_invite", d>> \in Purposes \X Cps
      BY DEF ObInv, Tables, Purposes
    <3>2. CASE wire' = wire
      BY <2>4, <3>2
    <3>3. CASE wire' = [wire EXCEPT ![<<rows[i].purpose, c>>] = @ + 1]
      BY <2>4, <3>1, <3>3
    <3> QED
      BY <1>6, <3>2, <3>3
  <2>5. Open' => \E d \in Cps : wire'[<<"rfq_invite", d>>] > 0
    BY <2>2, <2>4 DEF ObInv, Phases, Open
  <2>6. ASSUME NEW k \in Jobs, Inviting(k)'
        PROVE  /\ state' \in {"CREATED", "CLOSED"}
               /\ \A l \in Jobs : job'[l].todo = {} /\ (Inviting(l)' => l = k)
               /\ \A m \in DOMAIN rows' : rows'[m].purpose = "rfq_invite"
    BY <2>2, <2>3, <2>6, <1>1 DEF ObInv, Phases, Inviting
  <2> QED
    BY <2>2, <2>5, <2>6 DEF Phases
<1> QED
  BY <1>10, <1>14, <1>15, <1>17, <1>18 DEF ObInv

\* create's checkpoint: the first rows of the table, all owed by its request.
LEMMA CreateStep ==
  ASSUME ObInv, NEW j \in Jobs, NEW S \in SUBSET Cps, Create(j, S)
  PROVE  ObInv'
<1> DEFINE order == SetToSeq(S)
           n == Cardinality(S)
           y == [purpose |-> "rfq_invite", todo |-> {},
                 batch |-> [i \in DOMAIN order |-> i], outcome |-> <<>>]
<1>1. /\ state = "NONE" /\ state' = "CREATED"
      /\ rows' = [i \in DOMAIN order |-> Queued("rfq_invite", order[i])]
      /\ job' = [job EXCEPT ![j] = y]
      /\ UNCHANGED <<quoted, kyc, wire, faults, blamed, stranded, dropped, declined>>
  BY DEF Create
<1>2. /\ rows = <<>> /\ job = [k \in Jobs |-> job[k]]
      /\ \A m \in Purposes \X Cps : wire[m] = 0
      /\ \A k \in Jobs : job[k] = NoJob
  BY <1>1 DEF ObInv, Phases, Tables
<1>3. n \in Nat /\ order \in [1..n -> S]
  <2>1. IsFiniteSet(S)
    BY OutboxConstants, FS_Subset
  <2>2. n \in Nat /\ ExistsBijection(1..n, S)
    BY <2>1, FS_CardinalityType
  <2>3. \E f \in [1..n -> S] : IsInjective(f)
    BY <2>2 DEF ExistsBijection, Bijection, Injection, IsInjective
  <2> QED
    BY <2>2, <2>3, Zenon DEF SetToSeq
<1> HIDE DEF n, order
<1>4. DOMAIN order = 1..n /\ \A i \in 1..n : order[i] \in Cps
  BY <1>3
<1>5. /\ rows' \in Seq(Row) /\ Len(rows') = n /\ DOMAIN rows' = 1..n
      /\ \A i \in 1..n : rows'[i] = Queued("rfq_invite", order[i])
  <2>1. \A i \in 1..n : Queued("rfq_invite", order[i]) \in Row
    BY <1>4 DEF Queued, Row, Purposes
  <2>2. rows' = [i \in 1..n |-> Queued("rfq_invite", order[i])]
    BY <1>1, <1>4
  <2> QED
    BY <1>3, <2>1, <2>2
<1>6. \A i \in 1..n : rows'[i].status = "queued" /\ rows'[i].purpose = "rfq_invite"
  BY <1>5 DEF Queued
<1>7. /\ y = [f \in JobFields |-> y[f]]
      /\ y.purpose = "rfq_invite" /\ y.todo = {} /\ y.outcome = <<>>
      /\ y.batch = [i \in 1..n |-> i]
  BY <1>4 DEF JobFields
<1> HIDE DEF y
<1>8. job'[j] = y /\ \A k \in Jobs : k # j => job'[k] = NoJob
  BY <1>1, <1>2
<1>9. IsJob(y, n)
  <2>1. [i \in 1..n |-> i] \in Seq(Nat)
    BY <1>3
  <2>2. DOMAIN <<>> = {}
    OBVIOUS
  <2> QED
    BY <1>7, <2>1, <2>2 DEF IsJob, Purposes
<1>10. Tables'
  <2>1. \A k \in Jobs : IsJob(job'[k], Len(rows'))
    BY <1>5, <1>8, <1>9, Idle
  <2>2. job' = [k \in Jobs |-> job'[k]]
    BY <1>1, <1>2
  <2>3. blamed' \cup stranded' \cup dropped' \cup declined' \subseteq 1..Len(rows')
    BY <1>1, <1>2 DEF ObInv, Tables
  <2> QED
    BY <1>1, <1>5, <2>1, <2>2, <2>3 DEF ObInv, Tables, IsJob
<1>11. ASSUME NEW k \in Jobs, NEW i, Owes(k, i)' PROVE k = j
  BY <1>8, <1>11 DEF Owes, NoJob
<1>12. SentOnce'
  <2>1. ASSUME NEW k \in Jobs, NEW s \in DOMAIN job'[k].batch, NEW t \in DOMAIN job'[k].batch,
               job'[k].batch[s] = job'[k].batch[t]
        PROVE  s = t
    <3>1. CASE k = j
      <4>1. job'[k].batch = [i \in 1..n |-> i]
        BY <3>1, <1>7, <1>8
      <4>2. s \in 1..n /\ t \in 1..n
        BY <4>1
      <4>3. job'[k].batch[s] = s /\ job'[k].batch[t] = t
        BY <4>1, <4>2
      <4> QED
        BY <2>1, <4>3
    <3>2. CASE k # j
      BY <2>1, <3>2, <1>8 DEF NoJob
    <3> QED
      BY <3>1, <3>2
  <2> QED
    BY <2>1, <1>11 DEF SentOnce
<1>13. \A k \in Jobs : DOMAIN job'[k].outcome = {}
  BY <1>7, <1>8, Idle
<1>14. \A i \in DOMAIN rows' : ~SaysSent(i)'
  BY <1>5, <1>6, <1>13 DEF SaysSent
<1>15. Counts'
  <2> SUFFICES ASSUME NEW p \in Purposes, NEW c \in Cps
               PROVE  /\ wire'[<<p, c>>] + Cardinality(OwedOf(p, c)') <= Cardinality(RowsOf(p, c)')
                      /\ Cardinality(SentOf(p, c)') <= wire'[<<p, c>>]
    BY DEF Counts
  <2>1. wire'[<<p, c>>] = 0
    BY <1>1, <1>2
  <2>2. OwedOf(p, c)' \in SUBSET (RowsOf(p, c)')
    BY DEF OwedOf
  <2>3. SentOf(p, c)' = {}
    BY <1>14, Zenon DEF SentOf, RowsOf
  <2>4. IsFiniteSet(RowsOf(p, c)')
    <3>1. RowsOf(p, c)' \in SUBSET (1..n)
      BY <1>5 DEF RowsOf
    <3>2. IsFiniteSet(1..n)
      BY <1>3, FS_Interval
    <3> QED
      BY <3>1, <3>2, FS_Subset
  <2> DEFINE O == OwedOf(p, c)'
             R == RowsOf(p, c)'
  <2> HIDE DEF O, R
  <2>5. Cardinality(O) <= Cardinality(R) /\ Cardinality(O) \in Nat /\ Cardinality(R) \in Nat
    <3>1. O \in SUBSET R /\ IsFiniteSet(R)
      BY <2>2, <2>4 DEF O, R
    <3> QED
      BY <3>1, FS_Subset, FS_CardinalityType
  <2>6. 0 + Cardinality(O) <= Cardinality(R)
    BY <2>5
  <2> QED
    BY <2>1, <2>3, <2>6, FS_EmptySet DEF O, R
<1>16. Excuses'
  BY <1>5, <1>6, <1>13 DEF Excuses
<1>17. Phases'
  <2>1. \A k \in Jobs : Inviting(k)' => k = j
    BY <1>8 DEF Inviting, NoJob
  <2>2. \A k \in Jobs : job'[k].todo = {}
    BY <1>7, <1>8 DEF NoJob
  <2>3. ~Open' /\ state' # "NONE"
    BY <1>1 DEF Open
  <2> QED
    BY <1>1, <1>5, <1>6, <2>1, <2>2, <2>3 DEF Phases
<1> QED
  BY <1>10, <1>12, <1>15, <1>16, <1>17 DEF ObInv

-----------------------------------------------------------------------------
\* An empty outbox satisfies the invariant, and every step keeps it.
LEMMA ObInitInv ==
  ASSUME Init
  PROVE  ObInv
<1>1. Tables
  <2>1. <<>> \in Seq(Row) /\ 0 \in 0..MaxFaults
    BY OutboxConstants
  <2>2. \A j \in Jobs : job[j] = NoJob
    BY DEF Init
  <2>3. \A j \in Jobs : IsJob(job[j], Len(rows))
    BY <2>2, Idle
  <2>4. wire \in [Purposes \X Cps -> Nat]
    BY DEF Init
  <2>5. job = [j \in Jobs |-> job[j]]
    BY DEF Init
  <2> QED
    BY <2>1, <2>3, <2>4, <2>5 DEF Init, Tables
<1>2. \A j \in Jobs : job[j] = NoJob
  BY DEF Init
<1>3. SentOnce
  BY <1>2 DEF SentOnce, Owes, NoJob
<1>4. Counts
  <2> SUFFICES ASSUME NEW p \in Purposes, NEW c \in Cps
               PROVE  /\ wire[<<p, c>>] + Cardinality(OwedOf(p, c)) <= Cardinality(RowsOf(p, c))
                      /\ Cardinality(SentOf(p, c)) <= wire[<<p, c>>]
    BY DEF Counts
  <2>1. RowsOf(p, c) = {} /\ OwedOf(p, c) = {} /\ SentOf(p, c) = {}
    BY DEF Init, RowsOf, OwedOf, SentOf
  <2>2. wire[<<p, c>>] = 0 /\ Cardinality({}) = 0
    BY FS_EmptySet DEF Init
  <2> QED
    BY <2>1, <2>2
<1>5. Excuses
  BY <1>2, Idle DEF Init, Excuses
<1>6. Phases
  BY <1>2 DEF Init, Phases, Open, Inviting, NoJob
<1> QED
  BY <1>1, <1>3, <1>4, <1>5, <1>6 DEF ObInv

\* One case per action.
LEMMA ObNextInv ==
  ASSUME ObInv, [Next]_obVars
  PROVE  ObInv'
<1>1. ASSUME NEW j \in Jobs, NEW S \in SUBSET Cps, Create(j, S) PROVE ObInv'
  BY <1>1, CreateStep
<1>2. ASSUME NEW j \in Jobs, Refresh(j) PROVE ObInv'
  <2>1. Recipients \in SUBSET Cps
    <3>1. \A i \in DOMAIN rows : rows[i] \in Row
      BY DEF ObInv, Tables
    <3> QED
      BY <3>1 DEF Recipients, Row
  <2> QED
    BY <1>2, <2>1, RefreshLoadStep DEF Refresh
<1>3. ASSUME NEW j \in Jobs, NEW c \in Cps, RefreshCounterparty(j, c) PROVE ObInv'
  <2>1. {c} \in SUBSET Cps
    OBVIOUS
  <2> QED
    BY <1>3, <2>1, RefreshLoadStep DEF RefreshCounterparty
<1>4. ASSUME NEW j \in Jobs, NEW c \in Cps, RejectQuote(j, c) PROVE ObInv'
  BY <1>4, RejectStep
<1>5. ASSUME NEW j \in Jobs, JobStep(j) PROVE ObInv'
  BY <1>5, CheckpointStep, RefusedStep, SendStep, FinishStep DEF JobStep
<1>6. ASSUME NEW j \in Jobs, Crash(j) PROVE ObInv'
  BY <1>6, CrashStep
<1>7. ASSUME NEW c \in Cps, Quote(c) \/ Decline(c) \/ WithdrawKyc(c) PROVE ObInv'
  BY <1>7, QuoteStep, DeclineStep, WithdrawStep
<1>8. CASE Close
  BY <1>8, CloseStep
<1>9. CASE UNCHANGED obVars
  <2>1. JobFacts'
    BY <1>9, QuietStep DEF obVars
  <2>2. Tables'
    BY <1>9, <2>1 DEF JobFacts, JobsTyped, ObInv, Tables, obVars
  <2>3. Phases'
    BY <1>9 DEF ObInv, Phases, Inviting, Open, obVars
  <2> QED
    BY <2>1, <2>2, <2>3 DEF ObInv, JobFacts
<1> QED
  BY <1>1, <1>2, <1>3, <1>4, <1>5, <1>6, <1>7, <1>8, <1>9 DEF Next

\* The inductive invariant: what was accepted lies between the rows that say `sent'
\* and the rows that nobody owes any more.
THEOREM ObInvHolds == Spec => []ObInv
<1>1. Init => ObInv
  BY ObInitInv
<1>2. ObInv /\ [Next]_obVars => ObInv'
  BY ObNextInv
<1> QED
  BY <1>1, <1>2, PTL DEF Spec

\* Type correctness of the tables and of what the sessions hold.
THEOREM ObTypeCorrect == Spec => []ObTypeOK
<1>1. ObInv => ObTypeOK
  <2> SUFFICES ASSUME ObInv PROVE ObTypeOK
    OBVIOUS
  <2>1. ASSUME NEW j \in Jobs
        PROVE  /\ job[j].purpose \in Purposes \cup {"none"} /\ job[j].todo \subseteq Cps
               /\ Range(job[j].batch) \cup DOMAIN job[j].outcome \subseteq 1..Len(rows)
    <3>1. IsJob(job[j], Len(rows))
      BY DEF ObInv, Tables
    <3> QED
      BY <3>1 DEF IsJob, Range
  <2> QED
    BY <2>1 DEF ObInv, Tables, ObTypeOK
<1> QED
  BY <1>1, ObInvHolds, PTL

\* Nothing is handed to the provider without a committed row, for any number of
\* requests and recipients: the checkpoints of create, refresh and reject_quote
\* come before the sends, and no row is sent twice.
THEOREM EvidenceBeforeWireHolds == Spec => []EvidenceBeforeWire
<1>1. ObInv => EvidenceBeforeWire
  <2> SUFFICES ASSUME ObInv, NEW p \in Purposes, NEW c \in Cps
               PROVE  wire[<<p, c>>] <= Cardinality(RowsOf(p, c))
    BY DEF EvidenceBeforeWire
  <2>1. wire[<<p, c>>] \in Nat /\ rows \in Seq(Row)
    BY DEF ObInv, Tables
  <2>2. Cardinality(OwedOf(p, c)) \in Nat /\ Cardinality(RowsOf(p, c)) \in Nat
    BY <2>1, RowsFinite
  <2>3. wire[<<p, c>>] + Cardinality(OwedOf(p, c)) <= Cardinality(RowsOf(p, c))
    BY DEF ObInv, Counts
  <2> QED
    BY <2>1, <2>2, <2>3
<1> QED
  BY <1>1, ObInvHolds, PTL

\* The statuses written on the rows and on the RFQ are true: `sent' rows were
\* accepted, an open RFQ had an invitation accepted, and `failed' has a cause, with
\* either provider.
THEOREM RecordsAreTrueHolds == Spec => []RecordsAreTrue
<1>1. ObInv => RecordsAreTrue
  <2> SUFFICES ASSUME ObInv PROVE RecordsAreTrue
    OBVIOUS
  <2>1. ASSUME NEW p \in Purposes, NEW c \in Cps
        PROVE  Cardinality({i \in RowsOf(p, c) : rows[i].status = "sent"}) <= wire[<<p, c>>]
    <3> DEFINE T == {i \in RowsOf(p, c) : rows[i].status = "sent"}
    <3>1. wire[<<p, c>>] \in Nat /\ rows \in Seq(Row)
      BY DEF ObInv, Tables
    <3>2. T \in SUBSET SentOf(p, c)
      BY DEF SentOf, SaysSent
    <3>3. IsFiniteSet(SentOf(p, c)) /\ Cardinality(SentOf(p, c)) \in Nat
      BY <3>1, RowsFinite
    <3> HIDE DEF T
    <3>4. Cardinality(T) <= Cardinality(SentOf(p, c)) /\ Cardinality(T) \in Nat
      BY <3>2, <3>3, FS_Subset, FS_CardinalityType
    <3>5. Cardinality(SentOf(p, c)) <= wire[<<p, c>>]
      BY DEF ObInv, Counts
    <3>6. Cardinality(T) <= wire[<<p, c>>]
      BY <3>1, <3>3, <3>4, <3>5
    <3> QED
      BY <3>6 DEF T
  <2>2. Open => \E c \in Cps : wire[<<"rfq_invite", c>>] > 0
    BY DEF ObInv, Phases
  <2>3. \A i \in DOMAIN rows : rows[i].status = "failed" => Excused(i)
    BY DEF ObInv, Excuses
  <2> QED
    BY <2>1, <2>2, <2>3 DEF RecordsAreTrue, Excused, WrongNumber
<1> QED
  BY <1>1, ObInvHolds, PTL
=============================================================================
