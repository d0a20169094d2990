-------------------------- MODULE Compliance_proofs -------------------------
(***************************************************************************)
(* Proofs about Compliance for any partners, any number of overlapping     *)
(* requests and any bounds.                                                *)
(*                                                                         *)
(* A request that loaded without a lock carries columns it will write over *)
(* whatever the row has become.  So each invariant about rows needs a twin *)
(* about the columns in flight: PendingSound.                              *)
(***************************************************************************)
EXTENDS Compliance, TLAPS

Fields == {"kind", "identity", "kyc", "sanctions", "lei", "credit", "ordered", "deleted"}

LeiStatus == {"not_provided", "issued", "lapsed", "invalid", "error"}

Results == SanctionsStatus \ {"unscreened"}

Evidence == [kind: {"screening", "adjudication"}, identity: Nat, result: Results]

Operations == {"idle", "edit", "delete", "credit", "lei", "screen", "order"}

\* The values a column may have.
RowTyped(x) ==
  /\ x.kind \in {"commercial", "hedge"} /\ x.identity \in Nat
  /\ x.kyc \in KycStatus /\ x.sanctions \in SanctionsStatus /\ x.lei \in LeiStatus
  /\ x.credit \in BOOLEAN /\ x.ordered \in BOOLEAN /\ x.deleted \in BOOLEAN

TypeOK ==
  /\ row = [p \in Partners |-> row[p]]
  /\ \A p \in Partners : row[p] = [f \in Fields |-> row[p][f]] /\ RowTyped(row[p])
  /\ log \in [Partners -> Seq(Evidence)]
  /\ req = [r \in Requests |-> req[r]]
  /\ \A r \in Requests : req[r].pc \in Operations

Cleared(p) == \E i \in DOMAIN log[p] : log[p][i].result = "clear"

\* What a session may be about to write to partner p: no kind, no approval, no
\* sanctions status but unscreened, and no trust in a partner never cleared.
ColumnsSound(c, p) ==
  /\ DOMAIN c \subseteq Fields \ {"kind"}
  /\ "identity" \in DOMAIN c => c.identity \in Nat
  /\ "kyc" \in DOMAIN c => c.kyc \in KycStatus \ {"approved"}
  /\ "sanctions" \in DOMAIN c => c.sanctions = "unscreened"
  /\ "lei" \in DOMAIN c => c.lei \in LeiStatus
  /\ "credit" \in DOMAIN c => c.credit \in BOOLEAN /\ Cleared(p)
  /\ "ordered" \in DOMAIN c => c.ordered \in BOOLEAN /\ Cleared(p)
  /\ "deleted" \in DOMAIN c => c.deleted \in BOOLEAN

PendingSound ==
  \A r \in Requests :
    req[r].pc # "idle" => req[r].of \in Partners /\ ColumnsSound(req[r].columns, req[r].of)

IInv ==
  /\ TypeOK
  /\ PendingSound
  /\ StatusHasEvidence
  /\ OneAnswerPerHit
  /\ TrustRestsOnClearance

-----------------------------------------------------------------------------
(* A new row of the log hides none before it. *)
LEMMA AppendKeeps ==
  ASSUME NEW S, NEW s \in Seq(S), NEW e \in S
  PROVE  /\ Append(s, e) \in Seq(S)
         /\ Append(s, e) # << >>
         /\ Len(Append(s, e)) = Len(s) + 1
         /\ Append(s, e)[Len(s) + 1] = e
         /\ DOMAIN Append(s, e) = 1..(Len(s) + 1)
         /\ DOMAIN s = 1..Len(s)
         /\ \A i \in DOMAIN s : i \in DOMAIN Append(s, e) /\ Append(s, e)[i] = s[i]
  OBVIOUS

(* A load changes one request, and is sound when its columns are. *)
LEMMA LoadStep ==
  ASSUME IInv, NEW r \in Requests, NEW p \in Partners,
         NEW op \in Operations, NEW c, ColumnsSound(c, p), Load(r, op, p, c)
  PROVE  IInv'
<1>1. /\ row' = row /\ log' = log
      /\ req' = [req EXCEPT ![r] = Loaded(op, p, c)]
  BY DEF Load
<1>2. req'[r].pc = op /\ req'[r].of = p /\ req'[r].columns = c
  BY <1>1 DEF IInv, TypeOK, Loaded
<1>3. \A q \in Requests \ {r} : req'[q] = req[q]
  BY <1>1 DEF IInv, TypeOK
<1>4. TypeOK'
  <2>1. req' = [q \in Requests |-> req'[q]]
    BY <1>1 DEF IInv, TypeOK
  <2>2. \A q \in Requests : req'[q].pc \in Operations
    BY <1>2, <1>3 DEF IInv, TypeOK
  <2> QED
    BY <1>1, <2>1, <2>2 DEF IInv, TypeOK
<1>5. PendingSound'
  BY <1>1, <1>2, <1>3 DEF IInv, PendingSound, ColumnsSound, Cleared
<1> QED
  BY <1>1, <1>4, <1>5
     DEF IInv, StatusHasEvidence, OneAnswerPerHit, TrustRestsOnClearance, Last

(* A commit writes the columns of its request over the row, as it is now. *)
LEMMA StoreStep ==
  ASSUME IInv, NEW r \in Requests, NEW op \in Operations \ {"idle"}, Store(r, op)
  PROVE  IInv'
<1> DEFINE p == req[r].of
           c == req[r].columns
<1>1. p \in Partners /\ ColumnsSound(c, p)
  BY DEF IInv, PendingSound, Store
<1>2. /\ log' = log
      /\ req' = [req EXCEPT ![r] = Idle]
      /\ row' = [row EXCEPT ![p] = [f \in DOMAIN row[p] |-> IF f \in DOMAIN c THEN c[f] ELSE row[p][f]]]
  BY DEF Store
<1> HIDE DEF p, c
<1>3. /\ row' = [q \in Partners |-> row'[q]]
      /\ \A q \in Partners \ {p} : row'[q] = row[q]
      /\ row'[p] = [f \in Fields |-> IF f \in DOMAIN c THEN c[f] ELSE row[p][f]]
  BY <1>1, <1>2 DEF IInv, TypeOK
<1>4. \A f \in Fields : row'[p][f] = IF f \in DOMAIN c THEN c[f] ELSE row[p][f]
  BY <1>3
<1>5. /\ req' = [q \in Requests |-> req'[q]]
      /\ req'[r].pc = "idle"
      /\ \A q \in Requests \ {r} : req'[q] = req[q]
  BY <1>2 DEF IInv, TypeOK, Idle
<1>6. RowTyped(row'[p])
  <2>1. RowTyped(row[p])
    BY <1>1 DEF IInv, TypeOK
  <2> QED
    BY <1>1, <1>4, <2>1 DEF RowTyped, ColumnsSound, Fields, SanctionsStatus
<1>7. TypeOK'
  <2>1. \A q \in Partners : row'[q] = [f \in Fields |-> row'[q][f]] /\ RowTyped(row'[q])
    <3> SUFFICES ASSUME NEW q \in Partners
                 PROVE  row'[q] = [f \in Fields |-> row'[q][f]] /\ RowTyped(row'[q])
      OBVIOUS
    <3>1. CASE q = p
      BY <1>3, <1>4, <1>6, <3>1
    <3>2. CASE q # p
      <4>1. row'[q] = row[q]
        BY <1>3, <3>2
      <4>2. row[q] = [f \in Fields |-> row[q][f]] /\ RowTyped(row[q])
        BY DEF IInv, TypeOK
      <4> QED
        BY <4>1, <4>2
    <3> QED
      BY <3>1, <3>2
  <2>2. \A q \in Requests : req'[q].pc \in Operations
    BY <1>5 DEF IInv, TypeOK, Operations
  <2>3. log' \in [Partners -> Seq(Evidence)]
    BY <1>2 DEF IInv, TypeOK
  <2> QED
    BY <1>3, <1>5, <2>1, <2>2, <2>3 DEF TypeOK, RowTyped
<1>8. PendingSound'
  BY <1>2, <1>5 DEF IInv, PendingSound, ColumnsSound, Cleared
<1>9. StatusHasEvidence'
  <2>1. row'[p].sanctions \in {"unscreened", row[p].sanctions}
    BY <1>1, <1>4 DEF ColumnsSound, Fields
  <2> QED
    BY <1>2, <1>3, <2>1 DEF IInv, StatusHasEvidence, Last
<1>10. OneAnswerPerHit'
  BY <1>2 DEF IInv, OneAnswerPerHit
<1>11. TrustRestsOnClearance'
  <2>1. row'[p].kind = row[p].kind
    BY <1>1, <1>4 DEF ColumnsSound, Fields
  <2>2. row'[p].kyc = "approved" => row[p].kyc = "approved"
    BY <1>1, <1>4 DEF ColumnsSound, Fields
  <2>3. row'[p].credit => row[p].credit \/ Cleared(p)
    BY <1>1, <1>4 DEF ColumnsSound, Fields
  <2>4. row'[p].ordered => row[p].ordered \/ Cleared(p)
    BY <1>1, <1>4 DEF ColumnsSound, Fields
  <2>5. ASSUME NEW q \in Partners, row'[q].kind = "commercial",
               row'[q].kyc = "approved" \/ row'[q].credit \/ row'[q].ordered
        PROVE  Cleared(q)
    BY <1>3, <2>1, <2>2, <2>3, <2>4, <2>5 DEF IInv, TrustRestsOnClearance, Cleared
  <2> QED
    BY <1>2, <2>5 DEF TrustRestsOnClearance, Cleared
<1> QED
  BY <1>7, <1>8, <1>9, <1>10, <1>11 DEF IInv

(* A step that writes evidence appends it and sets the status to it; what   *)
(* it answers, if it answers, is the hit before it.                         *)
LEMMA EvidenceStep ==
  ASSUME IInv, NEW p \in Partners, NEW kind \in {"screening", "adjudication"},
         NEW result \in Results,
         kind = "adjudication" => Answerable(p),
         log' = [log EXCEPT ![p] = Append(@, Entry(kind, p, result))],
         row' = [row EXCEPT ![p].sanctions = result],
         req' = [q \in Requests |-> req'[q]],
         \A q \in Requests : req'[q] \in {req[q], Idle}
  PROVE  IInv'
<1> DEFINE e == Entry(kind, p, result)
<1>1. e \in Evidence /\ e.kind = kind /\ e.result = result
  BY DEF IInv, TypeOK, RowTyped, Entry, Evidence
<1> HIDE DEF e
<1>2. /\ log \in [Partners -> Seq(Evidence)]
      /\ log[p] \in Seq(Evidence)
  BY DEF IInv, TypeOK
<1>3. /\ log'[p] = Append(log[p], e)
      /\ \A q \in Partners \ {p} : log'[q] = log[q]
  BY <1>2 DEF e
<1>4. /\ log'[p] \in Seq(Evidence) /\ log'[p] # << >>
      /\ Len(log'[p]) = Len(log[p]) + 1
      /\ log'[p][Len(log[p]) + 1] = e
      /\ DOMAIN log'[p] = 1..(Len(log[p]) + 1)
      /\ DOMAIN log[p] = 1..Len(log[p])
      /\ Len(log[p]) \in Nat
      /\ \A i \in DOMAIN log[p] : i \in DOMAIN log'[p] /\ log'[p][i] = log[p][i]
  BY <1>1, <1>2, <1>3, AppendKeeps
<1>5. /\ row' = [q \in Partners |-> row'[q]]
      /\ \A q \in Partners \ {p} : row'[q] = row[q]
      /\ row'[p] = [row[p] EXCEPT !.sanctions = result]
  BY DEF IInv, TypeOK
<1>6. /\ row'[p] = [f \in Fields |-> row'[p][f]]
      /\ row'[p].sanctions = result
      /\ \A f \in Fields \ {"sanctions"} : row'[p][f] = row[p][f]
  <2>1. row[p] = [f \in Fields |-> row[p][f]]
    BY DEF IInv, TypeOK
  <2>2. row'[p] = [f \in Fields |-> IF f = "sanctions" THEN result ELSE row[p][f]]
    BY <1>5, <2>1 DEF Fields
  <2> QED
    BY <2>2 DEF Fields
<1>7. TypeOK'
  <2>1. RowTyped(row'[p])
    <3>1. RowTyped(row[p])
      BY DEF IInv, TypeOK
    <3> QED
      BY <1>6, <3>1 DEF RowTyped, Fields, Results
  <2>2. \A q \in Partners : row'[q] = [f \in Fields |-> row'[q][f]] /\ RowTyped(row'[q])
    <3> SUFFICES ASSUME NEW q \in Partners
                 PROVE  row'[q] = [f \in Fields |-> row'[q][f]] /\ RowTyped(row'[q])
      OBVIOUS
    <3>1. CASE q = p
      BY <1>6, <2>1, <3>1
    <3>2. CASE q # p
      <4>1. row'[q] = row[q]
        BY <1>5, <3>2
      <4>2. row[q] = [f \in Fields |-> row[q][f]] /\ RowTyped(row[q])
        BY DEF IInv, TypeOK
      <4> QED
        BY <4>1, <4>2
    <3> QED
      BY <3>1, <3>2
  <2>3. log' \in [Partners -> Seq(Evidence)]
    BY <1>2, <1>3, <1>4
  <2>4. \A q \in Requests : req'[q].pc \in Operations
    BY DEF IInv, TypeOK, Operations, Idle
  <2> QED
    BY <1>5, <2>2, <2>3, <2>4 DEF TypeOK, RowTyped
<1>8. \A q \in Partners : Cleared(q) => Cleared(q)'
  BY <1>3, <1>4 DEF Cleared
<1>9. PendingSound'
  <2>1. \A q \in Requests : req'[q].pc # "idle" => req'[q] = req[q]
    BY DEF Idle
  <2> QED
    BY <1>8, <2>1 DEF IInv, PendingSound, ColumnsSound
<1>10. StatusHasEvidence'
  BY <1>1, <1>3, <1>4, <1>5, <1>6 DEF IInv, StatusHasEvidence, Last
<1>11. OneAnswerPerHit'
  <2> SUFFICES ASSUME NEW i \in DOMAIN log'[p], log'[p][i].kind = "adjudication"
               PROVE  i > 1 /\ log'[p][i - 1].kind = "screening" /\ log'[p][i - 1].result = "flagged"
    BY <1>3 DEF IInv, OneAnswerPerHit
  <2>1. CASE i \in DOMAIN log[p]
    <3>1. i > 1 /\ log[p][i - 1].kind = "screening" /\ log[p][i - 1].result = "flagged"
      BY <1>4, <2>1 DEF IInv, OneAnswerPerHit
    <3>2. i - 1 \in DOMAIN log[p]
      BY <1>4, <2>1, <3>1
    <3> QED
      BY <1>4, <3>1, <3>2
  <2>2. CASE i = Len(log[p]) + 1
    <3>1. Answerable(p)
      BY <1>1, <1>4, <2>2
    <3>2. Len(log[p]) \in DOMAIN log[p]
      BY <1>2, <3>1 DEF Answerable
    <3>3. log'[p][i - 1] = log[p][Len(log[p])]
      BY <1>4, <2>2, <3>2
    <3> QED
      BY <1>4, <2>2, <3>1, <3>2, <3>3 DEF Answerable
  <2> QED
    BY <1>4, <2>1, <2>2
<1>12. TrustRestsOnClearance'
  BY <1>5, <1>6, <1>8 DEF IInv, TrustRestsOnClearance, Cleared, Fields
<1> QED
  BY <1>7, <1>9, <1>10, <1>11, <1>12 DEF IInv

(* An edit resets evidence; it never approves and never restores a status. *)
LEMMA EditColumnsSound ==
  ASSUME IInv, NEW p \in Partners, NEW leiChanged \in BOOLEAN
  PROVE  ColumnsSound(EditColumns(row[p], leiChanged), p)
<1> DEFINE reset == [sanctions |-> "unscreened",
                     kyc |-> IF row[p].kyc = "approved" THEN "pending" ELSE row[p].kyc,
                     lei |-> IF leiChanged THEN "not_provided" ELSE row[p].lei]
           D == {"identity"} \cup {g \in DOMAIN reset : reset[g] # row[p][g]}
           c == [f \in D |-> IF f = "identity" THEN row[p].identity + 1 ELSE reset[f]]
<1>1. EditColumns(row[p], leiChanged) = c
  BY DEF EditColumns
<1>2. RowTyped(row[p])
  BY DEF IInv, TypeOK
<1>3. DOMAIN reset = {"sanctions", "kyc", "lei"}
  OBVIOUS
<1>4. /\ reset.sanctions = "unscreened"
      /\ reset.kyc \in KycStatus \ {"approved"}
      /\ reset.lei \in LeiStatus
  BY <1>2 DEF RowTyped, KycStatus, LeiStatus
<1> HIDE DEF reset
<1>5. DOMAIN c = D /\ D \subseteq {"identity", "sanctions", "kyc", "lei"}
  BY <1>3
<1>6. \A f \in D : c[f] = IF f = "identity" THEN row[p].identity + 1 ELSE reset[f]
  OBVIOUS
<1>7. row[p].identity + 1 \in Nat
  BY <1>2 DEF RowTyped
<1> HIDE DEF D, c
<1> QED
  BY <1>1, <1>4, <1>5, <1>6, <1>7 DEF ColumnsSound, Fields

(* SetKycStatus changes one column of one row. *)
LEMMA KycStep ==
  ASSUME IInv, NEW p \in Partners, NEW new \in KycStatus, SetKycStatus(p, new)
  PROVE  IInv'
<1>1. /\ log' = log /\ req' = req
      /\ row' = [row EXCEPT ![p] = [row[p] EXCEPT !.kyc = new]]
  BY DEF SetKycStatus
<1>2. /\ row' = [q \in Partners |-> row'[q]]
      /\ \A q \in Partners \ {p} : row'[q] = row[q]
      /\ row'[p] = [row[p] EXCEPT !.kyc = new]
  BY <1>1 DEF IInv, TypeOK
<1>3. /\ row'[p] = [f \in Fields |-> row'[p][f]]
      /\ row'[p].kyc = new
      /\ \A f \in Fields \ {"kyc"} : row'[p][f] = row[p][f]
  <2>1. row[p] = [f \in Fields |-> row[p][f]]
    BY DEF IInv, TypeOK
  <2>2. row'[p] = [f \in Fields |-> IF f = "kyc" THEN new ELSE row[p][f]]
    BY <1>2, <2>1 DEF Fields
  <2> QED
    BY <2>2 DEF Fields
<1>4. TypeOK'
  <2>1. RowTyped(row'[p])
    <3>1. RowTyped(row[p])
      BY DEF IInv, TypeOK
    <3> QED
      BY <1>3, <3>1 DEF RowTyped, Fields
  <2>2. \A q \in Partners : row'[q] = [f \in Fields |-> row'[q][f]] /\ RowTyped(row'[q])
    <3> SUFFICES ASSUME NEW q \in Partners
                 PROVE  row'[q] = [f \in Fields |-> row'[q][f]] /\ RowTyped(row'[q])
      OBVIOUS
    <3>1. CASE q = p
      BY <1>3, <2>1, <3>1
    <3>2. CASE q # p
      <4>1. row'[q] = row[q]
        BY <1>2, <3>2
      <4>2. row[q] = [f \in Fields |-> row[q][f]] /\ RowTyped(row[q])
        BY DEF IInv, TypeOK
      <4> QED
        BY <4>1, <4>2
    <3> QED
      BY <3>1, <3>2
  <2> QED
    BY <1>1, <1>2, <2>2 DEF IInv, TypeOK, RowTyped
<1>5. PendingSound'
  BY <1>1 DEF IInv, PendingSound, ColumnsSound, Cleared
<1>6. StatusHasEvidence'
  BY <1>1, <1>2, <1>3 DEF IInv, StatusHasEvidence, Last, Fields
<1>7. OneAnswerPerHit'
  BY <1>1 DEF IInv, OneAnswerPerHit
<1>8. TrustRestsOnClearance'
  <2>1. row[p].kind = "commercial" /\ new = "approved" => Cleared(p)
    <3> SUFFICES ASSUME row[p].sanctions = "clear" PROVE Cleared(p)
      BY DEF SetKycStatus
    <3>1. log[p] \in Seq(Evidence) /\ log[p] # << >> /\ Last(p).result = "clear"
      BY DEF IInv, TypeOK, StatusHasEvidence
    <3>2. Len(log[p]) \in DOMAIN log[p]
      BY <3>1
    <3> QED
      BY <3>1, <3>2 DEF Last, Cleared
  <2> QED
    BY <1>1, <1>2, <1>3, <2>1 DEF IInv, TrustRestsOnClearance, Cleared, Fields
<1> QED
  BY <1>4, <1>5, <1>6, <1>7, <1>8 DEF IInv

-----------------------------------------------------------------------------
\* No partner has been touched yet.
LEMMA InitInv == Init => IInv
<1> SUFFICES ASSUME Init PROVE IInv
  OBVIOUS
<1>1. PICK kind \in [Partners -> {"commercial", "hedge"}] : row = [p \in Partners |-> Created(kind[p])]
  BY DEF Init
<1>2. ASSUME NEW p \in Partners
      PROVE  /\ row[p] = [f \in Fields |-> row[p][f]] /\ RowTyped(row[p])
             /\ row[p].sanctions = "unscreened" /\ row[p].kyc = "pending"
             /\ ~row[p].credit /\ ~row[p].ordered
  <2>1. row[p] = Created(kind[p]) /\ kind[p] \in {"commercial", "hedge"}
    BY <1>1
  <2>2. DOMAIN row[p] = Fields /\ row[p] = [f \in DOMAIN row[p] |-> row[p][f]]
    BY <2>1 DEF Created, Fields
  <2>3. row[p] = [f \in Fields |-> row[p][f]]
    BY <2>2
  <2>4. /\ row[p].kind = kind[p] /\ row[p].identity = 1 /\ row[p].kyc = "pending"
        /\ row[p].sanctions = "unscreened" /\ row[p].lei = "not_provided"
        /\ row[p].credit = FALSE /\ row[p].ordered = FALSE /\ row[p].deleted = FALSE
    BY <2>1 DEF Created
  <2>5. /\ row[p].kind \in {"commercial", "hedge"} /\ row[p].identity \in Nat
        /\ row[p].kyc \in KycStatus /\ row[p].sanctions \in SanctionsStatus
        /\ row[p].lei \in LeiStatus
    BY <2>1, <2>4 DEF KycStatus, SanctionsStatus, LeiStatus
  <2>6. row[p].credit \in BOOLEAN /\ row[p].ordered \in BOOLEAN /\ row[p].deleted \in BOOLEAN
    BY <2>4, Zenon
  <2>7. RowTyped(row[p])
    BY <2>5, <2>6, Zenon DEF RowTyped
  <2> QED
    BY <2>3, <2>4, <2>7, Zenon
<1>3. row = [p \in Partners |-> row[p]] /\ req = [r \in Requests |-> req[r]]
  BY <1>1 DEF Init
<1>4. log \in [Partners -> Seq(Evidence)] /\ \A p \in Partners : log[p] = << >>
  BY DEF Init
<1>5. \A r \in Requests : req[r].pc = "idle"
  BY DEF Init, Idle
<1>6. TypeOK
  BY <1>2, <1>3, <1>4, <1>5 DEF TypeOK, Operations
<1>7. PendingSound /\ StatusHasEvidence /\ TrustRestsOnClearance
  BY <1>2, <1>5 DEF PendingSound, StatusHasEvidence, TrustRestsOnClearance
<1>8. OneAnswerPerHit
  BY <1>4 DEF OneAnswerPerHit
<1> QED
  BY <1>6, <1>7, <1>8 DEF IInv

\* One case per action.
LEMMA NextInv == IInv /\ [Next]_vars => IInv'
<1> SUFFICES ASSUME IInv, [Next]_vars PROVE IInv'
  OBVIOUS
<1> USE DEF Operations
<1>1. ASSUME NEW r \in Requests, NEW p \in Partners, EditLoad(r, p) PROVE IInv'
  <2>1. PICK leiChanged \in BOOLEAN : Load(r, "edit", p, EditColumns(row[p], leiChanged))
    BY <1>1 DEF EditLoad
  <2> QED
    BY <2>1, EditColumnsSound, LoadStep
<1>2. ASSUME NEW r \in Requests, NEW p \in Partners, DeleteLoad(r, p) PROVE IInv'
  <2>1. ColumnsSound([deleted |-> TRUE], p)
    BY DEF ColumnsSound, Fields
  <2> QED
    BY <1>2, <2>1, LoadStep DEF DeleteLoad
<1>3. ASSUME NEW r \in Requests, NEW p \in Partners, CreditLoad(r, p) PROVE IInv'
  <2>1. log[p] \in Seq(Evidence) /\ log[p] # << >> /\ Last(p).result = "clear"
    BY <1>3 DEF IInv, TypeOK, StatusHasEvidence, CreditLoad
  <2>2. Len(log[p]) \in DOMAIN log[p]
    BY <2>1
  <2>3. Cleared(p)
    BY <2>1, <2>2 DEF Cleared, Last
  <2>4. ColumnsSound([credit |-> TRUE], p)
    BY <2>3 DEF ColumnsSound, Fields
  <2> QED
    BY <1>3, <2>4, LoadStep DEF CreditLoad
<1>4. ASSUME NEW r \in Requests, NEW p \in Partners, ScreenLoad(r, p) PROVE IInv'
  <2>1. ColumnsSound(<< >>, p)
    BY DEF ColumnsSound
  <2> QED
    BY <1>4, <2>1, LoadStep DEF ScreenLoad
<1>5. ASSUME NEW r \in Requests, NEW p \in Partners, OrderLoad(r, p) PROVE IInv'
  <2>1. Cleared(p)
    BY <1>5 DEF IInv, TrustRestsOnClearance, OrderLoad, Admissible, Cleared
  <2>2. ColumnsSound([ordered |-> TRUE], p)
    BY <2>1 DEF ColumnsSound, Fields
  <2> QED
    BY <1>5, <2>2, LoadStep DEF OrderLoad
<1>6. ASSUME NEW r \in Requests, NEW p \in Partners, NEW found \in LeiFound, LeiLoad(r, p, found)
      PROVE  IInv'
  <2>1. ColumnsSound(<< >>, p)
    BY DEF ColumnsSound
  <2>2. ColumnsSound([lei |-> found], p)
    BY ComplianceConstants DEF ColumnsSound, Fields, LeiStatus
  <2> QED
    BY <1>6, <2>1, <2>2, LoadStep DEF LeiLoad
<1>7. ASSUME NEW r \in Requests,
             EditCommit(r) \/ DeleteCommit(r) \/ CreditCommit(r) \/ OrderCommit(r) \/ LeiCommit(r)
      PROVE  IInv'
  BY <1>7, StoreStep DEF EditCommit, DeleteCommit, CreditCommit, OrderCommit, LeiCommit
<1>8. ASSUME NEW r \in Requests, NEW result \in Results, ScreenResult(r, result) PROVE IInv'
  <2>1. req[r].of \in Partners
    BY <1>8 DEF IInv, PendingSound, ScreenResult
  <2>2. req' = [q \in Requests |-> req'[q]] /\ \A q \in Requests : req'[q] \in {req[q], Idle}
    BY <1>8 DEF IInv, TypeOK, ScreenResult
  <2>3. /\ log' = [log EXCEPT ![req[r].of] = Append(@, Entry("screening", req[r].of, result))]
        /\ row' = [row EXCEPT ![req[r].of].sanctions = result]
    BY <1>8 DEF ScreenResult
  <2> QED
    BY <2>1, <2>2, <2>3, EvidenceStep
<1>9. ASSUME NEW r \in Requests, ScreenError(r) PROVE IInv'
  <2>1. /\ row' = row /\ log' = log
        /\ req' = [q \in Requests |-> req'[q]] /\ \A q \in Requests : req'[q] \in {req[q], Idle}
    BY <1>9 DEF IInv, TypeOK, ScreenError
  <2>2. TypeOK' /\ PendingSound'
    BY <2>1 DEF IInv, TypeOK, PendingSound, ColumnsSound, Cleared, Idle
  <2> QED
    BY <2>1, <2>2 DEF IInv, StatusHasEvidence, OneAnswerPerHit, TrustRestsOnClearance, Last
<1>10. ASSUME NEW p \in Partners, NEW decision \in {"clear", "blocked"}, Adjudicate(p, decision)
       PROVE  IInv'
  <2>1. req' = [q \in Requests |-> req'[q]] /\ \A q \in Requests : req'[q] \in {req[q], Idle}
    BY <1>10 DEF IInv, TypeOK, Adjudicate
  <2>2. decision \in Results
    BY DEF Results, SanctionsStatus
  <2>3. /\ log' = [log EXCEPT ![p] = Append(@, Entry("adjudication", p, decision))]
        /\ row' = [row EXCEPT ![p].sanctions = decision]
        /\ Answerable(p)
    BY <1>10 DEF Adjudicate
  <2> QED
    BY <2>1, <2>2, <2>3, EvidenceStep
<1>11. CASE UNCHANGED vars
  BY <1>11 DEF vars, IInv, TypeOK, PendingSound, ColumnsSound, Cleared, StatusHasEvidence,
               OneAnswerPerHit, TrustRestsOnClearance, Last
<1> QED
  BY <1>1, <1>2, <1>3, <1>4, <1>5, <1>6, <1>7, <1>8, <1>9, <1>10, <1>11, KycStep DEF Next, Results

(* The columns of every row, the evidence and the requests stay well typed. *)
THEOREM TypeCorrect == Spec => []TypeOK
<1>1. IInv => TypeOK
  BY DEF IInv
<1> QED
  BY <1>1, InitInv, NextInv, PTL DEF Spec

(* For any number of requests that overlap in any way, a sanctions status   *)
(* other than unscreened is the result of the latest evidence on record     *)
(* (screen, adjudicate).                                                    *)
THEOREM StatusHasEvidenceHolds == Spec => []StatusHasEvidence
<1>1. IInv => StatusHasEvidence
  BY DEF IInv
<1> QED
  BY <1>1, InitInv, NextInv, PTL DEF Spec

(* For any number of risk managers, each adjudication in the log answers    *)
(* the flagged screening just before it (adjudicate).                       *)
THEOREM OneAnswerPerHitHolds == Spec => []OneAnswerPerHit
<1>1. IInv => OneAnswerPerHit
  BY DEF IInv
<1> QED
  BY <1>1, InitInv, NextInv, PTL DEF Spec

(* No commercial partner is approved, given credit or traded with before    *)
(* something cleared it, although the credit and order requests act on rows *)
(* they loaded without a lock (set_kyc_status, approve_credit,              *)
(* _assert_commercial_partner_admissible).                                  *)
THEOREM TrustRestsOnClearanceHolds == Spec => []TrustRestsOnClearance
<1>1. IInv => TrustRestsOnClearance
  BY DEF IInv
<1> QED
  BY <1>1, InitInv, NextInv, PTL DEF Spec
=============================================================================
