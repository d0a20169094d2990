----------------------- MODULE WorkflowApproval_proofs ----------------------
(***************************************************************************)
(* Proofs about WorkflowApproval for any number of requests, actors,       *)
(* payloads, keys and concurrent units of work.                            *)
(***************************************************************************)
EXTENDS WorkflowApproval, TLAPS

USE DEF Terminal, Status

(* The unused row and the idle session are well typed. *)
LEMMA DefaultsTyped == NoRow \in Row /\ NoWork \in Work
  BY ApprovalConstants DEF NoRow, NoWork, Row, Work

(* Every step of every operation keeps the tables well typed. *)
LEMMA TypeStep == TypeOK /\ [Next]_vars => TypeOK'
<1> SUFFICES ASSUME TypeOK, [Next]_vars PROVE TypeOK'
  OBVIOUS
<1>1. ASSUME NEW s \in Sessions, NEW a \in Actors, NEW p \in Payloads,
             NEW k \in Keys \cup {NoKey}, Evaluate(s, a, p, k)
      PROVE  TypeOK'
  BY <1>1, DefaultsTyped DEF TypeOK, Evaluate, Work
<1>2. ASSUME NEW s \in Sessions, NEW r \in Requests, Insert(s, r) PROVE TypeOK'
  <2>1. work[s] \in Work
    BY <1>2 DEF TypeOK
  <2>2. now + Lifetime[TypeOf[work[s].payload]] \in Nat
    BY <1>2, <2>1, ApprovalConstants DEF TypeOK, Work
  <2>3. row' \in [Requests -> Row]
    BY <1>2, <2>1, <2>2 DEF TypeOK, Insert, Row, Work
  <2>4. audit' \in [Requests -> Seq(Status)]
    BY <1>2 DEF TypeOK, Insert
  <2> QED
    BY <1>2, <2>3, <2>4, DefaultsTyped DEF TypeOK, Insert
<1>3. ASSUME NEW r \in Requests, NEW a \in Actors, Grant(r, a) PROVE TypeOK'
  <2>1. row' \in [Requests -> Row]
    BY <1>3, ZenonT(40) DEF TypeOK, Grant, Row
  <2>2. audit' \in [Requests -> Seq(Status)]
    BY <1>3 DEF TypeOK, Grant
  <2> QED
    BY <1>3, <2>1, <2>2 DEF TypeOK, Grant
<1>4. ASSUME NEW r \in Requests, NEW a \in Actors, Reject(r, a) PROVE TypeOK'
  <2>1. row' \in [Requests -> Row]
    BY <1>4, ZenonT(40) DEF TypeOK, Reject, Row
  <2>2. audit' \in [Requests -> Seq(Status)]
    BY <1>4 DEF TypeOK, Reject
  <2> QED
    BY <1>4, <2>1, <2>2 DEF TypeOK, Reject
<1>5. ASSUME NEW r \in Requests, NEW a \in Actors, Supersede(r, a) PROVE TypeOK'
  <2>1. row' \in [Requests -> Row]
    BY <1>5, ZenonT(40) DEF TypeOK, Supersede, Transition, Row
  <2>2. audit' \in [Requests -> Seq(Status)]
    BY <1>5 DEF TypeOK, Supersede, Transition
  <2> QED
    BY <1>5, <2>1, <2>2 DEF TypeOK, Supersede
<1>6. ASSUME NEW s \in Sessions, NEW r \in Requests, NEW a \in Actors,
             NEW p \in Payloads, ConsumeLock(s, r, a, p)
      PROVE  TypeOK'
  BY <1>6, DefaultsTyped DEF TypeOK, ConsumeLock, Work
<1>7. ASSUME NEW s \in Sessions, NEW r \in Requests, ConsumeCommit(s, r) PROVE TypeOK'
  <2>1. row' \in [Requests -> Row]
    BY <1>7, ZenonT(40) DEF TypeOK, ConsumeCommit, Transition, Row
  <2>2. audit' \in [Requests -> Seq(Status)]
    BY <1>7 DEF TypeOK, ConsumeCommit, Transition
  <2>3. ran' \in [Requests -> [count : Nat, payloads : SUBSET Payloads]]
    BY <1>7 DEF TypeOK, ConsumeCommit, Work
  <2> QED
    BY <1>7, <2>1, <2>2, <2>3, DefaultsTyped DEF TypeOK, ConsumeCommit
<1>8. ASSUME NEW s \in Sessions, Abort(s) PROVE TypeOK'
  BY <1>8, DefaultsTyped DEF TypeOK, Abort
<1>9. CASE Sweep
  <2>1. row' \in [Requests -> Row]
    BY <1>9, ZenonT(40) DEF TypeOK, Sweep, Row
  <2>2. audit' \in [Requests -> Seq(Status)]
    BY <1>9 DEF TypeOK, Sweep
  <2> QED
    BY <1>9, <2>1, <2>2 DEF TypeOK, Sweep
<1>10. CASE Tick
  BY <1>10 DEF TypeOK, Tick
<1>11. CASE UNCHANGED vars
  BY <1>11 DEF TypeOK, vars
<1> QED
  BY <1>1, <1>2, <1>3, <1>4, <1>5, <1>6, <1>7, <1>8, <1>9, <1>10, <1>11 DEF Next

(* The tables of workflow_approval_service stay well typed. *)
THEOREM TypeCorrect == Spec => []TypeOK
<1>1. Init => TypeOK
  BY DefaultsTyped DEF Init, TypeOK
<1> QED
  BY <1>1, TypeStep, PTL DEF Spec

-----------------------------------------------------------------------------
(* Two people.  FourEyes is not inductive: that a mutation runs once, with *)
(* the payload on record, rests on what a unit of work in the executor     *)
(* holds.  Its row stays approved, with its payload, because every other   *)
(* operation waits for the row lock; and no two units hold one row.        *)

CoSigned(p, by, approver) ==
  \E a \in approver : a # by /\ Policy[TypeOf[p]] \cap Roles[a] # {}

Signed(r) ==
  row[r].status \in {"approved", "consumed"} =>
    CoSigned(row[r].payload, row[r].by, row[r].approver)

RanRight(r) ==
  ran[r] = IF row[r].status = "consumed"
           THEN [count |-> 1, payloads |-> {row[r].payload}]
           ELSE [count |-> 0, payloads |-> {}]

Executing(s, r) == work[s].pc = "executing" /\ r \in work[s].req

HeldApproved ==
  \A s \in Sessions, r \in Requests :
    Executing(s, r) => row[r].status = "approved" /\ work[s].payload = row[r].payload

OneHolder ==
  \A s, t \in Sessions, r \in Requests : Executing(s, r) /\ Executing(t, r) => s = t

Inv ==
  /\ TypeOK
  /\ \A r \in Requests : Signed(r)
  /\ \A r \in Requests : RanRight(r)
  /\ HeldApproved
  /\ OneHolder

(* Every step keeps the strengthened invariant. *)
LEMMA InvStep == Inv /\ [Next]_vars => Inv'
<1> SUFFICES ASSUME Inv, [Next]_vars PROVE Inv'
  OBVIOUS
<1>0. TypeOK /\ TypeOK'
  BY TypeStep DEF Inv
<1>a. NoWork.pc = "idle"
  BY DEF NoWork
<1>1. ASSUME NEW s \in Sessions, NEW a \in Actors, NEW p \in Payloads,
             NEW k \in Keys \cup {NoKey}, Evaluate(s, a, p, k)
      PROVE  Inv'
  <2>1. row' = row /\ ran' = ran
    BY <1>1 DEF Evaluate
  <2>2. \A t \in Sessions, r \in Requests : Executing(t, r)' =>
          Executing(t, r) /\ work'[t] = work[t]
    BY <1>1, <1>0, DefaultsTyped DEF TypeOK, Evaluate, Executing, Work
  <2> QED
    BY <1>0, <2>1, <2>2 DEF Inv, Signed, RanRight, HeldApproved, OneHolder
<1>2. ASSUME NEW s \in Sessions, NEW r \in Requests, Insert(s, r) PROVE Inv'
  <2>1. /\ row'[r].status = "pending" /\ row[r].status = "none"
        /\ \A q \in Requests : q # r => row'[q] = row[q]
        /\ ran' = ran
    BY <1>2, <1>0 DEF TypeOK, Insert
  <2>2. \A t \in Sessions, q \in Requests : Executing(t, q)' =>
          Executing(t, q) /\ work'[t] = work[t]
    BY <1>2, <1>0, <1>a DEF TypeOK, Insert, Executing
  <2>3. \A q \in Requests : Signed(q)' /\ RanRight(q)'
    BY <2>1 DEF Inv, Signed, RanRight
  <2>4. HeldApproved' /\ OneHolder'
    BY <2>1, <2>2 DEF Inv, HeldApproved, OneHolder
  <2> QED
    BY <1>0, <2>3, <2>4 DEF Inv
<1>3. ASSUME NEW r \in Requests, NEW a \in Actors, Grant(r, a) PROVE Inv'
  <2>1. /\ row'[r] = [row[r] EXCEPT !.status = "approved", !.approver = {a}]
        /\ \A q \in Requests : q # r => row'[q] = row[q]
        /\ ran' = ran /\ work' = work
    BY <1>3, <1>0 DEF TypeOK, Grant
  <2>2. /\ row'[r].status = "approved" /\ row'[r].approver = {a}
        /\ row'[r].by = row[r].by /\ row'[r].payload = row[r].payload
    BY <2>1, <1>0 DEF TypeOK, Row
  <2>3. CoSigned(row[r].payload, row[r].by, {a})
    BY <1>3 DEF Grant, CoSigner, CoSigned, Type
  <2>4. \A q \in Requests : Signed(q)'
    BY <2>1, <2>2, <2>3 DEF Inv, Signed
  <2>5. \A q \in Requests : RanRight(q)'
    BY <1>3, <2>1, <2>2 DEF Inv, RanRight, Grant, CoSigner
  <2>6. \A t \in Sessions : ~Executing(t, r)
    BY <1>3 DEF Grant, CoSigner, Locked, Executing
  <2>7. HeldApproved' /\ OneHolder'
    BY <2>1, <2>6 DEF Inv, HeldApproved, OneHolder, Executing
  <2> QED
    BY <1>0, <2>4, <2>5, <2>7 DEF Inv
<1>4. ASSUME NEW r \in Requests, NEW a \in Actors, Reject(r, a) PROVE Inv'
  <2>1. /\ row'[r].status = "rejected"
        /\ \A q \in Requests : q # r => row'[q] = row[q]
        /\ ran' = ran /\ work' = work
    BY <1>4, <1>0 DEF TypeOK, Reject, Row
  <2>2. \A q \in Requests : Signed(q)'
    BY <2>1 DEF Inv, Signed
  <2>3. \A q \in Requests : RanRight(q)'
    BY <1>4, <2>1 DEF Inv, RanRight, Reject, CoSigner
  <2>4. \A t \in Sessions : ~Executing(t, r)
    BY <1>4 DEF Reject, CoSigner, Locked, Executing
  <2>5. HeldApproved' /\ OneHolder'
    BY <2>1, <2>4 DEF Inv, HeldApproved, OneHolder, Executing
  <2> QED
    BY <1>0, <2>2, <2>3, <2>5 DEF Inv
<1>5. ASSUME NEW r \in Requests, NEW a \in Actors, Supersede(r, a) PROVE Inv'
  <2>1. /\ row'[r].status = "superseded"
        /\ \A q \in Requests : q # r => row'[q] = row[q]
        /\ ran' = ran /\ work' = work
    BY <1>5, <1>0 DEF TypeOK, Supersede, Transition, Row
  <2>2. \A q \in Requests : Signed(q)'
    BY <2>1 DEF Inv, Signed
  <2>3. \A q \in Requests : RanRight(q)'
    BY <1>5, <2>1 DEF Inv, RanRight, Supersede
  <2>4. \A t \in Sessions : ~Executing(t, r)
    BY <1>5 DEF Supersede, Locked, Executing
  <2>5. HeldApproved' /\ OneHolder'
    BY <2>1, <2>4 DEF Inv, HeldApproved, OneHolder, Executing
  <2> QED
    BY <1>0, <2>2, <2>3, <2>5 DEF Inv
<1>6. ASSUME NEW s \in Sessions, NEW r \in Requests, NEW a \in Actors,
             NEW p \in Payloads, ConsumeLock(s, r, a, p)
      PROVE  Inv'
  <2>1. row' = row /\ ran' = ran
    BY <1>6 DEF ConsumeLock
  <2>2. work'[s].req = {r} /\ work'[s].payload = p
    BY <1>6, <1>0, DefaultsTyped DEF TypeOK, ConsumeLock, Work
  <2>3. \A t \in Sessions : t # s => work'[t] = work[t]
    BY <1>6, <1>0 DEF TypeOK, ConsumeLock
  <2>4. \A t \in Sessions : ~Executing(t, r)
    BY <1>6 DEF ConsumeLock, Locked, Executing
  <2>5. row[r].status = "approved" /\ p = row[r].payload
    BY <1>6 DEF ConsumeLock
  <2>6. HeldApproved'
    BY <2>1, <2>2, <2>3, <2>5 DEF Inv, HeldApproved, Executing
  <2>7. OneHolder'
    BY <2>2, <2>3, <2>4 DEF Inv, OneHolder, Executing
  <2> QED
    BY <1>0, <2>1, <2>6, <2>7 DEF Inv, Signed, RanRight
<1>7. ASSUME NEW s \in Sessions, NEW r \in Requests, ConsumeCommit(s, r) PROVE Inv'
  <2>1. /\ row'[r] = [row[r] EXCEPT !.status = "consumed"]
        /\ \A q \in Requests : q # r => row'[q] = row[q] /\ ran'[q] = ran[q]
        /\ ran'[r] = [count |-> ran[r].count + 1,
                      payloads |-> ran[r].payloads \cup {work[s].payload}]
        /\ work'[s] = NoWork
        /\ \A t \in Sessions : t # s => work'[t] = work[t]
    BY <1>7, <1>0 DEF TypeOK, ConsumeCommit, Transition
  <2>2. /\ row'[r].status = "consumed" /\ row'[r].approver = row[r].approver
        /\ row'[r].by = row[r].by /\ row'[r].payload = row[r].payload
    BY <2>1, <1>0 DEF TypeOK, Row
  <2>3. Executing(s, r)
    BY <1>7 DEF ConsumeCommit, Executing
  <2>4. row[r].status = "approved" /\ work[s].payload = row[r].payload
    BY <2>3 DEF Inv, HeldApproved
  <2>5. \A q \in Requests : Signed(q)'
    BY <2>1, <2>2, <2>4 DEF Inv, Signed
  <2>6. ran[r] = [count |-> 0, payloads |-> {}]
    BY <2>4 DEF Inv, RanRight
  <2>7. ran'[r] = [count |-> 1, payloads |-> {row[r].payload}]
    BY <2>1, <2>4, <2>6
  <2>8. \A q \in Requests : RanRight(q)'
    BY <2>1, <2>2, <2>7, ZenonT(40) DEF Inv, RanRight
  <2>9. HeldApproved' /\ OneHolder'
    BY <1>a, <2>1, <2>3 DEF Inv, HeldApproved, OneHolder, Executing
  <2> QED
    BY <1>0, <2>5, <2>8, <2>9 DEF Inv
<1>8. ASSUME NEW s \in Sessions, Abort(s) PROVE Inv'
  <2>1. row' = row /\ ran' = ran
    BY <1>8 DEF Abort
  <2>2. \A t \in Sessions, r \in Requests : Executing(t, r)' =>
          Executing(t, r) /\ work'[t] = work[t]
    BY <1>8, <1>0, <1>a DEF TypeOK, Abort, Executing
  <2> QED
    BY <1>0, <2>1, <2>2 DEF Inv, Signed, RanRight, HeldApproved, OneHolder
<1>9. CASE Sweep
  <2>1. ASSUME NEW q \in Requests PROVE Signed(q)'
    <3>1. row'[q] = row[q] \/ row'[q].status = "expired"
      BY <1>9, <1>0 DEF TypeOK, Sweep, Row
    <3> QED
      BY <3>1 DEF Inv, Signed
  <2>2. ASSUME NEW q \in Requests PROVE RanRight(q)'
    BY <1>9, <1>0, <2>2 DEF Inv, TypeOK, RanRight, Sweep, Sweepable, Row
  <2>3. HeldApproved'
    BY <1>9, <1>0 DEF Inv, TypeOK, HeldApproved, Executing, Locked, Sweep, Row
  <2>4. OneHolder'
    BY <1>9 DEF Inv, OneHolder, Executing, Sweep
  <2> QED
    BY <1>0, <2>1, <2>2, <2>3, <2>4 DEF Inv
<1>10. CASE Tick \/ UNCHANGED vars
  BY <1>10, <1>0 DEF Inv, Signed, RanRight, HeldApproved, OneHolder, Executing, Tick, vars
<1> QED
  BY <1>1, <1>2, <1>3, <1>4, <1>5, <1>6, <1>7, <1>8, <1>9, <1>10 DEF Next

(* Hence the strengthened invariant holds in every reachable state. *)
LEMMA Invariance == Spec => []Inv
<1>1. Init => Inv
  <2>1. Init => TypeOK
    BY DefaultsTyped DEF Init, TypeOK
  <2>2. Init => \A r \in Requests : Signed(r) /\ RanRight(r)
    <3>1. NoRow.status = "none"
      BY DEF NoRow
    <3> QED
      BY <3>1 DEF Init, Signed, RanRight
  <2>3. Init => HeldApproved /\ OneHolder
    BY DEF Init, HeldApproved, OneHolder, Executing, NoWork
  <2> QED
    BY <2>1, <2>2, <2>3 DEF Inv
<1> QED
  BY <1>1, InvStep, PTL DEF Spec

(* No mutation is applied that two people did not agree on: it ran only    *)
(* for a consumed request, once, with the payload on record, and a second  *)
(* person with a required role granted it.                                 *)
THEOREM FourEyesHolds == Spec => []FourEyes
<1>1. Inv => FourEyes
  <2> SUFFICES ASSUME Inv, NEW r \in Requests
               PROVE  /\ row[r].status \in {"approved", "consumed"} =>
                           \E a \in row[r].approver :
                              /\ a # row[r].by
                              /\ Policy[Type(r)] \cap Roles[a] # {}
                      /\ row[r].status = "consumed" =>
                           ran[r] = [count |-> 1, payloads |-> {row[r].payload}]
                      /\ row[r].status # "consumed" => ran[r].count = 0
    BY DEF FourEyes
  <2>1. Signed(r) /\ RanRight(r)
    BY DEF Inv
  <2> QED
    BY <2>1 DEF Signed, RanRight, CoSigned, Type
<1> QED
  BY <1>1, Invariance, PTL

-----------------------------------------------------------------------------
(* How one step moves the status of one row: the case analysis behind the  *)
(* remaining results.  Only an insertion writes who asked, for what, under *)
(* which key and until when.                                               *)
SameRequest(r) ==
  /\ row'[r].by = row[r].by
  /\ row'[r].payload = row[r].payload
  /\ row'[r].key = row[r].key
  /\ row'[r].expires = row[r].expires

(* A row is untouched, or makes a legal move with its audit event; its     *)
(* identity is fixed from the insertion on.                                *)
LEMMA RowStep ==
  ASSUME Inv, [Next]_vars, NEW q \in Requests
  PROVE  /\ \/ row'[q] = row[q] /\ audit'[q] = audit[q]
            \/ /\ <<row[q].status, row'[q].status>> \in LegalMoves
               /\ audit'[q] = Append(audit[q], row'[q].status)
         /\ \/ row'[q] = row[q]
            \/ SameRequest(q) /\ row[q].status # "none"
            \/ \E s \in Sessions : Insert(s, q)
<1>0. TypeOK
  BY DEF Inv
<1>1. ASSUME NEW s \in Sessions, NEW r \in Requests, Insert(s, r)
      PROVE  \/ row'[q] = row[q] /\ audit'[q] = audit[q]
             \/ /\ row[q].status = "none" /\ row'[q].status = "pending"
                /\ audit'[q] = Append(audit[q], "pending") /\ q = r
  BY <1>0, <1>1 DEF TypeOK, Insert
<1>2. ASSUME NEW r \in Requests, NEW a \in Actors, Grant(r, a)
      PROVE  \/ row'[q] = row[q] /\ audit'[q] = audit[q]
             \/ /\ row[q].status = "pending" /\ row'[q].status = "approved"
                /\ audit'[q] = Append(audit[q], "approved") /\ SameRequest(q)
  BY <1>0, <1>2 DEF TypeOK, Grant, CoSigner, Row, SameRequest
<1>3. ASSUME NEW r \in Requests, NEW a \in Actors, Reject(r, a)
      PROVE  \/ row'[q] = row[q] /\ audit'[q] = audit[q]
             \/ /\ row[q].status = "pending" /\ row'[q].status = "rejected"
                /\ audit'[q] = Append(audit[q], "rejected") /\ SameRequest(q)
  BY <1>0, <1>3 DEF TypeOK, Reject, CoSigner, Row, SameRequest
<1>4. ASSUME NEW r \in Requests, NEW a \in Actors, Supersede(r, a)
      PROVE  \/ row'[q] = row[q] /\ audit'[q] = audit[q]
             \/ /\ row[q].status \in {"pending", "approved"}
                /\ row'[q].status = "superseded"
                /\ audit'[q] = Append(audit[q], "superseded") /\ SameRequest(q)
  BY <1>0, <1>4 DEF TypeOK, Supersede, Transition, Row, SameRequest
<1>5. ASSUME NEW s \in Sessions, NEW r \in Requests, ConsumeCommit(s, r)
      PROVE  \/ row'[q] = row[q] /\ audit'[q] = audit[q]
             \/ /\ row[q].status = "approved" /\ row'[q].status = "consumed"
                /\ audit'[q] = Append(audit[q], "consumed") /\ SameRequest(q)
  <2>1. row[r].status = "approved"
    BY <1>5 DEF Inv, HeldApproved, Executing, ConsumeCommit
  <2> QED
    BY <1>0, <1>5, <2>1 DEF TypeOK, ConsumeCommit, Transition, Row, SameRequest
<1>6. ASSUME Sweep
      PROVE  \/ row'[q] = row[q] /\ audit'[q] = audit[q]
             \/ /\ row[q].status \in {"pending", "approved"}
                /\ row'[q].status = "expired"
                /\ audit'[q] = Append(audit[q], "expired") /\ SameRequest(q)
  BY <1>0, <1>6 DEF TypeOK, Sweep, Sweepable, Row, SameRequest
<1>7. ASSUME \/ \E s \in Sessions, a \in Actors, p \in Payloads, k \in Keys \cup {NoKey} :
                  Evaluate(s, a, p, k)
             \/ \E s \in Sessions, r \in Requests, a \in Actors, p \in Payloads :
                  ConsumeLock(s, r, a, p)
             \/ \E s \in Sessions : Abort(s)
             \/ Tick
             \/ UNCHANGED vars
      PROVE  row'[q] = row[q] /\ audit'[q] = audit[q]
  BY <1>7 DEF Evaluate, ConsumeLock, Abort, Tick, vars
<1> QED
  BY <1>1, <1>2, <1>3, <1>4, <1>5, <1>6, <1>7 DEF Next, LegalMoves, SameRequest

(* Under any interleaving a request makes only the status changes of the   *)
(* governance list; terminal rows never move.                              *)
THEOREM OnlyLegalMovesHolds == Spec => OnlyLegalMoves
<1>1. ASSUME Inv, [Next]_vars
      PROVE  [\A r \in Requests : row'[r].status # row[r].status
                => <<row[r].status, row'[r].status>> \in LegalMoves]_vars
  BY <1>1, RowStep
<1> QED
  BY <1>1, Invariance, PTL DEF Spec, OnlyLegalMoves

(* Every history in the audit trail is one that the governance list allows *)
(* and it ends in the status of the row.                                   *)
THEOREM AuditTellsHistoryHolds == Spec => []AuditTellsHistory
<1> DEFINE H(r) == <<"none">> \o audit[r]
           Good(h, st) == /\ h \in Seq(Status) /\ Len(h) > 0 /\ h[Len(h)] = st
                          /\ \A i \in 1..(Len(h) - 1) : <<h[i], h[i + 1]>> \in LegalMoves
           GoodRow(r) == Good(H(r), row[r].status)
           Trail == \A r \in Requests : GoodRow(r)
<1>1. Init => Trail
  <2> SUFFICES ASSUME Init, NEW r \in Requests PROVE Good(H(r), row[r].status)
    OBVIOUS
  <2>1. audit[r] = << >> /\ row[r].status = "none"
    BY DEF Init, NoRow
  <2>2. H(r) = <<"none">>
    BY <2>1
  <2> QED
    BY <2>1, <2>2
<1>2. ASSUME NEW h, NEW st \in Status, NEW to \in Status, Good(h, st),
             <<st, to>> \in LegalMoves
      PROVE  Good(Append(h, to), to)
  <2>1. /\ Append(h, to) \in Seq(Status) /\ Len(Append(h, to)) = Len(h) + 1
        /\ Append(h, to)[Len(h) + 1] = to
        /\ \A i \in 1..Len(h) : Append(h, to)[i] = h[i]
    BY <1>2
  <2>2. Len(h) \in Nat
    BY <1>2
  <2>3. ASSUME NEW i \in 1..Len(h)
        PROVE  <<Append(h, to)[i], Append(h, to)[i + 1]>> \in LegalMoves
    <3>1. CASE i = Len(h)
      BY <1>2, <2>1, <2>2, <3>1
    <3>2. CASE i # Len(h)
      <4>1. i \in 1..(Len(h) - 1) /\ i + 1 \in 1..Len(h)
        BY <2>2, <3>2
      <4> QED
        BY <1>2, <2>1, <4>1
    <3> QED
      BY <3>1, <3>2
  <2> QED
    BY <2>1, <2>2, <2>3
<1>3. ASSUME Inv, [Next]_vars, Trail PROVE Trail'
  <2> SUFFICES ASSUME NEW r \in Requests PROVE Good(H(r)', row'[r].status)
    OBVIOUS
  <2>1. Good(H(r), row[r].status)
    BY <1>3
  <2>2. audit[r] \in Seq(Status) /\ row[r].status \in Status /\ row'[r].status \in Status
    BY <1>3, TypeStep DEF Inv, TypeOK, Row
  <2>3. CASE row'[r] = row[r] /\ audit'[r] = audit[r]
    BY <2>1, <2>3
  <2>4. CASE /\ <<row[r].status, row'[r].status>> \in LegalMoves
             /\ audit'[r] = Append(audit[r], row'[r].status)
    <3>1. H(r)' = Append(H(r), row'[r].status)
      BY <2>2, <2>4
    <3> HIDE DEF Good, H
    <3>2. Good(Append(H(r), row'[r].status), row'[r].status)
      BY <1>2, <2>1, <2>2, <2>4
    <3> QED
      BY <3>1, <3>2
  <2> QED
    BY <1>3, <2>3, <2>4, RowStep
<1>4. Trail => AuditTellsHistory
  BY DEF AuditTellsHistory
<1> HIDE DEF Trail
<1> QED
  BY <1>1, <1>3, <1>4, Invariance, PTL DEF Spec

(* The unique index, not the lookup before it, keeps one requester from    *)
(* having two rows of one mutation type under one idempotency key.         *)
THEOREM OneRowPerKeyHolds == Spec => []OneRowPerKey
<1>1. Init => OneRowPerKey
  BY DEF Init, OneRowPerKey, NoRow
<1>2. ASSUME Inv, [Next]_vars, OneRowPerKey PROVE OneRowPerKey'
  <2>0. TypeOK /\ TypeOK'
    BY <1>2, TypeStep DEF Inv
  <2>1. CASE \E s \in Sessions, r \in Requests : Insert(s, r)
    <3> PICK s \in Sessions, r \in Requests : Insert(s, r)
      BY <2>1
    <3>1. \A q \in Requests : q # r => row'[q] = row[q]
      BY <2>0 DEF TypeOK, Insert
    <3>2. /\ row'[r].by = work[s].actor /\ row'[r].key = work[s].key
          /\ row'[r].payload = work[s].payload
      BY <2>0 DEF TypeOK, Insert
    <3>3. ASSUME NEW q \in Requests, q # r, row[q].status # "none", row[q].key # NoKey,
                 row[q].key = row'[r].key, row[q].by = row'[r].by
          PROVE  TypeOf[row[q].payload] # TypeOf[row'[r].payload]
      BY <3>2, <3>3 DEF Insert, KeyFree, SameKey, Type
    <3> QED
      BY <1>2, <3>1, <3>3 DEF OneRowPerKey, Type
  <2>2. CASE ~ \E s \in Sessions, r \in Requests : Insert(s, r)
    <3>1. ASSUME NEW q \in Requests
          PROVE  SameRequest(q) /\ (row'[q].status # "none" => row[q].status # "none")
      BY <1>2, <2>2, RowStep DEF SameRequest
    <3> QED
      BY <1>2, <3>1 DEF OneRowPerKey, Type, SameRequest
  <2> QED
    BY <2>1, <2>2
<1> QED
  BY <1>1, <1>2, Invariance, PTL DEF Spec

(* Past its deadline a request is neither decided nor picked up for        *)
(* execution, though the sweeper has not reached it.                       *)
THEOREM NothingDecidedLate == Spec => DeadlineHolds
<1> DEFINE Kept(r) == /\ row'[r].status \in {"approved", "rejected"} => row'[r] = row[r]
                      /\ ~Locked(r) => ~Locked(r)'
<1>1. ASSUME Inv, [Next]_vars, NEW q \in Requests, Expired(q) PROVE Kept(q)
  <2>0. TypeOK
    BY <1>1 DEF Inv
  <2>1. ASSUME NEW s \in Sessions, NEW a \in Actors, NEW p \in Payloads,
               NEW k \in Keys \cup {NoKey}, Evaluate(s, a, p, k)
        PROVE  Kept(q)
    <3>1. work'[s].pc = "inserting"
      BY <2>0, <2>1, DefaultsTyped DEF TypeOK, Evaluate, Work
    <3> QED
      BY <2>0, <2>1, <3>1 DEF TypeOK, Evaluate, Locked
  <2>2. ASSUME NEW s \in Sessions, NEW r \in Requests, Insert(s, r) PROVE Kept(q)
    BY <2>0, <2>2 DEF TypeOK, Insert, Locked, NoWork
  <2>3. ASSUME NEW r \in Requests, NEW a \in Actors, Grant(r, a) \/ Reject(r, a)
        PROVE  Kept(q)
    <3>1. q # r
      BY <1>1, <2>3 DEF Grant, Reject, CoSigner
    <3> QED
      BY <2>0, <2>3, <3>1 DEF TypeOK, Grant, Reject, Locked
  <2>4. ASSUME NEW r \in Requests, NEW a \in Actors, Supersede(r, a) PROVE Kept(q)
    BY <2>0, <2>4 DEF TypeOK, Row, Supersede, Transition, Locked
  <2>5. ASSUME NEW s \in Sessions, NEW r \in Requests, NEW a \in Actors,
               NEW p \in Payloads, ConsumeLock(s, r, a, p)
        PROVE  Kept(q)
    <3>1. q # r /\ row' = row
      BY <1>1, <2>5 DEF ConsumeLock
    <3>2. work'[s].req = {r} /\ \A t \in Sessions : t # s => work'[t] = work[t]
      BY <2>0, <2>5, DefaultsTyped DEF TypeOK, ConsumeLock, Work
    <3> QED
      BY <3>1, <3>2 DEF Locked
  <2>6. ASSUME NEW s \in Sessions, NEW r \in Requests, ConsumeCommit(s, r) PROVE Kept(q)
    BY <2>0, <2>6 DEF TypeOK, Row, ConsumeCommit, Transition, Locked, NoWork
  <2>7. ASSUME NEW s \in Sessions, Abort(s) PROVE Kept(q)
    BY <2>0, <2>7 DEF TypeOK, Abort, Locked, NoWork
  <2>8. CASE Sweep
    BY <2>0, <2>8 DEF TypeOK, Row, Sweep, Locked
  <2>9. CASE Tick \/ UNCHANGED vars
    BY <2>9 DEF Tick, vars, Locked
  <2> QED
    BY <1>1, <2>1, <2>2, <2>3, <2>4, <2>5, <2>6, <2>7, <2>8, <2>9 DEF Next
<1>2. ASSUME Inv, [Next]_vars
      PROVE  [\A r \in Requests : Expired(r) => Kept(r)]_vars
  BY <1>1, <1>2
<1> QED
  BY <1>2, Invariance, PTL DEF Spec, DeadlineHolds

-----------------------------------------------------------------------------
(* Refinement: the service implements the gate of module ApprovalGate.  An *)
(* effect is the n-th run of a payload for a request; rejected, expired    *)
(* and superseded requests are all closed.                                 *)
GateStatus ==
  [r \in Requests |-> IF row[r].status \in {"rejected", "expired", "superseded"}
                      THEN "closed" ELSE row[r].status]

GateAsked ==
  [r \in Requests |-> IF row[r].status = "none" THEN {} ELSE {<<r, 1, row[r].payload>>}]

GateDone ==
  {x \in Requests \X Nat \X Payloads :
     x[2] \in 1..ran[x[1]].count /\ x[3] \in ran[x[1]].payloads}

NothingExempt(X) == FALSE

Gate ==
  INSTANCE ApprovalGate WITH
    Effects <- Requests \X Nat \X Payloads, Exempt <- NothingExempt,
    status <- GateStatus, asked <- GateAsked, done <- GateDone

ImplementsGate == Gate!Spec

(* A step that the gate allows or does not see. *)
GateStep == [Gate!Next]_<<GateStatus, GateAsked, GateDone>>

(* When a payload ran exactly for the consumed rows, once, these runs are  *)
(* what has been done.                                                     *)
LEMMA RunsDone ==
  ASSUME NEW n, NEW w,
         \A r \in Requests :
           /\ w[r].status = "consumed" => n[r].count = 1 /\ n[r].payloads = {w[r].payload}
           /\ w[r].status # "consumed" => n[r].payloads = {}
  PROVE  {x \in Requests \X Nat \X Payloads :
            x[2] \in 1..n[x[1]].count /\ x[3] \in n[x[1]].payloads}
           = {x \in Requests \X Nat \X Payloads :
                w[x[1]].status = "consumed" /\ x[2] = 1 /\ x[3] = w[x[1]].payload}
<1>1. ASSUME NEW r \in Requests, NEW m \in Nat, NEW p \in Payloads
      PROVE  m \in 1..n[r].count /\ p \in n[r].payloads
               <=> w[r].status = "consumed" /\ m = 1 /\ p = w[r].payload
  OBVIOUS
<1> QED
  BY <1>1

(* A step that leaves every run and every row, up to what the gate does not *)
(* see of it, as they are.                                                  *)
LEMMA GateUnseen ==
  ASSUME UNCHANGED <<row, ran>>
  PROVE  GateStep
  BY DEF GateStep, GateStatus, GateAsked, GateDone

(* Every unit of work that commits is one step of the gate: an insertion    *)
(* parks, a grant approves, a rejection, a withdrawal and a sweep close,    *)
(* and the commit of a consumption applies what was parked.                 *)
LEMMA GateSteps ==
  ASSUME Inv, Inv', [Next]_vars
  PROVE  GateStep
<1>0. TypeOK /\ TypeOK'
  BY DEF Inv
<1>1. ASSUME NEW s \in Sessions, NEW r \in Requests, Insert(s, r) PROVE GateStep
  <2> DEFINE p == work[s].payload
             X == {<<r, 1, p>>}
  <2>1. /\ row[r].status = "none" /\ row'[r].status = "pending" /\ row'[r].payload = p
        /\ \A q \in Requests \ {r} : row'[q] = row[q]
        /\ ran' = ran /\ p \in Payloads
    BY <1>0, <1>1 DEF Insert, TypeOK, Work
  <2> HIDE DEF p
  <2>2. X \in SUBSET (Requests \X Nat \X Payloads) /\ X # {}
    BY <2>1
  <2>3. GateDone' = GateDone
    BY <2>1 DEF GateDone
  <2>4. GateStatus[r] = "none" /\ GateStatus'[r] = "pending" /\ GateAsked'[r] = X
    BY <1>0, <2>1 DEF GateStatus, GateAsked
  <2>5. \A q \in Requests \ {r} : GateStatus'[q] = GateStatus[q] /\ GateAsked'[q] = GateAsked[q]
    BY <2>1 DEF GateStatus, GateAsked
  <2>6. /\ GateStatus = [q \in Requests |-> GateStatus[q]]
        /\ GateAsked = [q \in Requests |-> GateAsked[q]]
        /\ GateStatus' = [q \in Requests |-> GateStatus'[q]]
        /\ GateAsked' = [q \in Requests |-> GateAsked'[q]]
    BY DEF GateStatus, GateAsked
  <2> HIDE DEF X
  <2>7. Gate!Park(r, X)
    BY <2>2, <2>3, <2>4, <2>5, <2>6 DEF Gate!Park
  <2> QED
    BY <2>2, <2>7 DEF GateStep, Gate!Next
<1>2. ASSUME NEW r \in Requests, NEW a \in Actors, Grant(r, a) PROVE GateStep
  <2>1. /\ row[r].status = "pending" /\ row'[r].status = "approved"
        /\ row'[r].payload = row[r].payload
        /\ \A q \in Requests \ {r} : row'[q] = row[q]
        /\ ran' = ran
    BY <1>0, <1>2 DEF Grant, CoSigner, TypeOK, Row
  <2>2. GateDone' = GateDone
    BY <2>1 DEF GateDone
  <2>3. GateStatus[r] = "pending" /\ GateStatus'[r] = "approved" /\ GateAsked'[r] = GateAsked[r]
    BY <2>1 DEF GateStatus, GateAsked
  <2>4. \A q \in Requests \ {r} : GateStatus'[q] = GateStatus[q] /\ GateAsked'[q] = GateAsked[q]
    BY <2>1 DEF GateStatus, GateAsked
  <2>5. /\ GateStatus = [q \in Requests |-> GateStatus[q]]
        /\ GateAsked = [q \in Requests |-> GateAsked[q]]
        /\ GateStatus' = [q \in Requests |-> GateStatus'[q]]
        /\ GateAsked' = [q \in Requests |-> GateAsked'[q]]
    BY DEF GateStatus, GateAsked
  <2>6. Gate!Approve(r)
    BY <2>2, <2>3, <2>4, <2>5 DEF Gate!Approve
  <2> QED
    BY <2>6 DEF GateStep, Gate!Next
<1>3. ASSUME NEW R \in SUBSET Requests, ran' = ran,
             \A q \in R : /\ row[q].status \in {"pending", "approved"}
                          /\ row'[q].status \in {"rejected", "expired", "superseded"}
                          /\ row'[q].payload = row[q].payload,
             \A q \in Requests \ R : row'[q] = row[q]
      PROVE  GateStep
  <2>1. GateDone' = GateDone
    BY <1>3 DEF GateDone
  <2>2. \A q \in R : /\ GateStatus[q] \in {"pending", "approved"} /\ GateStatus'[q] = "closed"
                     /\ GateAsked'[q] = GateAsked[q]
    BY <1>3 DEF GateStatus, GateAsked
  <2>3. \A q \in Requests \ R : GateStatus'[q] = GateStatus[q] /\ GateAsked'[q] = GateAsked[q]
    BY <1>3 DEF GateStatus, GateAsked
  <2>4. /\ GateAsked = [q \in Requests |-> GateAsked[q]]
        /\ GateStatus' = [q \in Requests |-> GateStatus'[q]]
        /\ GateAsked' = [q \in Requests |-> GateAsked'[q]]
    BY DEF GateStatus, GateAsked
  <2>5. Gate!Close(R)
    BY <2>1, <2>2, <2>3, <2>4 DEF Gate!Close
  <2> QED
    BY <2>5 DEF GateStep, Gate!Next
<1>4. ASSUME NEW r \in Requests, NEW a \in Actors, Reject(r, a) \/ Supersede(r, a) PROVE GateStep
  <2>1. /\ row[r].status \in {"pending", "approved"}
        /\ row'[r].status \in {"rejected", "superseded"}
        /\ row'[r].payload = row[r].payload
        /\ \A q \in Requests \ {r} : row'[q] = row[q]
        /\ ran' = ran
    <3>1. CASE Reject(r, a)
      BY <1>0, <3>1 DEF Reject, CoSigner, TypeOK, Row
    <3>2. CASE Supersede(r, a)
      BY <1>0, <3>2 DEF Supersede, Transition, TypeOK, Row
    <3> QED
      BY <1>4, <3>1, <3>2
  <2> DEFINE R == {r}
  <2>2. /\ R \in SUBSET Requests
        /\ \A q \in R : /\ row[q].status \in {"pending", "approved"}
                       /\ row'[q].status \in {"rejected", "expired", "superseded"}
                       /\ row'[q].payload = row[q].payload
        /\ \A q \in Requests \ R : row'[q] = row[q]
    BY <2>1
  <2> HIDE DEF R
  <2> QED
    BY <1>3, <2>1, <2>2
<1>5. ASSUME Sweep PROVE GateStep
  <2>1. /\ Sweepable \in SUBSET Requests /\ ran' = ran
        /\ \A q \in Sweepable : /\ row[q].status \in {"pending", "approved"}
                                /\ row'[q].status = "expired"
                                /\ row'[q].payload = row[q].payload
        /\ \A q \in Requests \ Sweepable : row'[q] = row[q]
    BY <1>0, <1>5 DEF Sweep, Sweepable, TypeOK, Row
  <2> QED
    BY <1>3, <2>1
<1>6. ASSUME NEW s \in Sessions, NEW r \in Requests, ConsumeCommit(s, r) PROVE GateStep
  <2>1. row[r].status = "approved"
    BY <1>6 DEF Inv, HeldApproved, Executing, ConsumeCommit
  <2>2. /\ row'[r].status = "consumed" /\ row'[r].payload = row[r].payload
        /\ \A q \in Requests \ {r} : row'[q] = row[q]
        /\ row[r].payload \in Payloads
    BY <1>0, <1>6 DEF ConsumeCommit, Transition, TypeOK, Row
  <2>3. GateDone' = GateDone \cup {<<r, 1, row[r].payload>>}
    <3> DEFINE RunOnce(n, w) == \A q \in Requests :
                 /\ w[q].status = "consumed" => n[q].count = 1 /\ n[q].payloads = {w[q].payload}
                 /\ w[q].status # "consumed" => n[q].payloads = {}
    <3>1. RunOnce(ran, row)
      <4> SUFFICES ASSUME NEW q \in Requests
                   PROVE  /\ row[q].status = "consumed" =>
                               ran[q].count = 1 /\ ran[q].payloads = {row[q].payload}
                          /\ row[q].status # "consumed" => ran[q].payloads = {}
        OBVIOUS
      <4>1. RanRight(q)
        BY DEF Inv
      <4> QED
        BY <4>1 DEF RanRight
    <3>2. RunOnce(ran', row')
      <4> SUFFICES ASSUME NEW q \in Requests
                   PROVE  /\ row'[q].status = "consumed" =>
                               ran'[q].count = 1 /\ ran'[q].payloads = {row'[q].payload}
                          /\ row'[q].status # "consumed" => ran'[q].payloads = {}
        OBVIOUS
      <4>1. RanRight(q)'
        BY DEF Inv
      <4> QED
        BY <4>1 DEF RanRight
    <3>3. GateDone = {x \in Requests \X Nat \X Payloads :
                        row[x[1]].status = "consumed" /\ x[2] = 1 /\ x[3] = row[x[1]].payload}
      BY <3>1, RunsDone DEF GateDone
    <3>4. GateDone' = {x \in Requests \X Nat \X Payloads :
                        row'[x[1]].status = "consumed" /\ x[2] = 1 /\ x[3] = row'[x[1]].payload}
      BY <3>2, RunsDone DEF GateDone
    <3>5. ASSUME NEW x \in Requests \X Nat \X Payloads
          PROVE  x \in GateDone' <=> x \in GateDone \/ x = <<r, 1, row[r].payload>>
      BY <2>1, <2>2, <3>3, <3>4
    <3>6. <<r, 1, row[r].payload>> \in Requests \X Nat \X Payloads
      BY <2>2
    <3> QED
      BY <3>3, <3>4, <3>5, <3>6
  <2>4. /\ GateStatus[r] = "approved" /\ GateStatus'[r] = "consumed"
        /\ GateAsked'[r] = GateAsked[r] /\ GateAsked[r] = {<<r, 1, row[r].payload>>}
    BY <2>1, <2>2 DEF GateStatus, GateAsked
  <2>5. \A q \in Requests \ {r} : GateStatus'[q] = GateStatus[q] /\ GateAsked'[q] = GateAsked[q]
    BY <2>2 DEF GateStatus, GateAsked
  <2>6. /\ GateStatus = [q \in Requests |-> GateStatus[q]]
        /\ GateAsked = [q \in Requests |-> GateAsked[q]]
        /\ GateStatus' = [q \in Requests |-> GateStatus'[q]]
        /\ GateAsked' = [q \in Requests |-> GateAsked'[q]]
    BY DEF GateStatus, GateAsked
  <2>7. Gate!Apply(r)
    BY <2>3, <2>4, <2>5, <2>6 DEF Gate!Apply
  <2> QED
    BY <2>7 DEF GateStep, Gate!Next
<1>7. ASSUME \/ \E s \in Sessions, a \in Actors, p \in Payloads, k \in Keys \cup {NoKey} :
                  Evaluate(s, a, p, k)
             \/ \E s \in Sessions, r \in Requests, a \in Actors, p \in Payloads :
                  ConsumeLock(s, r, a, p)
             \/ \E s \in Sessions : Abort(s)
             \/ Tick
             \/ UNCHANGED vars
      PROVE  GateStep
  <2>1. UNCHANGED <<row, ran>>
    BY <1>7 DEF Evaluate, ConsumeLock, Abort, Tick, vars
  <2> QED
    BY <2>1, GateUnseen
<1> QED
  BY <1>1, <1>2, <1>4, <1>5, <1>6, <1>7 DEF Next

(* The approval service with its overlapping units of work, its locks and   *)
(* its sweeper implements the atomic gate of module ApprovalGate.           *)
THEOREM ImplementsGateHolds == Spec => ImplementsGate
<1>1. Init => Gate!Init
  <2> SUFFICES ASSUME Init PROVE Gate!Init
    OBVIOUS
  <2>1. \A r \in Requests : row[r].status = "none" /\ ran[r].count = 0
    BY DEF Init, NoRow
  <2>2. GateStatus = [r \in Requests |-> "none"] /\ GateAsked = [r \in Requests |-> {}]
    BY <2>1 DEF GateStatus, GateAsked
  <2>3. GateDone = {}
    BY <2>1 DEF GateDone
  <2> QED
    BY <2>2, <2>3 DEF Gate!Init
<1>2. Inv /\ Inv' /\ [Next]_vars => [Gate!Next]_<<GateStatus, GateAsked, GateDone>>
  BY GateSteps DEF GateStep
<1> QED
  BY <1>1, <1>2, Invariance, PTL DEF Spec, ImplementsGate, Gate!Spec
=============================================================================
