---------------------------- MODULE ApprovalGate ----------------------------
(***************************************************************************)
(* What the approval gate promises, without actors, sessions, locks,       *)
(* deadlines or an audit trail: a change takes effect at once when it is   *)
(* exempt; any other is parked, approved and then takes effect in one      *)
(* atomic step, once, exactly as it was parked.  WorkflowApproval, the     *)
(* service, and AwardApproval, the award that goes through it, implement   *)
(* it.                                                                     *)
(***************************************************************************)
CONSTANTS
  Requests,
  Effects,    \* what a change may bring about
  Exempt(_)   \* do these effects need no approval?

VARIABLES
  status,  \* of each request: none, pending, approved, consumed or closed
  asked,   \* the effects each request was parked with
  done     \* the effects brought about so far

Init ==
  /\ status = [r \in Requests |-> "none"]
  /\ asked = [r \in Requests |-> {}]
  /\ done = {}

\* A change with the effects X is parked as request r.
Park(r, X) ==
  /\ status[r] = "none"
  /\ X # {}
  /\ status' = [status EXCEPT ![r] = "pending"]
  /\ asked' = [asked EXCEPT ![r] = X]
  /\ UNCHANGED done

Approve(r) ==
  /\ status[r] = "pending"
  /\ status' = [status EXCEPT ![r] = "approved"]
  /\ UNCHANGED <<asked, done>>

\* Requests are refused, withdrawn or, several at a time, lapse.
Close(R) ==
  /\ \A r \in R : status[r] \in {"pending", "approved"}
  /\ status' = [r \in Requests |-> IF r \in R THEN "closed" ELSE status[r]]
  /\ UNCHANGED <<asked, done>>

\* An approved change takes effect.
Apply(r) ==
  /\ status[r] = "approved"
  /\ status' = [status EXCEPT ![r] = "consumed"]
  /\ done' = done \cup asked[r]
  /\ UNCHANGED asked

\* A change that needs no approval takes effect.
Pass(X) ==
  /\ Exempt(X)
  /\ done' = done \cup X
  /\ UNCHANGED <<status, asked>>

Next ==
  \/ \E r \in Requests, X \in SUBSET Effects : Park(r, X)
  \/ \E r \in Requests : Approve(r)
  \/ \E R \in SUBSET Requests : Close(R)
  \/ \E r \in Requests : Apply(r)
  \/ \E X \in SUBSET Effects : Pass(X)

Spec == Init /\ [][Next]_<<status, asked, done>>
=============================================================================
