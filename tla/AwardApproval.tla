---------------------------- MODULE AwardApproval ---------------------------
(***************************************************************************)
(* The award of an RFQ behind the approval gate: RfqSessions composed with *)
(* the award route (api/routes/rfqs.py, award_rfq) and with the deal_award *)
(* branch of consume (api/routes/workflow_approvals.py, _executor).        *)
(*                                                                         *)
(* The route values the current winners.  At or below the threshold it     *)
(* awards; above it, the winners are parked as the payload of an approval  *)
(* request and awarded when an approved request is consumed, after a drift *)
(* check against the ranking of that moment.  Either way RFQService.award  *)
(* ranks once more.  The life of a request is WorkflowApproval's; here it  *)
(* is requested, granted, consumed or closed, as in ApprovalGate, which    *)
(* both implement.                                                         *)
(***************************************************************************)
EXTENDS RfqSessions

CONSTANTS
  Threshold,    \* workflow_approval_deal_threshold_usd
  MaxApprovals  \* bound on approval requests

ASSUME AwardApprovalConstants == Threshold \in Nat /\ MaxApprovals \in Nat

VARIABLES
  approvals,  \* [id -> request], ids 1..n in order of creation
  hold        \* the approval row each session holds FOR UPDATE, as a set

allvars == <<vars, approvals, hold>>

Approval == [rfq : Rfqs, win : SUBSET Quote,
             status : {"pending", "approved", "consumed", "closed"}]

Ids == 1..MaxApprovals
NoApproval == [rfq |-> CHOOSE r \in Rfqs : TRUE, win |-> {}, status |-> "closed"]

(* Approval ids in use: a parked snapshot is never empty. *)
Used == {i \in Ids : approvals[i].win # {}}

AwardTypeOK ==
  /\ TypeOK
  /\ approvals \in [Ids -> Approval]
  /\ hold \in [Sessions -> SUBSET Ids]

AwardInit ==
  /\ Init
  /\ approvals = [i \in Ids |-> NoApproval]
  /\ hold = [s \in Sessions |-> {}]

-----------------------------------------------------------------------------
(* Sum of price times quantity over the winners, at quantity 1. *)
Notional(r, W) ==
  LET PriceOn(t) == (CHOOSE q \in W : q.rfq = t).price
  IN  IF r \in Spreads THEN PriceOn(BuyLeg[r]) + PriceOn(SellLeg[r]) ELSE PriceOn(r)

(* Mutation: the threshold is not looked at. *)
DirectAwardAnySize(s, r) == AwardLoad(s, r) /\ UNCHANGED <<approvals, hold>>

(* award_rfq at or below the threshold: straight on to RFQService.award. *)
DirectAward(s, r) ==
  /\ AwardLoad(s, r)
  /\ Notional(r, Winners(r)) <= Threshold
  /\ UNCHANGED <<approvals, hold>>

(* award_rfq above the threshold: 202, the winners are bound into the      *)
(* request and nothing is awarded.                                         *)
RequestApproval(s, r) ==
  /\ GetLive(s, r)
  /\ Winners(r) # {}
  /\ Notional(r, Winners(r)) > Threshold
  /\ \E i \in Ids \ Used :
       /\ \A j \in Ids : j < i => j \in Used
       /\ approvals' = [approvals EXCEPT ![i] =
            [rfq |-> r, win |-> Winners(r), status |-> "pending"]]
  /\ UNCHANGED <<vars, hold>>

Held(i) == \E s \in Sessions : i \in hold[s]

GrantApproval(i) ==
  /\ i \in Used
  /\ approvals[i].status = "pending"
  /\ approvals' = [approvals EXCEPT ![i].status = "approved"]
  /\ UNCHANGED <<vars, hold>>

(* Rejected, expired or superseded. *)
CloseApproval(i) ==
  /\ i \in Used
  /\ approvals[i].status \in {"pending", "approved"}
  /\ ~Held(i)
  /\ approvals' = [approvals EXCEPT ![i].status = "closed"]
  /\ UNCHANGED <<vars, hold>>

(* Mutation: no drift guard. *)
NoDriftUnchecked(i) == Winners(approvals[i].rfq) # {}

(* consume: lock the approval, load the RFQ, compare the snapshot with the *)
(* ranking of this moment, and go on to RFQService.award.                  *)
NoDrift(i) == Winners(approvals[i].rfq) = approvals[i].win

(* Mutation: the approval row is not locked. *)
ConsumeApprovalUnlocked(s, i) ==
  /\ i \in Used
  /\ approvals[i].status = "approved"
  /\ NoDrift(i)
  /\ AwardLoad(s, approvals[i].rfq)
  /\ hold' = [hold EXCEPT ![s] = {i}]
  /\ UNCHANGED approvals

ConsumeApproval(s, i) ==
  /\ i \in Used
  /\ approvals[i].status = "approved"
  /\ ~Held(i)
  /\ NoDrift(i)
  /\ AwardLoad(s, approvals[i].rfq)
  /\ hold' = [hold EXCEPT ![s] = {i}]
  /\ UNCHANGED approvals

(* Any other step; the approval a session holds is consumed in the commit  *)
(* that books the contracts and released when the session ends.            *)
OtherStep(s) ==
  /\ StepBesidesAward(s)
  /\ approvals' = [i \in Ids |-> IF i \in hold[s] /\ contracts' # contracts
                                 THEN [approvals[i] EXCEPT !.status = "consumed"]
                                 ELSE approvals[i]]
  /\ hold' = IF tx'[s].pc = "idle" THEN [hold EXCEPT ![s] = {}] ELSE hold

AwardNext ==
  \/ \E s \in Sessions : OtherStep(s)
  \/ \E s \in Sessions : \E r \in Rfqs : DirectAward(s, r)
  \/ \E s \in Sessions : \E r \in Rfqs : RequestApproval(s, r)
  \/ \E s \in Sessions : \E i \in Ids : ConsumeApproval(s, i)
  \/ \E i \in Ids : GrantApproval(i)
  \/ \E i \in Ids : CloseApproval(i)
  \/ \E c \in Cps : SetKyc(c) /\ UNCHANGED <<approvals, hold>>

AwardSpec == AwardInit /\ [][AwardNext]_allvars

-----------------------------------------------------------------------------
(* Session s commits an award in this step. *)
Books(s) == tx[s].pc = "awardLocked" /\ contracts' # contracts /\ tx'[s].pc = "idle"

(* What a consumed approval books is what was approved: the drift guard's  *)
(* comment in workflow_approvals.py promises it.                           *)
BookedAsApproved ==
  [][\A s \in Sessions : Books(s) =>
       \A i \in hold[s] : tx[s].win = approvals[i].win]_allvars

(* Without an approval nothing above the threshold is booked. *)
UnapprovedStaysBelowThreshold ==
  [][\A s \in Sessions : Books(s) /\ hold[s] = {} =>
       Notional(tx[s].rfq, tx[s].win) <= Threshold]_allvars

(* An approval is spent at most once: a consumed request stays consumed    *)
(* and no session holds it again, under any interleaving.                  *)
ApprovalSpentOnce ==
  [][\A i \in Ids : approvals[i].status = "consumed" =>
       /\ approvals'[i] = approvals[i]
       /\ \A s \in Sessions : i \notin hold'[s]]_allvars
=============================================================================
