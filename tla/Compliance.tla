----------------------------- MODULE Compliance -----------------------------
(***************************************************************************)
(* Counterparties (brokers and banks), commercial partners (customers and  *)
(* suppliers), their KYC and sanctions status, and the evidence behind it: *)
(* services/counterparty_service.py, commercial_partner_service.py,        *)
(* sanctions_screening_service.py, lei_validation_service.py,              *)
(* tasks/sanctions_rescreen_task.py, and the gate of order creation in     *)
(* order_service.py.                                                       *)
(*                                                                         *)
(* The tables of screenings and adjudications are append-only and ordered  *)
(* by time, so they are one log per partner.  screen, adjudicate and       *)
(* set_kyc_status read the partner's row under FOR UPDATE; the generic     *)
(* update, the credit, LEI and delete routes and order creation do not.    *)
(* A session writes the columns whose value differs from the one it loaded.*)
(***************************************************************************)
EXTENDS Naturals, Sequences

CONSTANTS
  Partners,      \* counterparties and commercial partners
  Requests,      \* concurrent requests, the rescreen task among them
  MaxIdentity,   \* bound on identities of a partner (edits, and one)
  MaxLog,        \* bound on the evidence of a partner
  LeiFound       \* the LEI statuses validations come to

ASSUME ComplianceConstants ==
  /\ LeiFound \subseteq {"not_provided", "issued", "lapsed", "invalid", "error"}
  /\ MaxIdentity \in Nat \ {0} /\ MaxLog \in Nat

VARIABLES
  row,   \* the partner's row; identity stands for name, country, tax_id, lei
  log,   \* its screenings that succeeded and its adjudications
  req    \* what each request has loaded

vars == <<row, log, req>>

-----------------------------------------------------------------------------
KycStatus == {"pending", "approved", "expired", "rejected"}

SanctionsStatus == {"unscreened", "clear", "flagged", "blocked"}

Idle == [pc |-> "idle"]

\* The columns a request will write, from what it has loaded.
Loaded(op, p, columns) == [pc |-> op, of |-> p, columns |-> columns]

Live(p) == ~row[p].deleted

\* create: both statuses are forced by the server.
Created(kind) == [kind |-> kind, identity |-> 1, kyc |-> "pending", sanctions |-> "unscreened",
                  lei |-> "not_provided", credit |-> FALSE, ordered |-> FALSE, deleted |-> FALSE]

Init ==
  /\ \E kind \in [Partners -> {"commercial", "hedge"}] : row = [p \in Partners |-> Created(kind[p])]
  /\ log = [p \in Partners |-> << >>]
  /\ req = [r \in Requests |-> Idle]

\* No transaction has the row of p locked: only a screening keeps its lock
\* while it waits, for the provider.
Unlocked(p) == \A r \in Requests : ~(req[r].pc = "screen" /\ req[r].of = p)

Load(r, op, p, columns) ==
  /\ req[r] = Idle /\ Live(p)
  /\ req' = [req EXCEPT ![r] = Loaded(op, p, columns)]
  /\ UNCHANGED <<row, log>>

\* The flush and the commit of r, which wait for the row.
Store(r, op) ==
  LET p == req[r].of
      columns == req[r].columns
  IN  /\ req[r].pc = op /\ Unlocked(p)
      /\ row' = [row EXCEPT ![p] = [f \in DOMAIN @ |-> IF f \in DOMAIN columns THEN columns[f] ELSE @[f]]]
      /\ req' = [req EXCEPT ![r] = Idle]
      /\ UNCHANGED log

-----------------------------------------------------------------------------
(* Generic update, delete, credit and LEI: loaded without a lock.          *)

\* The columns that change for a session that loaded old: stale evidence is
\* reset, but a column that has the reset value already is not written.
EditColumns(old, leiChanged) ==
  LET reset == [sanctions |-> "unscreened",
                kyc |-> IF old.kyc = "approved" THEN "pending" ELSE old.kyc,
                lei |-> IF leiChanged THEN "not_provided" ELSE old.lei]
  IN  [f \in {"identity"} \cup {g \in DOMAIN reset : reset[g] # old[g]} |->
         IF f = "identity" THEN old.identity + 1 ELSE reset[f]]

EditLoad(r, p) ==
  /\ row[p].identity < MaxIdentity
  /\ \E leiChanged \in {FALSE, row[p].kind = "commercial"} :
       Load(r, "edit", p, EditColumns(row[p], leiChanged))

EditCommit(r) == Store(r, "edit")

DeleteLoad(r, p) == Load(r, "delete", p, [deleted |-> TRUE])

DeleteCommit(r) == Store(r, "delete")

\* approve_credit tests the status that was loaded.
CreditLoad(r, p) ==
  /\ row[p].kind = "commercial" /\ row[p].sanctions = "clear"
  /\ Load(r, "credit", p, [credit |-> TRUE])

CreditCommit(r) == Store(r, "credit")

\* validate_lei: any status, from the LEI it has loaded and what the registry
\* answers; an outage is recorded as error, and nothing is gated on it.
LeiLoad(r, p, found) ==
  /\ row[p].kind = "commercial"
  /\ Load(r, "lei", p, IF found = row[p].lei THEN << >> ELSE [lei |-> found])

LeiCommit(r) == Store(r, "lei")

-----------------------------------------------------------------------------
(* KYC status: under the lock of the row, in one step.                     *)

SetKycUnchecked(p, new) ==
  /\ Live(p) /\ Unlocked(p)
  /\ row' = [row EXCEPT ![p].kyc = new]
  /\ UNCHANGED <<log, req>>

\* Approval of a commercial partner needs a clear sanctions status; that of a
\* hedge counterparty does not.
SetKycStatus(p, new) ==
  /\ Live(p) /\ Unlocked(p)
  /\ row[p].kind = "commercial" /\ new = "approved" => row[p].sanctions = "clear"
  /\ row' = [row EXCEPT ![p].kyc = new]
  /\ UNCHANGED <<log, req>>

-----------------------------------------------------------------------------
(* Screening and adjudication.                                             *)

Entry(kind, p, result) == [kind |-> kind, identity |-> row[p].identity, result |-> result]

\* _load_entity with the lock; the provider is asked while it is held.
ScreenLoad(r, p) == Unlocked(p) /\ Load(r, "screen", p, << >>)

\* map_score_to_result: any result, with its row and the status together.
ScreenResult(r, result) ==
  /\ req[r].pc = "screen"
  /\ LET p == req[r].of
     IN  /\ Len(log[p]) < MaxLog
         /\ log' = [log EXCEPT ![p] = Append(@, Entry("screening", p, result))]
         /\ row' = [row EXCEPT ![p].sanctions = result]
  /\ req' = [req EXCEPT ![r] = Idle]

ScreenErrorClears(r) ==
  /\ req[r].pc = "screen"
  /\ row' = [row EXCEPT ![req[r].of].sanctions = "clear"]
  /\ req' = [req EXCEPT ![r] = Idle]
  /\ UNCHANGED log

\* ScreeningProviderError: the status stays, the error row (written by a
\* session of its own) is no evidence.  The rescreen task goes on.
ScreenError(r) ==
  /\ req[r].pc = "screen"
  /\ req' = [req EXCEPT ![r] = Idle]
  /\ UNCHANGED <<row, log>>

AnswerableByStatus(p) == log[p] # << >> /\ row[p].sanctions \in {"flagged", "blocked"}

\* Whether the latest screening is a hit that no adjudication has answered,
\* and the status still says so.
Answerable(p) ==
  /\ log[p] # << >>
  /\ log[p][Len(log[p])].kind = "screening"
  /\ log[p][Len(log[p])].result = "flagged"
  /\ row[p].sanctions = "flagged"

Adjudicate(p, decision) ==
  /\ Live(p) /\ Unlocked(p) /\ Answerable(p)
  /\ Len(log[p]) < MaxLog
  /\ log' = [log EXCEPT ![p] = Append(@, Entry("adjudication", p, decision))]
  /\ row' = [row EXCEPT ![p].sanctions = decision]
  /\ UNCHANGED req

-----------------------------------------------------------------------------
(* The gate of order creation: it admits on what it has loaded.            *)

Admissible(p) == row[p].kyc = "approved" /\ row[p].sanctions # "blocked"

OrderLoad(r, p) ==
  /\ row[p].kind = "commercial" /\ Admissible(p)
  /\ Load(r, "order", p, [ordered |-> TRUE])

OrderCommit(r) == Store(r, "order")

-----------------------------------------------------------------------------
Next ==
  \/ \E r \in Requests, p \in Partners :
       \/ EditLoad(r, p) \/ DeleteLoad(r, p) \/ CreditLoad(r, p)
       \/ ScreenLoad(r, p) \/ OrderLoad(r, p)
       \/ \E found \in LeiFound : LeiLoad(r, p, found)
  \/ \E r \in Requests :
       \/ EditCommit(r) \/ DeleteCommit(r) \/ CreditCommit(r) \/ OrderCommit(r)
       \/ LeiCommit(r)
       \/ \E result \in SanctionsStatus \ {"unscreened"} : ScreenResult(r, result)
       \/ ScreenError(r)
  \/ \E p \in Partners :
       \/ \E new \in KycStatus : SetKycStatus(p, new)
       \/ \E decision \in {"clear", "blocked"} : Adjudicate(p, decision)

Spec == Init /\ [][Next]_vars

-----------------------------------------------------------------------------
Last(p) == log[p][Len(log[p])]

\* effective_sanctions_status agrees with the stored one: a status other than
\* unscreened is the result of the latest screening or adjudication on record,
\* whatever overlaps, and whether or not the provider answers (screen,
\* adjudicate, _record_error_screening).
StatusHasEvidence ==
  \A p \in Partners :
    row[p].sanctions # "unscreened" => log[p] # << >> /\ Last(p).result = row[p].sanctions

\* An adjudication answers a flagged screening and that screening only: what
\* is blocked cannot be adjudicated away, and no hit is decided twice by two
\* risk managers at once (adjudicate).
OneAnswerPerHit ==
  \A p \in Partners : \A i \in DOMAIN log[p] :
    log[p][i].kind = "adjudication" =>
      i > 1 /\ log[p][i - 1].kind = "screening" /\ log[p][i - 1].result = "flagged"

\* No commercial partner is approved, given credit or sold to or bought from
\* before a screening or an adjudication has cleared it once (set_kyc_status,
\* approve_credit, _assert_commercial_partner_admissible).
TrustRestsOnClearance ==
  \A p \in Partners :
    row[p].kind = "commercial" /\ (row[p].kyc = "approved" \/ row[p].credit \/ row[p].ordered) =>
      \E i \in DOMAIN log[p] : log[p][i].result = "clear"

\* Stale evidence does not survive a change of identity: a sanctions status
\* other than unscreened was established for the identity the row has now
\* (CommercialPartnerService.update, CounterpartyService.update).  It does
\* survive an edit that was loaded before the screening committed.
EvidenceIsOfIdentity ==
  \A p \in Partners :
    row[p].sanctions # "unscreened" => Last(p).identity = row[p].identity
=============================================================================
