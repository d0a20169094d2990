-------------------------- MODULE WorkflowApproval --------------------------
(***************************************************************************)
(* The approval gate of backend/app/services/workflow_approval_service.py  *)
(* and its routes: a mutation above its threshold is parked as a request,  *)
(* granted or rejected by a second person, and applied when the requester  *)
(* consumes it with the payload that was hashed.                           *)
(*                                                                         *)
(* Every lifecycle operation loads the row FOR UPDATE in a fresh session   *)
(* and commits at the end of its unit of work, so each is one step, with   *)
(* two exceptions: the idempotency lookup precedes the insert, and consume *)
(* runs the mutation (which may fail) while it holds the row.              *)
(***************************************************************************)
EXTENDS Integers, Sequences

CONSTANTS
  Requests,   \* rows of workflow_approval_requests
  Actors,     \* subjects of access tokens
  Roles,      \* [Actors -> SUBSET {"risk_manager", "auditor"}]
  Payloads,   \* canonical mutation payloads; equal hash = equal payload
  TypeOf,     \* [Payloads -> MutationTypes]
  Amount,     \* [Payloads -> Nat] notional or settlement amount
  MutationTypes,
  Threshold,  \* [MutationTypes -> Nat]
  Lifetime,   \* [MutationTypes -> Nat] hours until expires_at
  Policy,     \* [MutationTypes -> SUBSET roles] required_approver_roles
  Keys,       \* idempotency keys
  NoKey,      \* a request without an Idempotency-Key header
  Sessions,   \* units of work open at once
  Horizon     \* bound on the clock

ASSUME ApprovalConstants ==
  /\ Actors # {} /\ Payloads # {}
  /\ Roles \in [Actors -> SUBSET {"risk_manager", "auditor"}]
  /\ TypeOf \in [Payloads -> MutationTypes]
  /\ Amount \in [Payloads -> Nat]
  /\ Threshold \in [MutationTypes -> Nat]
  /\ Lifetime \in [MutationTypes -> Nat]
  /\ Policy \in [MutationTypes -> SUBSET {"risk_manager", "auditor"}]
  /\ NoKey \notin Keys
  /\ Horizon \in Nat

VARIABLES
  row,    \* the committed row of each request
  audit,  \* signed audit events of each request, oldest first, each named
          \* by the status it announces
  ran,    \* mutations executed for each request: how often and what
  work,   \* the open unit of work of each session
  now     \* the clock, in hours

vars == <<row, audit, ran, work, now>>

Terminal == {"rejected", "expired", "consumed", "superseded"}
Status == {"none", "pending", "approved"} \cup Terminal

Row == [status : Status, by : Actors, approver : SUBSET Actors,
        payload : Payloads, key : Keys \cup {NoKey}, expires : Nat]

Work == [pc : {"idle", "inserting", "executing"}, actor : Actors,
         payload : Payloads, key : Keys \cup {NoKey}, req : SUBSET Requests]

NoRow == [status |-> "none", by |-> CHOOSE a \in Actors : TRUE, approver |-> {},
          payload |-> CHOOSE p \in Payloads : TRUE, key |-> NoKey, expires |-> 0]

NoWork == [pc |-> "idle", actor |-> CHOOSE a \in Actors : TRUE,
           payload |-> CHOOSE p \in Payloads : TRUE, key |-> NoKey, req |-> {}]

TypeOK ==
  /\ row \in [Requests -> Row]
  /\ audit \in [Requests -> Seq(Status)]
  /\ ran \in [Requests -> [count : Nat, payloads : SUBSET Payloads]]
  /\ work \in [Sessions -> Work]
  /\ now \in Nat

Init ==
  /\ row = [r \in Requests |-> NoRow]
  /\ audit = [r \in Requests |-> << >>]
  /\ ran = [r \in Requests |-> [count |-> 0, payloads |-> {}]]
  /\ work = [s \in Sessions |-> NoWork]
  /\ now = 0

-----------------------------------------------------------------------------
Type(r) == TypeOf[row[r].payload]

(* _reject_if_expired and the sweeper's filter share this comparison. *)
Expired(r) == row[r].expires < now

(* consume holds the row FOR UPDATE until its unit of work ends. *)
Locked(r) == \E s \in Sessions : work[s].pc = "executing" /\ r \in work[s].req

(* The rows an idempotency lookup, or the unique index, would find. *)
SameKey(a, m, k) ==
  {r \in Requests : /\ row[r].status # "none" /\ k # NoKey /\ row[r].key = k
                    /\ row[r].by = a /\ Type(r) = m}

(* A status change and the audit event emitted with it. *)
Transition(r, to) ==
  /\ row' = [row EXCEPT ![r].status = to]
  /\ audit' = [audit EXCEPT ![r] = Append(@, to)]

(***************************************************************************)
(* evaluate_and_maybe_create.  At or below the threshold nothing is        *)
(* parked; a key already used by this requester for this kind of mutation  *)
(* answers with the existing row, whatever its status.  Neither changes    *)
(* anything here.  Otherwise a row is inserted, unless a concurrent unit   *)
(* of work with the same key was first: the unique index then fails.       *)
(***************************************************************************)
Evaluate(s, a, p, k) ==
  /\ work[s].pc = "idle"
  /\ Amount[p] > Threshold[TypeOf[p]]
  /\ "risk_manager" \in Roles[a]
  /\ SameKey(a, TypeOf[p], k) = {}
  /\ work' = [work EXCEPT ![s] = [NoWork EXCEPT !.pc = "inserting", !.actor = a,
                                     !.payload = p, !.key = k]]
  /\ UNCHANGED <<row, audit, ran, now>>

(* Mutation: there is no unique index, only the lookup. *)
KeyFreeAlways(s) == TRUE

(* The partial unique index on (idempotency_key, requested_by, type). *)
KeyFree(s) == SameKey(work[s].actor, TypeOf[work[s].payload], work[s].key) = {}

Insert(s, r) ==
  /\ work[s].pc = "inserting"
  /\ row[r].status = "none"
  /\ KeyFree(s)
  /\ now + Lifetime[TypeOf[work[s].payload]] < Horizon
  /\ row' = [row EXCEPT ![r] =
               [status |-> "pending", by |-> work[s].actor, approver |-> {},
                payload |-> work[s].payload, key |-> work[s].key,
                expires |-> now + Lifetime[TypeOf[work[s].payload]]]]
  /\ audit' = [audit EXCEPT ![r] = Append(@, "pending")]
  /\ work' = [work EXCEPT ![s] = NoWork]
  /\ UNCHANGED <<ran, now>>

(* Mutation: the requester may decide. *)
CoSignerAnyone(r, a) ==
  /\ row[r].status = "pending" /\ ~Locked(r) /\ ~Expired(r)
  /\ Policy[Type(r)] \cap Roles[a] # {}

(* Mutation: the deadline is left to the sweeper. *)
CoSignerAnyTime(r, a) ==
  /\ row[r].status = "pending" /\ ~Locked(r) /\ a # row[r].by
  /\ Policy[Type(r)] \cap Roles[a] # {}

(* grant_request and reject_request: pending, before the deadline, by      *)
(* somebody else whose role the policy of the mutation asks for.           *)
CoSigner(r, a) ==
  /\ row[r].status = "pending"
  /\ ~Locked(r)
  /\ ~Expired(r)
  /\ a # row[r].by
  /\ Policy[Type(r)] \cap Roles[a] # {}

Grant(r, a) ==
  /\ CoSigner(r, a)
  /\ row' = [row EXCEPT ![r] = [@ EXCEPT !.status = "approved", !.approver = {a}]]
  /\ audit' = [audit EXCEPT ![r] = Append(@, "approved")]
  /\ UNCHANGED <<ran, work, now>>

Reject(r, a) ==
  /\ CoSigner(r, a)
  /\ row' = [row EXCEPT ![r] = [@ EXCEPT !.status = "rejected", !.approver = {a}]]
  /\ audit' = [audit EXCEPT ![r] = Append(@, "rejected")]
  /\ UNCHANGED <<ran, work, now>>

(* Mutation: the row is read without FOR UPDATE. *)
SupersedeUnlocked(r, a) ==
  /\ row[r].status \in {"pending", "approved"}
  /\ a = row[r].by
  /\ "risk_manager" \in Roles[a]
  /\ Transition(r, "superseded")
  /\ UNCHANGED <<ran, work, now>>

(* supersede_request: the requester alone, with no deadline check. *)
Supersede(r, a) ==
  /\ row[r].status \in {"pending", "approved"}
  /\ ~Locked(r)
  /\ a = row[r].by
  /\ "risk_manager" \in Roles[a]
  /\ Transition(r, "superseded")
  /\ UNCHANGED <<ran, work, now>>

(* consume_request up to the executor: the requester alone, approved, in   *)
(* time, and with the payload whose hash was stored.                       *)
ConsumeLock(s, r, a, p) ==
  /\ work[s].pc = "idle"
  /\ ~Locked(r)
  /\ "risk_manager" \in Roles[a]
  /\ a = row[r].by
  /\ row[r].status = "approved"
  /\ ~Expired(r)
  /\ p = row[r].payload
  /\ work' = [work EXCEPT ![s] = [NoWork EXCEPT !.pc = "executing", !.actor = a,
                                     !.payload = p, !.req = {r}]]
  /\ UNCHANGED <<row, audit, ran, now>>

(* The mutation and the status change commit together. *)
ConsumeCommit(s, r) ==
  /\ work[s].pc = "executing"
  /\ r \in work[s].req
  /\ ran' = [ran EXCEPT ![r] = [count |-> @.count + 1,
                                payloads |-> @.payloads \cup {work[s].payload}]]
  /\ Transition(r, "consumed")
  /\ work' = [work EXCEPT ![s] = NoWork]
  /\ UNCHANGED now

(* The executor raises, the unique index refuses, or the process dies. *)
Abort(s) ==
  /\ work[s].pc # "idle"
  /\ work' = [work EXCEPT ![s] = NoWork]
  /\ UNCHANGED <<row, audit, ran, now>>

(* sweep_expired: its FOR UPDATE waits until no row it selects is held. *)
Sweepable == {r \in Requests : row[r].status \in {"pending", "approved"} /\ Expired(r)}

(* Mutation: the sweeper emits no audit event. *)
SweepUnaudited ==
  /\ Sweepable # {}
  /\ \A r \in Sweepable : ~Locked(r)
  /\ row' = [r \in Requests |-> IF r \in Sweepable
                                THEN [row[r] EXCEPT !.status = "expired"] ELSE row[r]]
  /\ UNCHANGED <<audit, ran, work, now>>

Sweep ==
  /\ Sweepable # {}
  /\ \A r \in Sweepable : ~Locked(r)
  /\ row' = [r \in Requests |-> IF r \in Sweepable
                                THEN [row[r] EXCEPT !.status = "expired"] ELSE row[r]]
  /\ audit' = [r \in Requests |-> IF r \in Sweepable
                                  THEN Append(audit[r], "expired") ELSE audit[r]]
  /\ UNCHANGED <<ran, work, now>>

Tick ==
  /\ now < Horizon
  /\ now' = now + 1
  /\ UNCHANGED <<row, audit, ran, work>>

Next ==
  \/ \E s \in Sessions, a \in Actors, p \in Payloads, k \in Keys \cup {NoKey} :
       Evaluate(s, a, p, k)
  \/ \E s \in Sessions, r \in Requests : Insert(s, r)
  \/ \E r \in Requests, a \in Actors : Grant(r, a)
  \/ \E r \in Requests, a \in Actors : Reject(r, a)
  \/ \E r \in Requests, a \in Actors : Supersede(r, a)
  \/ \E s \in Sessions, r \in Requests, a \in Actors, p \in Payloads :
       ConsumeLock(s, r, a, p)
  \/ \E s \in Sessions, r \in Requests : ConsumeCommit(s, r)
  \/ \E s \in Sessions : Abort(s)
  \/ Sweep
  \/ Tick

Spec == Init /\ [][Next]_vars

-----------------------------------------------------------------------------
(* The binding list of governance.md: these status changes and no others. *)
LegalMoves ==
  {<<"none", "pending">>,
   <<"pending", "approved">>, <<"pending", "rejected">>,
   <<"pending", "expired">>, <<"pending", "superseded">>,
   <<"approved", "consumed">>, <<"approved", "expired">>,
   <<"approved", "superseded">>}

(* No step, of any interleaving, makes a status change the governance list *)
(* does not contain; in particular terminal rows never move.               *)
OnlyLegalMoves ==
  [][\A r \in Requests :
       row'[r].status # row[r].status
       => <<row[r].status, row'[r].status>> \in LegalMoves]_vars

(* Nothing is applied that two people did not agree on: a mutation ran for *)
(* a request only if the row is consumed, it ran once, with the payload    *)
(* the row records, and a second person holding a required role granted it.*)
FourEyes ==
  \A r \in Requests :
    /\ row[r].status \in {"approved", "consumed"} =>
         \E a \in row[r].approver : /\ a # row[r].by
                                    /\ Policy[Type(r)] \cap Roles[a] # {}
    /\ row[r].status = "consumed" =>
         ran[r] = [count |-> 1, payloads |-> {row[r].payload}]
    /\ row[r].status # "consumed" => ran[r].count = 0

(* One requester never has two rows of one mutation type for one key, even *)
(* when two submissions of it overlap.                                     *)
OneRowPerKey ==
  \A q, r \in Requests :
    /\ row[q].status # "none" /\ row[r].status # "none"
    /\ row[q].key # NoKey /\ row[q].key = row[r].key
    /\ row[q].by = row[r].by /\ Type(q) = Type(r)
    => q = r

(* The audit trail of a request is a legal history that ends in its        *)
(* status: one event per transition, none invented, none missing.          *)
AuditTellsHistory ==
  \A r \in Requests :
    LET h == <<"none">> \o audit[r] IN
    /\ h[Len(h)] = row[r].status
    /\ \A i \in 1..(Len(h) - 1) : <<h[i], h[i + 1]>> \in LegalMoves

(* A second look at the deadline: a row is not granted, rejected or picked *)
(* for consumption once its deadline has passed, though the sweeper has    *)
(* not reached it yet.                                                     *)
DeadlineHolds ==
  [][\A r \in Requests :
       Expired(r) =>
         /\ row'[r].status \in {"approved", "rejected"} => row'[r] = row[r]
         /\ ~Locked(r) => ~Locked(r)']_vars

=============================================================================
