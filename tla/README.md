# Hedge Control: TLA+ verification project

This directory models the backend of Hedge Control (`backend/app`, FastAPI over
SQLAlchemy and PostgreSQL): requests for quote and their award, the approval
gate in front of large mutations, the WhatsApp pipelines in both directions, the
hedge book with its capacity rules and settlements, the deals, exposures and
valuations derived from it, market prices and the daily finance pipeline, and
the compliance status of partners. `PROJECT.json` is the machine-readable index
(components, runs, mutants, map to source lines, findings, hazards, theorems).

## 1. Inventory

| Component | State | Operations | Interacts with |
|---|---|---|---|
| RFQ lifecycle (`rfq_service.py`, `routes/rfqs.py`) | `rfqs`, `rfq_quotes`, `rfq_state_events` | create, submit_quote, reject_quote, reject, cancel, award, archive | KYC gate, ranking, contracts, linkages, outbox, approvals |
| Quote ranking (`rfq_service.py`) | none (pure) | select latest per counterparty, rank trade, rank spread | award, award route, drift guard |
| Workflow approvals (`workflow_approval_service.py`) | `workflow_approval_requests`, audit events | evaluate/create, grant, reject, supersede, consume, sweep | award, deal execution, settlement |
| Inbound pipeline (`webhooks.py`, `webhook_processor.py`, `rfq_orchestrator.py`) | `inbound_webhook_messages`, `llm_decision_artifacts`; per process a deque, an active set, drain tasks | persist, enqueue, drain, claim, classify, quote, finalise | provider, LLM, submit_quote |
| Outbox (`rfq_service.py`, `whatsapp_providers.py`) | `rfq_invitations` | checkpoint, send, record the outcome, refresh, decline | WhatsApp, KYC gate |
| Orders, contracts, linkages (`order_service.py`, `contract_service.py`, `linkage_service.py`) | orders, hedge contracts, `hedge_order_linkages`, capacity triggers | create, archive, update, cancel, delete, link | award, deals, exposure, settlement |
| Settlement (`cashflow_ledger_service.py`) | settlement events, ledger entries | ingest, replay | contracts, approvals |
| Deals, exposure (`deal_engine.py`, `exposure_engine.py`, `exposure_service.py`) | deals, links, P&L snapshots, exposures, hedge tasks | link, unlink, recompute, reconcile, execute a task, compute P&L | orders, contracts, prices |
| Valuation (`mtm_*`, `pl_*`, `cashflow_*`, `scenario_whatif_service.py`) | P&L, MTM and baseline snapshots | read views, what-if | book, prices |
| Market data (`westmetall_*`, `cash_settlement_prices.py`, `price_lookup_service.py`) | settlement prices, circuit breaker | fetch, classify, insert, look up | provider, valuation, pipeline |
| Finance pipeline (`finance_pipeline_service.py`) | runs, steps, risk flags | run, step, fail, resume | prices, snapshots |
| Counterparties, commercial partners, sanctions, LEI | partner rows, screenings, adjudications | create, edit, delete, KYC, credit, screen, adjudicate, validate | order gate, RFQ gates |
| Audit, auth, web sockets, LLM agent, scheduler, frontend | request plumbing or external | | |

What makes the code hard: every HTTP handler has its own session, reads into an
identity map, decides on what it read, and commits later under READ COMMITTED
with `autoflush=False`; an UPDATE writes the columns that changed since the load
and no others; gunicorn runs two processes, each with its own in-memory queue and
drain threads; the provider delivers a message several times and to any process;
messages leave before the transaction that records them ends; a mutation may be
parked for hours between request and execution; and several services compute the
same figure by code of their own.

What makes each part correct, in short: a closed RFQ stays closed, a trade is
booked once, an award books the best live offer, the event trail replays to the
state; nothing above a threshold runs without a second person's decision, and it
runs once and as decided; a provider message becomes at most one quote; no
message leaves without evidence; no tonne is hedged twice; what is stored about a
deal, an exposure or a P&L is what the book gives; a snapshot's price can be
shown for ever; a day that was closed is covered and stays closed; nobody is
trusted without a clearance on record.

## 2. Modules

| Module | Models |
|---|---|
| `RfqQuotes` | What "latest quote" and "winner" mean, for trades and spreads, without an algorithm. |
| `RfqRanking` | The sort-and-scan code of the rankers, shown to compute what `RfqQuotes` declares. |
| `RfqSessions` | The RFQ lifecycle run by concurrent database sessions. |
| `ApprovalGate` | Abstract: what the approval gate promises, as atomic steps. |
| `WorkflowApproval` | The approval service: requests, decisions, consumption, sweeper, audit trail; implements `ApprovalGate`. |
| `AwardApproval` | `RfqSessions` composed with the award route and the `deal_award` executor of consume; implements `ApprovalGate` while commits are fresh (section 4). |
| `InboundPipeline` | Webhook, queue, drain threads, durable claim, verdicts, quote, finalisation, crashes. |
| `Outbox` | Invitation rows, sends and outcomes of create, refresh and reject_quote. |
| `Allocation` | Abstract: what linking orders to hedges promises, as atomic steps. |
| `HedgeBook` | Orders, contracts, linkages and settlements by overlapping sessions, with locks and triggers; implements `Allocation`. |
| `Portfolio` | Extends `HedgeBook`: deals, exposures, hedge tasks, P&L snapshots. |
| `Valuation` | Extends `Portfolio`: the read views, as functions of its state. |
| `MarketData` | Provider page, fetch, circuit breaker, classification, insert, business-day look-up. |
| `FinancePipeline` | Extends `MarketData`: the daily run with its workers, steps and snapshots. |
| `Compliance` | Partner rows, the log of screenings and adjudications, and what rests on them. |
| `MC*` | Instances for TLC. |
| `*_proofs` | Theorems checked by TLAPS: `AwardApproval_proofs` (`RfqSessions` and `AwardApproval`), `Portfolio_proofs` (`HedgeBook`, `Portfolio` and `Valuation`), and one module each for `RfqRanking`, `WorkflowApproval`, `Compliance`, `InboundPipeline`, `FinancePipeline`, `Outbox`. |

**RfqSessions.** The variables `state`, `archived`, `trail`, `quotes`,
`rejected`, `contracts` and `kyc` are committed table contents; `tx[s]` is what
session `s` has read or flushed and not committed. An operation is cut exactly
where another session's commit can fall in between: create into checkpoint and
final write; submit_quote into load, flush and commit; reject_quote into load,
count and commit; reject, cancel and archive into load and commit; award into
the route's load, the row lock with the second ranking, and the commit with the
leg locks. `trail` stores the state that the `RFQStateEvent` rows of an RFQ
replay to, or `BROKEN` once an event starts from a different state. Row locks
are read off `tx`: an award holds `FOR UPDATE`, an uncommitted quote holds
`FOR KEY SHARE` on its RFQ through the foreign key. `Abort` stands for every way
a transaction ends without commit (a refused gate, a linkage error, a deadlock
victim, a dead process). The two legs of a spread have one commodity, and quotes
carry one canonical unit, as the gates in front of them require.

**WorkflowApproval.** One row per request. Each operation loads its row
`FOR UPDATE` in a fresh session, so it is one step; the exceptions are the
idempotency lookup before the insert (`Evaluate`, `Insert`) and `consume`, which
runs the mutation while it holds the row (`ConsumeLock`, `ConsumeCommit`).
Payloads stand for their canonical hash.

**AwardApproval.** The life of a request is reduced to pending, approved,
consumed, closed; `hold[s]` is the approval row that session `s` has locked.
`OtherStep` marks it consumed in the commit that books the contracts.

**InboundPipeline.** `handler`, `queue`, `active` and `drains` are per process
and lost in a crash; `status`, `stale`, `artifacts` and `quotes` are rows.
`stale` abstracts the 15-minute cutoff: a row enters it by `Stall`. The early
guards of `_process_single_message` end without a quote (`Ignore`); the answer of
the model is any intent with any parsed quote (`Intents`, `Answers`), from which
`Verdict` derives what the code does with it, the confidence rule included; the
duplicate guard reads the active quotes (`Decide`); and the quote commits with
its numbered artifact or not at all. An exception that no handler expects
(`Raise`) ends an attempt in the claim, in the processing or in the finalisation.
From the numbering of the artifact to the commit of the quote the code catches
HTTP, database and artifact errors (`QuoteRefused`, `QuoteRolledBack`), and no
other kind is assumed there.

**Outbox.** One RFQ. A request is a job: it commits its `queued` rows, sends them
one by one, keeps the outcomes in its session and ends with the route's commit.
refresh commits row by row and may be refused halfway, because KYC is checked per
recipient. `Send` ends with the answer of the provider, and `wire` counts what
it accepted: Meta gets one attempt with the number as stored, Twilio a second one
with the other Brazilian form (`Tried`, `Variant`) when it refuses the first on
the spot. Acceptance is not arrival: Twilio's refusal 63015 normally comes later
and no code receives it, so a row may say sent of a message that never reaches
its recipient, and no property says otherwise. `stranded`, `dropped`, `blamed` and
`declined` are history.

**HedgeBook.** A session is one request: it loads and checks in one step, flushes
and commits in a later one, and only linking locks the rows it reads. The
capacity trigger is the conjunct of the committing step that sums again. Writes
touch the columns the handler changed (`WriteContract`), over whatever has been
committed. The award's booking of a contract with its linkage in one transaction
is `BookLockOrder`, `BookFlush`, `BookCommit`.

**Portfolio, Valuation.** The interest here is the derived data, so requests are
served one at a time (the overlaps are `HedgeBook`'s). Each handler that
recomputes deals does so in its own step. Amounts are integers of small size, and
a price of 0 is an unprovable one. `amended` and `synced` are history: they
delimit where the code itself lets stored figures lag (an update of tonnes
recomputes no deal; exposures are refreshed by reconcile only). The field `seen`
of a snapshot is history too: the open tonnes of each hedge when it was computed,
which the hash of the inputs does not contain. The projection is a function of
the settlement dates as well: it is asked for on `AsOf`, and `DueDates` are the
assignments of dates (0: none) it is checked for; orders without a date or due
before `AsOf` are passed over, an open hedge without a date makes it fail. Orders
and contracts have their prices: the refusal of rows without an
`avg_entry_price` or a `fixed_price_value` is left out.

**MarketData, FinancePipeline.** A day is a number, day 0 a Monday; `Holidays`
abstracts the exchange calendar. A run is one transaction, so `running` is never
visible to another session; the workers exclude each other by the unique
`run_date` or by the row lock of the UPDATE that reopens a partial run. While a
run executes, contracts are booked (`Opening` are there before), settled and
amended and the snapshot routes write the same rows; the loops over contracts go
on with what the session loaded at their beginning (`terms`). `run.scope` records
the contracts that were booked when the pl_snapshot step was last started,
`run.closings` how often the run was closed.

**Compliance.** `identity` stands for the fields that feed a screening. `log` is
the append-only evidence. A request holds the columns it will write, computed
from what it loaded; only screening keeps a row lock while it waits (for the
provider). Counterparties and commercial partners differ in `kind`.

## 3. Runs

All runs finish in under five minutes with two workers.

| Run | Instance | Shows |
|---|---|---|
| `award_serial` | 1 trade, 2 counterparties, 2 prices, 2 stamps, 3 quotes, 1 approval, 1 session | lifecycle, award and gate are right over sequences of requests; overlaps are for `award_concurrent`, `rfq_double_award` and the theorems |
| `award_concurrent` | 2 legs and a spread, 2 quotes, 1 approval, 2 sessions | a stable ranking under the lock, open legs, an approval spent once |
| `rfq_ranking` | 2 legs, 2 counterparties, 3 prices, 2 stamps, 4 quotes | the ranking code computes the declared winners |
| `approval` | 2 requests, 3 people, 2 sessions, 1 key, clock to 3 | four eyes, legal moves, audit history, keys, deadlines |
| `inbound_one_process` | 2 messages, 2 threads, queue of 1, 3 deliveries, 1 failure or crash | the queue's bookkeeping, one-time consumption and the drain of the queue |
| `outbox` | 2 counterparties, 2 jobs, 4 rows, 1 fault, Twilio's sandbox | evidence before every send, truthful records, an outcome for every row |
| `hedge_book` | 2 orders, 2 contracts, 2 tonnes, 1 event, 2 sessions | no tonne allocated twice, cash retires the hedge, refinement of `Allocation` |
| `portfolio` | 2 orders, 1 hedge, 1 deal, 1 event, 1 snapshot, 2 prices and a missing one, 27 assignments of dates | totals, exposures, tasks, snapshots and read views agree with the book |
| `finance` | 1 settlement day before a holiday, 2 contracts (1 from the start), 2 workers, 2 ingesters, 2 disturbances | provable snapshots, a covered and final day |
| `compliance` | 1 partner of either kind, 2 requests, 3 identities, 3 log entries | evidence for every status, one answer per hit, trust only after a clearance |

The bounds (`MaxQuotes`, `MaxContracts`, `MaxApprovals`, `Horizon`, `QueueMax`,
`MaxDeliveries`, `MaxFailures`, `MaxRows`, `MaxFaults`, `MaxQty`, `MaxSnapshots`,
`MaxEvents`, `MaxIdentity`, `MaxLog`) are constants in the guards. Three quotes
on a trade suffice for a superseded offer beside a competing one; a queue of one
makes every second enqueue an eviction; three deliveries allow a redelivery
before and after consumption; two orders and two contracts of one and two tonnes
let two sessions compete for one order and for one contract, with a resize in
between; one deal with an order of each kind and a hedge reaches every status of
a deal, and one snapshot suffices to be found stale; two prices besides the
missing one let a price move after a snapshot was taken and make it different
from the entry price of an order; the dates are none, the day before and the day
asked for; two disturbances give a correction after an outage; three log entries give a hit, its answer and a
rescreening. Partners share no state, so one is enough. `MCBound` in
`MCAwardSpread` leaves archiving and KYC withdrawals to `award_serial`; `MCBound` in
`MCPortfolio` does not combine exposure rows with P&L snapshots, which read nothing
of each other.
Permutations of sessions, requests, orders and contracts are declared as
symmetries in runs without liveness only; `ImplementsAllocation` is a safety
property. Deadlock is not checked: requests and messages may simply stop coming,
and the bounds end every behaviour.

### The refinement

`HedgeBook` implements `Allocation` under the mapping `open` = live orders and
contracts, `closed` = archived, cancelled, settled or deleted ones, `size` =
their tonnes, `allocated` = the linkage rows. A locked, checked and later
committed linkage maps to one atomic `Allocate`: what was checked under the locks
is still true at the commit. That is where the design could fail, since update,
cancel, delete and settle take no lock before their UPDATE.

### Disagreements between the code and what it says

Two runs are expected to be violated; each checks one promise quoted in
`PROJECT.json` and its counterexample is an execution of the code.

* `rfq_double_award`: the second of two overlapping awards waits for the row
  lock and then tests the state it had loaded before; the trade is booked twice.
* `identity_edit`: an identity edit that loaded the partner as unscreened writes
  no status; a screening of the old identity that commits before it is kept
  beside the new identity.

### Observations

Met while modelling, and the reason why some properties are stated as they are.

RFQs and approvals
* create writes SENT after its dispatch over a cancel that committed meanwhile,
  so with two sessions `ClosedIsFinal` and `TrailConnected` fail on the model, and
  so does `QuotedHasActiveQuote` (reject_quote counts without a lock).
  `BookedAsApproved` and `UnapprovedStaysBelowThreshold` rest on a ranking that
  award computes again after guard and threshold were applied. All of them, and
  `OneContractPerTrade`, hold for any number of sessions as long as no session
  commits a decision that another commit has overtaken (`CommitsFresh` in
  `RfqSessions`). Requests that do not overlap have that; the code ensures it for
  no others.
* Two first quotes on the legs of a spread do not see each other; the parent
  stays SENT until a later quote.

Messages
* A worker that lost the claim proceeds without it when the row it reads again
  has become claimable (`rfq_orchestrator.py:786`); with two processes and a
  failed first attempt a message can be quoted twice once the desk rejects the
  first quote. The other way to two workers on one message is an attempt that
  outlives the 15-minute cutoff. `inbound_one_process` reaches neither, as the
  active set of the one process excludes the second worker.
* A Meta delivery of several messages submits one drain task; an exception on the
  first message leaves the others queued until the next delivery.
* refresh that is refused at one recipient loses the outcomes of the earlier
  ones (`dropped`): their rows stay queued although the messages left, as do the
  rows of a request that crashed (`stranded`); nothing picks either up, and
  `EveryRowSettles` excepts both. A counterparty's refusal marks a row failed that
  was sent.
* `notify_award`, `notify_reject`, `dispatch_whatsapp_invitations`,
  `_persist_outbox_queued`, `check_replay_window` and
  `check_sequence_monotonicity` have no live callers and are not modelled.

Hedge book and portfolio
* Settlement reads the contract without a lock and tests no deletion: two events
  with different ids can both settle it, and deletion of a settled contract makes
  it cancelled, which `VALID_STATUS_TRANSITIONS` does not list.
  `CashRetiresHedge` states what remains true.
* update of a contract's tonnes recomputes no deal and is allowed on settled
  contracts (`amended`); the P&L hash contains neither tonnes nor status of a
  contract, although its docstring (`deal_engine.py:58`) calls it uniquely
  identifying. After an amendment, a cancellation or a settlement of a hedge
  compute_deal_pnl therefore returns the figure of before; `ReusedPnlIsCurrent`
  says that it differs from the present one in the open tonnes and in nothing
  else.
* Nothing keeps a request from linking a purchase order under the type of a sale,
  and the P&L then has its sign wrong; `ProjectionMatchesPnl` is about rows of the
  right type. The projection looks for the deal of a contract under the link type
  contract, so an item of a hedge linked as hedge names no deal.
* A contract can be in two deals through the link types hedge and contract;
  adding an order to a deal does not check the direction of hedges already there.
* SO-PO links are only inserted and no capacity is checked.
* Mark-to-market ignores the side of a position. The cashflow analytic counts
  archived orders and soft-deleted active contracts, the what-if counts the
  latter only, the baseline neither: `WhatIfOfNothing` says where they agree.

Prices and pipeline
* One corrected price on the provider's page aborts every later bulk ingest of
  the range, new days included.
* The status `running` is never committed, so `_is_fresh_running_lock` never
  refuses a worker. A database error inside a step rolls the whole run back,
  steps that had completed included. A P&L snapshot written by the route with
  other inputs makes the step conflict and keeps the run partial.
* The baseline reads contracts and ledger in two queries; a settlement that
  commits in between is counted in both.
* A contract that is booked after the pl_snapshot step completed, before a partial
  run is resumed, gets neither a snapshot nor a flag: the completed step is skipped
  (`finance_pipeline_service.py:145-147`), and the flags of risk_flags need a
  missing price. `ClosedDayCovered` without `run.scope` fails on the model.
* A worker that waited for a run which another one completed closes it once more,
  with new timestamps and a second pair of audit events; status, steps and flags
  stay (`ClosedDayIsFinal`).
* The docstring of the wrapper `get_cash_settlement_price_d1`
  (`price_lookup_service.py:133-148`) still speaks of a five-day lookback; the
  look-up it calls takes the one business day before and no other.

Compliance
* The RFQ gate reads `kyc_status` only. LEI status gates nothing, and the LEI
  route loads without a lock. Credit and orders are admitted on a status read
  without a lock: `TrustRestsOnClearance` says a clearance is on record, not that
  it is still the latest entry.

### Fairness

`QueueDrains` assumes that a request handler goes on to enqueue what it persisted
and that drain threads keep running (a `ThreadPoolExecutor` starts every
submitted task). `EveryRowSettles` assumes that a request once accepted is
executed (`JobStep`). Deliveries, failures, crashes, stalls, refusals and human
decisions are never forced. The other specifications need no fairness: their
properties are safety.

## 4. Proofs

TLAPS checks the following for every value of the constants, hence any number
of sessions, RFQs, requests and people. The assumptions are the named `ASSUME`s
of the modules, which TLC evaluates on each instance: types of the constants,
and, where cardinalities or sums are taken, that the sets counted are finite
(`Cps` in `Outbox`; `Orders` and `Contracts`, also disjoint, in `HedgeBook`,
with order tonnes between 1 and `MaxQty`); in `Portfolio` prices are natural
numbers, in `Valuation` so are dates, and `AsOf` is one. Each inductive invariant was an invariant of the run's instance under
TLC before it was proved. The proofs have one lemma per action and, before
those, lemmas on what a kind of step (a quiet one, a commit, a step of another
session) preserves.

`WorkflowApproval_proofs`. Type correctness is inductive alone. The invariant
`Inv` adds four facts: `Signed` (an approved or consumed row names an approver
who is not the requester and holds a required role), `RanRight` (a mutation ran
exactly for the consumed rows, once, with the row's payload), `HeldApproved` (a
row locked by a consumption is approved and the session has its payload) and
`OneHolder` (one session holds a row). `FourEyes` is not inductive without
them: `ConsumeCommit` tests nothing again, so that the row is still approved
when it commits follows only from the lock. From `Inv` follow `FourEyesHolds`,
`OnlyLegalMovesHolds` (with the lemma `RowStep`, which lists what one step may
do to one row), `AuditTellsHistoryHolds`, `OneRowPerKeyHolds` (from the unique
index, as a row's identity never changes) and `NothingDecidedLate`.

Its last part is the refinement `ImplementsGateHolds`. `ApprovalGate` has no
actors, locks or clock: a change is parked, approved or closed, and an approved
one takes effect in one step, as it was parked. An effect of the service is the
n-th run of a payload for a request, so that a second run, or a run with another
payload, would be an effect nobody parked. An insertion maps to `Park`, a grant
to `Approve`, a rejection, a withdrawal and a whole sweep to `Close`, the commit
of a consumption to `Apply`; taking the lock, an abort and the clock are
stutters.

`AwardApproval_proofs`. Its first part is about `RfqSessions`: `TypeCorrect`, and from the invariant `Inv` (types,
`LocksExclude`, the inserted row of a session belongs to its RFQ, the winners a
session holds are committed quotes of its RFQ or its legs, contracts cite
committed quotes): `LocksExcludeHolds` and `EvidenceKeptHolds`, which are stated
by theorems only, and `RankingStableHolds` and `SpreadBooksOpenLegsHolds`. The
last two need the middle conjuncts: a quote that commits is on another RFQ than
the locked one only because a session's row belongs to the RFQ it locks.

The second part is about what a commit does to decisions of others, and has the
hypothesis `CommitsFresh`: when a session commits, the state, parents, counts and
ranking it decided on are what it would read now (`Fresh`). It is an assumption on
the behaviour and not on the deployment: any number of sessions may overlap, load,
wait, abort and commit, on any RFQs, spreads and quotes. The code does not ensure
it, and `rfq_double_award` is what happens then; the theorems say that nothing else
is missing. Session ids and uncommitted rows of other sessions are still in the
way, so the invariant `SoundInv` speaks of every session: what it has loaded is
typed and plausible whatever has been committed since (`Loaded`), the ids of
quotes in flight are apart from each other and from those on record (`IdsApart`),
quote ids are unique and only quotes are rejected (`IdsUnique`), and a booked
trade is closed (`BookedIsClosed`). At a commit, `Fresh` turns `Loaded` into the
view that the decision needs (`FreshView`, `View`). `OneContractPerTradeHolds` then
needs `BookedIsClosed` and, for the two contracts of one award, that rankings are
strict (`WinnersUnique`: the head of a trade ranking is one quote, that of a spread
ranking one pair, whose quotes are on different legs). `QuotedHasActiveQuoteHolds`
needs unique ids: a rejection must hide one quote only. `TrailConnectedHolds`,
`ClosedIsFinalHolds` and `AwardsBestOfferHolds` follow from `View`.

The third part is about the gate. `GateRefinesLifecycle` shows that the composition
implements `RfqSessions`, so that the theorems above hold behind the gate too.
`ApprovalSpentOnceHolds`, for any number of sessions, rests on `GateInv`: a held
approval is approved and has one holder, and an id given out stays in use.
`GateView` adds, of every session, that the ranking its award was admitted on
(`basis`) is the approval's snapshot or, without an approval, within the
threshold; with `CommitsFresh` that is the ranking it books (`BooksFresh`):
`BookedAsApprovedHolds` and `UnapprovedStaysBelowThresholdHolds`.

The last part, again with `CommitsFresh`, shows that the award behind the gate
implements `ApprovalGate` too (`AwardImplementsGate`): the effects are the quotes
that contracts are booked on, an award that books is `Apply` of the approval it
holds or, when it holds none, `Pass` of quotes within the threshold, one for each
trade of the RFQ (`WinnersCover`). This is what ties the two modules together: the
approvals of `AwardApproval` and the rows of `WorkflowApproval` have their life
from one specification. `EveryBookingWarranted` is then proved on the steps of
the abstract gate alone (`WarrantStep`): every quote on record as booked was in
the snapshot of a consumed request, or was booked within the threshold.

`RfqRanking_proofs`. That the code computes what `RfqQuotes` declares, for any
finite set of quotes. Python's `sorted` is the operator `Sorted`, some listing in
which nothing precedes a smaller element; that there is one is `SortExists` (an
element's place is the number of smaller ones). The loop is `FoldLeft`, whose
recursion is shown to define a function (`FoldIsGraph`, `ScanUnique`,
`ScanExists`). `ScanState` is the loop invariant, proved for every prefix by a
smallest counterexample: after k quotes the last quote of each counterparty that
is done with has been filed and the k-th quote is the best so far.
`SelectFindsLatest` and `ScanFindsLatestHolds` follow. The rankers compare the
number of distinct values with the number of entries to find a tie (`TieTest`, a
surjection between finite sets that loses nothing); without one the order is
strict and its head is the declared winner (`RankedHead`, `OutcomeSound`), for
trades (`TradeRankingSoundHolds`) and, with the value of a pair of quotes for the
price, for spreads (`SpreadRankingSoundHolds`). The invariant is small, `RankInv`:
the table is a finite set of quotes with unique ids. `RfqSessions` takes its
winners from the declarations, so these theorems stand under those about awards.

`Compliance_proofs`. A request that loaded a row without a lock writes its columns
over whatever the row has become, so each invariant about rows needs a twin about
the columns in flight, `PendingSound`: a status a request is about to write is
that of the log entry it appends, an adjudication in flight still answers the
last entry, an approval in flight rests on a clearance that stays in the log. With
it `StatusHasEvidenceHolds`, `OneAnswerPerHitHolds` and
`TrustRestsOnClearanceHolds` are inductive.

`Portfolio_proofs`, on `HedgeBook`. First come sums: how `SumFunctionOnSet` changes
with one summand or with the set of summands, by a minimal counterexample on the
set. `HedgeInv` then says that a request refers to rows that exist
(`RequestsSound`), that row locks have one holder (`LocksExclude`), that what was
checked under a lock still holds at the commit (`ChecksStillHold`: nobody else
links to the locked order or contract, and a resize that would undercut the sum
is refused by the trigger), that no linkage precedes its rows, and that a contract
with cash is at the end of its life whatever stale request still names it. From it
follow `CapacityHeldHolds`, `CashRetiresHedgeHolds` and
`ImplementsAllocationHolds`: the book implements `Allocation`, action by action
(a link, a booking, a resize and a closing are one step each, the loads are
stutters).

`Portfolio_proofs`, on `Portfolio` and `Valuation`. More lemmas on sums, now over integers: a sum splits over a
partition (`SumSplit`), ignores zero summands (`SumDropZeros`) and changes sign
with its summands (`SumOpposite`). `PortfolioInv` says that the target of every
deal link is on record (`TargetsExist`), that an absent contract has no linkage
(`BookSound`), that an exposure row belongs to a floating order and, while
`synced`, has the tonnes the book gives (`ExposedFloat`, `SyncedRows`), and the
properties `NoTaskForRetired` and `DealTotalsFresh` themselves, which need the
former to be inductive. Its last conjunct, `SnapshotsSound`, is about a snapshot
alone and no step disturbs it: its figure is the sum over its link rows and `seen`
tonnes at some prices that agree with the hashed ones. `ReusedPnlIsCurrentHolds`
then rests on `PricesDecide`: the prices in the hash determine the sum, rows with
nothing open needing none (`NothingOpen`), so equal hashes at different times give
the sum at the prices of now. `NetExposuresAgreeHolds` shows that the rows the
engine leaves out are wholly hedged, so their summands are zero. `ViewsAgreeHolds`
proves the four parts of `ViewsAgree` one by one; the breakdown is the sum of the
P&L split into sales, purchases and hedges, and the projection is compared
instrument by instrument, under its date guards (`ProjectedWorth`,
`ProjectedWhenDue`).

`InboundPipeline_proofs`. `ActiveIsExactHolds` is proved for any number of
processes, threads and messages and any length of the queue, from the invariant
that a marker stands for exactly one entry of the deque or one worker
(`MarkersExact`). `QuoteHasConsumedMessageHolds`, `OneQuotePerMessageHolds` and
`ConsumedIsFinalHolds` rest on `Exclusive`: no two threads, of whatever processes,
are past the claim of one message, so that a worker has a row nobody else finishes
(`OwnsRow`, `RowsUnderExclusion`). `ClaimsExclude` proves `Exclusive` for any number
of processes, as the UPDATE of the claim takes a row that is not in processing
(`Holding`), from two assumptions on the behaviour: a row whose attempt is alive
does not pass the 15-minute cutoff (`Timely`), and no thread goes on after its
claim matched nothing (`ClaimedOnly`). The code ensures neither for several
processes, see the observations; in a single one the active set excludes without
them (`OneProcessIsEnough`), which covers the instance of the run. Threads,
messages, redeliveries, exceptions and crashes remain arbitrary.

`FinancePipeline_proofs`. The recursive function `WalkBack`, the loop of the price
look-up over weekends and holidays, is shown to be the last business day before a
date, for every calendar (existence of the function by an explicit witness,
equality by a minimal counterexample). `RunInv` says that one worker holds the
run (`OneHolder`), that its session's view of the run is the committed one plus
its own steps (`HolderView`), and what each completed step has covered of the
contracts in its scope (`Coverage`, `ScopesBooked`); contracts are booked at any
time. `ClosedDayIsFinalHolds` rests on `HolderView`: a worker that waited
for the row reads it again before it decides. `SnapshotsProvableHolds` and
`ClosedDayCoveredHolds` complete it.

`Outbox_proofs`. A row is owed while a batch holds it. `ObInv` says that a row is
owed in one place only (`SentOnce`), and for each purpose and recipient that what
was accepted plus what is owed is at most the number of rows, while the rows that
say or are about to say `sent` are at most what was accepted (`Counts`); that every
failure, written or in a session, is excused, by a fault or by a number that the
provider in use cannot reach (`Excuses`, `WrongNumber`; the lemma `Unreachable`
shows that the sandbox's rewriting of a number is undone by the retry); and that create's
request is alone with its rows (`Phases`). `EvidenceBeforeWire` and
`RecordsAreTrue` are not inductive alone: after a checkpoint the row is there and
the message is not, and after a send the outcome is in a session that a crash may
end. The theorems are `EvidenceBeforeWireHolds` and `RecordsAreTrueHolds`.

Only model-checked: the liveness properties (`QueueDrains`, `EveryRowSettles`),
which are out of the prover's reach. Every safety property that a passing run
checks is stated by a theorem. The refinements of `ApprovalGate`, and
`EveryBookingWarranted`, are stated by theorems only.

## 5. Not modelled, and the plan

Left out: authentication, pagination, web sockets, logging and metrics (no domain
state); the HTTP clients and scrapers (pure I/O; every answer is taken); message
texts, RFQ previews and tenor arithmetic (no property of the state rests on
them); decimal rounding; the signing of audit events; MTM snapshots (write-once
rows of the same shape as P&L snapshots); the provider's delivery receipts; the
executors `deal_create` and `hedge_contract_settle` of an approval, whose services
are modelled without the gate; several processes of the inbound pipeline (the
module and its theorems have them, the run does not); and the frontend.

Next: compose the executors `deal_create` and `hedge_contract_settle` with the
gate, and prove that they implement `ApprovalGate` as well.
