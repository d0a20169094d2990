--------------------------- MODULE FinancePipeline ---------------------------
(***************************************************************************)
(* The daily finance pipeline, services/finance_pipeline_service.py, for   *)
(* one run date, on top of the stored prices of MarketData.  A worker is   *)
(* the scheduled task or a request of POST /finance-pipeline/run.          *)
(*                                                                         *)
(* A run is ONE transaction: every step only flushes, and the commit is at *)
(* the end.  Other sessions see nothing of a run in progress, so the       *)
(* status `running` is never committed and the workers exclude each other  *)
(* by the unique constraint on run_date (a first run) or the row lock of   *)
(* the UPDATE that reopens a partial run.  The steps are read after that   *)
(* UPDATE.  Queries of one transaction see what others commit in between   *)
(* (READ COMMITTED).                                                       *)
(*                                                                         *)
(* Meanwhile contracts are booked, settled and amended, and POST           *)
(* /pl/snapshots and POST /cashflow/baseline/snapshots write the very rows *)
(* the run writes.                                                         *)
(***************************************************************************)
EXTENDS MarketData

CONSTANTS
  RunDate,     \* the run_date
  Contracts,   \* hedge contracts, in the order of created_at
  Opening,     \* those already booked at the beginning
  Floating,    \* whether an order with a floating price exists
  Workers      \* the scheduled task and requests

ASSUME FinanceConstants ==
  /\ RunDate \in Nat \ {0} /\ Opening \subseteq Contracts /\ Contracts \subseteq Nat
  /\ Floating \in BOOLEAN

VARIABLES
  book,     \* each contract: its status (none: not booked yet) and its terms
  pl,       \* pl_snapshots of the run date, by contract
  base,     \* cashflow_baseline_snapshots of the run date
  run,      \* the row of finance_pipeline_runs with its steps and flags
  wk,       \* the transaction of each worker
  poster    \* a request of one of the two snapshot routes

finVars == <<book, pl, base, run, wk, poster>>
priceVars == <<page, table, ingest, breaker>>
vars == <<mdVars, finVars>>

-----------------------------------------------------------------------------
None == [kind |-> "none"]

\* An active contract that is settled gets its entry in the cashflow ledger
\* in the same commit, so the ledger holds the contracts no longer active.
Active == {c \in Contracts : book[c].status = "active"}

Booked == {c \in Contracts : book[c].status # "none"}

Ledger == Booked \ Active

\* PIPELINE_STEPS: market_snapshot, mtm_computation, pl_snapshot,
\* cashflow_baseline, risk_flags, summary.  They complete in this order.
Steps == 6

\* The run with the steps it has done and its flags; the contracts that were
\* booked when pl_snapshot was last started (started_at of that step); and how
\* often the run was closed, each time with new timestamps and audit events.
NoRun == [status |-> "none", done |-> 0, flags |-> {}, scope |-> {}, closings |-> 0]

NoTerms == [c \in Contracts |-> 0]

NoWork == [pc |-> "idle", found |-> FALSE, run |-> NoRun, todo |-> {}, terms |-> NoTerms,
           val |-> None, pl |-> [c \in Contracts |-> None], base |-> None]

NoPost == [pc |-> "idle", val |-> None]

Missing(c) == <<"missing_mtm_price", c>>

\* A snapshot of a contract: whether its settlement is in the realized part,
\* the price and the terms behind the unrealized part (both 0: settled).
PlValue(c, realized, terms) ==
  [kind |-> "pl", of |-> c, realized |-> realized,
   price |-> IF terms # 0 THEN PriceD1(RunDate) ELSE 0, terms |-> terms]

\* The terms of the contracts as the books have them now, 0 unless active.
Terms == [c \in Contracts |-> IF book[c].status = "active" THEN book[c].terms ELSE 0]

BaseValue(items, entries) == [kind |-> "baseline", items |-> items, entries |-> entries]

\* _build_unrealized_items
Unrealized == [c \in Active |-> <<PriceD1(RunDate), book[c].terms>>]

FinInit ==
  /\ book = [c \in Contracts |->
               [status |-> IF c \in Opening THEN "active" ELSE "none", terms |-> 1]]
  /\ pl = [c \in Contracts |-> None]
  /\ base = None
  /\ run = NoRun
  /\ wk = [w \in Workers |-> NoWork]
  /\ poster = NoPost

-----------------------------------------------------------------------------
(* The book and the snapshot routes.                                       *)

\* An award or a manual booking commits a new contract.
Book(c) ==
  /\ book[c].status = "none"
  /\ book' = [book EXCEPT ![c].status = "active"]
  /\ UNCHANGED <<pl, base, run, wk, poster>>

Settle(c) ==
  /\ book[c].status = "active" /\ Disturb
  /\ book' = [book EXCEPT ![c].status = "settled"]
  /\ UNCHANGED <<pl, base, run, wk, poster>>

Amend(c) ==
  /\ book[c].status = "active" /\ Disturb
  /\ book' = [book EXCEPT ![c].terms = @ + 1]
  /\ UNCHANGED <<pl, base, run, wk, poster>>

\* compute_pl reads the ledger first ...
PostPlLoad(c) ==
  /\ poster.pc = "idle" /\ c \in Booked /\ pl[c] = None
  /\ Disturb
  /\ poster' = [pc |-> "pl", val |-> PlValue(c, c \in Ledger, book[c].terms)]
  /\ UNCHANGED <<book, pl, base, run, wk>>

\* ... then the contract and the price, and inserts.  A row of an open run
\* makes the insert wait for that run; a row committed since makes it fail.
PostPl ==
  /\ poster.pc = "pl"
  /\ LET c == poster.val.of
         v == PlValue(c, poster.val.realized, Terms[c])
     IN  /\ \A w \in Workers : wk[w].pl[c] = None
         /\ pl' = IF pl[c] # None \/ (c \in Active /\ v.price = 0) THEN pl
                  ELSE [pl EXCEPT ![c] = v]
  /\ poster' = NoPost
  /\ UNCHANGED <<book, base, run, wk>>

\* create_cashflow_baseline_snapshot: the open contracts, then the ledger.
PostBaseLoad ==
  /\ poster.pc = "idle" /\ base = None
  /\ PriceD1(RunDate) # 0 \/ (Active = {} /\ ~Floating)
  /\ Disturb
  /\ poster' = [pc |-> "base", val |-> BaseValue(Unrealized, {})]
  /\ UNCHANGED <<book, pl, base, run, wk>>

PostBase ==
  /\ poster.pc = "base"
  /\ \A w \in Workers : wk[w].base = None
  /\ base' = IF base # None THEN base ELSE [poster.val EXCEPT !.entries = Ledger]
  /\ poster' = NoPost
  /\ UNCHANGED <<book, pl, run, wk>>

-----------------------------------------------------------------------------
(* A run.                                                                  *)

\* Whether a worker has the row of the run locked.
Holds(w) == wk[w].pc \notin {"idle", "wait"}

\* The open transaction of w as the next state of the worker.
Work(w, work) == wk' = [wk EXCEPT ![w] = work]

\* The first SELECT.  A completed run is returned as it is; a date that is no
\* business day is skipped.
Enter(w) ==
  /\ wk[w].pc = "idle" /\ IsBusinessDay(RunDate)
  /\ run.status # "completed"
  /\ Work(w, [NoWork EXCEPT !.pc = "wait", !.run = run])
  /\ UNCHANGED <<book, pl, base, run, poster>>

LockStaleSteps(w) ==
  /\ wk[w].pc = "wait"
  /\ \A v \in Workers : ~Holds(v)
  /\ Work(w, IF wk[w].run.status = "none" /\ run.status # "none" THEN NoWork
             ELSE [wk[w] EXCEPT !.pc = "step"])
  /\ UNCHANGED <<book, pl, base, run, poster>>

\* The INSERT or the UPDATE of the run's row, which waits for an open run.
\* An INSERT that finds a row meanwhile committed gives the run up; an UPDATE
\* goes on with the steps as they are now.
Lock(w) ==
  /\ wk[w].pc = "wait"
  /\ \A v \in Workers : ~Holds(v)
  /\ Work(w, IF wk[w].run.status = "none" /\ run.status # "none" THEN NoWork
             ELSE [wk[w] EXCEPT !.pc = "step", !.run = run])
  /\ UNCHANGED <<book, pl, base, run, poster>>

Stepping(w, n) == wk[w].pc = "step" /\ wk[w].run.done = n - 1

\* The step that is executed completes, with the flags it has written.
StepDone(work, flags) ==
  [work EXCEPT !.pc = "step", !.todo = {}, !.terms = NoTerms, !.val = None,
               !.run.done = @ + 1, !.run.flags = @ \cup flags]

StepFailedCounted(work) == [work EXCEPT !.pc = "commit", !.run.status = "partial",
                                        !.run.done = @ + 1]

\* It raises: the step is failed, the run partial, the rest is not executed.
StepFailed(work) == [work EXCEPT !.pc = "commit", !.run.status = "partial"]

\* pl_snapshot is started, on the contracts that are booked now.
Started(work) == IF work.run.done = 2 THEN [work EXCEPT !.run.scope = Booked] ELSE work

\* _active_contracts at the beginning of the two loops over contracts, which
\* go on with the instances loaded here.  The first step, market_snapshot,
\* only counts prices: it comes with the second.
Begin(w) ==
  /\ wk[w].pc = "step" /\ wk[w].run.done \in 0 .. 2
  /\ LET work == IF wk[w].run.done = 0 THEN StepDone(wk[w], {}) ELSE Started(wk[w])
     IN  Work(w, IF Active = {} THEN StepDone(work, {})
                 ELSE [work EXCEPT !.pc = "loop", !.todo = Active, !.terms = Terms])
  /\ UNCHANGED <<book, pl, base, run, poster>>

\* The loop is through with a contract, leaving the flags behind.
Next1(work, flags) ==
  LET rest == work.todo \ {Min(work.todo)}
      w2   == [work EXCEPT !.pc = "loop", !.todo = rest, !.val = None, !.run.flags = @ \cup flags]
  IN  IF rest = {} THEN StepDone(w2, {}) ELSE w2

\* compute_mtm_for_contract on a contract the session has loaded as active:
\* what can fail is the price.
Mtm(w) ==
  /\ wk[w].pc = "loop" /\ wk[w].run.done = 1
  /\ Work(w, Next1(wk[w], IF PriceD1(RunDate) = 0 THEN {Missing(Min(wk[w].todo))} ELSE {}))
  /\ UNCHANGED <<book, pl, base, run, poster>>

\* create_pl_snapshot up to its look for an existing row.  The ledger is read
\* now; the contract is the one the session loaded for the loop, as active
\* and with the terms it had then.
PlLoad(w) ==
  /\ wk[w].pc = "loop" /\ wk[w].run.done = 2
  /\ LET c == Min(wk[w].todo)
         v == PlValue(c, c \in Ledger, wk[w].terms[c])
     IN  Work(w, IF v.price = 0 THEN Next1(wk[w], {Missing(c)})
                 ELSE IF pl[c] = None THEN [wk[w] EXCEPT !.pc = "flush", !.val = v]
                 ELSE IF pl[c] = v THEN Next1(wk[w], {})
                 ELSE StepFailed(wk[w]))
  /\ UNCHANGED <<book, pl, base, run, poster>>

\* The unrealized items of the baseline.  Without the price the first
\* contract raises PriceProvenanceMissing, which completes the step with
\* nothing written; an order raises what fails it.
BaselineLoad(w) ==
  /\ Stepping(w, 4)
  /\ Work(w, IF PriceD1(RunDate) = 0 /\ Active # {} THEN StepDone(wk[w], {})
             ELSE IF PriceD1(RunDate) = 0 /\ Floating THEN StepFailed(wk[w])
             ELSE [wk[w] EXCEPT !.pc = "ledger", !.found = base # None,
                                !.val = BaseValue(Unrealized, {})])
  /\ UNCHANGED <<book, pl, base, run, poster>>

\* The ledger, and the comparison with the row that was found before.
BaselineLedger(w) ==
  /\ wk[w].pc = "ledger"
  /\ LET v == [wk[w].val EXCEPT !.entries = Ledger]
     IN  Work(w, IF ~wk[w].found THEN [wk[w] EXCEPT !.pc = "flush", !.val = v]
                 ELSE IF base = v THEN StepDone(wk[w], {})
                 ELSE StepFailed(wk[w]))
  /\ UNCHANGED <<book, pl, base, run, poster>>

\* The INSERT of a snapshot.  A row that a route has committed since violates
\* the unique constraint; the handler's own flush then fails on the broken
\* session, and the whole run is rolled back.
Flush(w) ==
  /\ wk[w].pc = "flush"
  /\ LET v == wk[w].val
         there == IF v.kind = "pl" THEN pl[v.of] # None ELSE base # None
     IN  Work(w, IF there THEN NoWork
                 ELSE IF v.kind = "pl" THEN Next1([wk[w] EXCEPT !.pl[v.of] = v], {})
                 ELSE StepDone([wk[w] EXCEPT !.base = v], {}))
  /\ UNCHANGED <<book, pl, base, run, poster>>

\* _step_risk_flags: the contracts without a price, and what the queries for
\* exposures, counterparties and approvals find.
RiskFlags(w) ==
  /\ Stepping(w, 5)
  /\ \E other \in {{}, {<<"other", 0>>}} :
       Work(w, StepDone(wk[w],
                 other \cup (IF PriceD1(RunDate) = 0 THEN {Missing(c) : c \in Active} ELSE {})))
  /\ UNCHANGED <<book, pl, base, run, poster>>

\* The last step, summary, adds up the records the others have processed;
\* then the run is completed.  A failed step has ended it before.  A run that
\* a worker found completed only after waiting for its row is closed again.
Final(work) ==
  IF work.pc = "step"
  THEN [work.run EXCEPT !.status = "completed", !.done = Steps, !.closings = @ + 1]
  ELSE work.run

Commit(w) ==
  /\ wk[w].pc = "commit" \/ (wk[w].pc = "step" /\ wk[w].run.done \in {5, Steps})
  /\ run' = Final(wk[w])
  /\ pl' = [c \in Contracts |-> IF wk[w].pl[c] # None THEN wk[w].pl[c] ELSE pl[c]]
  /\ base' = IF wk[w].base # None THEN wk[w].base ELSE base
  /\ Work(w, NoWork)
  /\ UNCHANGED <<book, poster>>

\* The process dies or loses its connection: nothing of the run remains.
Crash(w) ==
  /\ Holds(w) /\ Disturb
  /\ Work(w, NoWork)
  /\ UNCHANGED <<book, pl, base, run, poster>>

Executing(w) ==
  \/ Begin(w) \/ Mtm(w) \/ PlLoad(w)
  \/ BaselineLoad(w) \/ BaselineLedger(w) \/ Flush(w)
  \/ RiskFlags(w) \/ Commit(w)

Disturbance ==
  \/ \E c \in Contracts : Settle(c) \/ Amend(c) \/ PostPlLoad(c)
  \/ PostBaseLoad
  \/ \E w \in Workers : Crash(w)

Progress ==
  \/ PostPl \/ PostBase
  \/ \E c \in Contracts : Book(c)
  \/ \E w \in Workers : Enter(w) \/ Lock(w) \/ Executing(w)

FinanceInit == MdInit /\ FinInit

FinanceNext ==
  \/ MdNext /\ UNCHANGED finVars
  \/ Disturbance /\ UNCHANGED priceVars
  \/ Progress /\ UNCHANGED mdVars

FinanceSpec == FinanceInit /\ [][FinanceNext]_vars

-----------------------------------------------------------------------------
\* The last business day before the run date, as a definition.
DayBefore == Max({0} \cup {d \in 0 .. RunDate - 1 : IsBusinessDay(d)})

\* A P&L snapshot names its price, and that price can be shown for ever after:
\* it is the stored settlement of the business day before, never an older one,
\* whatever is ingested, corrected or replayed (pl_snapshot_service.py,
\* price_lookup_service.py, cash_settlement_prices.py).
SnapshotsProvable ==
  \A c \in Contracts :
    pl[c] # None /\ pl[c].price # 0 => DayBefore \in Days /\ pl[c].price = table[DayBefore]

\* A completed run closes the day: every contract that was booked when its
\* pl_snapshot step was started and is still active has a P&L snapshot or a
\* flag that its price is missing, also when the run was resumed after a failed
\* step or a crash, and whatever was booked, settled or posted in between
\* (run_daily_pipeline).  A contract booked after that step gets neither.
ClosedDayCovered ==
  run.status = "completed" =>
    \A c \in Active \cap run.scope : pl[c] # None \/ Missing(c) \in run.flags

\* A completed run keeps its status, its steps, its flags and its scope,
\* although a second worker may have found it partial, waited for its row and
\* closed it once more.
ClosedDayIsFinal ==
  [][run.status = "completed" => run = [run' EXCEPT !.closings = run.closings]]_vars
=============================================================================
