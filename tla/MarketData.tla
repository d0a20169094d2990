----------------------------- MODULE MarketData -----------------------------
(***************************************************************************)
(* Cash-settlement prices: services/westmetall_cash_settlement.py fetches  *)
(* the provider's page behind a circuit breaker, and                       *)
(* services/cash_settlement_prices.py inserts the rows it does not have    *)
(* yet; a row that differs from a stored one aborts the whole batch.       *)
(* services/price_lookup_service.py reads the price of the business day    *)
(* before a date (utils/market_calendar.py).                               *)
(*                                                                         *)
(* An ingester is the scheduled task or a request of the ingest routes.    *)
(* The page is the provider's: it publishes a price for each business day  *)
(* and may correct one afterwards.                                         *)
(***************************************************************************)
EXTENDS Integers, FiniteSetsExt, Functions

CONSTANTS
  Days,            \* settlement dates, as day numbers; day 0 is a Monday
  Holidays,        \* exchange holidays
  Quotes,          \* prices
  Ingesters,       \* the scheduled task and requests of the ingest routes
  Task,            \* the scheduled task
  CbThreshold,     \* CB_FAILURE_THRESHOLD
  MaxEvents        \* bound on disturbances: outages, corrections, ...

ASSUME MarketConstants ==
  /\ Days \subseteq Nat /\ Holidays \subseteq Nat
  /\ Quotes \subseteq Nat \ {0}
  /\ Task \in Ingesters
  /\ CbThreshold \in Nat \ {0}
  /\ MaxEvents \in Nat

VARIABLES
  page,         \* the price the provider shows for each day, 0 for none
  table,        \* cash_settlement_prices: the price of each day, 0 for none
  ingest,       \* the rows each ingester is working on
  breaker,      \* failures in a row and whether the circuit is open
  events        \* disturbances so far

mdVars == <<page, table, ingest, breaker, events>>

-----------------------------------------------------------------------------
(* The calendar.                                                           *)

IsBusinessDay(d) == d % 7 < 5 /\ d \notin Holidays

\* The loop of _prior_business_day, from the day before the price date.
WalkBack[d \in Nat] == IF d = 0 \/ IsBusinessDay(d) THEN d ELSE WalkBack[d - 1]

PriorBusinessDay(d) == WalkBack[d - 1]

\* get_cash_settlement_price_d1_with_provenance: 0 when it is unprovable.
PriceD1(d) ==
  IF PriorBusinessDay(d) \in Days THEN table[PriorBusinessDay(d)] ELSE 0

-----------------------------------------------------------------------------
NoBatch == [pc |-> "idle", rows |-> << >>]

MdInit ==
  /\ page = [d \in Days |-> 0]
  /\ table = [d \in Days |-> 0]
  /\ ingest = [i \in Ingesters |-> NoBatch]
  /\ breaker = [failures |-> 0, open |-> FALSE]
  /\ events = 0

Disturb == events < MaxEvents /\ events' = events + 1

Publish(d, q) ==
  /\ IsBusinessDay(d) /\ page[d] = 0
  /\ page' = [page EXCEPT ![d] = q]
  /\ UNCHANGED <<table, ingest, breaker, events>>

Correct(d, q) ==
  /\ page[d] \notin {0, q} /\ Disturb
  /\ page' = [page EXCEPT ![d] = q]
  /\ UNCHANGED <<table, ingest, breaker>>

\* A fetch for the dates in range; a page without any of them ends the ingest.
Fetch(i, range) ==
  /\ ingest[i] = NoBatch /\ ~breaker.open
  /\ breaker' = [failures |-> 0, open |-> FALSE]
  /\ LET found == {d \in range : page[d] # 0}
     IN  ingest' = IF found = {} THEN ingest
                   ELSE [ingest EXCEPT ![i] = [pc |-> "classify", rows |-> Restrict(page, found)]]
  /\ UNCHANGED <<page, table, events>>

\* The task takes all the rows of the page, the bulk route those of a range of
\* dates, the daily route those of one.
FetchByTask == Fetch(Task, Days)

FetchBulk(i, from, to) == i # Task /\ Fetch(i, Days \cap (from .. to))

FetchDaily(i, d) == i # Task /\ Fetch(i, {d})

\* Three attempts have failed; the fifth failure in a row opens the circuit.
FetchFails(i) ==
  /\ ingest[i] = NoBatch /\ ~breaker.open
  /\ Disturb
  /\ LET n == IF breaker.failures < CbThreshold THEN breaker.failures + 1 ELSE CbThreshold
     IN  breaker' = [failures |-> n, open |-> n >= CbThreshold]
  /\ UNCHANGED <<page, table, ingest>>

\* Sixty seconds later.  The count stays: one more failure opens it again.
CoolDown ==
  /\ breaker.open
  /\ breaker' = [breaker EXCEPT !.open = FALSE]
  /\ UNCHANGED <<page, table, ingest, events>>

Stored(rows) == {d \in DOMAIN rows : table[d] # 0}

Mismatch(rows) == \E d \in Stored(rows) : table[d] # rows[d]

ClassifyReplaces(i) ==
  /\ ingest[i].pc = "classify"
  /\ table' = [d \in Days |-> IF d \in DOMAIN ingest[i].rows THEN ingest[i].rows[d] ELSE table[d]]
  /\ ingest' = [ingest EXCEPT ![i] = NoBatch]
  /\ UNCHANGED <<page, breaker, events>>

\* classify_bulk_row_replay of every row against what is stored: a mismatch
\* raises BulkContentMismatch, equal rows are skipped.
Classify(i) ==
  /\ ingest[i].pc = "classify"
  /\ ingest' = [ingest EXCEPT ![i] =
       IF Mismatch(ingest[i].rows) THEN NoBatch
       ELSE [pc |-> "insert",
             rows |-> Restrict(ingest[i].rows, DOMAIN ingest[i].rows \ Stored(ingest[i].rows))]]
  /\ UNCHANGED <<page, table, breaker, events>>

\* The insert and its commit, or a violation of the unique constraint when
\* another ingester has stored one of the dates in the meantime.
Insert(i) ==
  /\ ingest[i].pc = "insert"
  /\ LET rows == ingest[i].rows
     IN  table' = IF Stored(rows) # {} THEN table
                  ELSE [d \in Days |-> IF d \in DOMAIN rows THEN rows[d] ELSE table[d]]
  /\ ingest' = [ingest EXCEPT ![i] = NoBatch]
  /\ UNCHANGED <<page, breaker, events>>

Ingest(i) == Classify(i) \/ Insert(i)

MdNext ==
  \/ \E d \in Days, q \in Quotes : Publish(d, q) \/ Correct(d, q)
  \/ FetchByTask
  \/ \E i \in Ingesters :
       \/ \E from, to \in Days : FetchBulk(i, from, to)
       \/ \E d \in Days : FetchDaily(i, d)
       \/ FetchFails(i)
       \/ Ingest(i)
  \/ CoolDown
=============================================================================
