------------------------------ MODULE Valuation -----------------------------
(***************************************************************************)
(* The read views of the book: mark-to-market of contracts and orders      *)
(* (services/mtm_contract_service.py, mtm_order_service.py), the cashflow  *)
(* analytic and projection, the P&L breakdown of deals, and the what-if    *)
(* scenario, which recomputes exposure and cashflow over a hypothetical    *)
(* book (services/scenario_whatif_service.py).  Nothing here writes: every *)
(* operator is a function of the state of Portfolio.                       *)
(***************************************************************************)
EXTENDS Portfolio

CONSTANTS
  AsOf,     \* the date the views are asked for
  DueDates  \* the settlement dates orders and contracts may have, 0 standing for none

ASSUME ValuationConstants ==
  /\ AsOf \in Nat \ {0}
  /\ DueDates \subseteq [Orders \cup Contracts -> Nat]

-----------------------------------------------------------------------------
(* Mark-to-market, which takes no account of the side of the position.     *)

MtmOfContract(c) == contracts[c].qty * (price[Commodity[c]] - EntryPrice[c])

MtmOfOrder(o) == OrderQty[o] * (price[Commodity[o]] - EntryPrice[o])

\* The quotes that the views ask for are all there; otherwise they fail.
Provable == \A k \in Commodities: price[k] # 0

Floating(given) == {o \in given: PriceType[o] = "variable"}

\* compute_cashflow_analytic: archived orders and deleted contracts included.
AnalyticCash ==
  SumFunctionOnSet([c \in Contracts |-> MtmOfContract(c)],
                   {c \in Contracts: contracts[c].status = "active"})
    + SumFunctionOnSet([o \in Orders |-> MtmOfOrder(o)],
                       Floating({o \in Orders: orders[o] # "absent"}))

\* compute_cashflow_projection: an order without a date, or with one in the past,
\* is passed over.
ProjectedOrders(due) == {o \in Orders: LiveOrder(o) /\ due[o] # 0 /\ due[o] >= AsOf}

HedgesOnRecord == {c \in Contracts: contracts[c].status # "absent" /\ ~contracts[c].deleted}

\* A hedge with a date in the past is passed over, one without a date is refused.
OpenHedges == {c \in Contracts: OpenForMtm(c) /\ ~contracts[c].deleted}

ProjectedHedges(due) == {c \in OpenHedges: due[c] >= AsOf}

\* The projection fails on an open hedge without a date, whatever its deal, and on
\* a missing quote of anything it projects.
Projectable(due) ==
  /\ \A c \in OpenHedges: due[c] # 0
  /\ \A o \in ProjectedOrders(due): PriceType[o] = "variable" => price[Commodity[o]] # 0
  /\ \A c \in ProjectedHedges(due): price[Commodity[c]] # 0

ProjectedOrder(o) ==
  LET unit == IF PriceType[o] = "fixed" THEN EntryPrice[o] ELSE price[Commodity[o]]
  IN  IF OrderType[o] = "SO" THEN OrderQty[o] * unit ELSE -(OrderQty[o] * unit)

\* By the side of the fixed leg.
ProjectedHedge(c) ==
  IF Classification[c] = "long"
  THEN contracts[c].qty * (price[Commodity[c]] - EntryPrice[c])
  ELSE contracts[c].qty * (EntryPrice[c] - price[Commodity[c]])

\* What the projection has for an order or a contract: 0 when it has no item.
Projected(x, due) ==
  IF x \in ProjectedOrders(due) THEN ProjectedOrder(x)
  ELSE IF x \in ProjectedHedges(due) THEN ProjectedHedge(x)
  ELSE 0

-----------------------------------------------------------------------------
(* compute_pnl_breakdown of a deal.                                        *)

\* The sum of the physical lines of one type of link.
PhysicalLines(d, type) ==
  LET lines == {l \in LiveRows(d, dealLinks, orders, contracts): l.type = type}
  IN  SumFunctionOnSet(
        [l \in lines |-> OrderQty[l.id] * (IF PriceType[l.id] = "variable"
                                           THEN price[Commodity[l.id]] ELSE EntryPrice[l.id])],
        lines)

\* The financial lines: those of closed contracts are shown with zero.
FinancialLines(d) ==
  LET lines == {l \in LiveRows(d, dealLinks, orders, contracts):
                  l.type \in HedgeTypes /\ OpenForMtm(l.id)}
  IN  SumFunctionOnSet(
        [l \in lines |-> IF Classification[l.id] = "short"
                         THEN contracts[l.id].qty * (EntryPrice[l.id] - price[Commodity[l.id]])
                         ELSE contracts[l.id].qty * (price[Commodity[l.id]] - EntryPrice[l.id])],
        lines)

Breakdown(d) ==
  PhysicalLines(d, "sales_order") - PhysicalLines(d, "purchase_order") + FinancialLines(d)

-----------------------------------------------------------------------------
(* run_what_if.                                                            *)

\* An AddUnlinkedHedgeContractDelta: no id of a contract on record, deleted or not.
Virtual(c, q) ==
  [id |-> c, commodity |-> Commodity[c], short |-> Classification[c] = "short", qty |-> q]

NewIds == {c \in Contracts: contracts[c].status = "absent"}

\* _load_orders: every live order; the exposure functions pick the floating ones.
ScenarioOrders == {o \in Orders: LiveOrder(o)}

AllOnRecord == {c \in Contracts: contracts[c].status # "absent"}

\* _load_exposure_contracts; the P&L part of the scenario takes all contracts.
ExposureContracts == {c \in Contracts: LiveContract(c)}

WhatIfNet(k, qty, virtual) == GlobalNet(k, ScenarioOrders, qty, ExposureContracts, virtual)

\* The cashflow part: active contracts, deleted ones included, and floating orders.
WhatIfCash(qty, virtual) ==
  SumFunctionOnSet([c \in Contracts |-> MtmOfContract(c)],
                   {c \in Contracts: contracts[c].status = "active"})
    + SumFunctionOnSet([v \in virtual |-> v.qty * (price[v.commodity] - EntryPrice[v.id])],
                       virtual)
    + SumFunctionOnSet([o \in Orders |-> qty[o] * (price[Commodity[o]] - EntryPrice[o])],
                       Floating(ScenarioOrders))

\* The P&L part, over every contract, deleted ones included: the settlements
\* that realize it, and the unrealized part.
WhatIfPl(c) ==
  [realized |-> {e \in Events: ledger[e] = c},
   unrealized |-> IF contracts[c].status = "active" THEN MtmOfContract(c) ELSE 0]

\* compute_pl, which refuses a cancelled contract.
Pl(c) ==
  [realized |-> {e \in Events: ledger[e] = c},
   unrealized |-> IF OpenForMtm(c) THEN MtmOfContract(c) ELSE 0]

-----------------------------------------------------------------------------
(* Properties.                                                             *)

\* A what-if without deltas is the present: the exposure of the live endpoint,
\* the P&L of each contract and, as long as no floating order is archived, the
\* live cashflow analytic.
WhatIfOfNothing ==
  /\ \A k \in Commodities: WhatIfNet(k, OrderQty, {}) = SnapshotNet(k)
  /\ Provable /\ (\A o \in Floating(Orders): orders[o] # "archived") =>
       WhatIfCash(OrderQty, {}) = AnalyticCash
  /\ \A c \in AllOnRecord: Provable /\ contracts[c].status # "cancelled" =>
       WhatIfPl(c) = Pl(c)

\* A hypothetical hedge moves the exposure as booking it would.
WhatIfPredicts ==
  \A k \in Commodities, c \in NewIds, q \in 1..MaxQty:
    WhatIfNet(k, OrderQty, {Virtual(c, q)}) - SnapshotNet(k) =
      IF Commodity[c] = k THEN Sign(Classification[c] = "short") * q ELSE 0

\* A row of the type of its order: nothing keeps a request from linking a purchase
\* as a sale.
TypedRight(l) ==
  l.type \in OrderTypes =>
    l.type = (IF OrderType[l.id] = "SO" THEN "sales_order" ELSE "purchase_order")

\* One instrument has one value: whatever is live in a deal and falls due from AsOf
\* on is projected at what the P&L of the deal counts for it, and not projected
\* when that is nothing because the hedge is closed.  Where all of a deal falls due
\* so, the projection does not go through without the quotes that the P&L needs.
ProjectionMatchesPnl ==
  \A due \in {f \in DueDates: Projectable(f)}:
    /\ \A l \in dealLinks: IsLive(l, orders, contracts) /\ TypedRight(l) /\ due[l.id] >= AsOf =>
         Projected(l.id, due) = IF l.type \in OrderTypes THEN OrderValue(l) ELSE Mtm(l.id)
    /\ \A d \in Deals:
         (\A l \in LiveRows(d, dealLinks, orders, contracts): due[l.id] >= AsOf) =>
           \A k \in NeedsPrice(d): price[k] # 0

\* The four read views that are computed by code of their own tell the same story
\* about the same book, after any sequence of bookings, archivings, settlements
\* and price moves (scenario_whatif_service.py, cashflow_projection_service.py,
\* cashflow_analytic_service.py, compute_pnl_breakdown against compute_deal_pnl).
ViewsAgree ==
  /\ WhatIfOfNothing
  /\ WhatIfPredicts
  /\ ProjectionMatchesPnl
  /\ \A d \in Deals: Provable => Breakdown(d) = TotalPnl(d)
=============================================================================
