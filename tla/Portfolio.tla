------------------------------ MODULE Portfolio -----------------------------
(***************************************************************************)
(* What is derived from the hedge book: deals that group orders and        *)
(* hedges (services/deal_engine.py), exposures and hedge tasks             *)
(* (services/exposure_engine.py), exposure snapshots                       *)
(* (services/exposure_service.py) and the P&L snapshots of deals.          *)
(*                                                                         *)
(* The handlers of HedgeBook that end in a deal recompute get it here.     *)
(* Requests are served one at a time here: a request is one step.          *)
(***************************************************************************)
EXTENDS HedgeBook

CONSTANTS
  Deals,         \* ids of deals
  Targets,       \* the (linked_type, linked_id) pairs requests name
  MaxSnapshots,  \* bound on P&L snapshots
  Prices,        \* settlement prices, 0 standing for none provable
  EntryPrice     \* [Orders \cup Contracts -> Nat], avg_entry_price or fixed_price_value

ASSUME PortfolioConstants ==
  /\ Targets \subseteq
       ({"sales_order", "purchase_order"} \X Orders) \cup ({"hedge", "contract"} \X Contracts)
  /\ MaxSnapshots \in Nat
  /\ Prices \subseteq Nat
  /\ EntryPrice \in [Orders \cup Contracts -> Nat]

VARIABLES
  deals,      \* totals and status of each deal's row
  dealLinks,  \* rows of deal_links: deal, type and id
  exposures,  \* the latest exposure row of each order
  pending,    \* orders whose exposure has a pending hedge task
  snapshots,  \* rows of deal_pnl_snapshots over link rows that are still there
  price,      \* the provable D-1 settlement price of each commodity, or 0
  amended,    \* history: deals with a contract amended since their last recompute
  synced      \* history: no change to the order book since the last reconcile

dealVars == <<deals, dealLinks, amended>>
exposureVars == <<exposures, pending, synced>>
pnlVars == <<snapshots, price>>
portfolioVars == <<vars, dealVars, exposureVars, pnlVars>>

Commodities == {Commodity[x]: x \in Orders \cup Contracts}
OrderTypes == {"sales_order", "purchase_order"}
HedgeTypes == {"hedge", "contract"}

DealRows == [made: BOOLEAN, physical: Nat, hedge: Nat,
             status: {"open", "partially_hedged", "fully_hedged"}]

ExposureRows == [state: {"none", "live", "retired"}, open: Nat,
                 status: {"open", "partially_hedged", "fully_hedged"}]

NoExposure == [state |-> "none", open |-> 0, status |-> "open"]

PortfolioInit ==
  /\ HedgeInit
  /\ deals = [d \in Deals |-> [made |-> FALSE, physical |-> 0, hedge |-> 0, status |-> "open"]]
  /\ dealLinks = {}
  /\ exposures = [o \in Orders |-> NoExposure]
  /\ pending = {}
  /\ snapshots = {}
  /\ price \in [Commodities -> Prices]
  /\ amended = {}
  /\ synced = FALSE

-----------------------------------------------------------------------------
(* Deals.                                                                  *)

\* Rounding of Decimal.quantize to hundredths, ROUND_HALF_EVEN.
Hundredths(num, den) ==
  LET twice == 200 * num
      floor == (100 * num) \div den
      above == twice - 2 * den * floor
  IN  IF above > den \/ (above = den /\ floor % 2 = 1) THEN floor + 1 ELSE floor

RowsOf(d, L) == {l \in L: l.deal = d}

\* An archived target stays linked and is passed over.
IsLive(l, O, C) ==
  IF l.type \in OrderTypes THEN O[l.id] = "live"
  ELSE C[l.id].status # "absent" /\ ~C[l.id].deleted

\* _resolve_live_linked_entities.
LiveRows(d, L, O, C) == {l \in RowsOf(d, L): IsLive(l, O, C)}

\* _recompute_tons: cancelled and settled contracts count until they are deleted.
Recomputed(d, L, O, C) ==
  LET live == LiveRows(d, L, O, C)
      inOrders == {l \in live: l.type \in OrderTypes}
      inHedges == {l \in live: l.type \in HedgeTypes}
      physical == SumFunctionOnSet([l \in inOrders |-> OrderQty[l.id]], inOrders)
      hedge == SumFunctionOnSet([l \in inHedges |-> C[l.id].qty], inHedges)
      ratio == IF physical > 0 THEN Hundredths(hedge, physical) ELSE 0
  IN  [made |-> TRUE, physical |-> physical, hedge |-> hedge,
       status |-> IF ratio = 0 THEN "open"
                  ELSE IF ratio < 100 THEN "partially_hedged" ELSE "fully_hedged"]

Linking(x) == {d \in Deals: \E l \in RowsOf(d, dealLinks): l.id = x}

\* recompute_deals_for_linked_entity on the rows this step leaves behind.
RecomputeDealsOf(x) ==
  /\ deals' = [d \in Deals |->
                 IF d \in Linking(x) THEN Recomputed(d, dealLinks, orders', contracts')
                 ELSE deals[d]]
  /\ amended' = amended \ Linking(x)
  /\ UNCHANGED dealLinks

\* A hedge may stand in a deal with orders only beside live orders of its own
\* side, none of fixed price, none smaller than it.
HedgeFits(c, orderRows, O) ==
  LET side == IF Classification[c] = "long" THEN "purchase_order" ELSE "sales_order"
      matching == {l \in orderRows: l.type = side /\ O[l.id] = "live"}
  IN  /\ matching # {}
      /\ \A l \in matching: /\ PriceType[l.id] = "variable"
                            /\ contracts[c].qty <= OrderQty[l.id]

\* _validate_hedge_direction: every live hedge of the deal, once it has order rows.
DirectionValid(d, L, O) ==
  LET orderRows == {l \in RowsOf(d, L): l.type \in OrderTypes}
  IN  orderRows # {} =>
        \A h \in RowsOf(d, L) \ orderRows:
          IsLive(h, O, contracts) => HedgeFits(h.id, orderRows, O)

\* _reject_archived_link_target passes a target that does not exist; requests
\* here name rows that do.
Attachable(t) ==
  /\ IF t[1] \in OrderTypes THEN LiveOrder(t[2])
     ELSE contracts[t[2]].status # "absent" /\ ~contracts[t[2]].deleted
  /\ \A l \in dealLinks: <<l.type, l.id>> # t

NewRow(d, t) == [deal |-> d, type |-> t[1], id |-> t[2]]

\* Row changes of one deal end in its recompute.
Relink(d, links) ==
  /\ dealLinks' = links
  /\ deals' = [deals EXCEPT ![d] = Recomputed(d, links, orders, contracts)]
  /\ amended' = amended \ {d}
  /\ UNCHANGED <<vars, exposureVars, price>>

CreateDeal(d, T) ==
  LET links == dealLinks \cup {NewRow(d, t): t \in T}
  IN  /\ ~deals[d].made
      /\ \A t \in T: Attachable(t)
      /\ DirectionValid(d, links, orders)
      /\ Relink(d, links)
      /\ UNCHANGED snapshots

\* add_link validates the hedge it adds, and nothing when it adds an order.
AddLink(d, t) ==
  LET orderRows == {l \in RowsOf(d, dealLinks): l.type \in OrderTypes}
  IN  /\ deals[d].made
      /\ Attachable(t)
      /\ t[1] \in HedgeTypes /\ orderRows # {} => HedgeFits(t[2], orderRows, orders)
      /\ Relink(d, dealLinks \cup {NewRow(d, t)})
      /\ UNCHANGED snapshots

\* A later row for the same target has another id, so no hash will match that of a
\* snapshot over the removed row: such snapshots are only history from here on.
RemoveLink(d, l) ==
  /\ l \in RowsOf(d, dealLinks)
  /\ Relink(d, dealLinks \ {l})
  /\ snapshots' = {snap \in snapshots: l \notin snap.inputs.links}

-----------------------------------------------------------------------------
(* The requests on the hedge book, served one at a time, with what they do *)
(* to deals and to the histories.                                          *)

\* The order leaves the deals' totals, unless a hedge would be left alone.
ArchiveOrder(o) ==
  /\ LiveOrder(o)
  /\ orders' = [orders EXCEPT ![o] = "archived"]
  /\ \A d \in Linking(o): DirectionValid(d, dealLinks, orders')
  /\ UNCHANGED <<contracts, linked, ledger, tx>>
  /\ RecomputeDealsOf(o)
  /\ UNCHANGED <<exposureVars, pnlVars>>

SetContract(c, row) ==
  /\ contracts' = [contracts EXCEPT ![c] = row]
  /\ UNCHANGED <<orders, linked, tx>>

\* Closing a contract that live orders lean on.
Unhedges(c) == \E o \in Orders: LiveOrder(o) /\ linked[o, c] > 0

RetireContractOnly(c) ==
  /\ MayRetire(c)
  /\ SetContract(c, [contracts[c] EXCEPT !.deleted = TRUE])
  /\ synced' = (synced /\ ~Unhedges(c))
  /\ UNCHANGED <<ledger, dealVars, exposures, pending, pnlVars>>

\* archive and delete of a contract recompute its deals.
RetireContract(c) ==
  /\ MayRetire(c)
  /\ \/ SetContract(c, [contracts[c] EXCEPT !.deleted = TRUE])
     \/ SetContract(c, Deleted(contracts[c], contracts[c].status))
  /\ RecomputeDealsOf(c)
  /\ synced' = (synced /\ ~Unhedges(c))
  /\ UNCHANGED <<ledger, exposures, pending, pnlVars>>

\* transition_status and settlement leave the deals alone.
CloseContract(c) ==
  /\ \/ MayCancel(c) /\ SetContract(c, [contracts[c] EXCEPT !.status = "cancelled"])
                      /\ UNCHANGED ledger
     \/ \E e \in Events: MaySettle(c, e) /\ ledger' = [ledger EXCEPT ![e] = c]
                      /\ SetContract(c, [contracts[c] EXCEPT !.status = "settled"])
  /\ synced' = (synced /\ ~Unhedges(c))
  /\ UNCHANGED <<dealVars, exposures, pending, pnlVars>>

\* So does update.
AmendContract(c, q) ==
  /\ contracts[c].status # "absent"
  /\ MayUpdate(c, q)
  /\ SetContract(c, [contracts[c] EXCEPT !.qty = q])
  /\ amended' = amended \cup Linking(c)
  /\ UNCHANGED <<ledger, deals, dealLinks, exposureVars, pnlVars>>

AddContract(c, q) ==
  /\ CreateContract(c, q)
  /\ UNCHANGED <<dealVars, exposureVars, pnlVars>>

AddOrder(o) ==
  /\ CreateOrder(o)
  /\ synced' = FALSE
  /\ UNCHANGED <<dealVars, exposures, pending, pnlVars>>

Link(o, c, q) ==
  /\ MayLink(o, c, q)
  /\ AddLinkage(o, c, q)
  /\ synced' = FALSE
  /\ UNCHANGED <<orders, contracts, ledger, tx, dealVars, exposures, pending, pnlVars>>

-----------------------------------------------------------------------------
(* Exposures and hedge tasks.                                              *)

\* _get_linked_qty_map: linkages between a live order and a live contract.
Hedged(o) == IF LiveOrder(o) THEN LinkedToOrder(o) ELSE 0

ExposedOrders == {o \in Orders: LiveOrder(o) /\ PriceType[o] = "variable"}

Exposed(o) ==
  [state |-> "live", open |-> OrderQty[o] - Hedged(o),
   status |-> IF Hedged(o) = 0 THEN "open"
              ELSE IF Hedged(o) = OrderQty[o] THEN "fully_hedged" ELSE "partially_hedged"]

Orphans == {o \in Orders: exposures[o].state = "live" /\ orders[o] = "archived"}

ReconcileKeepsTasks ==
  /\ exposures' = [o \in Orders |->
                     IF o \in ExposedOrders THEN Exposed(o)
                     ELSE IF o \in Orphans THEN [exposures[o] EXCEPT !.state = "retired"]
                     ELSE exposures[o]]
  /\ synced' = TRUE
  /\ UNCHANGED <<vars, dealVars, pending, pnlVars>>

\* reconcile_from_orders: over-allocation rolls everything back; exposures of
\* archived orders are retired with their pending tasks.
Reconcile ==
  /\ \A o \in ExposedOrders: Hedged(o) <= OrderQty[o]
  /\ exposures' = [o \in Orders |->
                     IF o \in ExposedOrders THEN Exposed(o)
                     ELSE IF o \in Orphans THEN [exposures[o] EXCEPT !.state = "retired"]
                     ELSE exposures[o]]
  /\ pending' = pending \ Orphans
  /\ synced' = TRUE
  /\ UNCHANGED <<vars, dealVars, pnlVars>>

\* create_hedge_tasks: one pending task per wholly open exposure.
CreateHedgeTasks ==
  /\ pending' = pending \cup {o \in Orders: /\ exposures[o].state = "live"
                                           /\ exposures[o].status = "open"
                                           /\ exposures[o].open > 0}
  /\ UNCHANGED <<vars, dealVars, exposures, synced, pnlVars>>

\* cancel_stale_tasks looks at the status of the exposure, not at its retirement.
CancelStaleTasks ==
  /\ pending' = {o \in pending: exposures[o].status # "fully_hedged"}
  /\ UNCHANGED <<vars, dealVars, exposures, synced, pnlVars>>

ExecuteTask(o) ==
  /\ o \in pending
  /\ exposures[o].state # "retired"
  /\ pending' = pending \ {o}
  /\ UNCHANGED <<vars, dealVars, exposures, synced, pnlVars>>

-----------------------------------------------------------------------------
(* Net exposure, positive when sold, from the exposure rows and from the   *)
(* orders.                                                                 *)

Sign(sold) == IF sold THEN 1 ELSE -1

\* The tonnes of a contract that no linkage takes off, and an exposure's, signed.
Unlinked(c) == Sign(Classification[c] = "short") * (contracts[c].qty - LinkedToContract(c))

Open(o) == Sign(OrderType[o] = "SO") * exposures[o].open

UnlinkedHedges(k) ==
  SumFunctionOnSet([c \in Contracts |-> Unlinked(c)],
                   {c \in Contracts: LiveContract(c) /\ Commodity[c] = k})

EngineNetOfRows(k) ==
  UnlinkedHedges(k) +
  SumFunctionOnSet([o \in Orders |-> Open(o)],
                   {o \in Orders: exposures[o].state = "live" /\ Commodity[o] = k})

\* compute_net_exposure: from the exposure rows of orders that are still live.
EngineNet(k) ==
  UnlinkedHedges(k) +
  SumFunctionOnSet([o \in Orders |-> Open(o)],
                   {o \in Orders: /\ exposures[o].state = "live"
                                  /\ exposures[o].status \in {"open", "partially_hedged"}
                                  /\ LiveOrder(o)
                                  /\ Commodity[o] = k})

\* compute_commercial_exposure_pure: the floating orders among those it is given,
\* with the tonnes it is given, less what linkages between live sides take off.
CommercialNet(k, given, qty) ==
  SumFunctionOnSet([o \in given |-> Sign(OrderType[o] = "SO") * (qty[o] - Hedged(o))],
                   {o \in given: PriceType[o] = "variable" /\ Commodity[o] = k})

\* compute_global_exposure_pure: and what is unlinked of the contracts it is given,
\* the virtual ones included.
GlobalNet(k, given, qty, hedges, virtual) ==
  CommercialNet(k, given, qty)
    + SumFunctionOnSet([c \in hedges |-> Unlinked(c)], {c \in hedges: Commodity[c] = k})
    + SumFunctionOnSet([v \in virtual |-> Sign(v.short) * v.qty],
                       {v \in virtual: v.commodity = k})

\* compute_global_snapshot: from the orders and linkages themselves.
SnapshotNet(k) ==
  GlobalNet(k, ExposedOrders, OrderQty, {c \in Contracts: LiveContract(c)}, {})

-----------------------------------------------------------------------------
(* P&L of a deal.                                                          *)

OpenForMtm(c) == contracts[c].status \in {"active", "partially_settled"}

\* Commodities whose quote the deal needs: floating orders and open hedges.
NeedsPrice(d) ==
  {Commodity[l.id]: l \in {m \in LiveRows(d, dealLinks, orders, contracts):
                             IF m.type \in OrderTypes THEN PriceType[m.id] = "variable"
                             ELSE OpenForMtm(m.id)}}

\* _order_value, as revenue or as cost by the type of the link row.
OrderValue(l) ==
  Sign(l.type = "sales_order") * OrderQty[l.id]
    * (IF PriceType[l.id] = "fixed" THEN EntryPrice[l.id] ELSE price[Commodity[l.id]])

Mtm(c) ==
  IF OpenForMtm(c)
  THEN Sign(Classification[c] = "short") * contracts[c].qty
         * (EntryPrice[c] - price[Commodity[c]])
  ELSE 0

OpenTonnes(c) == IF OpenForMtm(c) THEN contracts[c].qty ELSE 0

TotalPnl(d) ==
  LET live == LiveRows(d, dealLinks, orders, contracts)
  IN  SumFunctionOnSet(
        [l \in live |-> IF l.type \in OrderTypes THEN OrderValue(l) ELSE Mtm(l.id)], live)

InputsWithoutPrices(d) ==
  [deal |-> d, links |-> LiveRows(d, dealLinks, orders, contracts), prices |-> {}]

\* _compute_inputs_hash: the deal, the ids of its live link rows, and the prices
\* consulted; one snapshot date.
Inputs(d) ==
  [deal |-> d,
   links |-> LiveRows(d, dealLinks, orders, contracts),
   prices |-> {<<k, price[k]>>: k \in NeedsPrice(d)}]

\* deal_pnl_snapshots: the inputs behind inputs_hash and price_references, and
\* the total; as history, the open tonnes of the hedges it saw.
SnapshotRow(d) ==
  [inputs |-> Inputs(d), pnl |-> TotalPnl(d), seen |-> [c \in Contracts |-> OpenTonnes(c)]]

\* compute_deal_pnl fails closed when any quote is missing, and returns the row
\* whose hash matches when there is one.
ComputeDealPnl(d) ==
  /\ deals[d].made
  /\ LiveRows(d, dealLinks, orders, contracts) # {}
  /\ \A k \in NeedsPrice(d): price[k] # 0
  /\ \A snap \in snapshots: snap.inputs # Inputs(d)
  /\ Cardinality(snapshots) < MaxSnapshots
  /\ snapshots' = snapshots \cup {SnapshotRow(d)}
  /\ UNCHANGED <<vars, dealVars, exposureVars, price>>

\* Market data arrives, is corrected, or stops being provable.
PriceMove(k, p) ==
  /\ p # price[k]
  /\ price' = [price EXCEPT ![k] = p]
  /\ UNCHANGED <<vars, dealVars, exposureVars, snapshots>>

-----------------------------------------------------------------------------

PortfolioNext ==
  \/ \E d \in Deals, T \in SUBSET Targets: CreateDeal(d, T)
  \/ \E d \in Deals, t \in Targets: AddLink(d, t)
  \/ \E d \in Deals, l \in dealLinks: RemoveLink(d, l)
  \/ \E o \in Orders: AddOrder(o) \/ ArchiveOrder(o)
  \/ \E c \in Contracts: RetireContract(c) \/ CloseContract(c)
  \/ \E c \in Contracts, q \in 0..MaxQty: AmendContract(c, q)
  \/ \E c \in Contracts, q \in 1..MaxQty: AddContract(c, q)
  \/ \E o \in Orders, c \in Contracts, q \in 1..MaxQty: Link(o, c, q)
  \/ Reconcile
  \/ CreateHedgeTasks
  \/ CancelStaleTasks
  \/ \E o \in Orders: ExecuteTask(o)
  \/ \E d \in Deals: ComputeDealPnl(d)
  \/ \E k \in Commodities, p \in Prices: PriceMove(k, p)

PortfolioSpec == PortfolioInit /\ [][PortfolioNext]_portfolioVars

-----------------------------------------------------------------------------
(* Properties.                                                             *)

\* The stored totals and status of a deal are what its live link rows give,
\* through every archive, delete and relink; only the amendment of a contract's
\* tonnes leaves them behind until the next recompute (deal_engine.py
\* _recompute_tons and the callers of recompute_deals_for_linked_entity).
DealTotalsFresh ==
  \A d \in Deals: deals[d].made /\ d \notin amended =>
    deals[d] = Recomputed(d, dealLinks, orders, contracts)

\* From a reconcile on, and as long as no order or linkage is added and no
\* linked hedge is closed, the net exposure from the exposure rows is the one
\* of the snapshot, even after orders were archived (exposure_engine.py
\* compute_net_exposure against exposure_service.py compute_global_snapshot).
NetExposuresAgree ==
  synced => \A k \in Commodities: EngineNet(k) = SnapshotNet(k)

\* No hedge task can be executed, and none stays pending, for an exposure that a
\* reconcile retired (exposure_engine.py reconcile_from_orders, execute_task).
NoTaskForRetired ==
  \A o \in pending: exposures[o].state = "live"

\* The row that the hash lookup of compute_deal_pnl would return now.
Reusable(snap) == snap.inputs = Inputs(snap.inputs.deal)

\* The P&L over the rows L at the present prices, with the given tonnes open.
PnlOver(L, tonnes) ==
  SumFunctionOnSet(
    [l \in L |-> IF l.type \in OrderTypes THEN OrderValue(l)
                 ELSE Sign(Classification[l.id] = "short") * tonnes[l.id]
                        * (EntryPrice[l.id] - price[Commodity[l.id]])],
    L)

\* A P&L snapshot that the hash lookup would return for a deal now is the P&L of
\* the rows that are live in the deal now, at the prices of now, after any
\* correction of prices, relinking and archiving.  What it may lag behind is the
\* open tonnes of hedges, which are those of its computation: the hash has the
\* ids of the link rows and not what they name (deal_engine.py
\* _compute_inputs_hash, compute_deal_pnl).
ReusedPnlIsCurrent ==
  \A snap \in snapshots:
    Reusable(snap) =>
      snap.pnl = PnlOver(LiveRows(snap.inputs.deal, dealLinks, orders, contracts), snap.seen)
=============================================================================
