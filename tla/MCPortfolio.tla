----------------------------- MODULE MCPortfolio ----------------------------
(* A floating sales order, a fixed-price purchase order, and a short hedge  *)
(* that fits the first.                                                     *)
EXTENDS Valuation, TLC

CONSTANTS so, po, hc

MCOrderType == so :> "SO" @@ po :> "PO"
MCPriceType == so :> "variable" @@ po :> "fixed"
MCOrderQty == so :> 2 @@ po :> 1
MCClassification == hc :> "short"
MCCommodity == [x \in Orders \cup Contracts |-> "ALUMINIUM"]
MCEntryPrice == so :> 1 @@ po :> 1 @@ hc :> 2
\* No date, the day before AsOf, AsOf itself.
MCDueDates == [Orders \cup Contracts -> 0..2]
MCTargets == {<<"sales_order", so>>, <<"purchase_order", po>>, <<"hedge", hc>>}

\* Exposures and P&L snapshots read nothing of each other, so a behaviour with
\* both is explored with either.
MCBound == snapshots = {} \/ \A o \in Orders : exposures[o] = NoExposure
=============================================================================
