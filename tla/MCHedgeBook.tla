----------------------------- MODULE MCHedgeBook ----------------------------
(* Two sales orders of a tonne each and two short hedges of up to two.      *)
EXTENDS HedgeBook, TLC

MCOrderType == [o \in Orders |-> "SO"]
MCPriceType == [o \in Orders |-> "variable"]
MCOrderQty == [o \in Orders |-> 1]
MCClassification == [c \in Contracts |-> "short"]
MCCommodity == [x \in Orders \cup Contracts |-> "ALUMINIUM"]

Symmetry == Permutations(Sessions) \cup Permutations(Contracts) \cup Permutations(Orders)
=============================================================================
