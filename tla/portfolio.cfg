SPECIFICATION PortfolioSpec
CONSTANTS
  so = so
  po = po
  hc = hc
  None = None
  Orders = {so, po}
  Contracts = {hc}
  Events = {e1}
  Sessions = {s1}
  Deals = {d1}
  MaxQty = 2
  MaxSnapshots = 1
  Prices = {0, 1, 2}
  AsOf = 2
  DueDates <- MCDueDates
  OrderType <- MCOrderType
  PriceType <- MCPriceType
  OrderQty <- MCOrderQty
  Classification <- MCClassification
  Commodity <- MCCommodity
  EntryPrice <- MCEntryPrice
  Targets <- MCTargets
INVARIANTS DealTotalsFresh NetExposuresAgree NoTaskForRetired  ViewsAgree
CONSTRAINT MCBound
CHECK_DEADLOCK FALSE
