SPECIFICATION HedgeSpec
CONSTANTS
  None = None
  Orders = {o1, o2}
  Contracts = {c1, c2}
  Events = {e1}
  Sessions = {s1, s2}
  MaxQty = 2
  OrderType <- MCOrderType
  PriceType <- MCPriceType
  OrderQty <- MCOrderQty
  Classification <- MCClassification
  Commodity <- MCCommodity
SYMMETRY Symmetry
INVARIANTS CapacityHeld CashRetiresHedge
PROPERTY ImplementsAllocation
CHECK_DEADLOCK FALSE
