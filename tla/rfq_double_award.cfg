SPECIFICATION Spec
CONSTANTS
  t1 = t1
  c1 = c1
  c2 = c2
  s1 = s1
  s2 = s2
  Trades <- MCTrades
  Spreads <- MCSpreads
  BuyLeg <- MCLeg
  SellLeg <- MCLeg
  Direction <- MCDirection
  Cps <- MCCps
  Prices = {1, 2}
  Stamps = {1}
  Sessions <- MCTwoSessions
  MaxQuotes = 2
  MaxContracts = 2
CHECK_DEADLOCK FALSE
INVARIANTS OneContractPerTrade
