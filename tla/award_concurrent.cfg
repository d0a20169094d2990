SPECIFICATION AwardSpec
CONSTANTS
  tb = tb
  ts = ts
  sp1 = sp1
  c1 = c1
  s1 = s1
  s2 = s2
  Trades <- MCTrades
  Spreads <- MCSpreads
  BuyLeg <- MCBuyLeg
  SellLeg <- MCSellLeg
  Direction <- MCDirection
  Cps = {c1}
  Prices = {1}
  Stamps = {1}
  Sessions = {s1, s2}
  MaxQuotes = 2
  MaxContracts = 4
  Threshold = 1
  MaxApprovals = 1
PROPERTIES RankingStableUnderLock SpreadBooksOpenLegs ApprovalSpentOnce
CHECK_DEADLOCK FALSE
SYMMETRY MCSessionSymmetry
CONSTRAINT MCBound
