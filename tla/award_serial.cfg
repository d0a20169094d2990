SPECIFICATION AwardSpec
CONSTANTS
  t1 = t1
  c1 = c1
  c2 = c2
  s1 = s1
  Trades <- MCTrades
  Spreads <- MCSpreads
  BuyLeg <- MCLeg
  SellLeg <- MCLeg
  Direction <- MCDirection
  Cps <- MCCps
  Prices = {1, 2}
  Stamps = {1, 2}
  Sessions <- MCOneSession
  MaxQuotes = 3
  MaxContracts = 2
  Threshold = 1
  MaxApprovals = 1
INVARIANTS OneContractPerTrade TrailConnected QuotedHasActiveQuote
PROPERTIES ClosedIsFinal AwardsBestOffer BookedAsApproved UnapprovedStaysBelowThreshold
CHECK_DEADLOCK FALSE
