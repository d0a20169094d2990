SPECIFICATION FairSpec
CONSTANTS
  p1 = p1
  k1 = k1
  k2 = k2
  m1 = m1
  m2 = m2
  Procs = {p1}
  Threads <- MCThreads
  Home <- MCHomeOne
  Msgs = {m1, m2}
  Terms <- MCTerms
  QueueMax = 1
  MaxDeliveries = 3
  MaxFailures = 1
  MayStall = TRUE
INVARIANTS ActiveIsExact OneQuotePerMessage QuoteHasConsumedMessage
PROPERTIES QueueDrains ConsumedIsFinal
CHECK_DEADLOCK FALSE
