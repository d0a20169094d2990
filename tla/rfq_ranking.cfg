SPECIFICATION Spec
CONSTANTS
  Cps = {1, 2}
  Prices = {1, 2, 3}
  Stamps = {1, 2}
  MaxQuotes = 4
INVARIANTS ScanFindsLatest TradeRankingSound SpreadRankingSound
CHECK_DEADLOCK FALSE
