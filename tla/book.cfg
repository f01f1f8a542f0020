\* Three prices give two crossing level pairs of four different levels.
CONSTANTS
  End = End
  Symbol = AAPL
  Prices = {1, 2, 3}
  MinPrice = 1
  MaxPrice = 3
  Quantities = {1, 2}
  MaxOrders = 4
SPECIFICATION FairSpec
INVARIANTS
  LedgerBalanced
  IteratorsValid
PROPERTIES
  FirstTradeHasPriority
  EventuallyUncrossed
