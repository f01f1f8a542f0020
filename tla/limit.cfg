\* Three prices: a sweep over two levels that leaves a third behind.
CONSTANTS
  NoOrder = NoOrder
  MinPrice = 1
  MaxPrice = 3
  Quantities = {1, 2}
  MaxOrders = 4
SPECIFICATION Spec
INVARIANTS
  SharesConserved
  IdMapAgrees
PROPERTIES
  PriceTimePriority
  MarketTakesAll
CHECK_DEADLOCK FALSE
