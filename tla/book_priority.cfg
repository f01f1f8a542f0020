\* Two level pairs, the first left with a remainder on one side.
CONSTANTS
  End = End
  Symbol = AAPL
  Prices = {1, 2, 3}
  MinPrice = 1
  MaxPrice = 3
  Quantities = {1, 2}
  MaxOrders = 4
SPECIFICATION Spec
PROPERTY PriceTimePriority
