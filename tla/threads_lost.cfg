\* One order is enough to be left behind.
CONSTANTS
  Symbols = {AAPL, GOOG}
  Producers = {p1, p2}
  OrdersPerThread = 1
SPECIFICATION Spec
INVARIANT ProcessedExactlyOnce
CHECK_DEADLOCK FALSE
