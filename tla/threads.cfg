\* Two symbols and two producers, so that workers and queues are uneven when main
\* stops them.
CONSTANTS
  Symbols = {AAPL, GOOG}
  Producers = {p1, p2}
  OrdersPerThread = 1
SPECIFICATION FairSpec
INVARIANTS
  PipelineInOrder
  VerdictIsRight
PROPERTIES
  ShutdownEnds
CHECK_DEADLOCK FALSE
