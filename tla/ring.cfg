\* One producer in front of the consumer, a buffer of 5 slots (4 usable),
\* enough orders for head and tail to wrap around twice; for week 11 three
\* prices and a log of three lines.
CONSTANTS
  Blank = Blank
  Torn = Torn
  SIZE = 5
  Producers = {w1}
  MaxPush = 11
  Prices = {1, 2, 3}
  MessageLength = 2
  LogSize = 10
SPECIFICATION FairDemoSpec
INVARIANTS
  NoSlotRace
  WindowHoldsPending
  RestingNeverTrades
PROPERTIES
  ImplementsChannel
  RetryLoopEnds
CHECK_DEADLOCK FALSE
