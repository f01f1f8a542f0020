\* Two producers of two orders each and two consumers: both may sleep, and the
\* one that is not notified may take the order first.
CONSTANTS
  Pushers = {p1, p2}
  Consumers = {c1, c2}
  Batch = 2
  Expected = 2
  MaxSpurious = 1
  Free = Free
SPECIFICATION FairQueueSpec
INVARIANTS
  NoWakeUpLost
PROPERTIES
  ImplementsChannel
  AllThreadsEnd
CHECK_DEADLOCK FALSE
