\* Two gateway workers push at the same time, as main.cpp deploys the queue.
CONSTANTS
  Blank = Blank
  Torn = Torn
  SIZE = 3
  Producers = {w1, w2}
  MaxPush = 1
SPECIFICATION Spec
INVARIANT EmptyMeansAllDelivered
CHECK_DEADLOCK FALSE
