\* One client that waits for every ACK, and two workers that may overtake each
\* other, or a worker and a feed that replays a bar; a queue of one order, which
\* they find full, and which may keep a worker from ending after the matcher has
\* gone.
CONSTANTS
  Blank = Blank
  Torn = Torn
  SIZE = 2
  Producers = {1, 2, f1}
  MaxPush = 3
  Clients = {c1}
  Workers = {1, 2}
  Feeds = {f1}
  MaxRequests = 2
  Window = 1
  MaxBars = 1
  MaxLoad = 2
  OnTerm = {"throw", "return"}
SPECIFICATION FairSystemSpec
INVARIANTS
  NoOrderLeftUnmatched
  AckedOrdersSurvive
  SerialClientsKeepOrder
PROPERTIES
  ShutdownSettles
  EveryOrderAnswered
CHECK_DEADLOCK FALSE
