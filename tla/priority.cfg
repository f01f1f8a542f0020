\* Three orders, one of which can be modified once (or two, for two orders),
\* at two prices and with partial fills, in each of the three versions.
CONSTANTS
  Weeks = {3, 4, 5}
  Prices = {1, 2}
  MaxQty = 2
  MaxOrders = 3
  MaxObjects = 4
SPECIFICATION FairSpec
INVARIANTS
  OneOpenOrderPerId
  SharesAccountedFor
  UncrossedAtReturn
PROPERTIES
  CanceledNeverTrades
  CallsReturn
CHECK_DEADLOCK FALSE
