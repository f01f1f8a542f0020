\* Three rows at three prices (week 10) or two that are far apart (week 8): room
\* for a purchase, a short sale and its cover; one round of quotes.
CONSTANTS
  NoOrder = NoOrder
  MinPrice = 1
  MaxPrice = 3
  Quantities = {1}
  MaxOrders = 12
  LivePrices = {2, 20}
  MaxTicks = 3
  MaxRounds = 1
SPECIFICATION FairSpec
INVARIANTS
  BookUncrossed
  AccountsAgree
  ProfitIsCash
  FinalPnlIsEquity
  SidesAlternate
PROPERTIES
  ProgramEnds
CHECK_DEADLOCK FALSE
