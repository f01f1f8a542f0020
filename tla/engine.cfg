\* One registered symbol and one that only appears in orders; two order ids, so
\* that orders of different symbols and sides share one.
CONSTANTS
  End = End
  Symbols = {AAPL, TSLA}
  KnownSymbols = {AAPL}
  Ids = {1, 2}
  Prices = {1, 2}
  Quantities = {1, 2}
  MaxOrders = 3
SPECIFICATION FairEngineSpec
INVARIANTS
  PnlIsTradeLedger
  TradesLoggedOnce
PROPERTIES
  EverythingSettles
