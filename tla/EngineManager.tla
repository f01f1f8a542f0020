----------------------------- MODULE EngineManager -----------------------------
(***************************************************************************)
(* week12_PortfolioInfra/src/engine_manager.cpp with the objects its calls *)
(* change, portfolio_manager.cpp and trade_logger.hpp, driven by the       *)
(* matcher thread of main.cpp: take orders from the queue, match every     *)
(* book, log the trades, again.  Latency samples are left out: nothing     *)
(* reads them before the program exports them.                             *)
(*                                                                         *)
(* match_all holds the engine's mutex throughout, and no other thread      *)
(* calls the engine, so one book is one step; the order in which the       *)
(* unordered_map yields the books is left open.                            *)
(***************************************************************************)
EXTENDS OrderBookOps, Functions

CONSTANTS Symbols,     \* symbols that appear in orders
          KnownSymbols,\* those main registers with add_symbol
          Ids          \* order ids, chosen by clients and by rand() in the feeds:
                       \* different orders may have the same one

ASSUME KnownAssumption == KnownSymbols \subseteq Symbols

VARIABLES books,        \* EngineManager::books: symbol -> book
          pnl_map,      \* PortfolioManager::pnl_map: order id -> cash
          matcher,      \* where the matcher is: "setup", "drain", "match" or "log"
          todo,         \* match_all: symbols not yet visited
          all_trades,   \* match_all's result, consumed by the logging loop
          trade_log,    \* the lines of trades.csv
          submits,      \* orders given to submit_order
          executed      \* history: every trade made

engineVars == <<books, pnl_map, matcher, todo, all_trades,
               trade_log, submits, executed>>

EngineOrders == [order_id : Ids, symbol : Symbols, is_buy : BOOLEAN,
                 price : Prices, quantity : Quantities]

\* An empty std::unordered_map.
EmptyMap == [x \in {} |-> 0]

\* map[key] = value, and map[key] += amount where a missing value is 0.
Put(map, key, value) ==
    [k \in DOMAIN map \cup {key} |-> IF k = key THEN value ELSE map[k]]
AddTo(map, key, amount) ==
    Put(map, key, IF key \in DOMAIN map THEN map[key] + amount ELSE amount)

EngineInit ==
    /\ books = EmptyMap
    /\ pnl_map = EmptyMap
    /\ matcher = "setup"
    /\ todo = {}
    /\ all_trades = <<>>
    /\ trade_log = <<>>
    /\ submits = 0
    /\ executed = <<>>

\* main registers its symbols before it starts any thread.
AddSymbol(s) ==
    /\ matcher = "setup"
    /\ books' = Put(books, s, EmptyBook)
    /\ matcher' = IF KnownSymbols \subseteq DOMAIN books' THEN "drain" ELSE "setup"
    /\ UNCHANGED <<pnl_map, todo, all_trades, trade_log, submits, executed>>

\* submit_order: operator[] creates a book for a symbol nobody registered.
BookOf(s) == IF s \in DOMAIN books THEN books[s] ELSE EmptyBook
SubmitOrder(o) ==
    /\ matcher = "drain"
    /\ submits < MaxOrders
    /\ LET b == BookOf(o.symbol)
       IN  books' = Put(books, o.symbol,
                        IF o.is_buy THEN Book(AddOrder(b.buys, o), b.sells)
                                    ELSE Book(b.buys, AddOrder(b.sells, o)))
    /\ submits' = submits + 1
    /\ UNCHANGED <<pnl_map, matcher, todo, all_trades, trade_log, executed>>

(***************************************************************************)
(* An operator named X_..Slip is X with a slip one could make in the code; *)
(* the specifications do not use it.                                       *)
(***************************************************************************)

\* Only the registered symbols are matched.
Visited_KnownSlip == KnownSymbols
\* for (auto& [symbol, book] : books)
Visited == DOMAIN books

\* The queue is empty for the moment: match_all(&latency_monitor) begins.
MatchAllBegin ==
    /\ matcher = "drain"
    /\ matcher' = "match"
    /\ todo' = Visited
    /\ all_trades' = <<>>
    /\ UNCHANGED <<books, pnl_map, trade_log, submits, executed>>

\* The seller's entry is overwritten instead of added to.
RecordTrade_OverwriteSlip(pnl, t) ==
    Put(AddTo(pnl, t.buy_order_id, -(t.price * t.quantity)),
        t.sell_order_id, t.price * t.quantity)

\* record_trade(buy_order_id, -price * quantity), record_trade(sell_order_id, ...)
RecordTrade(pnl, t) ==
    AddTo(AddTo(pnl, t.buy_order_id, -(t.price * t.quantity)),
          t.sell_order_id, t.price * t.quantity)
RecordTrades(pnl, trades) ==
    LET after[k \in 0 .. Len(trades)] ==
            IF k = 0 THEN pnl ELSE RecordTrade(after[k - 1], trades[k])
    IN  after[Len(trades)]

\* Resting orders and levels of all books: no loop of match() runs longer.
Fuel == 3 * MaxOrders + 2

\* Keeps the trades of the last book only.
Collected_LastBookSlip(trades) == trades
\* all_trades.insert(all_trades.end(), trades.begin(), trades.end());
Collected(trades) == all_trades \o trades

MatchBook(s) ==
    /\ matcher = "match"
    /\ s \in todo
    /\ todo' = todo \ {s}
    /\ LET m == Match(books[s], Fuel)
       IN  /\ books' = [books EXCEPT ![s] = m.book]
           /\ pnl_map' = RecordTrades(pnl_map, m.trades)
           /\ all_trades' = Collected(m.trades)
           /\ executed' = executed \o m.trades
    /\ UNCHANGED <<matcher, trade_log, submits>>

\* match_all returns all_trades.
MatchAllEnd ==
    /\ matcher = "match"
    /\ todo = {}
    /\ matcher' = "log"
    /\ UNCHANGED <<books, pnl_map, todo, all_trades, trade_log, submits, executed>>

\* for (const auto& t : trades) trade_logger.log_trade(t);
LogTrade ==
    /\ matcher = "log"
    /\ all_trades # <<>>
    /\ trade_log' = Append(trade_log, Head(all_trades))
    /\ all_trades' = Tail(all_trades)
    /\ UNCHANGED <<books, pnl_map, matcher, todo, submits, executed>>

LogDone ==
    /\ matcher = "log"
    /\ all_trades = <<>>
    /\ matcher' = "drain"
    /\ UNCHANGED <<books, pnl_map, todo, all_trades, trade_log, submits, executed>>

Matcher == \/ MatchAllBegin \/ MatchAllEnd \/ LogTrade \/ LogDone
           \/ \E s \in Symbols : MatchBook(s)

EngineNext == \/ \E s \in KnownSymbols : AddSymbol(s)
              \/ \E o \in EngineOrders : SubmitOrder(o)
              \/ Matcher

EngineSpec == EngineInit /\ [][EngineNext]_engineVars

\* The matcher thread keeps running; how many orders it drains before it turns
\* to match_all is not limited by the code, but MaxOrders limits it here.
FairEngineSpec == /\ EngineSpec
                  /\ WF_engineVars(Matcher)
                  /\ WF_engineVars(\E s \in KnownSymbols : AddSymbol(s))

-----------------------------------------------------------------------------
(***************************************************************************)
(* Properties                                                              *)
(***************************************************************************)
\* The cash of an order id is exactly what its sales brought minus what its
\* purchases cost, whichever books they happened in and however many orders
\* share the id.
Cash(n, t) == (IF t.sell_order_id = n THEN t.price * t.quantity ELSE 0)
              - (IF t.buy_order_id = n THEN t.price * t.quantity ELSE 0)
CashOf(n) == SumFunction([i \in DOMAIN executed |-> Cash(n, executed[i])])
PnlOf(n) == IF n \in DOMAIN pnl_map THEN pnl_map[n] ELSE 0
PnlIsTradeLedger == \A n \in Ids : PnlOf(n) = CashOf(n)

\* Every trade is logged once, in the order of execution: what is not yet in
\* the log is what the current round has still to write.
TradesLoggedOnce == trade_log \o all_trades = executed

\* Once no more orders arrive every book is uncrossed for good and every trade
\* is in the log, registered symbol or not.
CrossedBook(b) == \E p \in DOMAIN b.buys, q \in DOMAIN b.sells : p >= q
EverythingSettles ==
    <>[](/\ \A s \in DOMAIN books : ~CrossedBook(books[s])
         /\ trade_log = executed)
=============================================================================
