---------------------------- MODULE StrategyExchange ----------------------------
(***************************************************************************)
(* The strategies of StrategyAccounts and the two exchanges they run on.   *)
(*                                                                         *)
(* Week 10 (backtest): main replays a file of rows; every row goes to      *)
(* every strategy, which submits orders from inside on_market_data.  An    *)
(* order is matched by the book of SweepBook.  There is one thread, and    *)
(* nothing calls the run() of the market maker.                            *)
(*                                                                         *)
(* Week 8 (live demo): a thread of the exchange makes the rows, the run()  *)
(* of the market maker is a second thread that submits orders, and main    *)
(* joins them.  An order is filled as it stands, under order_mutex_.  MOM  *)
(* and MR only sleep in run().                                             *)
(*                                                                         *)
(* In both, the fills of an order are reported to every strategy before    *)
(* submit_order returns.  Nothing protects the accounts against            *)
(* on_market_data, so a step is at most one access to the fields of a      *)
(* strategy that another thread may use in between.  Prices of week 8 are  *)
(* multiples of 0.2, the market maker's distance from the latest price.    *)
(***************************************************************************)
EXTENDS SweepBook, StrategyAccounts

CONSTANTS LivePrices,  \* the prices of week 8
          MaxTicks,    \* bound: rows of market data (40 in the code of week 8)
          MaxRounds    \* bound: rounds of the market maker (10 in the code)

ASSUME LiveAssumption == LivePrices \subseteq Nat \ {0} /\ MaxTicks > 0

VARIABLES week,          \* the program: 8 or 10
          md, ticks,     \* the row being broadcast, rows begun
          prices,        \* week 8: the prices so far
          turn, at,      \* whose on_market_data runs, and where it is
          position_read, \* position_ as on_market_data has read it
          last_md_,      \* the market maker's copy of the latest price, 0 at first
          mm, rounds, bid, ask, \* the market maker's thread and its locals
          main, running_,
          order_mutex_,  \* the thread that is in submit_order, or "free"
          call,          \* thread -> fills submit_order has still to report,
                         \* the strategy it is at and whether half done there
          ordered,       \* history: shares MOM and MR have ordered, net
          ledger         \* history: the account of all fills

mdVars == <<md, ticks, prices>>
broadcastVars == <<turn, at, position_read>>
quoteVars == <<mm, rounds, bid, ask>>
mainVars == <<main, running_>>
callVars == <<order_mutex_, call, ledger>>
vars == <<week, bookVars, mdVars, broadcastVars, last_md_, quoteVars, mainVars,
          callVars, ordered, has_position_, accountVars, markVars>>

Rows == [last : Prices, mom : SUBSET {"buy", "sell"}, mr : {{}, {"buy"}, {"sell"}}]
NoRow == [last |-> MinPrice, mom |-> {}, mr |-> {}]
NoCall == [fills |-> <<>>, k |-> 1, half |-> FALSE]

Init ==
    /\ week \in {8, 10}
    /\ BookInit /\ AccountsInit
    /\ md = NoRow /\ ticks = 0 /\ prices = <<>>
    /\ turn = 0 /\ at = "idle" /\ position_read = 0
    /\ last_md_ = 0
    /\ mm = IF week = 8 THEN "wait" ELSE "done"
    /\ rounds = 0 /\ bid = 0 /\ ask = 0
    /\ main = "join" /\ running_ = TRUE
    /\ order_mutex_ = "free"
    /\ call = [t \in {"md", "mm"} |-> NoCall]
    /\ ordered = [s \in {"MOM", "MR"} |-> 0]
    /\ ledger = [position |-> 0, cash |-> 0, count |-> 0]

-----------------------------------------------------------------------------
(***************************************************************************)
(* submit_order(o), called by thread t                                     *)
(***************************************************************************)

\* The fills are reported without the mutex.
Submit_NoLockSlip(t, o) ==
    IF week = 10 THEN AddOrder(o.is_buy, o.price, o.quantity, "LIMIT") /\ UNCHANGED callVars
    ELSE /\ call' = [call EXCEPT ![t].fills = <<o>>]
         /\ UNCHANGED <<bookVars, order_mutex_, ledger>>

\* Week 8: the order is its own fill, once the mutex is taken.
Submit(t, o) ==
    IF week = 10 THEN AddOrder(o.is_buy, o.price, o.quantity, "LIMIT") /\ UNCHANGED callVars
    ELSE /\ order_mutex_ = "free"
         /\ order_mutex_' = t
         /\ call' = [call EXCEPT ![t].fills = <<o>>]
         /\ UNCHANGED <<bookVars, ledger>>

Submitting(t) == IF t = "md" THEN at \in {"buying", "selling"}
                             ELSE mm \in {"bidding", "asking"}

\* Week 10: the book matches the order.
Match ==
    /\ week = 10 /\ Submitting("md") /\ Running
    /\ call' = IF order' = NoOrder THEN [call EXCEPT !["md"].fills = fills] ELSE call
    /\ UNCHANGED <<week, mdVars, broadcastVars, last_md_, quoteVars, mainVars,
                   order_mutex_, ledger, ordered, has_position_, accountVars, markVars>>

\* for (auto s : strategies_) s->on_order_filled(o);
Audience == Len(Strategies)

Recorded(f) == [position |-> ledger.position + Flow(f),
                cash |-> ledger.cash - Flow(f) * f.price,
                count |-> ledger.count + 1]

\* The next half of on_order_filled of the next strategy.
ReportFill(t) ==
    /\ call[t].fills # <<>>
    /\ LET c == call[t]
           f == Head(c.fills)
           s == Strategies[c.k]
       IN  /\ IF c.half THEN BookFill(s, f) ELSE MovePosition(s, f)
           /\ call' = [call EXCEPT ![t] =
                CASE ~c.half -> [c EXCEPT !.half = TRUE]
                  [] c.half /\ c.k < Audience -> [c EXCEPT !.k = @ + 1, !.half = FALSE]
                  [] OTHER -> [NoCall EXCEPT !.fills = Tail(c.fills)]]
           /\ ledger' = IF c.k = 1 /\ ~c.half THEN Recorded(f) ELSE ledger
    /\ UNCHANGED <<week, bookVars, mdVars, broadcastVars, last_md_, quoteVars,
                   mainVars, order_mutex_, ordered, has_position_, markVars>>

\* unlock() is called by hand, and not in every case.
Unlocked_NotAskSlip(t) ==
    IF order_mutex_ = t /\ mm # "asking" THEN "free" ELSE order_mutex_
\* The lock_guard of week 8 goes out of scope.
Unlocked(t) == IF order_mutex_ = t THEN "free" ELSE order_mutex_

\* submit_order returns to t.
Returned(t) ==
    /\ Submitting(t) /\ order = NoOrder /\ call[t].fills = <<>>
    /\ order_mutex_' = Unlocked(t)
    /\ UNCHANGED <<week, bookVars, mdVars, position_read, last_md_, bid, ask,
                   mainVars, call, ledger, ordered, accountVars, markVars>>

-----------------------------------------------------------------------------
(***************************************************************************)
(* Rows of market data and on_market_data                                  *)
(***************************************************************************)

Sum(seq) == MapThenSumSet(LAMBDA i : seq[i], DOMAIN seq)

\* recent_prices keeps the latest 20.
Recent(seq) == IF Len(seq) > 20 THEN SubSeq(seq, Len(seq) - 19, Len(seq)) ELSE seq

\* The row of week 8 when p is the latest of the prices: p > high - 0.1,
\* p < low + 0.1, p < avg - 0.5 and p > avg + 0.5, where 0.5 is 5/2 units; high and
\* low are those of all prices, avg that of the recent ones.
RowOf(seq, p) ==
    LET recent == Recent(seq)
        below == 2 * (Sum(recent) - Len(recent) * p) > 5 * Len(recent)
        above == 2 * (Len(recent) * p - Sum(recent)) > 5 * Len(recent)
        At(side, holds) == IF holds THEN {side} ELSE {}
    IN  [last |-> p,
         mom |-> At("buy", \A i \in DOMAIN seq : seq[i] <= p)
                 \cup At("sell", \A i \in DOMAIN seq : seq[i] >= p),
         mr |-> At("buy", below) \cup At("sell", above)]

\* The next row: any in week 10, computed from a random price in week 8.
NextRow ==
    /\ at = "idle" /\ ticks < MaxTicks /\ running_
    /\ IF week = 10 THEN md' \in Rows /\ UNCHANGED prices
       ELSE \E p \in LivePrices : /\ prices' = Append(prices, p)
                                  /\ md' = RowOf(prices', p)
    /\ ticks' = ticks + 1
    /\ turn' = 1 /\ at' = "mark"
    /\ UNCHANGED <<week, bookVars, position_read, last_md_, quoteVars, mainVars,
                   callVars, ordered, has_position_, accountVars, markVars>>

\* No row is left, or week 8's main has called stop().
LastRow ==
    /\ at = "idle" /\ (ticks = MaxTicks \/ ~running_)
    /\ at' = "over"
    /\ UNCHANGED <<week, bookVars, mdVars, turn, position_read, last_md_, quoteVars,
                   mainVars, callVars, ordered, has_position_, accountVars, markVars>>

\* Where the broadcast goes on when the strategy's on_market_data is over.
NextStrategy ==
    IF turn < Len(Strategies) THEN turn' = turn + 1 /\ at' = "mark"
                              ELSE turn' = 0 /\ at' = "idle"

\* on_market_data begins: last_md_ = md, and position_ is read.
Mark ==
    /\ at = "mark"
    /\ LET s == Strategies[turn]
       IN  /\ last_md_' = IF s = "MM" THEN md.last ELSE last_md_
           /\ position_read' = position_[s]
           /\ marked' = [marked EXCEPT ![s] = trade_count_[s]]
    /\ at' = "marking"
    /\ UNCHANGED <<week, bookVars, mdVars, turn, quoteVars, mainVars, callVars,
                   ordered, has_position_, accountVars, unrealized_pnl_>>

\* avg_cost_ is read and unrealized_pnl_ assigned.  position_, tested in Mark, is a
\* factor here; the build may read it again.
Marked ==
    /\ at = "marking"
    /\ LET s == Strategies[turn]
       IN  /\ \E factor \in {position_read, position_[s]} :
                 unrealized_pnl_' = [unrealized_pnl_ EXCEPT ![s] =
                    MarkToMarket(md.last, avg_cost_[s],
                                 IF position_read = 0 THEN 0 ELSE factor)]
           /\ IF s = "MM" THEN NextStrategy ELSE at' = "buy" /\ UNCHANGED turn
    /\ position_read' = 0
    /\ UNCHANGED <<week, bookVars, mdVars, last_md_, quoteVars, mainVars, callVars,
                   ordered, has_position_, accountVars, marked>>

\* exchange_->submit_order(...) is called when the row says so.
Buy ==
    /\ at = "buy"
    /\ LET s == Strategies[turn]
       IN  IF BuySignal(s, md)
             THEN /\ Submit("md", [is_buy |-> TRUE, price |-> md.last, quantity |-> OrderQty[s]])
                  /\ ordered' = [ordered EXCEPT ![s] = @ + OrderQty[s]]
                  /\ at' = "buying"
             ELSE at' = "sell" /\ UNCHANGED <<bookVars, callVars, ordered>>
    /\ UNCHANGED <<week, mdVars, turn, position_read, last_md_, quoteVars, mainVars,
                   has_position_, accountVars, markVars>>

Sell ==
    /\ at = "sell"
    /\ LET s == Strategies[turn]
       IN  IF SellSignal(s, md)
             THEN /\ Submit("md", [is_buy |-> FALSE, price |-> md.last, quantity |-> OrderQty[s]])
                  /\ ordered' = [ordered EXCEPT ![s] = @ - OrderQty[s]]
                  /\ at' = "selling" /\ UNCHANGED turn
             ELSE NextStrategy /\ UNCHANGED <<bookVars, callVars, ordered>>
    /\ UNCHANGED <<week, mdVars, position_read, last_md_, quoteVars, mainVars,
                   has_position_, accountVars, markVars>>

\* The strategy goes on after submit_order.
Submitted ==
    /\ Returned("md")
    /\ has_position_' = [has_position_ EXCEPT ![Strategies[turn]] = (at = "buying")]
    /\ IF at = "buying" THEN at' = "sell" /\ UNCHANGED turn ELSE NextStrategy
    /\ UNCHANGED quoteVars

Broadcast == NextRow \/ LastRow \/ Mark \/ Marked \/ Buy \/ Sell \/ Match
             \/ ReportFill("md") \/ Submitted

-----------------------------------------------------------------------------
(***************************************************************************)
(* The market maker's run() and main, week 8                               *)
(***************************************************************************)

\* It waits for a price, then reads last_md_ once for the bid ...
QuoteBid ==
    /\ mm \in {"wait", "round"}
    /\ last_md_ # 0
    /\ IF rounds = MaxRounds THEN mm' = "done" /\ UNCHANGED <<rounds, bid>>
       ELSE mm' = "quoting" /\ rounds' = rounds + 1 /\ bid' = last_md_ - 1
    /\ UNCHANGED <<week, bookVars, mdVars, broadcastVars, last_md_, ask, mainVars,
                   callVars, ordered, has_position_, accountVars, markVars>>

\* ... and, unprotected, a second time for the ask.
QuoteAsk ==
    /\ mm = "quoting"
    /\ ask' = last_md_ + 1
    /\ mm' = "bid"
    /\ UNCHANGED <<week, bookVars, mdVars, broadcastVars, last_md_, rounds, bid, mainVars,
                   callVars, ordered, has_position_, accountVars, markVars>>

SubmitQuote ==
    /\ mm \in {"bid", "ask"}
    /\ \E q \in Quantities :
          Submit("mm", [is_buy |-> mm = "bid", price |-> IF mm = "bid" THEN bid ELSE ask,
                        quantity |-> q])
    /\ mm' = IF mm = "bid" THEN "bidding" ELSE "asking"
    /\ UNCHANGED <<week, mdVars, broadcastVars, last_md_, rounds, bid, ask, mainVars,
                   ordered, has_position_, accountVars, markVars>>

QuoteSubmitted ==
    /\ Returned("mm")
    /\ mm' = IF mm = "bidding" THEN "ask" ELSE "round"
    /\ UNCHANGED <<turn, at, rounds, has_position_>>

MarketMaker == QuoteBid \/ QuoteAsk \/ SubmitQuote \/ ReportFill("mm") \/ QuoteSubmitted

\* The strategies' threads are joined, stop() ends the exchange's thread and
\* joins it.  In week 10 main goes on when the rows are over.
Main ==
    /\ \/ /\ main = "join" /\ week = 8 /\ mm = "done"
          /\ main' = "stop" /\ running_' = FALSE
       \/ /\ main = (IF week = 8 THEN "stop" ELSE "join") /\ at = "over"
          /\ main' = "done" /\ UNCHANGED running_
    /\ UNCHANGED <<week, bookVars, mdVars, broadcastVars, last_md_, quoteVars,
                   callVars, ordered, has_position_, accountVars, markVars>>

Next == Broadcast \/ MarketMaker \/ Main

Spec == Init /\ [][Next]_vars

\* Every thread is scheduled; a thread that waits for the mutex gets it, for the
\* other takes it a bounded number of times.
FairSpec == Spec /\ WF_vars(Broadcast) /\ WF_vars(MarketMaker) /\ WF_vars(Main)

-----------------------------------------------------------------------------
(***************************************************************************)
(* Properties, with BookUncrossed of SweepBook                             *)
(***************************************************************************)

\* No submit_order and no on_market_data is running.
Quiet == at \in {"idle", "over"} /\ \A t \in {"md", "mm"} : ~Submitting(t)

\* Every fill is reported to every strategy, so whoever traded, all of them have
\* the same account, and it is that of all the fills of the exchange taken from
\* the side of the orders that came in.  The profits agree only because the
\* mutex makes all of them see the fills in one order.
AccountsAgree ==
    Quiet => \A s \in Names :
        /\ position_[s] = ledger.position
        /\ cash_[s] = ledger.cash
        /\ trade_count_[s] = ledger.count
        /\ \A t \in Names : realized_pnl_[s] = realized_pnl_[t]

\* The profit reported is money: as long as no purchase has brought a short
\* position to exactly zero, realized profit is the cash earned plus the cost
\* of what is held.  (on_order_filled forgets total_cost when a purchase ends at
\* position zero.)
ProfitIsCash ==
    Quiet => \A s \in Names \ covered :
        realized_pnl_[s] = Plus(Whole(cash_[s]), Times(avg_cost_[s], position_[s]))

\* The "Final PnL" of the summary is what the account is worth, its cash and its
\* shares at the latest price, for every strategy that has not closed a short
\* position and has seen no fill since its latest on_market_data began.  (A fill
\* of a later strategy, or of the market maker's thread, leaves the
\* unrealized_pnl_ of the others stale.)
FinalPnlIsEquity ==
    Quiet => \A s \in Names \ covered :
        marked[s] = trade_count_[s] =>
            get_pnl(s) = Whole(cash_[s] + position_[s] * md.last)

\* Between rows MOM and MR have ordered, net of their sales, one order's shares
\* if their flag is up and none if it is down: their purchases and sales
\* alternate, although the fills arrive before the flag is set.
SidesAlternate ==
    Quiet => \A s \in {"MOM", "MR"} :
        ordered[s] = IF has_position_[s] THEN OrderQty[s] ELSE 0

\* The program ends: the market maker sees a price, nobody waits for ever for the
\* mutex, and the joins return.
ProgramEnds == <>(main = "done")
=============================================================================
