-------------------------- MODULE OrderBookOptimized --------------------------
(***************************************************************************)
(* week12_PortfolioInfra/include/orderbook_optimized.hpp                   *)
(*                                                                         *)
(* The book of one symbol and the matcher thread that uses it: between two *)
(* calls of match() it adds the orders that arrived.  match() is taken one *)
(* loop iteration at a time, so that properties can speak about single     *)
(* trades and about the iterators.                                         *)
(***************************************************************************)
EXTENDS OrderBookOps, FiniteSets

CONSTANTS MinPrice, MaxPrice, \* of the limit prices, of which only the order matters
          Symbol

ASSUME DomainAssumption == /\ MinPrice \in Int /\ MaxPrice \in Int
                           /\ Prices \subseteq MinPrice .. MaxPrice

VARIABLES buy_levels, sell_levels,  \* the object's fields
          mpc,                      \* where match() is: not running, at the
                                    \* outer loop, in a level pair
          buy_it, sell_it,          \* its iterators
          trades,                   \* its result so far
          submitted,                \* history: orders as they were submitted
          filled                    \* history: quantity traded per order

bookVars == <<buy_levels, sell_levels>>
matchVars == <<mpc, buy_it, sell_it, trades>>
vars == <<bookVars, matchVars, submitted, filled>>

OrderIds == 1 .. MaxOrders

\* Order ids are the order of arrival; the book never reads them.
Order(id, is_buy, price, quantity) ==
    [order_id |-> id, symbol |-> Symbol, is_buy |-> is_buy,
     price |-> price, quantity |-> quantity]

Init ==
    /\ buy_levels = NoLevels
    /\ sell_levels = NoLevels
    /\ mpc = "idle"
    /\ buy_it = End
    /\ sell_it = End
    /\ trades = <<>>
    /\ submitted = <<>>
    /\ filled = [n \in OrderIds |-> 0]

\* add_order
Submit(is_buy, price, quantity) ==
    LET o == Order(Len(submitted) + 1, is_buy, price, quantity)
    IN  /\ mpc = "idle"
        /\ Len(submitted) < MaxOrders
        /\ submitted' = Append(submitted, o)
        /\ IF is_buy THEN /\ buy_levels' = AddOrder(buy_levels, o)
                          /\ UNCHANGED sell_levels
                     ELSE /\ sell_levels' = AddOrder(sell_levels, o)
                          /\ UNCHANGED buy_levels
        /\ UNCHANGED <<matchVars, filled>>

\* match(): the iterators start at the best level of each side.
MatchBegin ==
    /\ mpc = "idle"
    /\ mpc' = "levels"
    /\ buy_it' = FirstBuy(DOMAIN buy_levels)
    /\ sell_it' = FirstSell(DOMAIN sell_levels)
    /\ trades' = <<>>
    /\ UNCHANGED <<bookVars, submitted, filled>>

\* The outer loop ends at end() or at `if (buy_price < sell_price) break'.
MatchEnd ==
    /\ mpc = "levels"
    /\ ~Crosses(buy_it, sell_it)
    /\ mpc' = "idle"
    /\ UNCHANGED <<bookVars, buy_it, sell_it, trades, submitted, filled>>

EnterLevels ==
    /\ mpc = "levels"
    /\ Crosses(buy_it, sell_it)
    /\ mpc' = "pair"
    /\ UNCHANGED <<bookVars, buy_it, sell_it, trades, submitted, filled>>

BuyQueue == buy_levels[buy_it]
SellQueue == sell_levels[sell_it]

\* One pass of the inner loop.
Fill ==
    /\ mpc = "pair"
    /\ BuyQueue # <<>> /\ SellQueue # <<>>
    /\ LET buy == Head(BuyQueue)
           sell == Head(SellQueue)
           qty == MinQuantity(buy, sell)
       IN  /\ trades' = Append(trades, TradeOf(buy, sell, sell_it))
           /\ buy_levels' = TakeFront(buy_levels, buy_it, qty)
           /\ sell_levels' = TakeFront(sell_levels, sell_it, qty)
           /\ filled' = [filled EXCEPT ![buy.order_id] = @ + qty,
                                       ![sell.order_id] = @ + qty]
    /\ UNCHANGED <<mpc, buy_it, sell_it, submitted>>

\* One of the two queues is empty: both iterators advance, and the levels they
\* leave are erased if they are empty.
NextLevels ==
    /\ mpc = "pair"
    /\ BuyQueue = <<>> \/ SellQueue = <<>>
    /\ buy_it' = NextBuy(buy_levels, buy_it)
    /\ sell_it' = NextSell(sell_levels, sell_it)
    /\ buy_levels' = EraseIfEmpty(buy_levels, buy_it)
    /\ sell_levels' = EraseIfEmpty(sell_levels, sell_it)
    /\ mpc' = "levels"
    /\ UNCHANGED <<trades, submitted, filled>>

MatchStep == MatchBegin \/ MatchEnd \/ EnterLevels \/ Fill \/ NextLevels

Next == \/ \E b \in BOOLEAN, p \in Prices, q \in Quantities : Submit(b, p, q)
        \/ MatchStep

Spec == Init /\ [][Next]_vars

\* The matcher calls match() again and again (main.cpp: while (running)).
FairSpec == Spec /\ WF_vars(MatchStep)

-----------------------------------------------------------------------------
(***************************************************************************)
(* Properties                                                              *)
(***************************************************************************)
Orders == [order_id : OrderIds, symbol : {Symbol}, is_buy : BOOLEAN,
           price : Prices, quantity : Int]

Levels(is_buy) == IF is_buy THEN buy_levels ELSE sell_levels
IsResting(n) ==
    LET o == submitted[n]
        levels == Levels(o.is_buy)
    IN  /\ o.price \in DOMAIN levels
        /\ \E i \in DOMAIN levels[o.price] : levels[o.price][i].order_id = n

\* Every order rests at its own price, on its own side, with exactly the
\* quantity that has not been traded; an order that rests nowhere has been
\* traded in full.  No quantity is lost or traded twice.
LedgerBalanced ==
    /\ \A b \in BOOLEAN : \A p \in DOMAIN Levels(b) :
          \A i \in DOMAIN Levels(b)[p] :
             LET o == Levels(b)[p][i] IN
             o = [submitted[o.order_id] EXCEPT !.quantity = @ - filled[o.order_id]]
               /\ o.is_buy = b /\ o.price = p
    /\ \A n \in 1 .. Len(submitted) :
          \/ filled[n] = submitted[n].quantity
          \/ IsResting(n)

\* Erasing levels while iterating is safe: an iterator that is dereferenced
\* points to a level that exists, and no empty level is left behind when
\* match() has returned.
IteratorsValid ==
    /\ mpc # "idle" => /\ buy_it \in DOMAIN buy_levels \cup {End}
                       /\ sell_it \in DOMAIN sell_levels \cup {End}
    /\ mpc = "pair" => buy_it # End /\ sell_it # End
    /\ \A p \in DOMAIN buy_levels :
          buy_levels[p] = <<>> => mpc = "pair" /\ p = buy_it
    /\ \A p \in DOMAIN sell_levels :
          sell_levels[p] = <<>> => mpc = "pair" /\ p = sell_it

\* n is the resting order a matcher with price-time priority must serve first.
HasPriority(n) ==
    LET o == submitted[n] IN
    \A m \in 1 .. Len(submitted) :
       (m # n /\ submitted[m].is_buy = o.is_buy /\ IsResting(m))
       => \/ (o.is_buy /\ submitted[m].price < o.price)
          \/ (~o.is_buy /\ submitted[m].price > o.price)
          \/ (submitted[m].price = o.price /\ n < m)

TradesByPriority ==
    HasPriority(Head(BuyQueue).order_id) /\ HasPriority(Head(SellQueue).order_id)

\* The first trade of a call of match() is between the two orders that
\* price-time priority selects.
FirstTradeHasPriority == [][Fill /\ trades = <<>> => TradesByPriority]_vars

\* README.md:51, "Matching logic follows **price-time priority**": so does
\* every other trade.
PriceTimePriority == [][Fill => TradesByPriority]_vars

Crossed == \E b \in DOMAIN buy_levels, s \in DOMAIN sell_levels : b >= s

\* A call of match() may leave the book crossed, but when no more orders
\* arrive the repeated calls uncross it for good.
EventuallyUncrossed == <>[]~Crossed
=============================================================================
