----------------------------- MODULE OrderBookOps -----------------------------
(***************************************************************************)
(* week12_PortfolioInfra/include/orderbook_optimized.hpp, the data side.   *)
(*                                                                         *)
(* One side of a book is a std::map from a price to the queue of the       *)
(* orders resting at that price: a function whose domain is the set of     *)
(* prices that have an entry.  A map's end() iterator is End.  An order is *)
(* a record with the members of struct Order (order.hpp) that the book     *)
(* reads; the book never looks at its type, LIMIT or MARKET.               *)
(***************************************************************************)
EXTENDS Integers, Sequences

CONSTANTS Prices,      \* limit prices
          Quantities,  \* order quantities
          MaxOrders,   \* bound: orders submitted
          End          \* buy_levels.end(), sell_levels.end()

ASSUME NumbersAssumption == /\ Prices \subseteq Int
                            /\ Quantities \subseteq Int
                            /\ MaxOrders \in Nat
ASSUME EndAssumption == End \notin Int

NoLevels == [p \in {} |-> <<>>]

(***************************************************************************)
(* An operator named X_..Slip is X with a slip one could make in the code; *)
(* the specifications do not use it.                                       *)
(***************************************************************************)

\* levels[o.price].push_back(o): operator[] creates a missing level.
AddOrder(levels, o) ==
    [p \in DOMAIN levels \cup {o.price} |->
        IF p # o.price THEN levels[p]
        ELSE IF p \in DOMAIN levels THEN Append(levels[p], o) ELSE <<o>>]

Erase(levels, p) == [q \in DOMAIN levels \ {p} |-> levels[q]]

\* The iterators: buy_levels is ordered by std::greater, sell_levels by
\* std::less.  begin() is First over all keys, ++ is First over the keys after.
FirstBuy_LowestSlip(prices) ==
    IF prices = {} THEN End ELSE CHOOSE p \in prices : \A q \in prices : q >= p
FirstBuy(prices) ==
    IF prices = {} THEN End ELSE CHOOSE p \in prices : \A q \in prices : q <= p
FirstSell(prices) ==
    IF prices = {} THEN End ELSE CHOOSE p \in prices : \A q \in prices : q >= p
NextBuy(levels, p) == FirstBuy({q \in DOMAIN levels : q < p})
NextSell(levels, p) == FirstSell({q \in DOMAIN levels : q > p})

\* Prices must differ to trade.
Crosses_StrictSlip(bp, sp) == bp # End /\ sp # End /\ bp > sp

\* A price level pair the outer loop of match() enters.
Crosses(bp, sp) == bp # End /\ sp # End /\ bp >= sp

MinQuantity(buy, sell) ==
    IF buy.quantity <= sell.quantity THEN buy.quantity ELSE sell.quantity

\* Drops the front order whatever is left of it.
TakeFront_DropSlip(levels, p, q) == [levels EXCEPT ![p] = Tail(@)]

\* Take q from the order at the front of the level, and drop it when nothing
\* is left of it.
TakeFront(levels, p, q) ==
    IF Head(levels[p]).quantity = q
      THEN [levels EXCEPT ![p] = Tail(@)]
      ELSE [levels EXCEPT ![p][1].quantity = @ - q]

\* Trade{buy.order_id, sell.order_id, buy.symbol, sell_price, qty}
TradeOf(buy, sell, sp) ==
    [buy_order_id |-> buy.order_id, sell_order_id |-> sell.order_id,
     symbol |-> buy.symbol, price |-> sp, quantity |-> MinQuantity(buy, sell)]

\* Leaves empty levels behind.
EraseIfEmpty_NeverSlip(levels, p) == levels

\* if (old->second.empty()) levels.erase(old);
EraseIfEmpty(levels, p) == IF levels[p] = <<>> THEN Erase(levels, p) ELSE levels

(***************************************************************************)
(* A whole call of match(), for callers that hold the book's lock: the     *)
(* loop of OrderBookOptimized, iterated until it exits.                    *)
(***************************************************************************)
Book(buys, sells) == [buys |-> buys, sells |-> sells]
EmptyBook == Book(NoLevels, NoLevels)

\* One pass of the inner loop, or the end of a level pair.
LevelStep(m) ==
    LET buys == m.book.buys[m.bp]
        sells == m.book.sells[m.sp]
        t == TradeOf(Head(buys), Head(sells), m.sp)
    IN  IF buys # <<>> /\ sells # <<>>
          THEN [m EXCEPT !.book = Book(TakeFront(m.book.buys, m.bp, t.quantity),
                                       TakeFront(m.book.sells, m.sp, t.quantity)),
                         !.trades = Append(@, t)]
          ELSE [m EXCEPT !.book = Book(EraseIfEmpty(m.book.buys, m.bp),
                                       EraseIfEmpty(m.book.sells, m.sp)),
                         !.bp = NextBuy(m.book.buys, m.bp),
                         !.sp = NextSell(m.book.sells, m.sp)]

\* [book, trades] after match().  The set in `run' has one member: it stands for
\* LET m == run[k - 1], and is evaluated once.  fuel is at least the number of
\* resting orders and levels.
Match(book, fuel) ==
    LET start == [book |-> book, trades |-> <<>>,
                  bp |-> FirstBuy(DOMAIN book.buys),
                  sp |-> FirstSell(DOMAIN book.sells)]
        run[k \in 0 .. fuel] ==
            IF k = 0 THEN start
            ELSE CHOOSE r \in {IF Crosses(m.bp, m.sp) THEN LevelStep(m) ELSE m :
                                m \in {run[k - 1]}} : TRUE
    IN  run[fuel]
=============================================================================
