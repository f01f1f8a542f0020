------------------------------- MODULE SweepBook -------------------------------
(***************************************************************************)
(* week10_backtest_engine/orderbook.hpp: an incoming order sweeps the      *)
(* other side of the book from its best level on, and what is left of a    *)
(* LIMIT order rests.  One step is one pass of the inner loop.  The four   *)
(* branches of add_order, MARKET or LIMIT and buy or sell, differ only in  *)
(* the side they sweep, the end they begin at and the limit.  An iterator  *)
(* of a std::map is the key it stands at, `End' past the last one; a       *)
(* reverse_iterator is its base(), and designates the level before that.   *)
(*                                                                         *)
(* Prices are the ranks of the doubles that occur, which is all the book   *)
(* compares.  Every order of the program has the id -1; `n' numbers them   *)
(* in the order of submission and is not read by the code.                 *)
(***************************************************************************)
EXTENDS Integers, Sequences, FiniteSetsExt

CONSTANTS MinPrice, MaxPrice,  \* the range of the prices
          Quantities,
          MaxOrders,           \* bound: orders submitted
          NoOrder              \* add_order is not running

ASSUME PriceAssumption == MinPrice \in Nat /\ MaxPrice \in Nat
ASSUME QuantityAssumption == Quantities \subseteq Nat
ASSUME BoundAssumption == MaxOrders \in Nat
ASSUME NoOrderAssumption ==
    NoOrder \notin [n : Nat, is_buy : BOOLEAN, price : Nat, quantity : Nat,
                    type : {"LIMIT", "MARKET"}]

VARIABLES buy_book_, sell_book_, \* price -> queue of resting orders
          order, qty_left,       \* the order being added and what is left of it
          it,                    \* the loop's iterator, of a sell order its base
          fills,                 \* the result of the latest add_order
          count,                 \* orders submitted
          placed, traded, expired \* history: shares submitted per side (TRUE is
                                 \* buy), traded, and per side left of MARKET
                                 \* orders (or canceled, see LimitBook)

shareVars == <<placed, traded, expired>>
bookVars == <<buy_book_, sell_book_, order, qty_left, it, fills, count, shareVars>>

Prices == MinPrice .. MaxPrice
Types == {"LIMIT", "MARKET"}
Orders == [n : 1 .. MaxOrders, is_buy : BOOLEAN, price : Prices,
           quantity : Quantities, type : Types]

NoLevels == [p \in {} |-> <<>>]
End == MaxPrice + 1  \* end()

\* The level after p, where erase of p goes on.
Following(levels, p) ==
    LET after == {q \in DOMAIN levels : q > p}
    IN  IF after = {} THEN End ELSE Min(after)

BookInit ==
    /\ buy_book_ = NoLevels
    /\ sell_book_ = NoLevels
    /\ order = NoOrder
    /\ qty_left = 0
    /\ it = End
    /\ fills = <<>>
    /\ count = 0
    /\ placed = [b \in BOOLEAN |-> 0]
    /\ traded = 0
    /\ expired = [b \in BOOLEAN |-> 0]

(***************************************************************************)
(* An operator named X_..Slip is X with a slip one could make in the code; *)
(* the specifications do not use it.                                       *)
(***************************************************************************)

\* A sell order begins with the lowest bid, as a buy order does with the asks.
Begins_LowestSlip(is_buy) ==
    IF is_buy THEN Following(sell_book_, MinPrice - 1)
              ELSE Following(buy_book_, Following(buy_book_, MinPrice - 1))

\* sell_book_.begin() for a buy, buy_book_.rbegin(), whose base is end(), for a
\* sell.
Begins(is_buy) == IF is_buy THEN Following(sell_book_, MinPrice - 1) ELSE End

\* add_order(order) is called.
AddOrder(is_buy, price, quantity, type) ==
    /\ order = NoOrder
    /\ count < MaxOrders
    /\ count' = count + 1
    /\ order' = [n |-> count + 1, is_buy |-> is_buy, price |-> price,
                 quantity |-> quantity, type |-> type]
    /\ qty_left' = quantity
    /\ it' = Begins(is_buy)
    /\ fills' = <<>>
    /\ placed' = [placed EXCEPT ![is_buy] = @ + quantity]
    /\ UNCHANGED <<buy_book_, sell_book_, traded, expired>>

\* The side an order sweeps.
Opposite(o) == IF o.is_buy THEN sell_book_ ELSE buy_book_

\* A limit order does not trade at its own price.
Within_StrictSlip(o, p) ==
    o.type = "MARKET" \/ (IF o.is_buy THEN p < o.price ELSE p > o.price)

\* it->first <= order.price for a buy, >= for a sell; no limit for MARKET
Within(o, p) ==
    o.type = "MARKET" \/ (IF o.is_buy THEN p <= o.price ELSE p >= o.price)

\* The level the iterator designates.
Designated(p) ==
    /\ p \in DOMAIN Opposite(order)
    /\ IF order.is_buy THEN p = it
       ELSE p < it /\ \A q \in DOMAIN Opposite(order) : q < it => q <= p

\* The condition of the loops, at level p: it is not end() (rend()), within the
\* limit, and something is left to match.
Takes(p) == Designated(p) /\ Within(order, p) /\ qty_left > 0

MatchQty(front) == IF qty_left <= front.quantity THEN qty_left ELSE front.quantity

\* A partly filled order is dropped.
Reduced_DropSlip(levels, p, q) ==
    IF Len(levels[p]) > 1 THEN [levels EXCEPT ![p] = Tail(@)]
                          ELSE [x \in DOMAIN levels \ {p} |-> levels[x]]

\* The order at the front gives q; it is popped when nothing is left of it, and
\* the level is erased when it was the last.
Reduced(levels, p, q) ==
    CASE Head(levels[p]).quantity > q -> [levels EXCEPT ![p][1].quantity = @ - q]
      [] Head(levels[p]).quantity <= q /\ Len(levels[p]) = 1 ->
            [x \in DOMAIN levels \ {p} |-> levels[x]]
      [] OTHER -> [levels EXCEPT ![p] = Tail(@)]

\* The iterator is incremented although erase has moved it on.
Advanced_SkipSlip(levels, p, left) ==
    CASE p \notin DOMAIN levels -> Following(levels, Following(levels, p))
      [] p \in DOMAIN levels /\ left = 0 -> IF order.is_buy THEN Following(levels, p) ELSE p
      [] OTHER -> it

\* The iterator after a fill at p has left the levels so and the order with
\* `left': it = erase(it), in a sell by way of next(it).base(), when the level is
\* empty; ++it when the inner loop ends because nothing is left to match; and
\* otherwise the inner loop goes on.
Advanced(levels, p, left) ==
    CASE p \notin DOMAIN levels -> Following(levels, p)
      [] p \in DOMAIN levels /\ left = 0 -> IF order.is_buy THEN Following(levels, p) ELSE p
      [] OTHER -> it

\* The body of the inner loop: fill = order at the resting order's price.
TakeFront(p) ==
    /\ order # NoOrder /\ Takes(p)
    /\ LET q == MatchQty(Head(Opposite(order)[p]))
       IN  /\ fills' = Append(fills, [order EXCEPT !.price = p, !.quantity = q])
           /\ qty_left' = qty_left - q
           /\ IF order.is_buy
                THEN sell_book_' = Reduced(sell_book_, p, q) /\ UNCHANGED buy_book_
                ELSE buy_book_' = Reduced(buy_book_, p, q) /\ UNCHANGED sell_book_
           /\ it' = Advanced(Reduced(Opposite(order), p, q), p, qty_left - q)
           /\ traded' = traded + q
    /\ UNCHANGED <<order, count, placed, expired>>

\* book_[order.price].push_back(remain)
Rest(levels, remain) ==
    [p \in DOMAIN levels \cup {remain.price} |->
        IF p # remain.price THEN levels[p]
        ELSE IF p \in DOMAIN levels THEN Append(levels[p], remain) ELSE <<remain>>]

\* The loops are over; what is left of a LIMIT order rests, add_order returns.
Finish ==
    /\ order # NoOrder
    /\ \A p \in DOMAIN Opposite(order) : ~Takes(p)
    /\ it' = End
    /\ LET remain == [order EXCEPT !.quantity = qty_left]
       IN  IF order.type = "LIMIT" /\ qty_left > 0
             THEN IF order.is_buy
                    THEN buy_book_' = Rest(buy_book_, remain) /\ UNCHANGED sell_book_
                    ELSE sell_book_' = Rest(sell_book_, remain) /\ UNCHANGED buy_book_
             ELSE UNCHANGED <<buy_book_, sell_book_>>
    /\ expired' = IF order.type = "LIMIT" THEN expired
                  ELSE [expired EXCEPT ![order.is_buy] = @ + qty_left]
    /\ order' = NoOrder
    /\ qty_left' = 0
    /\ UNCHANGED <<fills, count, placed, traded>>

Running == (\E p \in Prices : TakeFront(p)) \/ Finish

-----------------------------------------------------------------------------
\* Any sequence of orders: the exchange's clients are not limited to those of
\* the backtest.
BookNext == \/ \E b \in BOOLEAN, p \in Prices, q \in Quantities, t \in Types :
                  AddOrder(b, p, q, t)
            \/ Running

BookSpec == BookInit /\ [][BookNext]_bookVars

-----------------------------------------------------------------------------
(***************************************************************************)
(* Properties                                                              *)
(***************************************************************************)

\* The types of the book's fields and of add_order's locals; no level is empty.
BookTypeOK ==
    /\ \A levels \in {buy_book_, sell_book_} :
          /\ DOMAIN levels \subseteq Prices
          /\ \A p \in DOMAIN levels :
                /\ levels[p] # <<>>
                /\ \A i \in DOMAIN levels[p] :
                      levels[p][i].price = p /\ levels[p][i].n \in 1 .. MaxOrders
    /\ order \in Orders \cup {NoOrder}
    /\ qty_left \in Nat
    /\ it \in Prices \cup {End}
    /\ count \in 0 .. MaxOrders

\* The book is never crossed, not even in the middle of add_order: what rests
\* could not trade with anything that rests on the other side.
BookUncrossed ==
    \A b \in DOMAIN buy_book_, a \in DOMAIN sell_book_ : b < a

\* README.md:22, "price-time priority": the resting order that trades while
\* add_order runs is one no other resting order of its side has a better price
\* or the same price and an earlier submission than.
Resting(levels) == UNION {{levels[p][i] : i \in DOMAIN levels[p]} : p \in DOMAIN levels}
Touched(before, after) == {o \in Resting(before) : o \notin Resting(after)}
BuyPriority == \A o \in Touched(buy_book_, buy_book_') : \A r \in Resting(buy_book_) :
                  r.price <= o.price /\ (r.price = o.price => r.n >= o.n)
SellPriority == \A o \in Touched(sell_book_, sell_book_') : \A r \in Resting(sell_book_) :
                  r.price >= o.price /\ (r.price = o.price => r.n >= o.n)
PriceTimePriority == [][order # NoOrder => BuyPriority /\ SellPriority]_bookVars

\* Of the shares submitted on a side each is resting, traded, still to be
\* matched, or was left of a MARKET order.
SharesOf(levels) == SumFunction([o \in Resting(levels) |-> o.quantity])
InHand(b) == IF order = NoOrder THEN 0 ELSE IF order.is_buy = b THEN qty_left ELSE 0
SharesConserved ==
    /\ placed[TRUE] = SharesOf(buy_book_) + traded + InHand(TRUE) + expired[TRUE]
    /\ placed[FALSE] = SharesOf(sell_book_) + traded + InHand(FALSE) + expired[FALSE]
=============================================================================
