------------------------------- MODULE LimitBook -------------------------------
(***************************************************************************)
(* The order books of week9_limit_orderbook/orderbook.hpp and of week 10,  *)
(* which grew out of it.  A MARKET order sweeps the other side of both in  *)
(* the same way; in week 9 a LIMIT order rests without being matched, the  *)
(* book may be crossed, and an order may be canceled: id_map_ leads from   *)
(* the id of a resting order to its side and price.  In week 9 `n' is the  *)
(* order's id.                                                             *)
(***************************************************************************)
EXTENDS SweepBook

ASSUME RangeAssumption == MinPrice <= MaxPrice  \* there is a price

VARIABLES week,     \* the program: 9 or 10
          id_map_   \* order_id -> <<is_buy, price>>

vars == <<bookVars, week, id_map_>>

Init == BookInit /\ week \in {9, 10} /\ id_map_ = [n \in {} |-> <<>>]

\* id_map_.erase(order_id)
Without(map, id) == [n \in DOMAIN map \ {id} |-> map[n]]

\* add_order of a LIMIT order, week 9: book[price].push_back(order)
AddLimit(is_buy, price, quantity) ==
    /\ week = 9 /\ order = NoOrder /\ count < MaxOrders
    /\ count' = count + 1
    /\ LET o == [n |-> count', is_buy |-> is_buy, price |-> price,
                 quantity |-> quantity, type |-> "LIMIT"]
       IN  IF is_buy THEN buy_book_' = Rest(buy_book_, o) /\ UNCHANGED sell_book_
                     ELSE sell_book_' = Rest(sell_book_, o) /\ UNCHANGED buy_book_
    /\ id_map_' = [n \in DOMAIN id_map_ \cup {count'} |->
                      IF n = count' THEN <<is_buy, price>> ELSE id_map_[n]]
    /\ placed' = [placed EXCEPT ![is_buy] = @ + quantity]
    /\ UNCHANGED <<week, order, qty_left, it, fills, traded, expired>>

\* add_order of a MARKET order, week 9; its price is not read.
AddMarket(is_buy, quantity) ==
    /\ week = 9
    /\ AddOrder(is_buy, MinPrice, quantity, "MARKET")
    /\ UNCHANGED <<week, id_map_>>

(***************************************************************************)
(* An operator named X_..Slip is X with a slip one could make in the code; *)
(* the specifications do not use it.                                       *)
(***************************************************************************)

\* The id is forgotten at the first fill.
UsedUp_AnyFillSlip(front) == TRUE

\* limit_order.quantity == 0 once the incoming order has taken its share
UsedUp(front) == front.quantity = MatchQty(front)

\* The body of the inner loop of match_market_order.
Sweep(p) ==
    /\ week = 9
    /\ TakeFront(p)
    /\ LET front == Head(Opposite(order)[p])
       IN  id_map_' = IF UsedUp(front) THEN Without(id_map_, front.n) ELSE id_map_
    /\ UNCHANGED week

\* match_market_order returns; what is left of the order is dropped.
Return == week = 9 /\ Finish /\ UNCHANGED <<week, id_map_>>

\* queue.erase(qit), at position i; the level goes with its last order.
Removed(levels, p, i) ==
    IF Len(levels[p]) = 1 THEN [q \in DOMAIN levels \ {p} |-> levels[q]]
    ELSE [levels EXCEPT ![p] = SubSeq(@, 1, i - 1) \o SubSeq(@, i + 1, Len(@))]

\* cancel_order(order_id), called between add_orders.  The other cases return
\* false and change nothing: the id is unknown, its level or the order is gone.
CancelOrder(id) ==
    /\ week = 9 /\ order = NoOrder
    /\ id \in DOMAIN id_map_
    /\ LET is_buy == id_map_[id][1]
           price == id_map_[id][2]
           book == IF is_buy THEN buy_book_ ELSE sell_book_
       IN  /\ price \in DOMAIN book
           /\ \E i \in DOMAIN book[price] :
                 /\ book[price][i].n = id
                 /\ \A j \in 1 .. i - 1 : book[price][j].n # id
                 /\ expired' = [expired EXCEPT ![is_buy] = @ + book[price][i].quantity]
                 /\ IF is_buy
                      THEN buy_book_' = Removed(book, price, i) /\ UNCHANGED sell_book_
                      ELSE sell_book_' = Removed(book, price, i) /\ UNCHANGED buy_book_
    /\ id_map_' = Without(id_map_, id)
    /\ UNCHANGED <<week, order, qty_left, it, fills, count, placed, traded>>

Week10 == week = 10 /\ BookNext /\ UNCHANGED <<week, id_map_>>

Next ==
    \/ \E b \in BOOLEAN, q \in Quantities :
          AddMarket(b, q) \/ \E p \in Prices : AddLimit(b, p, q)
    \/ \E p \in Prices : Sweep(p)
    \/ Return
    \/ \E id \in 1 .. MaxOrders : CancelOrder(id)
    \/ Week10

Spec == Init /\ [][Next]_vars

-----------------------------------------------------------------------------
(***************************************************************************)
(* Properties, with SharesConserved and PriceTimePriority of SweepBook     *)
(***************************************************************************)

\* In week 9 id_map_ knows the orders that rest and no others, each at the side
\* and the price where it rests, in the middle of a sweep too: whatever rests can
\* be canceled and nothing else can.
IdMapAgrees ==
    week = 9 =>
        /\ DOMAIN id_map_ = {o.n : o \in Resting(buy_book_) \cup Resting(sell_book_)}
        /\ \A id \in DOMAIN id_map_ :
              \E o \in Resting(IF id_map_[id][1] THEN buy_book_ ELSE sell_book_) :
                  o.n = id /\ o.price = id_map_[id][2]

\* In both weeks a MARKET order is left unfilled only by an empty side: no level
\* is passed over while the sweep erases levels under its iterator.
MarketTakesAll ==
    [][order # NoOrder /\ order' = NoOrder /\ order.type = "MARKET" /\ qty_left > 0
          => DOMAIN Opposite(order) = {}]_vars
=============================================================================
