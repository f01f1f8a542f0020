----------------------------- MODULE PriorityBook -----------------------------
(***************************************************************************)
(* OrderBook of weeks 3, 4 and 5 (order_book.hpp): one class that grows.   *)
(* Two std::priority_queues hold the orders; week 3 compares prices only,  *)
(* weeks 4 and 5 also compare timestamps, keep an order_map from ids to    *)
(* orders and let a client cancel and modify.  A canceled order stays in   *)
(* its queue until the matching loop meets it on top.                      *)
(*                                                                         *)
(* The Order objects are `orders', in the order they were created; a queue *)
(* is the set of the objects in it.  Which of several equal elements a     *)
(* priority_queue has on top is up to the library: any of them.  Week 3    *)
(* pops both orders of a match and pushes the remainder back: the same     *)
(* object with a smaller quantity.                                         *)
(***************************************************************************)
EXTENDS Integers, Sequences, Functions

CONSTANTS Weeks,      \* which of the three versions
          Prices, MaxQty,  \* of the orders clients send
          MaxOrders,  \* bound: orders added by clients
          MaxObjects  \* bound: Order objects, the replacements included

ASSUME WeeksAssumption == Weeks \subseteq {3, 4, 5}
ASSUME BoundsAssumption == /\ Prices \subseteq Int
                           /\ MaxQty \in Nat \ {0}
                           /\ MaxOrders \in Nat /\ MaxObjects \in Nat

VARIABLES week,
          orders,       \* every Order object; `size' is its first quantity
          buy_orders, sell_orders,
          order_map,    \* id -> object, 0 for none
          matching,     \* inside match_orders
          trade_log,    \* weeks 3 and 4 only print it
          added,        \* orders added so far, timestamp_counter
          withdrawn     \* history: ids for which cancel_order returned true

vars == <<week, orders, buy_orders, sell_orders, order_map, matching,
          trade_log, added, withdrawn>>

\* Ids are unique, as in all the programs that use the book, and given out with
\* the timestamps: one number for both.
Ids == 1 .. MaxOrders
Quantities == 1 .. MaxQty

Init ==
    /\ week \in Weeks
    /\ orders = <<>>
    /\ buy_orders = {} /\ sell_orders = {}
    /\ order_map = [i \in Ids |-> 0]
    /\ matching = FALSE
    /\ trade_log = <<>>
    /\ added = 0
    /\ withdrawn = {}

BetterPrice(a, b) == IF a.is_buy THEN a.price > b.price ELSE a.price < b.price

\* BuyComp and SellComp: a is to be matched before b.
Ahead(a, b) ==
    \/ BetterPrice(a, b)
    \/ week # 3 /\ a.price = b.price /\ a.id < b.id

Tops(q) == {o \in q : \A r \in q : ~Ahead(orders[r], orders[o])}

(***************************************************************************)
(* The calls of a client.  An operator named X_..Slip is X with a slip one *)
(* could make in the code; the specifications do not use it.               *)
(***************************************************************************)

\* order_map.insert does not replace an entry that is there.
Mapped_KeepEntrySlip(id, k) ==
    IF order_map[id] # 0 THEN order_map ELSE [order_map EXCEPT ![id] = k]
\* order_map[order.id] = object
Mapped(id, k) == [order_map EXCEPT ![id] = k]

\* add_order with the objects `all' and the new one, up to match_orders.
Enter(all, o) ==
    LET k == Len(all) + 1 IN
    /\ orders' = Append(all, o)
    /\ order_map' = IF week = 3 THEN order_map ELSE Mapped(o.id, k)
    /\ IF o.is_buy THEN buy_orders' = buy_orders \cup {k} /\ UNCHANGED sell_orders
                   ELSE sell_orders' = sell_orders \cup {k} /\ UNCHANGED buy_orders
    /\ matching' = TRUE

AddOrder(is_buy, price, qty) ==
    /\ ~matching
    /\ added < MaxOrders /\ Len(orders) < MaxObjects
    /\ Enter(orders, [id |-> added + 1, is_buy |-> is_buy, price |-> price,
                      quantity |-> qty, size |-> qty, canceled |-> FALSE])
    /\ added' = added + 1
    /\ UNCHANGED <<week, trade_log, withdrawn>>

Cancel(all, k) == [all EXCEPT ![k].canceled = TRUE]

\* cancel_order: an id that is known, be its order open, filled or canceled.
CancelOrder(id) ==
    /\ ~matching
    /\ order_map[id] # 0
    /\ orders' = Cancel(orders, order_map[id])
    /\ withdrawn' = withdrawn \cup {id}
    /\ UNCHANGED <<week, buy_orders, sell_orders, order_map, matching,
                   trade_log, added>>

\* A filled order may be modified too.
MayModify_FilledSlip(o) == ~o.canceled

\* Neither filled nor canceled.
MayModify(o) == o.quantity > 0 /\ ~o.canceled

\* modify_order of an open order: a replacement with the old id and timestamp.
\* Any other order is left alone.
ModifyOrder(id, price, qty) ==
    /\ ~matching
    /\ order_map[id] # 0 /\ MayModify(orders[order_map[id]])
    /\ Len(orders) < MaxObjects
    /\ Enter(Cancel(orders, order_map[id]),
             [orders[order_map[id]] EXCEPT !.price = price, !.quantity = qty,
                                           !.size = qty])
    /\ UNCHANGED <<week, trade_log, added, withdrawn>>

(***************************************************************************)
(* match_orders, one iteration of its loop per step.                       *)
(***************************************************************************)

\* `continue' without the pop.
PopTop_NotSlip(queue, k) == queue
PopTop(queue, k) == queue \ {k}

SkipCanceledBuy ==
    /\ matching /\ sell_orders # {}
    /\ \E b \in Tops(buy_orders) :
          /\ orders[b].canceled
          /\ buy_orders' = PopTop(buy_orders, b)
    /\ UNCHANGED <<week, orders, sell_orders, order_map, matching,
                   trade_log, added, withdrawn>>

SkipCanceledSell ==
    /\ matching
    /\ \E b \in Tops(buy_orders), s \in Tops(sell_orders) :
          /\ ~orders[b].canceled /\ orders[s].canceled
          /\ sell_orders' = PopTop(sell_orders, s)
    /\ UNCHANGED <<week, orders, buy_orders, order_map, matching,
                   trade_log, added, withdrawn>>

\* std::min
Smaller(m, n) == IF m < n THEN m ELSE n

\* Both orders leave the book, the remainder is not pushed back.
AfterTrade_DropRestSlip(queue, k, n) == queue \ {k}
\* An order leaves its queue when all of it is traded.
AfterTrade(queue, k, n) == IF orders[k].quantity = n THEN queue \ {k} ELSE queue

\* The orders on top of the queues trade.
Trade(b, s) ==
    LET n == Smaller(orders[b].quantity, orders[s].quantity) IN
    /\ matching
    /\ ~orders[b].canceled /\ ~orders[s].canceled
    /\ orders[b].price >= orders[s].price
    /\ orders' = [orders EXCEPT ![b].quantity = @ - n, ![s].quantity = @ - n]
    /\ buy_orders' = AfterTrade(buy_orders, b, n)
    /\ sell_orders' = AfterTrade(sell_orders, s, n)
    /\ trade_log' = Append(trade_log, [buy |-> b, sell |-> s, quantity |-> n])
    /\ UNCHANGED <<week, order_map, matching, added, withdrawn>>

\* Stops at a canceled order instead of removing it.
Over_AtCanceledSlip(b, s) == orders[b].price < orders[s].price \/ orders[b].canceled
\* The orders on top do not trade with each other.
Over(b, s) == /\ ~orders[b].canceled /\ ~orders[s].canceled
              /\ orders[b].price < orders[s].price

StopMatching ==
    /\ matching
    /\ \/ buy_orders = {} \/ sell_orders = {}
       \/ \E b \in Tops(buy_orders), s \in Tops(sell_orders) : Over(b, s)
    /\ matching' = FALSE
    /\ UNCHANGED <<week, orders, buy_orders, sell_orders, order_map,
                   trade_log, added, withdrawn>>

MatchStep == \/ SkipCanceledBuy
             \/ SkipCanceledSell
             \/ \E b \in Tops(buy_orders), s \in Tops(sell_orders) : Trade(b, s)
             \/ StopMatching

Next == \/ \E is_buy \in BOOLEAN, p \in Prices, q \in Quantities : AddOrder(is_buy, p, q)
        \/ \E id \in Ids : CancelOrder(id)
        \/ \E id \in Ids, p \in Prices, q \in Quantities : ModifyOrder(id, p, q)
        \/ MatchStep

Spec == Init /\ [][Next]_vars

\* A call runs to its end; clients need not make another.
FairSpec == Spec /\ WF_vars(MatchStep)

-----------------------------------------------------------------------------
(***************************************************************************)
(* Properties                                                              *)
(***************************************************************************)
Objects == DOMAIN orders
Open(o) == o.quantity > 0 /\ ~o.canceled

\* However often an order is modified, at most one object of its id can trade,
\* and order_map leads cancel_order and modify_order to that one; every object
\* it replaced was open when it was replaced.
OneOpenOrderPerId ==
    week # 3 => \A k \in Objects :
        k # order_map[orders[k].id] => orders[k].canceled /\ orders[k].quantity > 0

\* No share is lost or made up over partial fills, replacements and lazy
\* removal: what an object has traded and what it still holds add up to its
\* size, and as long as it is open it is in its queue.
Part(k, t) == IF k \in {t.buy, t.sell} THEN t.quantity ELSE 0
Traded(k) == SumFunction([i \in DOMAIN trade_log |-> Part(k, trade_log[i])])
SharesAccountedFor ==
    \A k \in Objects :
        /\ orders[k].size = orders[k].quantity + Traded(k)
        /\ Open(orders[k]) => k \in buy_orders \cup sell_orders

\* When a call returns no two open orders could trade with each other, whatever
\* canceled orders are still in the queues.
UncrossedAtReturn ==
    ~matching => \A b \in buy_orders, s \in sell_orders :
        Open(orders[b]) /\ Open(orders[s]) => orders[b].price < orders[s].price

\* Once cancel_order has said yes the id never trades again, not as an object
\* it was modified into either.
CanceledNeverTrades ==
    [][\A i \in DOMAIN trade_log' \ DOMAIN trade_log :
          /\ orders[trade_log'[i].buy].id \notin withdrawn
          /\ orders[trade_log'[i].sell].id \notin withdrawn]_vars

\* Every call returns: the matching loop ends, canceled orders included.
CallsReturn == matching ~> ~matching
=============================================================================
