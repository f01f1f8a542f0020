-------------------------- MODULE PriorityBook_proofs --------------------------
(***************************************************************************)
(* Proofs about PriorityBook, for every choice of the week, every set of   *)
(* prices and every bound.                                                 *)
(***************************************************************************)
EXTENDS PriorityBook, Recursion, TLAPS

OrderObjects == [id : Ids, is_buy : BOOLEAN, price : Prices, quantity : Nat,
                 size : Nat, canceled : BOOLEAN]
TradeRecords == [buy : Nat, sell : Nat, quantity : Nat]

TypeInv ==
    /\ week \in Weeks
    /\ orders \in Seq(OrderObjects)
    /\ order_map \in [Ids -> Nat]
    /\ matching \in BOOLEAN
    /\ trade_log \in Seq(TradeRecords)
    /\ added \in 0 .. MaxOrders
    /\ withdrawn \subseteq Ids

\* The queues hold objects of their side.
QueuesHoldTheirSide ==
    /\ \A k \in buy_orders : k \in Objects /\ orders[k].is_buy
    /\ \A k \in sell_orders : k \in Objects /\ ~orders[k].is_buy

\* Ids are given out one by one, and order_map leads from an id that has been
\* given out to an object with that id; week 3 has no order_map.
MapLeadsToId ==
    /\ \A k \in Objects : orders[k].id <= added
    /\ \A i \in Ids : order_map[i] # 0 =>
          week # 3 /\ order_map[i] \in Objects /\ orders[order_map[i]].id = i

\* cancel_order has canceled the object that order_map leads to.
WithdrawnAreCanceled ==
    \A i \in withdrawn : order_map[i] # 0 /\ orders[order_map[i]].canceled

\* An order that can trade is in its queue.
OpenAreQueued ==
    \A k \in Objects : Open(orders[k]) => k \in buy_orders \cup sell_orders

ClassInv == /\ TypeInv /\ QueuesHoldTheirSide /\ MapLeadsToId
            /\ OneOpenOrderPerId /\ WithdrawnAreCanceled
            /\ OpenAreQueued /\ UncrossedAtReturn

-----------------------------------------------------------------------------
(***************************************************************************)
(* What the operators do to the Order objects                              *)
(***************************************************************************)
LEMMA CancelShape ==
    ASSUME NEW all \in Seq(OrderObjects), NEW k \in DOMAIN all
    PROVE  /\ Cancel(all, k) \in Seq(OrderObjects)
           /\ DOMAIN Cancel(all, k) = DOMAIN all /\ Len(Cancel(all, k)) = Len(all)
           /\ \A m \in DOMAIN all : m # k => Cancel(all, k)[m] = all[m]
           /\ \A m \in DOMAIN all : /\ Cancel(all, k)[m].id = all[m].id
                                    /\ Cancel(all, k)[m].is_buy = all[m].is_buy
                                    /\ Cancel(all, k)[m].price = all[m].price
                                    /\ Cancel(all, k)[m].quantity = all[m].quantity
                                    /\ Cancel(all, k)[m].size = all[m].size
           /\ Cancel(all, k)[k].canceled
<1>1. PICK o : o = [all[k] EXCEPT !.canceled = TRUE]
  OBVIOUS
<1>2. all[k] \in OrderObjects
  OBVIOUS
<1>3. /\ o \in OrderObjects /\ o.id = all[k].id /\ o.is_buy = all[k].is_buy
      /\ o.price = all[k].price /\ o.quantity = all[k].quantity /\ o.size = all[k].size
      /\ o.canceled
  BY <1>1, <1>2 DEF OrderObjects
<1>4. Cancel(all, k) = [all EXCEPT ![k] = o]
  BY <1>1 DEF Cancel
<1>5. /\ Cancel(all, k) \in Seq(OrderObjects) /\ Len(Cancel(all, k)) = Len(all)
      /\ DOMAIN Cancel(all, k) = DOMAIN all /\ Cancel(all, k)[k] = o
      /\ \A m \in DOMAIN all : m # k => Cancel(all, k)[m] = all[m]
  BY <1>3, <1>4
<1> QED BY <1>1, <1>3, <1>5

\* A trade of n changes two quantities.
Taken(all, b, s, n) == [all EXCEPT ![b].quantity = @ - n, ![s].quantity = @ - n]

LEMMA TradeShape ==
    ASSUME NEW all \in Seq(OrderObjects), NEW b \in DOMAIN all, NEW s \in DOMAIN all,
           b # s, NEW n \in Nat, n <= all[b].quantity, n <= all[s].quantity
    PROVE  LET new == Taken(all, b, s, n)
           IN  /\ new \in Seq(OrderObjects) /\ DOMAIN new = DOMAIN all
               /\ \A k \in DOMAIN all : k # b /\ k # s => new[k] = all[k]
               /\ \A k \in DOMAIN all : /\ new[k].id = all[k].id
                                        /\ new[k].is_buy = all[k].is_buy
                                        /\ new[k].price = all[k].price
                                        /\ new[k].canceled = all[k].canceled
                                        /\ new[k].size = all[k].size
               /\ new[b].quantity = all[b].quantity - n
               /\ new[s].quantity = all[s].quantity - n
<1>1. PICK o : o = [all[b] EXCEPT !.quantity = @ - n]
  OBVIOUS
<1>2. PICK r : r = [all[s] EXCEPT !.quantity = @ - n]
  OBVIOUS
<1>3. /\ all[b] \in OrderObjects /\ all[s] \in OrderObjects
      /\ all[b].quantity - n \in Nat /\ all[s].quantity - n \in Nat
  <2>1. all[b] \in OrderObjects /\ all[s] \in OrderObjects
    OBVIOUS
  <2>2. all[b].quantity \in Nat /\ all[s].quantity \in Nat
    BY <2>1 DEF OrderObjects
  <2> QED BY <2>1, <2>2
<1>4. /\ o \in OrderObjects /\ o.id = all[b].id /\ o.is_buy = all[b].is_buy
      /\ o.price = all[b].price /\ o.canceled = all[b].canceled
      /\ o.quantity = all[b].quantity - n /\ o.size = all[b].size
  BY <1>1, <1>3 DEF OrderObjects
<1>5. /\ r \in OrderObjects /\ r.id = all[s].id /\ r.is_buy = all[s].is_buy
      /\ r.price = all[s].price /\ r.canceled = all[s].canceled
      /\ r.quantity = all[s].quantity - n /\ r.size = all[s].size
  BY <1>2, <1>3 DEF OrderObjects
<1>6. PICK new : new = Taken(all, b, s, n)
  OBVIOUS
<1>7. new = [[all EXCEPT ![b] = o] EXCEPT ![s] = r]
  BY <1>1, <1>2, <1>6 DEF Taken
<1>8. /\ new \in Seq(OrderObjects) /\ DOMAIN new = DOMAIN all
      /\ new[b] = o /\ new[s] = r
      /\ \A k \in DOMAIN all : k # b /\ k # s => new[k] = all[k]
  BY <1>4, <1>5, <1>7
<1> QED BY <1>1, <1>2, <1>4, <1>5, <1>6, <1>8

\* add_order up to the matching loop: the objects stay, a new one follows.
LEMMA EnterShape ==
    ASSUME TypeInv, NEW all \in Seq(OrderObjects), DOMAIN all = Objects,
           NEW o \in OrderObjects, Enter(all, o)
    PROVE  /\ Len(all) \in Nat /\ Objects = 1 .. Len(all)
           /\ orders' \in Seq(OrderObjects) /\ Objects' = 1 .. Len(all) + 1
           /\ \A k \in Objects : orders'[k] = all[k]
           /\ orders'[Len(all) + 1] = o
           /\ order_map' \in [Ids -> Nat]
           /\ week = 3 => order_map' = order_map
           /\ week # 3 => /\ order_map'[o.id] = Len(all) + 1
                          /\ \A i \in Ids : i # o.id => order_map'[i] = order_map[i]
           /\ matching'
           /\ o.is_buy => /\ buy_orders' = buy_orders \cup {Len(all) + 1}
                          /\ sell_orders' = sell_orders
           /\ ~o.is_buy => /\ sell_orders' = sell_orders \cup {Len(all) + 1}
                           /\ buy_orders' = buy_orders
<1>1. Len(all) \in Nat /\ DOMAIN all = 1 .. Len(all) /\ o.id \in Ids
  BY DEF OrderObjects
<1>2. /\ orders' = Append(all, o) /\ matching'
      /\ order_map' = IF week = 3 THEN order_map
                      ELSE [order_map EXCEPT ![o.id] = Len(all) + 1]
      /\ IF o.is_buy
         THEN buy_orders' = buy_orders \cup {Len(all) + 1} /\ UNCHANGED sell_orders
         ELSE sell_orders' = sell_orders \cup {Len(all) + 1} /\ UNCHANGED buy_orders
  BY DEF Enter, Mapped
<1>3. /\ orders' \in Seq(OrderObjects) /\ DOMAIN orders' = 1 .. Len(all) + 1
      /\ \A k \in DOMAIN all : orders'[k] = all[k]
      /\ orders'[Len(all) + 1] = o
  BY <1>1, <1>2
<1>4. order_map \in [Ids -> Nat]
  BY DEF TypeInv
<1>5. /\ order_map' \in [Ids -> Nat]
      /\ week = 3 => order_map' = order_map
      /\ week # 3 => /\ order_map'[o.id] = Len(all) + 1
                     /\ \A i \in Ids : i # o.id => order_map'[i] = order_map[i]
  BY <1>1, <1>2, <1>4
<1> QED BY <1>1, <1>2, <1>3, <1>5 DEF Objects

-----------------------------------------------------------------------------
(***************************************************************************)
(* The steps of the class                                                  *)
(***************************************************************************)
LEMMA ClassInvInit == Init => ClassInv
<1> SUFFICES ASSUME Init PROVE ClassInv
  OBVIOUS
<1> USE DEF Init
<1>1. TypeInv
  <2>1. added \in 0 .. MaxOrders
    BY BoundsAssumption
  <2>2. orders \in Seq(OrderObjects) /\ trade_log \in Seq(TradeRecords)
    OBVIOUS
  <2>3. order_map \in [Ids -> Nat]
    OBVIOUS
  <2> QED BY <2>1, <2>2, <2>3 DEF TypeInv
<1>2. QueuesHoldTheirSide /\ UncrossedAtReturn
  BY DEF QueuesHoldTheirSide, UncrossedAtReturn
<1>3. MapLeadsToId /\ WithdrawnAreCanceled /\ OpenAreQueued /\ OneOpenOrderPerId
  BY DEF MapLeadsToId, WithdrawnAreCanceled, OpenAreQueued, OneOpenOrderPerId, Objects
<1> QED BY <1>1, <1>2, <1>3 DEF ClassInv

LEMMA AddKeeps ==
    ASSUME ClassInv, NEW b \in BOOLEAN, NEW p \in Prices, NEW q \in Quantities,
           AddOrder(b, p, q)
    PROVE  ClassInv'
<1>1. PICK o \in OrderObjects :
         /\ o.id = added + 1 /\ o.id \in Ids /\ ~o.canceled
         /\ Enter(orders, o)
  <2>1. added + 1 \in Ids /\ q \in Nat
    BY BoundsAssumption DEF AddOrder, ClassInv, TypeInv, Ids, Quantities
  <2> DEFINE o == [id |-> added + 1, is_buy |-> b, price |-> p,
                   quantity |-> q, size |-> q, canceled |-> FALSE]
  <2>2. o \in OrderObjects /\ o.id = added + 1 /\ ~o.canceled
    BY <2>1 DEF OrderObjects
  <2>3. Enter(orders, o)
    BY DEF AddOrder
  <2> QED BY <2>1, <2>2, <2>3
<1>2. /\ UNCHANGED <<week, trade_log, withdrawn>>
      /\ added' = added + 1 /\ added' \in 0 .. MaxOrders
  BY BoundsAssumption DEF AddOrder, ClassInv, TypeInv
<1>3. TypeInv /\ orders \in Seq(OrderObjects)
  BY DEF ClassInv, TypeInv
<1> DEFINE k0 == Len(orders) + 1
<1>3a. /\ Len(orders) \in Nat /\ Objects = 1 .. Len(orders)
       /\ orders' \in Seq(OrderObjects) /\ Objects' = 1 .. Len(orders) + 1
       /\ \A k \in Objects : orders'[k] = orders[k]
       /\ orders'[Len(orders) + 1] = o
       /\ order_map' \in [Ids -> Nat]
       /\ week = 3 => order_map' = order_map
       /\ week # 3 => /\ order_map'[o.id] = Len(orders) + 1
                      /\ \A i \in Ids : i # o.id => order_map'[i] = order_map[i]
       /\ matching'
       /\ o.is_buy => /\ buy_orders' = buy_orders \cup {Len(orders) + 1}
                      /\ sell_orders' = sell_orders
       /\ ~o.is_buy => /\ sell_orders' = sell_orders \cup {Len(orders) + 1}
                       /\ buy_orders' = buy_orders
  <2>1. DOMAIN orders = Objects
    BY DEF Objects
  <2> QED BY <1>1, <1>3, <2>1, EnterShape
<1>4. /\ k0 \in Nat /\ k0 \notin Objects /\ Objects' = Objects \cup {k0}
      /\ orders' \in Seq(OrderObjects)
      /\ \A k \in Objects : orders'[k] = orders[k]
      /\ orders'[k0] = o
      /\ order_map' \in [Ids -> Nat]
      /\ week = 3 => order_map' = order_map
      /\ week # 3 => /\ order_map'[o.id] = k0
                     /\ \A i \in Ids : i # o.id => order_map'[i] = order_map[i]
      /\ matching'
      /\ o.is_buy => buy_orders' = buy_orders \cup {k0} /\ sell_orders' = sell_orders
      /\ ~o.is_buy => sell_orders' = sell_orders \cup {k0} /\ buy_orders' = buy_orders
  BY <1>3a
<1> HIDE DEF k0
<1>5. \A k \in Objects : orders[k].id \in Ids /\ orders[k].id # o.id
  <2>0. \A k \in Objects : orders[k] \in OrderObjects
    BY <1>3 DEF Objects
  <2>1. \A k \in Objects : orders[k].id \in Ids /\ orders[k].id <= added
    BY <2>0 DEF ClassInv, MapLeadsToId, OrderObjects
  <2> QED BY <1>1, <1>3, <2>1 DEF Ids, TypeInv
<1>6. TypeInv'
  BY <1>2, <1>3, <1>4 DEF TypeInv
<1>7. QueuesHoldTheirSide'
  BY <1>4 DEF ClassInv, QueuesHoldTheirSide
<1>8. \A i \in Ids : order_map[i] # 0 => order_map'[i] = order_map[i]
  BY <1>4, <1>5 DEF ClassInv, MapLeadsToId
<1>9. MapLeadsToId'
  <2>1. \A k \in Objects' : orders'[k].id <= added'
    <3>1. \A k \in Objects : orders[k].id \in Int /\ orders[k].id <= added
      BY <1>5 DEF ClassInv, MapLeadsToId, Ids
    <3>2. added \in Int /\ added' = added + 1 /\ orders'[k0].id = added'
      BY <1>1, <1>2, <1>3, <1>4 DEF TypeInv
    <3>3. \A k \in Objects : orders'[k].id <= added'
      BY <1>4, <3>1, <3>2
    <3>4. Objects' = Objects \cup {k0}
      BY <1>4
    <3> QED BY <3>2, <3>3, <3>4
  <2>2. \A i \in Ids : order_map'[i] # 0 =>
           week # 3 /\ order_map'[i] \in Objects' /\ orders'[order_map'[i]].id = i
    BY <1>1, <1>4 DEF ClassInv, MapLeadsToId
  <2> QED BY <1>2, <2>1, <2>2 DEF MapLeadsToId
<1>10. OneOpenOrderPerId'
  BY <1>1, <1>2, <1>4, <1>5 DEF ClassInv, OneOpenOrderPerId
<1>11. WithdrawnAreCanceled'
  BY <1>2, <1>3, <1>4, <1>8 DEF ClassInv, WithdrawnAreCanceled, MapLeadsToId, TypeInv
<1>12. OpenAreQueued'
  BY <1>4 DEF ClassInv, OpenAreQueued
<1>13. UncrossedAtReturn'
  BY <1>4 DEF UncrossedAtReturn
<1> QED BY <1>6, <1>7, <1>9, <1>10, <1>11, <1>12, <1>13 DEF ClassInv

LEMMA CancelKeeps ==
    ASSUME ClassInv, NEW id \in Ids, CancelOrder(id)
    PROVE  ClassInv'
<1> DEFINE k0 == order_map[id]
<1>1. /\ ~matching /\ k0 # 0 /\ orders' = Cancel(orders, k0)
      /\ withdrawn' = withdrawn \cup {id}
      /\ UNCHANGED <<week, buy_orders, sell_orders, order_map, matching,
                     trade_log, added>>
  BY DEF CancelOrder
<1>2. TypeInv /\ orders \in Seq(OrderObjects) /\ k0 \in Objects /\ orders[k0].id = id
  BY <1>1 DEF ClassInv, TypeInv, MapLeadsToId
<1> HIDE DEF k0
<1>3. /\ orders' \in Seq(OrderObjects) /\ Objects' = Objects
      /\ \A k \in Objects : k # k0 => orders'[k] = orders[k]
      /\ \A k \in Objects : /\ orders'[k].id = orders[k].id
                            /\ orders'[k].is_buy = orders[k].is_buy
                            /\ orders'[k].price = orders[k].price
                            /\ orders'[k].quantity = orders[k].quantity
      /\ orders'[k0].canceled
  <2>1. k0 \in DOMAIN orders /\ Objects' = DOMAIN Cancel(orders, k0)
    BY <1>1, <1>2 DEF Objects
  <2>2. /\ Cancel(orders, k0) \in Seq(OrderObjects)
        /\ DOMAIN Cancel(orders, k0) = DOMAIN orders
        /\ \A m \in DOMAIN orders : m # k0 => Cancel(orders, k0)[m] = orders[m]
        /\ \A m \in DOMAIN orders :
              /\ Cancel(orders, k0)[m].id = orders[m].id
              /\ Cancel(orders, k0)[m].is_buy = orders[m].is_buy
              /\ Cancel(orders, k0)[m].price = orders[m].price
              /\ Cancel(orders, k0)[m].quantity = orders[m].quantity
        /\ Cancel(orders, k0)[k0].canceled
    BY <1>2, <2>1, CancelShape
  <2> QED BY <1>1, <2>1, <2>2 DEF Objects
<1>4. TypeInv' /\ QueuesHoldTheirSide' /\ MapLeadsToId'
  <2>1. TypeInv'
    BY <1>1, <1>2, <1>3 DEF TypeInv
  <2>2. QueuesHoldTheirSide'
    BY <1>1, <1>3 DEF ClassInv, QueuesHoldTheirSide
  <2>3. MapLeadsToId'
    BY <1>1, <1>3 DEF ClassInv, MapLeadsToId
  <2> QED BY <2>1, <2>2, <2>3
<1>5. OneOpenOrderPerId'
  BY <1>1, <1>3 DEF ClassInv, OneOpenOrderPerId
<1>6. WithdrawnAreCanceled'
  <2>1. ASSUME NEW i \in withdrawn' PROVE order_map'[i] # 0 /\ orders'[order_map'[i]].canceled
    <3>1. CASE i = id
      BY <1>1, <1>3, <3>1 DEF k0
    <3>2. CASE i # id
      <4>1. i \in withdrawn /\ order_map[i] # 0 /\ orders[order_map[i]].canceled
        BY <1>1, <2>1, <3>2 DEF ClassInv, WithdrawnAreCanceled
      <4>2. order_map[i] \in Objects
        BY <1>2, <4>1 DEF ClassInv, MapLeadsToId, TypeInv
      <4> QED BY <1>1, <1>3, <4>1, <4>2
    <3> QED BY <3>1, <3>2
  <2> QED BY <2>1 DEF WithdrawnAreCanceled
<1>7. \A k \in Objects : Open(orders'[k]) => Open(orders[k])
  BY <1>3 DEF Open
<1>8. OpenAreQueued'
  BY <1>1, <1>3, <1>7 DEF ClassInv, OpenAreQueued
<1>9. UncrossedAtReturn'
  BY <1>1, <1>3, <1>7 DEF ClassInv, UncrossedAtReturn, QueuesHoldTheirSide
<1> QED BY <1>4, <1>5, <1>6, <1>8, <1>9 DEF ClassInv

LEMMA ModifyKeeps ==
    ASSUME ClassInv, NEW id \in Ids, NEW p \in Prices, NEW q \in Quantities,
           ModifyOrder(id, p, q)
    PROVE  ClassInv'
<1>1. PICK old : old = order_map[id]
  OBVIOUS
<1>2. PICK all : all = Cancel(orders, old)
  OBVIOUS
<1>3. PICK o : o = [orders[old] EXCEPT !.price = p, !.quantity = q, !.size = q]
  OBVIOUS
<1>4. /\ ~matching /\ old # 0 /\ orders[old].quantity > 0 /\ ~orders[old].canceled
      /\ Enter(all, o) /\ UNCHANGED <<week, trade_log, added, withdrawn>>
  BY <1>1, <1>2, <1>3 DEF ModifyOrder, MayModify
<1>5. /\ TypeInv /\ orders \in Seq(OrderObjects)
      /\ week # 3 /\ old \in Objects /\ orders[old].id = id
  BY <1>1, <1>4 DEF ClassInv, TypeInv, MapLeadsToId
<1>6. o \in OrderObjects /\ o.id = id /\ ~o.canceled
  <2>1. orders[old] \in OrderObjects /\ q \in Nat
    BY <1>5 DEF Objects, Quantities
  <2> QED BY <1>3, <1>4, <1>5, <2>1 DEF OrderObjects
<1>7. /\ all \in Seq(OrderObjects) /\ DOMAIN all = Objects
      /\ \A k \in Objects : k # old => all[k] = orders[k]
      /\ \A k \in Objects : /\ all[k].id = orders[k].id
                            /\ all[k].is_buy = orders[k].is_buy
                            /\ all[k].quantity = orders[k].quantity
      /\ all[old].canceled
  <2>1. old \in DOMAIN orders
    BY <1>5 DEF Objects
  <2>2. /\ Cancel(orders, old) \in Seq(OrderObjects)
        /\ DOMAIN Cancel(orders, old) = DOMAIN orders
        /\ \A m \in DOMAIN orders : m # old => Cancel(orders, old)[m] = orders[m]
        /\ \A m \in DOMAIN orders :
              /\ Cancel(orders, old)[m].id = orders[m].id
              /\ Cancel(orders, old)[m].is_buy = orders[m].is_buy
              /\ Cancel(orders, old)[m].quantity = orders[m].quantity
        /\ Cancel(orders, old)[old].canceled
    BY <1>5, <2>1, CancelShape
  <2> QED BY <1>2, <2>2 DEF Objects
<1> DEFINE new == Len(all) + 1
<1>8. /\ new \in Nat /\ new # 0 /\ new \notin Objects /\ Objects' = Objects \cup {new}
      /\ orders' \in Seq(OrderObjects)
      /\ \A k \in Objects : orders'[k] = all[k]
      /\ orders'[new] = o
      /\ order_map' \in [Ids -> Nat] /\ order_map'[id] = new
      /\ \A i \in Ids : i # id => order_map'[i] = order_map[i]
      /\ matching'
      /\ o.is_buy => buy_orders' = buy_orders \cup {new} /\ sell_orders' = sell_orders
      /\ ~o.is_buy => sell_orders' = sell_orders \cup {new} /\ buy_orders' = buy_orders
  <2>1. /\ Len(all) \in Nat /\ Objects = 1 .. Len(all)
        /\ orders' \in Seq(OrderObjects) /\ Objects' = 1 .. Len(all) + 1
        /\ \A k \in Objects : orders'[k] = all[k]
        /\ orders'[Len(all) + 1] = o
        /\ order_map' \in [Ids -> Nat]
        /\ week # 3 => /\ order_map'[o.id] = Len(all) + 1
                       /\ \A i \in Ids : i # o.id => order_map'[i] = order_map[i]
        /\ matching'
        /\ o.is_buy => /\ buy_orders' = buy_orders \cup {Len(all) + 1}
                       /\ sell_orders' = sell_orders
        /\ ~o.is_buy => /\ sell_orders' = sell_orders \cup {Len(all) + 1}
                        /\ buy_orders' = buy_orders
    BY <1>4, <1>5, <1>6, <1>7, EnterShape
  <2> QED BY <1>5, <1>6, <2>1
<1> HIDE DEF new
<1>9. TypeInv'
  BY <1>4, <1>5, <1>8 DEF TypeInv
<1>10. QueuesHoldTheirSide'
  <2>1. \A k \in Objects : orders'[k].is_buy <=> orders[k].is_buy
    BY <1>7, <1>8
  <2>2. /\ \A k \in buy_orders : k \in Objects /\ orders[k].is_buy
        /\ \A k \in sell_orders : k \in Objects /\ ~orders[k].is_buy
    BY DEF ClassInv, QueuesHoldTheirSide
  <2>3. CASE o.is_buy
    BY <1>8, <2>1, <2>2, <2>3 DEF QueuesHoldTheirSide
  <2>4. CASE ~o.is_buy
    BY <1>8, <2>1, <2>2, <2>4 DEF QueuesHoldTheirSide
  <2> QED BY <2>3, <2>4
<1>11. \A k \in Objects : orders[k].id \in Ids
  <2>1. \A k \in Objects : orders[k] \in OrderObjects
    BY <1>5 DEF Objects
  <2> QED BY <2>1 DEF OrderObjects
<1>12. MapLeadsToId'
  <2>1. \A k \in Objects' : orders'[k].id <= added'
    BY <1>4, <1>5, <1>6, <1>7, <1>8 DEF ClassInv, MapLeadsToId
  <2>2. \A i \in Ids : order_map'[i] # 0 =>
           week # 3 /\ order_map'[i] \in Objects' /\ orders'[order_map'[i]].id = i
    <3> SUFFICES ASSUME NEW i \in Ids, order_map'[i] # 0
                 PROVE  order_map'[i] \in Objects' /\ orders'[order_map'[i]].id = i
      BY <1>5
    <3>1. CASE i = id
      BY <1>6, <1>8, <3>1
    <3>2. CASE i # id
      <4>1. order_map'[i] = order_map[i] /\ order_map[i] # 0
        BY <1>8, <3>2
      <4>2. order_map[i] \in Objects /\ orders[order_map[i]].id = i
        BY <4>1 DEF ClassInv, MapLeadsToId
      <4> QED BY <1>7, <1>8, <4>1, <4>2
    <3> QED BY <3>1, <3>2
  <2> QED BY <1>4, <2>1, <2>2 DEF MapLeadsToId
<1>13. OneOpenOrderPerId'
  <2> SUFFICES ASSUME NEW k \in Objects', k # order_map'[orders'[k].id]
               PROVE  orders'[k].canceled /\ orders'[k].quantity > 0
    BY DEF OneOpenOrderPerId
  <2>1. k \in Objects
    BY <1>6, <1>8
  <2>2. CASE k = old
    BY <1>4, <1>7, <1>8, <2>1, <2>2
  <2>3. CASE k # old
    <3>1. orders'[k] = orders[k] /\ orders[k].id \in Ids
      BY <1>7, <1>8, <1>11, <2>1, <2>3
    <3>2. k # order_map[orders[k].id]
      BY <1>1, <1>8, <2>3, <3>1
    <3> QED BY <1>5, <2>1, <3>1, <3>2 DEF ClassInv, OneOpenOrderPerId
  <2> QED BY <2>2, <2>3
<1>14. WithdrawnAreCanceled'
  <2> SUFFICES ASSUME NEW i \in withdrawn
               PROVE  order_map'[i] # 0 /\ orders'[order_map'[i]].canceled
    BY <1>4 DEF WithdrawnAreCanceled
  <2>1. i \in Ids /\ order_map[i] # 0 /\ orders[order_map[i]].canceled
    BY <1>5 DEF ClassInv, TypeInv, WithdrawnAreCanceled
  <2>2. order_map[i] \in Objects /\ i # id
    BY <1>1, <1>4, <2>1 DEF ClassInv, MapLeadsToId
  <2>3. order_map[i] # old
    BY <1>4, <2>1
  <2> QED BY <1>7, <1>8, <2>1, <2>2, <2>3
<1>15. OpenAreQueued'
  <2>1. \A k \in Objects : Open(orders'[k]) => k # old /\ Open(orders[k])
    BY <1>7, <1>8 DEF Open
  <2> QED BY <1>8, <2>1 DEF ClassInv, OpenAreQueued
<1>16. UncrossedAtReturn'
  BY <1>8 DEF UncrossedAtReturn
<1> QED BY <1>9, <1>10, <1>12, <1>13, <1>14, <1>15, <1>16 DEF ClassInv

\* Canceled orders leave the top of their queue.
LEMMA SkipKeeps ==
    ASSUME ClassInv, SkipCanceledBuy \/ SkipCanceledSell
    PROVE  ClassInv'
<1>1. /\ matching /\ matching'
      /\ UNCHANGED <<week, orders, order_map, trade_log, added, withdrawn>>
  BY DEF SkipCanceledBuy, SkipCanceledSell
<1>2. PICK k : /\ orders[k].canceled
               /\ buy_orders \cup sell_orders \subseteq buy_orders' \cup sell_orders' \cup {k}
               /\ buy_orders' \subseteq buy_orders /\ sell_orders' \subseteq sell_orders
  BY DEF SkipCanceledBuy, SkipCanceledSell, PopTop
<1>3. TypeInv' /\ MapLeadsToId' /\ OneOpenOrderPerId' /\ WithdrawnAreCanceled'
  BY <1>1 DEF ClassInv, TypeInv, MapLeadsToId, OneOpenOrderPerId, WithdrawnAreCanceled,
              Objects
<1>4. QueuesHoldTheirSide'
  BY <1>1, <1>2 DEF ClassInv, QueuesHoldTheirSide, Objects
<1>5. OpenAreQueued'
  BY <1>1, <1>2 DEF ClassInv, OpenAreQueued, Open, Objects
<1>6. UncrossedAtReturn'
  BY <1>1 DEF UncrossedAtReturn
<1> QED BY <1>3, <1>4, <1>5, <1>6 DEF ClassInv

\* What a trade of b and s does.
LEMMA TradeEffect ==
    ASSUME ClassInv, NEW b \in buy_orders, NEW s \in sell_orders, Trade(b, s)
    PROVE  \E n \in Nat :
              /\ b \in Objects /\ s \in Objects /\ b # s
              /\ matching /\ ~orders[b].canceled /\ ~orders[s].canceled
              /\ orders' \in Seq(OrderObjects) /\ Objects' = Objects
              /\ \A k \in Objects : k # b /\ k # s => orders'[k] = orders[k]
              /\ \A k \in Objects : /\ orders'[k].id = orders[k].id
                                    /\ orders'[k].is_buy = orders[k].is_buy
                                    /\ orders'[k].canceled = orders[k].canceled
                                    /\ orders'[k].size = orders[k].size
              /\ orders'[b].quantity = orders[b].quantity - n
              /\ orders'[s].quantity = orders[s].quantity - n
              /\ orders[b].quantity \in Nat /\ orders[s].quantity \in Nat
              /\ n <= orders[b].quantity /\ n <= orders[s].quantity
              /\ buy_orders' = IF orders[b].quantity = n THEN buy_orders \ {b}
                               ELSE buy_orders
              /\ sell_orders' = IF orders[s].quantity = n THEN sell_orders \ {s}
                                ELSE sell_orders
              /\ trade_log' = Append(trade_log, [buy |-> b, sell |-> s, quantity |-> n])
              /\ UNCHANGED <<week, order_map, matching, added, withdrawn>>
<1> DEFINE n == Smaller(orders[b].quantity, orders[s].quantity)
<1>1. /\ b \in Objects /\ s \in Objects /\ b # s /\ orders \in Seq(OrderObjects)
      /\ b \in DOMAIN orders /\ s \in DOMAIN orders
  BY DEF ClassInv, QueuesHoldTheirSide, TypeInv, Objects
<1>2. orders[b] \in OrderObjects /\ orders[s] \in OrderObjects
  BY <1>1
<1>3. /\ orders[b].quantity \in Nat /\ orders[s].quantity \in Nat
      /\ n \in Nat /\ n <= orders[b].quantity /\ n <= orders[s].quantity
  BY <1>2 DEF OrderObjects, Smaller
<1>4. /\ matching /\ ~orders[b].canceled /\ ~orders[s].canceled
      /\ orders' = Taken(orders, b, s, n)
      /\ buy_orders' = IF orders[b].quantity = n THEN buy_orders \ {b} ELSE buy_orders
      /\ sell_orders' = IF orders[s].quantity = n THEN sell_orders \ {s} ELSE sell_orders
      /\ trade_log' = Append(trade_log, [buy |-> b, sell |-> s, quantity |-> n])
      /\ UNCHANGED <<week, order_map, matching, added, withdrawn>>
  BY DEF Trade, AfterTrade, Taken
<1> HIDE DEF n
<1>5. LET new == Taken(orders, b, s, n)
      IN  /\ new \in Seq(OrderObjects) /\ DOMAIN new = DOMAIN orders
          /\ \A k \in DOMAIN orders : k # b /\ k # s => new[k] = orders[k]
          /\ \A k \in DOMAIN orders : /\ new[k].id = orders[k].id
                                      /\ new[k].is_buy = orders[k].is_buy
                                      /\ new[k].canceled = orders[k].canceled
                                      /\ new[k].size = orders[k].size
          /\ new[b].quantity = orders[b].quantity - n
          /\ new[s].quantity = orders[s].quantity - n
  BY <1>1, <1>3, TradeShape
<1> QED BY <1>1, <1>3, <1>4, <1>5 DEF Objects

LEMMA TradeKeeps ==
    ASSUME ClassInv, NEW b \in buy_orders, NEW s \in sell_orders, Trade(b, s)
    PROVE  ClassInv'
<1>1. PICK n \in Nat :
         /\ b \in Objects /\ s \in Objects /\ b # s
         /\ matching /\ ~orders[b].canceled /\ ~orders[s].canceled
         /\ orders' \in Seq(OrderObjects) /\ Objects' = Objects
         /\ \A k \in Objects : k # b /\ k # s => orders'[k] = orders[k]
         /\ \A k \in Objects : /\ orders'[k].id = orders[k].id
                               /\ orders'[k].is_buy = orders[k].is_buy
                               /\ orders'[k].canceled = orders[k].canceled
         /\ orders'[b].quantity = orders[b].quantity - n
         /\ orders'[s].quantity = orders[s].quantity - n
         /\ orders[b].quantity \in Nat /\ orders[s].quantity \in Nat
         /\ buy_orders' = IF orders[b].quantity = n THEN buy_orders \ {b} ELSE buy_orders
         /\ sell_orders' = IF orders[s].quantity = n THEN sell_orders \ {s} ELSE sell_orders
         /\ trade_log' = Append(trade_log, [buy |-> b, sell |-> s, quantity |-> n])
         /\ UNCHANGED <<week, order_map, matching, added, withdrawn>>
  BY TradeEffect
<1>2. TypeInv'
  <2>1. TypeInv /\ b \in Nat /\ s \in Nat
    BY <1>1 DEF ClassInv, TypeInv, Objects
  <2>2. [buy |-> b, sell |-> s, quantity |-> n] \in TradeRecords
    BY <2>1 DEF TradeRecords
  <2>3. trade_log' \in Seq(TradeRecords)
    BY <1>1, <2>1, <2>2 DEF TypeInv
  <2> QED BY <1>1, <2>1, <2>3 DEF TypeInv
<1>3. QueuesHoldTheirSide' /\ MapLeadsToId'
  BY <1>1 DEF ClassInv, QueuesHoldTheirSide, MapLeadsToId, TypeInv
<1>4. OneOpenOrderPerId'
  <2> SUFFICES ASSUME week # 3, NEW k \in Objects, k # order_map[orders[k].id]
               PROVE  orders'[k].canceled /\ orders'[k].quantity > 0
    BY <1>1 DEF OneOpenOrderPerId
  <2>1. orders[k].canceled /\ orders[k].quantity > 0
    BY DEF ClassInv, OneOpenOrderPerId
  <2> QED BY <1>1, <2>1
<1>5. WithdrawnAreCanceled'
  BY <1>1 DEF ClassInv, TypeInv, MapLeadsToId, WithdrawnAreCanceled
<1>6. OpenAreQueued'
  <2> SUFFICES ASSUME NEW k \in Objects, Open(orders'[k])
               PROVE  k \in buy_orders' \cup sell_orders'
    BY <1>1 DEF OpenAreQueued
  <2>1. CASE k # b /\ k # s
    BY <1>1, <2>1 DEF ClassInv, OpenAreQueued
  <2>2. CASE k = b \/ k = s
    BY <1>1, <2>2 DEF Open
  <2> QED BY <2>1, <2>2
<1>7. UncrossedAtReturn'
  BY <1>1 DEF UncrossedAtReturn
<1> QED BY <1>2, <1>3, <1>4, <1>5, <1>6, <1>7 DEF ClassInv

\* The loop ends: the orders on top are the best of their side.
LEMMA StopKeeps ==
    ASSUME ClassInv, StopMatching
    PROVE  ClassInv'
<1>1. UNCHANGED <<week, orders, buy_orders, sell_orders, order_map, trade_log,
                  added, withdrawn>> /\ matching' = FALSE
  BY DEF StopMatching
<1>2. \A k \in Objects : orders[k].price \in Int
  <2>1. orders \in Seq(OrderObjects)
    BY DEF ClassInv, TypeInv
  <2>2. \A k \in Objects : orders[k] \in OrderObjects
    BY <2>1 DEF Objects
  <2> QED BY <2>2, BoundsAssumption DEF OrderObjects
<1>3. \A b \in buy_orders, s \in sell_orders : orders[b].price < orders[s].price
  <2> SUFFICES ASSUME NEW b \in buy_orders, NEW s \in sell_orders
               PROVE  orders[b].price < orders[s].price
    OBVIOUS
  <2>1. PICK b0 \in Tops(buy_orders), s0 \in Tops(sell_orders) : Over(b0, s0)
    BY DEF StopMatching
  <2>2. /\ b0 \in Objects /\ orders[b0].is_buy /\ b \in Objects /\ orders[b].is_buy
        /\ s0 \in Objects /\ ~orders[s0].is_buy /\ s \in Objects /\ ~orders[s].is_buy
    BY DEF Tops, ClassInv, QueuesHoldTheirSide
  <2>3. ~(orders[b].price > orders[b0].price)
    BY <2>2 DEF Tops, Ahead, BetterPrice
  <2>4. ~(orders[s].price < orders[s0].price)
    BY <2>2 DEF Tops, Ahead, BetterPrice
  <2> QED BY <1>2, <2>1, <2>2, <2>3, <2>4 DEF Over
<1>4. UncrossedAtReturn'
  BY <1>1, <1>3 DEF UncrossedAtReturn
<1> QED BY <1>1, <1>4 DEF ClassInv, TypeInv, QueuesHoldTheirSide, MapLeadsToId,
           OneOpenOrderPerId, WithdrawnAreCanceled, OpenAreQueued, Open, Objects

LEMMA ClassInvNext == ClassInv /\ [Next]_vars => ClassInv'
<1> SUFFICES ASSUME ClassInv, [Next]_vars PROVE ClassInv'
  OBVIOUS
<1>1. CASE UNCHANGED vars
  BY <1>1 DEF vars, ClassInv, TypeInv, QueuesHoldTheirSide, MapLeadsToId,
     OneOpenOrderPerId, WithdrawnAreCanceled, OpenAreQueued, UncrossedAtReturn, Open,
     Objects
<1>2. ASSUME NEW b \in Tops(buy_orders), NEW s \in Tops(sell_orders), Trade(b, s)
      PROVE  ClassInv'
  BY <1>2, TradeKeeps DEF Tops
<1> QED BY <1>1, <1>2, AddKeeps, CancelKeeps, ModifyKeeps, SkipKeeps, StopKeeps
        DEF Next, MatchStep

LEMMA ClassCorrect == Spec => []ClassInv
  BY ClassInvInit, ClassInvNext, PTL DEF Spec

-----------------------------------------------------------------------------
(***************************************************************************)
(* What the invariant says                                                 *)
(***************************************************************************)

\* However often an order is modified, order_map leads to the only object of
\* its id that can trade (order_book.hpp of weeks 4 and 5, modify_order).
THEOREM OneOpenOrder == Spec => []OneOpenOrderPerId
<1>1. ClassInv => OneOpenOrderPerId
  BY DEF ClassInv
<1> QED BY <1>1, ClassCorrect, PTL

\* Lazy removal forgets no order: as long as an object can trade it is in its
\* queue, whatever has been traded, canceled and replaced around it.
THEOREM OpenOrdersStayQueued == Spec => []OpenAreQueued
<1>1. ClassInv => OpenAreQueued
  BY DEF ClassInv
<1> QED BY <1>1, ClassCorrect, PTL

\* match_orders returns only when no two open orders could trade, whatever
\* canceled orders the queues still hold.
THEOREM UncrossedWhenReturned == Spec => []UncrossedAtReturn
<1>1. ClassInv => UncrossedAtReturn
  BY DEF ClassInv
<1> QED BY <1>1, ClassCorrect, PTL

\* Once cancel_order has returned true the id never trades again: the object
\* order_map led to is canceled, and every other object of the id had been.
THEOREM CanceledStaysOut == Spec => CanceledNeverTrades
<1>1. ASSUME ClassInv, NEW k \in Objects, orders[k].id \in withdrawn
      PROVE  orders[k].canceled
  BY <1>1 DEF ClassInv, WithdrawnAreCanceled, OneOpenOrderPerId, MapLeadsToId, TypeInv
<1>2. ASSUME ClassInv, [Next]_vars, NEW i \in DOMAIN trade_log' \ DOMAIN trade_log
      PROVE  /\ orders[trade_log'[i].buy].id \notin withdrawn
             /\ orders[trade_log'[i].sell].id \notin withdrawn
  <2>1. PICK b \in Tops(buy_orders), s \in Tops(sell_orders) : Trade(b, s)
    BY <1>2 DEF Next, MatchStep, vars, AddOrder, CancelOrder, ModifyOrder,
                SkipCanceledBuy, SkipCanceledSell, StopMatching
  <2>2. b \in buy_orders /\ s \in sell_orders
    BY DEF Tops
  <2>3. PICK n \in Nat :
           /\ b \in Objects /\ s \in Objects
           /\ ~orders[b].canceled /\ ~orders[s].canceled
           /\ trade_log' = Append(trade_log, [buy |-> b, sell |-> s, quantity |-> n])
    BY <1>2, <2>1, <2>2, TradeEffect
  <2>4. trade_log'[i].buy = b /\ trade_log'[i].sell = s
    <3>1. trade_log \in Seq(TradeRecords)
      BY <1>2 DEF ClassInv, TypeInv
    <3> QED BY <1>2, <2>3, <3>1
  <2> QED BY <1>1, <1>2, <2>3, <2>4
<1>3. ClassInv /\ [Next]_vars =>
         [\A i \in DOMAIN trade_log' \ DOMAIN trade_log :
             /\ orders[trade_log'[i].buy].id \notin withdrawn
             /\ orders[trade_log'[i].sell].id \notin withdrawn]_vars
  BY <1>2
<1> QED BY <1>3, ClassCorrect, PTL DEF Spec, CanceledNeverTrades

\* The best of its side: no open order of the same side would be matched before it,
\* by price in week 3, by price and time later.
BestOfItsSide(k) ==
    \A r \in Objects :
        Open(orders[r]) /\ orders[r].is_buy = orders[k].is_buy => ~Ahead(orders[r], orders[k])
TradesServeBest ==
    \A i \in DOMAIN trade_log' \ DOMAIN trade_log :
        /\ BestOfItsSide(trade_log'[i].buy)
        /\ BestOfItsSide(trade_log'[i].sell)

\* Every trade of match_orders, not only the first of a call, is between the best
\* buy and the best sell order of all that are open: lazy removal leaves nothing in
\* front of them, and no open order is missing in its queue.
THEOREM TradesAreBest == Spec => [][TradesServeBest]_vars
<1>1. ASSUME ClassInv, NEW b \in Tops(buy_orders) PROVE BestOfItsSide(b)
  <2> SUFFICES ASSUME NEW r \in Objects, Open(orders[r]), orders[r].is_buy = orders[b].is_buy
               PROVE  ~Ahead(orders[r], orders[b])
    BY DEF BestOfItsSide
  <2>1. r \in buy_orders
    BY <1>1 DEF ClassInv, OpenAreQueued, QueuesHoldTheirSide, Tops
  <2> QED BY <2>1 DEF Tops
<1>2. ASSUME ClassInv, NEW s \in Tops(sell_orders) PROVE BestOfItsSide(s)
  <2> SUFFICES ASSUME NEW r \in Objects, Open(orders[r]), orders[r].is_buy = orders[s].is_buy
               PROVE  ~Ahead(orders[r], orders[s])
    BY DEF BestOfItsSide
  <2>1. r \in sell_orders
    BY <1>2 DEF ClassInv, OpenAreQueued, QueuesHoldTheirSide, Tops
  <2> QED BY <2>1 DEF Tops
<1>3. ASSUME ClassInv, [Next]_vars, NEW i \in DOMAIN trade_log' \ DOMAIN trade_log
      PROVE  BestOfItsSide(trade_log'[i].buy) /\ BestOfItsSide(trade_log'[i].sell)
  <2>1. PICK b \in Tops(buy_orders), s \in Tops(sell_orders) : Trade(b, s)
    BY <1>3 DEF Next, MatchStep, vars, AddOrder, CancelOrder, ModifyOrder,
                SkipCanceledBuy, SkipCanceledSell, StopMatching
  <2>2. b \in buy_orders /\ s \in sell_orders
    BY DEF Tops
  <2>3. PICK n \in Nat :
           trade_log' = Append(trade_log, [buy |-> b, sell |-> s, quantity |-> n])
    BY <1>3, <2>1, <2>2, TradeEffect
  <2>4. trade_log'[i].buy = b /\ trade_log'[i].sell = s
    <3>1. trade_log \in Seq(TradeRecords)
      BY <1>3 DEF ClassInv, TypeInv
    <3> QED BY <1>3, <2>3, <3>1
  <2> QED BY <1>1, <1>2, <1>3, <2>4
<1>4. ClassInv /\ [Next]_vars => [TradesServeBest]_vars
  BY <1>3 DEF TradesServeBest
<1> QED BY <1>4, ClassCorrect, PTL DEF Spec

-----------------------------------------------------------------------------
(***************************************************************************)
(* The shares of an order object, over all trades                          *)
(***************************************************************************)
Parts(k, log) == [i \in DOMAIN log |-> Part(k, log[i])]

\* Trades are between objects that exist.
TradesOfObjects ==
    \A i \in DOMAIN trade_log : trade_log[i].buy \in Objects /\ trade_log[i].sell \in Objects
Balanced == \A k \in Objects : orders[k].size = orders[k].quantity + Traded(k)
SharesInv == TradesOfObjects /\ Balanced

LEMMA PartsAdd ==
    ASSUME NEW log \in Seq(TradeRecords), NEW k
    PROVE  /\ Summable(Parts(k, log), DOMAIN log) /\ DOMAIN Parts(k, log) = DOMAIN log
           /\ SumFunction(Parts(k, log)) = SumFunctionOnSet(Parts(k, log), DOMAIN log)
           /\ SumFunction(Parts(k, log)) \in Int
<1>1. DOMAIN log = 1 .. Len(log) /\ Len(log) \in Nat
  OBVIOUS
<1>2. IsFiniteSet(DOMAIN log)
  BY <1>1, FS_Interval
<1>3. \A i \in DOMAIN log : Part(k, log[i]) \in Int
  <2>1. \A i \in DOMAIN log : log[i] \in TradeRecords
    OBVIOUS
  <2> QED BY <2>1 DEF TradeRecords, Part
<1>4. Summable(Parts(k, log), DOMAIN log) /\ DOMAIN Parts(k, log) = DOMAIN log
  BY <1>2, <1>3 DEF Parts, Summable
<1> QED BY <1>4, SumIsNumber DEF SumFunction

LEMMA PartsGrow ==
    ASSUME NEW log \in Seq(TradeRecords), NEW t \in TradeRecords, NEW k
    PROVE  SumFunction(Parts(k, Append(log, t))) = SumFunction(Parts(k, log)) + Part(k, t)
<1> DEFINE f == Parts(k, log)
           g == Parts(k, Append(log, t))
           S == DOMAIN log
           x == Len(log) + 1
<1>1. /\ x \notin S /\ DOMAIN Append(log, t) = S \cup {x}
      /\ Append(log, t)[x] = t /\ \A y \in S : Append(log, t)[y] = log[y]
  OBVIOUS
<1>2. /\ DOMAIN g = S \cup {x} /\ g[x] = Part(k, t) /\ \A y \in S : g[y] = f[y]
  BY <1>1 DEF Parts
<1>3. Part(k, t) \in Int
  BY DEF TradeRecords, Part
<1>4. Summable(f, S) /\ DOMAIN f = S
  BY PartsAdd
<1> HIDE DEF f, g, S, x
<1>5. g[x] \in Int
  BY <1>2, <1>3
<1>6. SumFunction(g) = SumFunction(f) + g[x]
  <2>1. SumFunctionOnSet(g, S) = SumFunctionOnSet(f, S) /\ Summable(g, S)
    BY <1>2, <1>4, SumAgrees
  <2>2. SumFunctionOnSet(g, S \cup {x}) = SumFunctionOnSet(g, S) + g[x]
    BY <1>1, <1>5, <2>1, SumWith
  <2> QED BY <1>2, <1>4, <2>1, <2>2 DEF SumFunction
<1> QED BY <1>2, <1>6 DEF f, g

LEMMA PartsOfOthers ==
    ASSUME NEW log \in Seq(TradeRecords), NEW k,
           \A i \in DOMAIN log : k # log[i].buy /\ k # log[i].sell
    PROVE  SumFunction(Parts(k, log)) = 0
<1>1. \A i \in DOMAIN log : Parts(k, log)[i] = 0
  BY DEF Parts, Part
<1>2. IsFiniteSet(DOMAIN log)
  BY PartsAdd DEF Summable
<1> QED BY <1>1, <1>2, PartsAdd, SumOfZeros

\* A step that does not trade leaves the shares of every object alone, and an
\* object it makes has all of its shares.
SharesStay ==
    /\ trade_log' = trade_log
    /\ Objects \subseteq Objects'
    /\ \A k \in Objects : /\ orders'[k].size = orders[k].size
                         /\ orders'[k].quantity = orders[k].quantity
    /\ \A k \in Objects' \ Objects : /\ orders'[k].size = orders'[k].quantity
                                    /\ orders'[k].size \in Nat

LEMMA SharesStayKeeps ==
    ASSUME ClassInv, SharesInv, SharesStay PROVE SharesInv'
<1>1. TradesOfObjects'
  BY DEF SharesInv, SharesStay, TradesOfObjects
<1>2. ASSUME NEW k \in Objects' PROVE orders'[k].size = orders'[k].quantity + Traded(k)'
  <2>1. /\ Traded(k)' = SumFunction(Parts(k, trade_log))
        /\ Traded(k) = SumFunction(Parts(k, trade_log))
    BY DEF SharesStay, Traded, Parts
  <2>2. CASE k \in Objects
    BY <2>1, <2>2 DEF SharesInv, Balanced, SharesStay
  <2>3. CASE k \notin Objects
    <3>1. trade_log \in Seq(TradeRecords)
      BY DEF ClassInv, TypeInv
    <3>2. SumFunction(Parts(k, trade_log)) = 0
      BY <2>3, <3>1, PartsOfOthers DEF SharesInv, TradesOfObjects
    <3> QED BY <2>1, <2>3, <3>2 DEF SharesStay
  <2> QED BY <2>2, <2>3
<1> QED BY <1>1, <1>2 DEF SharesInv, Balanced

LEMMA EnterStays ==
    ASSUME TypeInv, NEW all \in Seq(OrderObjects), DOMAIN all = Objects,
           \A k \in Objects : all[k].size = orders[k].size /\ all[k].quantity = orders[k].quantity,
           NEW o \in OrderObjects, o.size = o.quantity, Enter(all, o), trade_log' = trade_log
    PROVE  SharesStay
<1>1. /\ Len(all) \in Nat /\ Objects = 1 .. Len(all) /\ Objects' = 1 .. Len(all) + 1
      /\ \A k \in Objects : orders'[k] = all[k]
      /\ orders'[Len(all) + 1] = o
  BY EnterShape
<1>2. \A k \in Objects' \ Objects : k = Len(all) + 1
  BY <1>1
<1>3. o.size \in Nat
  BY DEF OrderObjects
<1> QED BY <1>1, <1>2, <1>3 DEF SharesStay

LEMMA AddStays ==
    ASSUME ClassInv, NEW b \in BOOLEAN, NEW p \in Prices, NEW q \in Quantities,
           AddOrder(b, p, q)
    PROVE  SharesStay
<1>1. added + 1 \in Ids /\ q \in Nat
  BY BoundsAssumption DEF AddOrder, ClassInv, TypeInv, Ids, Quantities
<1> DEFINE o == [id |-> added + 1, is_buy |-> b, price |-> p,
                 quantity |-> q, size |-> q, canceled |-> FALSE]
<1>2. o \in OrderObjects /\ o.size = o.quantity
  BY <1>1 DEF OrderObjects
<1>3. Enter(orders, o) /\ trade_log' = trade_log
  BY DEF AddOrder
<1>4. TypeInv /\ orders \in Seq(OrderObjects) /\ DOMAIN orders = Objects
  BY DEF ClassInv, TypeInv, Objects
<1> HIDE DEF o
<1> QED BY <1>2, <1>3, <1>4, EnterStays

LEMMA CancelStays ==
    ASSUME ClassInv, NEW id \in Ids, CancelOrder(id)
    PROVE  SharesStay
<1>1. orders' = Cancel(orders, order_map[id]) /\ trade_log' = trade_log /\ order_map[id] # 0
  BY DEF CancelOrder
<1>2. orders \in Seq(OrderObjects) /\ order_map[id] \in DOMAIN orders
  BY <1>1 DEF ClassInv, TypeInv, MapLeadsToId, Objects
<1> QED BY <1>1, <1>2, CancelShape DEF SharesStay, Objects

LEMMA ModifyStays ==
    ASSUME ClassInv, NEW id \in Ids, NEW p \in Prices, NEW q \in Quantities,
           ModifyOrder(id, p, q)
    PROVE  SharesStay
<1>1. PICK old : old = order_map[id]
  OBVIOUS
<1>2. PICK all : all = Cancel(orders, old)
  OBVIOUS
<1>3. PICK o : o = [orders[old] EXCEPT !.price = p, !.quantity = q, !.size = q]
  OBVIOUS
<1>4. old # 0 /\ Enter(all, o) /\ trade_log' = trade_log
  BY <1>1, <1>2, <1>3 DEF ModifyOrder
<1>5. TypeInv /\ orders \in Seq(OrderObjects) /\ old \in DOMAIN orders /\ DOMAIN orders = Objects
  BY <1>1, <1>4 DEF ClassInv, TypeInv, MapLeadsToId, Objects
<1>6. o \in OrderObjects /\ o.size = o.quantity
  <2>1. orders[old] \in OrderObjects /\ q \in Nat
    BY <1>5 DEF Quantities
  <2> QED BY <1>3, <2>1 DEF OrderObjects
<1>7. /\ all \in Seq(OrderObjects) /\ DOMAIN all = Objects
      /\ \A k \in Objects : all[k].size = orders[k].size /\ all[k].quantity = orders[k].quantity
  BY <1>2, <1>5, CancelShape
<1> QED BY <1>4, <1>5, <1>6, <1>7, EnterStays

LEMMA TradeKeepsShares ==
    ASSUME ClassInv, SharesInv, NEW b \in buy_orders, NEW s \in sell_orders, Trade(b, s)
    PROVE  SharesInv'
<1>1. PICK n \in Nat :
         /\ b \in Objects /\ s \in Objects /\ b # s /\ Objects' = Objects
         /\ orders' \in Seq(OrderObjects)
         /\ \A k \in Objects : k # b /\ k # s => orders'[k] = orders[k]
         /\ \A k \in Objects : orders'[k].size = orders[k].size
         /\ orders'[b].quantity = orders[b].quantity - n
         /\ orders'[s].quantity = orders[s].quantity - n
         /\ orders[b].quantity \in Nat /\ orders[s].quantity \in Nat
         /\ trade_log' = Append(trade_log, [buy |-> b, sell |-> s, quantity |-> n])
  BY TradeEffect
<1> DEFINE t == [buy |-> b, sell |-> s, quantity |-> n]
<1>2. trade_log \in Seq(TradeRecords) /\ t \in TradeRecords
  BY <1>1 DEF ClassInv, TypeInv, TradeRecords, Objects
<1>3. TradesOfObjects'
  <2>1. t.buy = b /\ t.sell = s
    OBVIOUS
  <2>2. trade_log' = Append(trade_log, t)
    BY <1>1
  <2> HIDE DEF t
  <2>3. \A i \in DOMAIN trade_log' :
          trade_log'[i] = t \/ (i \in DOMAIN trade_log /\ trade_log'[i] = trade_log[i])
    BY <1>2, <2>2
  <2> QED BY <1>1, <2>1, <2>3 DEF SharesInv, TradesOfObjects
<1>4. ASSUME NEW k \in Objects PROVE orders'[k].size = orders'[k].quantity + Traded(k)'
  <2>1. /\ Traded(k) = SumFunction(Parts(k, trade_log))
        /\ Traded(k)' = SumFunction(Parts(k, Append(trade_log, t)))
    BY <1>1 DEF Traded, Parts
  <2>2. Part(k, t) = IF k = b \/ k = s THEN n ELSE 0
    BY DEF Part
  <2> HIDE DEF t
  <2>3. Traded(k)' = Traded(k) + Part(k, t) /\ Traded(k) \in Int
    BY <1>2, <2>1, PartsGrow, PartsAdd
  <2>4. orders[k].size = orders[k].quantity + Traded(k)
    BY DEF SharesInv, Balanced
  <2>5. orders[k].quantity \in Nat
    <3>1. orders \in Seq(OrderObjects)
      BY DEF ClassInv, TypeInv
    <3>2. orders[k] \in OrderObjects
      BY <3>1 DEF Objects
    <3> QED BY <3>2 DEF OrderObjects
  <2>6. orders'[k].quantity = orders[k].quantity - Part(k, t)
    BY <1>1, <2>2, <2>5
  <2> QED BY <1>1, <2>2, <2>3, <2>4, <2>5, <2>6
<1> QED BY <1>1, <1>3, <1>4 DEF SharesInv, Balanced

LEMMA SharesNext == ClassInv /\ SharesInv /\ [Next]_vars => SharesInv'
<1> SUFFICES ASSUME ClassInv, SharesInv, [Next]_vars PROVE SharesInv'
  OBVIOUS
<1>1. CASE UNCHANGED vars
  BY <1>1, SharesStayKeeps DEF vars, SharesStay, Objects
<1>2. CASE SkipCanceledBuy \/ SkipCanceledSell \/ StopMatching
  BY <1>2, SharesStayKeeps
     DEF SkipCanceledBuy, SkipCanceledSell, StopMatching, SharesStay, Objects
<1>3. ASSUME NEW b \in Tops(buy_orders), NEW s \in Tops(sell_orders), Trade(b, s)
      PROVE  SharesInv'
  BY <1>3, TradeKeepsShares DEF Tops
<1> QED BY <1>1, <1>2, <1>3, AddStays, CancelStays, ModifyStays, SharesStayKeeps
        DEF Next, MatchStep

LEMMA SharesInit == Init => SharesInv
  BY DEF Init, SharesInv, TradesOfObjects, Balanced, Objects

\* Partial fills, replacements and lazy removal lose no share and make up none:
\* each Order object has traded exactly what is missing from its first
\* quantity, over the whole trade log (order_book.hpp of weeks 3, 4 and 5,
\* match_orders, modify_order and cancel_order).
THEOREM SharesNeverLost == Spec => []SharesAccountedFor
<1>1. Init => ClassInv /\ SharesInv
  BY ClassInvInit, SharesInit
<1>2. (ClassInv /\ SharesInv) /\ [Next]_vars => (ClassInv /\ SharesInv)'
  BY ClassInvNext, SharesNext
<1>3. ClassInv /\ SharesInv => SharesAccountedFor
  BY DEF ClassInv, SharesInv, OpenAreQueued, Balanced, SharesAccountedFor
<1> QED BY <1>1, <1>2, <1>3, PTL DEF Spec

===============================================================================
