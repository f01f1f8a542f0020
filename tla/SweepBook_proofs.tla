---------------------------- MODULE SweepBook_proofs ----------------------------
(***************************************************************************)
(* Proofs about SweepBook and about LimitBook, which extends it, for every *)
(* range of prices, every set of quantities and every number of orders.    *)
(***************************************************************************)
EXTENDS LimitBook, Recursion, SequenceTheorems, TLAPS

\* What rests: an order of the book, with what is left of its quantity.
RestOrders == [n : 1 .. MaxOrders, is_buy : BOOLEAN, price : Prices,
               quantity : Nat, type : Types]

\* The shape of one side of the book.
LevelsOK(levels) ==
    /\ DOMAIN levels \subseteq Prices
    /\ levels \in [DOMAIN levels -> Seq(RestOrders)]
    /\ \A p \in DOMAIN levels :
          levels[p] # <<>> /\ \A i \in 1 .. Len(levels[p]) : levels[p][i].price = p

\* The best level of the side that order o sweeps.
IsBest(o, p) ==
    \A q \in DOMAIN Opposite(o) : IF o.is_buy THEN p <= q ELSE p >= q

\* As long as the order wants shares, no level lies before the loop's iterator:
\* it stands at the lowest ask, or at the end of the bids.
AtBest ==
    order # NoOrder /\ qty_left > 0 =>
        IF order.is_buy
          THEN /\ it \in DOMAIN sell_book_ \cup {End}
               /\ \A p \in DOMAIN sell_book_ : it <= p
          ELSE it = End

\* BookTypeOK with the types of what rests, which the quantities of the next
\* fill depend on.
TypeInv ==
    /\ LevelsOK(buy_book_)
    /\ LevelsOK(sell_book_)
    /\ order \in Orders \cup {NoOrder}
    /\ qty_left \in Nat
    /\ it \in Prices \cup {End}
    /\ count \in 0 .. MaxOrders
    /\ AtBest

Inv == TypeInv /\ BookUncrossed

(***************************************************************************)
(* Every side that is not empty has a best level.                          *)
(***************************************************************************)

\* A nonempty set of prices has a least and a greatest element: the greatest
\* is the one whose distance from MaxPrice is least.
LEMMA BestExists ==
    ASSUME NEW D \in SUBSET Prices, D # {}
    PROVE  /\ \E m \in D : \A d \in D : m <= d
           /\ \E m \in D : \A d \in D : m >= d
<1> USE PriceAssumption DEF Prices
<1>1. D \subseteq Nat
  OBVIOUS
<1>2. \E m \in D : \A d \in D : m <= d
  BY <1>1, LeastExists
<1> DEFINE Distances == {MaxPrice - d : d \in D}
<1>3. Distances \subseteq Nat /\ Distances # {}
  OBVIOUS
<1> HIDE DEF Distances
<1>4. PICK x \in Distances : \A y \in Distances : x <= y
  BY <1>3, LeastExists
<1>5. PICK m \in D : x = MaxPrice - m
  BY <1>4 DEF Distances
<1>6. ASSUME NEW d \in D PROVE m >= d
  <2>1. MaxPrice - d \in Distances
    BY DEF Distances
  <2>2. MaxPrice - m <= MaxPrice - d
    BY <2>1, <1>4, <1>5
  <2> QED BY <2>2
<1> QED BY <1>2, <1>6

(***************************************************************************)
(* Where the iterator stands.                                              *)
(***************************************************************************)

\* An order that is being added is not NoOrder.
LEMMA OrderNotNone == \A o \in Orders : o # NoOrder
<1> SUFFICES ASSUME NEW o \in Orders PROVE o # NoOrder
  OBVIOUS
<1>1. o \in [n : Nat, is_buy : BOOLEAN, price : Nat, quantity : Nat,
             type : {"LIMIT", "MARKET"}]
  <2>1. 1 .. MaxOrders \subseteq Nat /\ Prices \subseteq Nat
    BY PriceAssumption, BoundAssumption DEF Prices
  <2>2. /\ o = [n |-> o.n, is_buy |-> o.is_buy, price |-> o.price,
               quantity |-> o.quantity, type |-> o.type]
        /\ o.n \in Nat /\ o.is_buy \in BOOLEAN /\ o.price \in Nat
        /\ o.quantity \in Nat /\ o.type \in {"LIMIT", "MARKET"}
    BY <2>1, QuantityAssumption DEF Orders, Types
  <2> QED BY <2>2
<1> QED BY <1>1, NoOrderAssumption

\* The level after p is the least of those above p, or there is none.
LEMMA FollowingIs ==
    ASSUME NEW levels, DOMAIN levels \subseteq Prices, NEW p \in Int
    PROVE  /\ Following(levels, p) \in DOMAIN levels \cup {End}
           /\ \A q \in DOMAIN levels : q > p => Following(levels, p) <= q
           /\ (\A q \in DOMAIN levels : q <= p) => Following(levels, p) = End
<1> DEFINE after == {q \in DOMAIN levels : q > p}
<1>1. after \subseteq Prices /\ Prices \subseteq Int
  BY PriceAssumption DEF Prices
<1>2. CASE after = {}
  BY <1>2 DEF Following
<1>3. CASE after # {}
  <2>1. \E m \in after : \A d \in after : m <= d
    BY <1>1, <1>3, BestExists
  <2>2. Following(levels, p) = CHOOSE x \in after : \A y \in after : x <= y
    BY <1>3 DEF Following, Min
  <2>3. /\ Following(levels, p) \in after
        /\ \A y \in after : Following(levels, p) <= y
    BY <2>1, <2>2
  <2>4. \E q \in DOMAIN levels : ~(q <= p)
    <3>1. PICK q \in after : TRUE
      BY <1>3
    <3>2. q \in DOMAIN levels /\ q > p /\ q \in Int
      BY <1>1, <3>1
    <3> QED BY <3>2
  <2> QED BY <2>3, <2>4
<1> QED BY <1>2, <1>3

\* What the iterator designates is the best level ...
LEMMA AtIsBest ==
    ASSUME TypeInv, order # NoOrder, qty_left > 0, NEW p, Designated(p)
    PROVE  p \in DOMAIN Opposite(order) /\ IsBest(order, p)
<1>1. /\ p \in DOMAIN Opposite(order)
      /\ DOMAIN Opposite(order) \subseteq Prices
  BY DEF Designated, TypeInv, LevelsOK, Opposite
<1>2. CASE order.is_buy
  <2>1. /\ p = it /\ Opposite(order) = sell_book_
        /\ \A q \in DOMAIN sell_book_ : it <= q
    BY <1>2 DEF Designated, Opposite, TypeInv, AtBest
  <2> QED BY <1>1, <1>2, <2>1 DEF IsBest
<1>3. CASE ~order.is_buy
  <2>1. /\ it = End
        /\ \A q \in DOMAIN Opposite(order) : q < it => q <= p
    BY <1>3 DEF Designated, TypeInv, AtBest
  <2>2. \A q \in DOMAIN Opposite(order) : q < End /\ q \in Int
    BY <1>1, PriceAssumption DEF Prices, End
  <2>3. \A q \in DOMAIN Opposite(order) : p >= q
    BY <1>1, <2>1, <2>2
  <2> QED BY <1>1, <1>3, <2>3 DEF IsBest
<1> QED BY <1>2, <1>3

\* ... and the best level is designated.
LEMMA BestIsAt ==
    ASSUME TypeInv, order # NoOrder, qty_left > 0,
           NEW p \in DOMAIN Opposite(order), IsBest(order, p)
    PROVE  Designated(p)
<1>1. DOMAIN Opposite(order) \subseteq Prices
  BY DEF TypeInv, LevelsOK, Opposite
<1>2. \A q \in DOMAIN Opposite(order) : q < End /\ q \in Int /\ End \in Int
  BY <1>1, PriceAssumption DEF Prices, End
<1>3. CASE order.is_buy
  <2>1. /\ Opposite(order) = sell_book_
        /\ it \in DOMAIN sell_book_ \cup {End} /\ it <= p
    BY <1>3 DEF Opposite, TypeInv, AtBest
  <2>2. it \in DOMAIN sell_book_
    BY <1>2, <2>1
  <2>3. p <= it
    BY <1>3, <2>1, <2>2 DEF IsBest
  <2>4. p = it
    BY <1>2, <2>1, <2>2, <2>3
  <2> QED BY <1>3, <2>4 DEF Designated
<1>4. CASE ~order.is_buy
  <2>1. it = End
    BY <1>4 DEF TypeInv, AtBest
  <2>2. \A q \in DOMAIN Opposite(order) : q <= p
    BY <1>2, <1>4 DEF IsBest
  <2> QED BY <1>2, <1>4, <2>1, <2>2 DEF Designated
<1> QED BY <1>3, <1>4

\* begin() of the asks, and rbegin() of the bids.
LEMMA BeginsBest ==
    ASSUME DOMAIN sell_book_ \subseteq Prices, NEW b \in BOOLEAN
    PROVE  /\ Begins(b) \in Prices \cup {End}
           /\ IF b THEN /\ Begins(b) \in DOMAIN sell_book_ \cup {End}
                        /\ \A p \in DOMAIN sell_book_ : Begins(b) <= p
                   ELSE Begins(b) = End
<1>1. CASE b
  <2>1. /\ MinPrice - 1 \in Int
        /\ \A p \in DOMAIN sell_book_ : p > MinPrice - 1
    BY PriceAssumption DEF Prices
  <2>2. Begins(b) = Following(sell_book_, MinPrice - 1)
    BY <1>1 DEF Begins
  <2> QED BY <1>1, <2>1, <2>2, FollowingIs
<1>2. CASE ~b
  BY <1>2 DEF Begins
<1> QED BY <1>1, <1>2

(***************************************************************************)
(* What a pass of the loop and a resting order do to one side.             *)
(***************************************************************************)

\* An order at the front that gives q leaves the side well formed, with no
\* level that was not there.
LEMMA ReducedOK ==
    ASSUME NEW levels, LevelsOK(levels), NEW p \in DOMAIN levels, NEW q \in Nat
    PROVE  /\ LevelsOK(Reduced(levels, p, q))
           /\ DOMAIN Reduced(levels, p, q) \subseteq DOMAIN levels
<1> DEFINE front == Head(levels[p])
           left  == [levels[p] EXCEPT ![1] = [front EXCEPT !.quantity = @ - q]]
<1>1. /\ levels[p] \in Seq(RestOrders) /\ levels[p] # <<>>
      /\ front = levels[p][1] /\ front \in RestOrders /\ front.price = p
  BY DEF LevelsOK
<1>2. CASE front.quantity > q
  <2>1. Reduced(levels, p, q) = [levels EXCEPT ![p] = left]
    <3>1. ~(front.quantity <= q)
      BY <1>1, <1>2 DEF RestOrders
    <3>2. Reduced(levels, p, q) = [levels EXCEPT ![p][1].quantity = @ - q]
      BY <1>2, <3>1 DEF Reduced
    <3> QED BY <3>2, <1>1
  <2>2. [front EXCEPT !.quantity = @ - q] \in RestOrders
    <3> HIDE DEF front
    <3>1. front.quantity \in Nat /\ front.quantity - q \in Nat
      BY <1>1, <1>2 DEF RestOrders
    <3> QED BY <3>1, <1>1 DEF RestOrders
  <2>3. /\ left \in Seq(RestOrders) /\ left # <<>>
        /\ \A i \in 1 .. Len(left) : left[i].price = p
    <3>1. left \in Seq(RestOrders) /\ Len(left) = Len(levels[p])
      BY <1>1, <2>2
    <3>2. [front EXCEPT !.quantity = @ - q].price = p
      BY <1>1 DEF RestOrders
    <3>3. \A i \in 1 .. Len(left) :
             left[i] = IF i = 1 THEN [front EXCEPT !.quantity = @ - q]
                                ELSE levels[p][i]
      BY <1>1
    <3> QED BY <1>1, <3>1, <3>2, <3>3 DEF LevelsOK
  <2> HIDE DEF left, front
  <2> QED BY <2>1, <2>3 DEF LevelsOK
<1>3. CASE front.quantity <= q /\ Len(levels[p]) = 1
  <2>1. ~(front.quantity > q)
    BY <1>1, <1>3 DEF RestOrders
  <2>2. Reduced(levels, p, q) = [x \in DOMAIN levels \ {p} |-> levels[x]]
    BY <2>1, <1>3 DEF Reduced
  <2> QED BY <2>2 DEF LevelsOK
<1>4. CASE front.quantity <= q /\ Len(levels[p]) # 1
  <2>1. ~(front.quantity > q)
    BY <1>1, <1>4 DEF RestOrders
  <2>2. Reduced(levels, p, q) = [levels EXCEPT ![p] = Tail(levels[p])]
    BY <2>1, <1>4 DEF Reduced
  <2>3. /\ Tail(levels[p]) \in Seq(RestOrders) /\ Tail(levels[p]) # <<>>
        /\ \A i \in 1 .. Len(Tail(levels[p])) : Tail(levels[p])[i].price = p
    <3> HIDE DEF front, left
    <3> DEFINE queue == levels[p]
    <3>1. queue \in Seq(RestOrders) /\ queue # <<>> /\ Len(queue) # 1
      BY <1>1, <1>4
    <3>2. \A i \in 1 .. Len(queue) : queue[i].price = p
      BY DEF LevelsOK
    <3> HIDE DEF queue
    <3>3. queue \in Seq(RestOrders) /\ Len(queue) > 1
      <4>1. Len(queue) \in Nat /\ Len(queue) # 0
        BY <3>1, EmptySeq
      <4>2. \A n \in Nat : n # 0 /\ n # 1 => n > 1
        OBVIOUS
      <4> QED BY <3>1, <4>1, <4>2
    <3>4. Tail(queue) \in Seq(RestOrders) /\ Len(Tail(queue)) = Len(queue) - 1
      BY <3>3
    <3>5. \A i \in 1 .. Len(Tail(queue)) :
             Tail(queue)[i] = queue[i + 1] /\ i + 1 \in 1 .. Len(queue)
      BY <3>3, <3>4
    <3>6. Tail(queue) # <<>>
      <4>1. Len(Tail(queue)) # 0
        BY <3>3, <3>4
      <4> QED BY <4>1, <3>4, EmptySeq
    <3>7. \A i \in 1 .. Len(Tail(queue)) : Tail(queue)[i].price = p
      BY <3>2, <3>5
    <3> QED BY <3>4, <3>6, <3>7 DEF queue
  <2> HIDE DEF front
  <2> QED BY <2>2, <2>3 DEF LevelsOK
<1>5. front.quantity > q \/ front.quantity <= q
  BY <1>1 DEF RestOrders
<1> QED BY <1>2, <1>3, <1>4, <1>5

\* A resting order joins the end of the level of its price, or starts it.
LEMMA RestOK ==
    ASSUME NEW levels, LevelsOK(levels), NEW remain \in RestOrders
    PROVE  /\ LevelsOK(Rest(levels, remain))
           /\ DOMAIN Rest(levels, remain) = DOMAIN levels \cup {remain.price}
<1> DEFINE P == remain.price
           queue == IF P \in DOMAIN levels THEN Append(levels[P], remain)
                                           ELSE <<remain>>
<1>1. P \in Prices
  BY DEF RestOrders
<1>2. /\ queue \in Seq(RestOrders) /\ queue # <<>>
      /\ \A i \in 1 .. Len(queue) : queue[i].price = P
  <2>1. CASE P \in DOMAIN levels
    <3>1. /\ levels[P] \in Seq(RestOrders)
          /\ \A i \in 1 .. Len(levels[P]) : levels[P][i].price = P
      BY <2>1 DEF LevelsOK
    <3> QED BY <2>1, <3>1
  <2>2. CASE P \notin DOMAIN levels
    BY <2>2
  <2> QED BY <2>1, <2>2
<1>3. Rest(levels, remain) = [p \in DOMAIN levels \cup {P} |->
                                 IF p = P THEN queue ELSE levels[p]]
  BY DEF Rest
<1> HIDE DEF queue, P
<1>4. DOMAIN Rest(levels, remain) = DOMAIN levels \cup {P}
  BY <1>3
<1>5. Rest(levels, remain) \in [DOMAIN levels \cup {P} -> Seq(RestOrders)]
  BY <1>2, <1>3 DEF LevelsOK
<1>6. \A p \in DOMAIN levels \cup {P} :
         Rest(levels, remain)[p] = IF p = P THEN queue ELSE levels[p]
  BY <1>3
<1>7. LevelsOK(Rest(levels, remain))
  BY <1>1, <1>2, <1>4, <1>5, <1>6 DEF LevelsOK
<1> QED BY <1>4, <1>7 DEF P

(***************************************************************************)
(* The steps of add_order.                                                 *)
(***************************************************************************)

\* What a step needs to know of the assumptions.
LEMMA OrdersRest ==
    ASSUME NEW o \in Orders
    PROVE  /\ o \in RestOrders
           /\ \A x \in Nat : [o EXCEPT !.quantity = x] \in RestOrders
           /\ \A x : [o EXCEPT !.quantity = x].price = o.price
  BY QuantityAssumption DEF Orders, RestOrders

\* The loops are over, and the order has shares left: every level of the other
\* side lies beyond its limit.  The iterator stands at the best level; if that
\* one is beyond the limit so is the rest.
LEMMA BeyondLimit ==
    ASSUME TypeInv, order # NoOrder, qty_left > 0,
           \A p \in DOMAIN Opposite(order) : ~Takes(p)
    PROVE  \A p \in DOMAIN Opposite(order) : ~Within(order, p)
<1> DEFINE D == DOMAIN Opposite(order)
<1> HIDE DEF D
<1>1. D \subseteq Prices /\ D = DOMAIN Opposite(order) /\ order \in Orders
  BY DEF D, TypeInv, LevelsOK, Opposite
<1>2. SUFFICES ASSUME NEW p \in D, Within(order, p) PROVE FALSE
  BY <1>1
<1>3. PICK best \in D : IsBest(order, best)
  BY <1>1, BestExists DEF IsBest
<1>4. Within(order, best)
  <2>1. /\ p \in Nat /\ best \in Nat /\ order.price \in Nat
        /\ IF order.is_buy THEN best <= p ELSE best >= p
    BY <1>1, <1>3, PriceAssumption DEF IsBest, Prices, Orders
  <2> QED BY <1>2, <2>1 DEF Within
<1>5. Designated(best)
  BY <1>1, <1>3, BestIsAt
<1> QED BY <1>1, <1>3, <1>4, <1>5 DEF Takes

\* The invariant holds initially.
LEMMA InitInv == BookInit => Inv
<1> SUFFICES ASSUME BookInit PROVE Inv
  OBVIOUS
<1>1. LevelsOK(NoLevels) /\ DOMAIN NoLevels = {}
  BY DEF LevelsOK, NoLevels
<1> QED BY <1>1, BoundAssumption DEF BookInit, Inv, TypeInv, AtBest, BookUncrossed

\* A new order does not touch the book.
LEMMA AddOrderTypes ==
    ASSUME TypeInv, NEW b \in BOOLEAN, NEW p \in Prices, NEW q \in Quantities,
           NEW t \in Types, AddOrder(b, p, q, t)
    PROVE  TypeInv' /\ UNCHANGED <<buy_book_, sell_book_>>
<1>1. count + 1 \in 1 .. MaxOrders /\ count' \in 0 .. MaxOrders
  BY BoundAssumption DEF TypeInv, AddOrder
<1>2. order' \in Orders
  BY <1>1 DEF AddOrder, Orders
<1>3. qty_left' \in Nat
  BY QuantityAssumption DEF AddOrder
<1>4. UNCHANGED <<buy_book_, sell_book_>>
  BY DEF AddOrder
<1>5. AtBest' /\ it' \in Prices \cup {End}
  <2>1. it' = Begins(b) /\ order'.is_buy = b
    BY DEF AddOrder
  <2>2. DOMAIN sell_book_ \subseteq Prices
    BY DEF TypeInv, LevelsOK
  <2> QED BY <1>4, <2>1, <2>2, BeginsBest DEF AtBest, End
<1> QED BY <1>1, <1>2, <1>3, <1>4, <1>5 DEF TypeInv

\* A fill takes levels away and adds none.
LEMMA TakeFrontTypes ==
    ASSUME TypeInv, NEW p \in Prices, TakeFront(p)
    PROVE  /\ TypeInv'
           /\ DOMAIN sell_book_' \subseteq DOMAIN sell_book_
           /\ DOMAIN buy_book_' \subseteq DOMAIN buy_book_
<1> DEFINE front == Head(Opposite(order)[p])
           q == MatchQty(front)
<1>1. /\ order \in Orders /\ qty_left \in Nat
      /\ p \in DOMAIN Opposite(order) /\ LevelsOK(Opposite(order))
      /\ order # NoOrder /\ qty_left > 0 /\ Designated(p)
  BY DEF TypeInv, TakeFront, Takes, Designated, Opposite
<1>2. front.quantity \in Nat
  <2>1. Opposite(order)[p] \in Seq(RestOrders) /\ Opposite(order)[p] # <<>>
    BY <1>1 DEF LevelsOK
  <2>2. front \in RestOrders
    BY <2>1
  <2> QED BY <2>2 DEF RestOrders
<1> HIDE DEF front
<1>3. q \in Nat /\ qty_left - q \in Nat
  BY <1>1, <1>2 DEF MatchQty
<1>4. /\ qty_left' = qty_left - q
      /\ UNCHANGED <<order, count>>
      /\ IF order.is_buy
           THEN sell_book_' = Reduced(sell_book_, p, q) /\ UNCHANGED buy_book_
           ELSE buy_book_' = Reduced(buy_book_, p, q) /\ UNCHANGED sell_book_
      /\ it' = Advanced(Reduced(Opposite(order), p, q), p, qty_left - q)
  BY DEF TakeFront, front
<1> HIDE DEF q
<1>5. /\ LevelsOK(sell_book_') /\ DOMAIN sell_book_' \subseteq DOMAIN sell_book_
      /\ LevelsOK(buy_book_') /\ DOMAIN buy_book_' \subseteq DOMAIN buy_book_
  <2>1. CASE order.is_buy
    BY <1>1, <1>3, <1>4, <2>1, ReducedOK DEF Opposite, TypeInv
  <2>2. CASE ~order.is_buy
    BY <1>1, <1>3, <1>4, <2>2, ReducedOK DEF Opposite, TypeInv
  <2> QED BY <2>1, <2>2
<1>6. AtBest' /\ it' \in Prices \cup {End}
  <2> DEFINE levels == Reduced(Opposite(order), p, q)
  <2>1. /\ DOMAIN levels \subseteq DOMAIN Opposite(order)
        /\ DOMAIN Opposite(order) \subseteq Prices
    BY <1>1, <1>3, ReducedOK DEF LevelsOK
  <2>2. order.is_buy => sell_book_' = levels
    BY <1>4 DEF Opposite
  <2>3. it' = Advanced(levels, p, qty_left - q)
    BY <1>4
  <2> HIDE DEF levels
  <2>4. IsBest(order, p) /\ Prices \subseteq Int
    BY <1>1, AtIsBest, PriceAssumption DEF Prices
  <2>5. /\ Following(levels, p) \in DOMAIN levels \cup {End}
        /\ \A x \in DOMAIN levels : x > p => Following(levels, p) <= x
        /\ (\A x \in DOMAIN levels : x <= p) => Following(levels, p) = End
    BY <2>1, <2>4, FollowingIs
  <2>6. /\ p \notin DOMAIN levels => it' = Following(levels, p)
        /\ p \in DOMAIN levels /\ qty_left - q = 0 =>
              it' = (IF order.is_buy THEN Following(levels, p) ELSE p)
        /\ p \in DOMAIN levels /\ qty_left - q # 0 => it' = it
    BY <2>3 DEF Advanced
  <2>7. it' \in Prices \cup {End}
    BY <2>1, <2>5, <2>6 DEF TypeInv
  <2>8. ASSUME qty_left - q > 0, order.is_buy
        PROVE  it' \in DOMAIN levels \cup {End} /\ \A x \in DOMAIN levels : it' <= x
    <3>1. \A x \in DOMAIN levels : p <= x
      BY <2>1, <2>4, <2>8 DEF IsBest
    <3>2. CASE p \notin DOMAIN levels
      <4>1. ASSUME NEW x \in DOMAIN levels PROVE x > p
        <5>1. x \in Int /\ p \in Int /\ p <= x /\ x # p
          BY <2>1, <2>4, <3>1, <3>2
        <5> QED BY <5>1
      <4> QED BY <2>5, <2>6, <3>2, <4>1
    <3>3. CASE p \in DOMAIN levels
      <4>1. it' = it /\ it = p
        BY <1>1, <1>3, <2>6, <2>8, <3>3 DEF Designated
      <4> QED BY <3>1, <3>3, <4>1
    <3> QED BY <3>2, <3>3
  <2>9. ASSUME qty_left - q > 0, ~order.is_buy PROVE it' = End
    <3>1. \A x \in DOMAIN levels : x <= p
      BY <2>1, <2>4, <2>9 DEF IsBest
    <3>2. it = End
      BY <1>1, <2>9 DEF TypeInv, AtBest
    <3> QED BY <1>3, <2>5, <2>6, <2>9, <3>1, <3>2
  <2>10. AtBest'
    BY <1>4, <2>2, <2>8, <2>9 DEF AtBest, End
  <2> QED BY <2>7, <2>10
<1>7. TypeInv'
  BY <1>3, <1>4, <1>5, <1>6 DEF TypeInv, End
<1> QED BY <1>5, <1>7

\* What is left of a LIMIT order joins its side.
LEMMA FinishTypes ==
    ASSUME TypeInv, Finish
    PROVE  TypeInv'
<1> DEFINE remain == [order EXCEPT !.quantity = qty_left]
<1>1. remain \in RestOrders
  BY OrdersRest DEF TypeInv, Finish
<1>2. /\ order' = NoOrder /\ qty_left' = 0 /\ it' = End /\ count' = count
      /\ \/ UNCHANGED <<buy_book_, sell_book_>>
         \/ buy_book_' = Rest(buy_book_, remain) /\ UNCHANGED sell_book_
         \/ sell_book_' = Rest(sell_book_, remain) /\ UNCHANGED buy_book_
  BY DEF Finish
<1> HIDE DEF remain
<1>3. LevelsOK(buy_book_') /\ LevelsOK(sell_book_')
  BY <1>1, <1>2, RestOK DEF TypeInv
<1> QED BY <1>2, <1>3 DEF TypeInv, AtBest, End

\* What rests of an order lies on its own side of every level it did not take.
LEMMA FinishUncrossed ==
    ASSUME Inv, Finish
    PROVE  BookUncrossed'
<1> DEFINE remain == [order EXCEPT !.quantity = qty_left]
<1>1. order \in Orders /\ qty_left \in Nat
  BY DEF Inv, TypeInv, Finish
<1>2. remain \in RestOrders /\ remain.price = order.price
  BY <1>1, OrdersRest
<1>3. CASE order.type = "LIMIT" /\ qty_left > 0
  <2>1. /\ IF order.is_buy
             THEN buy_book_' = Rest(buy_book_, remain) /\ UNCHANGED sell_book_
             ELSE sell_book_' = Rest(sell_book_, remain) /\ UNCHANGED buy_book_
    BY <1>3 DEF Finish
  <2>2. \A p \in DOMAIN Opposite(order) : ~Within(order, p)
    BY <1>1, <1>3, BeyondLimit DEF Finish, Inv
  <2> HIDE DEF remain
  <2>3. CASE order.is_buy
    <3>1. /\ LevelsOK(buy_book_') /\ sell_book_' = sell_book_
          /\ DOMAIN buy_book_' = DOMAIN buy_book_ \cup {order.price}
      BY <1>2, <2>1, <2>3, RestOK DEF Inv, TypeInv
    <3>2. \A a \in DOMAIN sell_book_ : order.price < a
      <4> SUFFICES ASSUME NEW a \in DOMAIN sell_book_ PROVE order.price < a
        OBVIOUS
      <4>1. a \in Int /\ order.price \in Int
        BY <1>1, PriceAssumption DEF Inv, TypeInv, LevelsOK, Prices, Orders
      <4>2. ~(a <= order.price)
        BY <2>2, <2>3 DEF Opposite, Within
      <4> QED BY <4>1, <4>2
    <3> QED BY <3>1, <3>2 DEF Inv, BookUncrossed
  <2>4. CASE ~order.is_buy
    <3>1. /\ LevelsOK(sell_book_') /\ buy_book_' = buy_book_
          /\ DOMAIN sell_book_' = DOMAIN sell_book_ \cup {order.price}
      BY <1>2, <2>1, <2>4, RestOK DEF Inv, TypeInv
    <3>2. \A b \in DOMAIN buy_book_ : b < order.price
      <4> SUFFICES ASSUME NEW b \in DOMAIN buy_book_ PROVE b < order.price
        OBVIOUS
      <4>1. b \in Int /\ order.price \in Int
        BY <1>1, PriceAssumption DEF Inv, TypeInv, LevelsOK, Prices, Orders
      <4>2. ~(b >= order.price)
        BY <2>2, <2>4 DEF Opposite, Within
      <4> QED BY <4>1, <4>2
    <3> QED BY <3>1, <3>2 DEF Inv, BookUncrossed
  <2> QED BY <2>3, <2>4
<1>4. CASE ~(order.type = "LIMIT" /\ qty_left > 0)
  <2>1. UNCHANGED <<buy_book_, sell_book_>>
    BY <1>4 DEF Finish
  <2> QED BY <2>1 DEF Inv, BookUncrossed
<1> QED BY <1>3, <1>4

\* Every step of the book preserves the invariant.
LEMMA NextInv == Inv /\ [BookNext]_bookVars => Inv'
<1> SUFFICES ASSUME Inv, [BookNext]_bookVars PROVE Inv'
  OBVIOUS
<1>1. ASSUME NEW b \in BOOLEAN, NEW p \in Prices, NEW q \in Quantities,
             NEW t \in Types, AddOrder(b, p, q, t)
      PROVE  Inv'
  BY <1>1, AddOrderTypes DEF Inv, BookUncrossed
<1>2. ASSUME NEW p \in Prices, TakeFront(p) PROVE Inv'
  BY <1>2, TakeFrontTypes DEF Inv, BookUncrossed
<1>3. CASE Finish
  BY <1>3, FinishTypes, FinishUncrossed DEF Inv
<1>4. CASE UNCHANGED bookVars
  BY <1>4 DEF bookVars, Inv, TypeInv, AtBest, End, BookUncrossed, LevelsOK
<1> QED BY <1>1, <1>2, <1>3, <1>4 DEF BookNext, Running

\* The strengthened types are the types.
LEMMA InvType == Inv => BookTypeOK
<1> SUFFICES ASSUME Inv PROVE BookTypeOK
  OBVIOUS
<1>1. ASSUME NEW levels, LevelsOK(levels)
      PROVE  /\ DOMAIN levels \subseteq Prices
             /\ \A p \in DOMAIN levels :
                   /\ levels[p] # <<>>
                   /\ \A i \in DOMAIN levels[p] :
                         levels[p][i].price = p /\ levels[p][i].n \in 1 .. MaxOrders
  <2>1. ASSUME NEW p \in DOMAIN levels, NEW i \in DOMAIN levels[p]
        PROVE  levels[p][i].price = p /\ levels[p][i].n \in 1 .. MaxOrders
    <3>1. levels[p] \in Seq(RestOrders)
      BY <1>1 DEF LevelsOK
    <3>2. i \in 1 .. Len(levels[p]) /\ levels[p][i] \in RestOrders
      BY <3>1
    <3> QED BY <1>1, <3>2 DEF LevelsOK, RestOrders
  <2> QED BY <1>1, <2>1 DEF LevelsOK
<1> QED BY <1>1 DEF Inv, TypeInv, BookTypeOK

-----------------------------------------------------------------------------
\* Whatever orders are added, the fields of the book keep their types and no
\* level of the maps is empty, not even while a sweep erases levels
\* (orderbook.hpp:36, 59-62, 89, 116-118).
THEOREM BookTypeCorrect == BookSpec => []BookTypeOK
<1>1. BookInit => Inv
  BY InitInv
<1>2. Inv /\ [BookNext]_bookVars => Inv'
  BY NextInv
<1>3. Inv => BookTypeOK
  BY InvType
<1> QED BY <1>1, <1>2, <1>3, PTL DEF BookSpec

\* Bids stay below asks at every moment, also in the middle of add_order: an
\* order that rests has taken everything it could trade with
\* (orderbook.hpp:73, 92-96, 100, 123-127).
THEOREM BookNeverCrosses == BookSpec => []BookUncrossed
<1>1. BookInit => Inv
  BY InitInv
<1>2. Inv /\ [BookNext]_bookVars => Inv'
  BY NextInv
<1>3. Inv => BookUncrossed
  BY DEF Inv
<1> QED BY <1>1, <1>2, <1>3, PTL DEF BookSpec

-----------------------------------------------------------------------------
(***************************************************************************)
(* Priority.  What makes the order at the front the oldest of its level is *)
(* that every queue is sorted by submission; it is, because an order that  *)
(* comes to rest is younger than everything that rests already.            *)
(***************************************************************************)

SortedByAge(levels) ==
    \A p \in DOMAIN levels : \A i, j \in 1 .. Len(levels[p]) :
        i < j => levels[p][i].n < levels[p][j].n
AllBefore(levels, k) ==
    \A p \in DOMAIN levels : \A i \in 1 .. Len(levels[p]) : levels[p][i].n < k

\* The number of the order that may come to rest next.
NextToRest == IF order = NoOrder THEN count + 1 ELSE order.n

AgeInv ==
    /\ TypeInv
    /\ order # NoOrder => order.n = count
    /\ SortedByAge(buy_book_) /\ AllBefore(buy_book_, NextToRest)
    /\ SortedByAge(sell_book_) /\ AllBefore(sell_book_, NextToRest)

\* A fill concerns one level, and there either changes only the front, and not
\* its number, or removes it.
LEMMA ReducedShape ==
    ASSUME NEW levels, LevelsOK(levels), NEW p \in DOMAIN levels, NEW q \in Nat,
           NEW after, after = Reduced(levels, p, q)
    PROVE  /\ DOMAIN levels \ {p} \subseteq DOMAIN after
           /\ DOMAIN after \subseteq DOMAIN levels
           /\ \A x \in DOMAIN levels \ {p} : after[x] = levels[x]
           /\ \/ /\ ~(Head(levels[p]).quantity > q)
                 /\ p \notin DOMAIN after /\ Len(levels[p]) = 1
              \/ /\ Head(levels[p]).quantity > q
                 /\ p \in DOMAIN after
                 /\ Len(after[p]) = Len(levels[p])
                 /\ after[p][1].n = levels[p][1].n
                 /\ \A i \in 2 .. Len(levels[p]) : after[p][i] = levels[p][i]
              \/ /\ ~(Head(levels[p]).quantity > q)
                 /\ p \in DOMAIN after
                 /\ Len(after[p]) = Len(levels[p]) - 1
                 /\ \A i \in 1 .. Len(after[p]) : after[p][i] = levels[p][i + 1]
<1> DEFINE front == Head(levels[p])
<1>1. /\ levels[p] \in Seq(RestOrders) /\ levels[p] # <<>>
      /\ front = levels[p][1] /\ front \in RestOrders
  BY DEF LevelsOK
<1>2. front.quantity \in Nat
  BY <1>1 DEF RestOrders
<1>3. CASE front.quantity > q
  <2>1. ~(front.quantity <= q)
    BY <1>2, <1>3
  <2>2. after = [levels EXCEPT ![p][1].quantity = @ - q]
    BY <1>3, <2>1 DEF Reduced
  <2>3. after[p] = [levels[p] EXCEPT ![1] = [front EXCEPT !.quantity = @ - q]]
    BY <1>1, <2>2 DEF LevelsOK
  <2>4. [front EXCEPT !.quantity = @ - q].n = front.n
    BY <1>1 DEF RestOrders
  <2>5. /\ Len(after[p]) = Len(levels[p])
        /\ after[p][1].n = levels[p][1].n
        /\ \A i \in 2 .. Len(levels[p]) : after[p][i] = levels[p][i]
    BY <1>1, <2>3, <2>4
  <2>6. /\ DOMAIN after = DOMAIN levels
        /\ \A x \in DOMAIN levels \ {p} : after[x] = levels[x]
    BY <2>2 DEF LevelsOK
  <2> QED BY <1>3, <2>5, <2>6
<1>4. CASE front.quantity <= q /\ Len(levels[p]) = 1
  <2>1. ~(front.quantity > q)
    BY <1>2, <1>4
  <2>2. after = [x \in DOMAIN levels \ {p} |-> levels[x]]
    BY <2>1, <1>4 DEF Reduced
  <2> QED BY <2>1, <2>2, <1>4
<1>5. CASE front.quantity <= q /\ Len(levels[p]) # 1
  <2>1. ~(front.quantity > q)
    BY <1>2, <1>5
  <2>2. after = [levels EXCEPT ![p] = Tail(levels[p])]
    BY <2>1, <1>5 DEF Reduced
  <2>3. /\ DOMAIN after = DOMAIN levels
        /\ \A x \in DOMAIN levels \ {p} : after[x] = levels[x]
        /\ after[p] = Tail(levels[p])
    BY <2>2 DEF LevelsOK
  <2>4. /\ Len(Tail(levels[p])) = Len(levels[p]) - 1
        /\ \A i \in 1 .. Len(Tail(levels[p])) : Tail(levels[p])[i] = levels[p][i + 1]
    BY <1>1
  <2> QED BY <2>1, <2>3, <2>4
<1>6. front.quantity > q \/ front.quantity <= q
  BY <1>2
<1> QED BY <1>3, <1>4, <1>5, <1>6

\* A fill keeps the queues sorted.
LEMMA ReducedSorted ==
    ASSUME NEW levels, LevelsOK(levels), NEW p \in DOMAIN levels, NEW q \in Nat,
           NEW k \in Nat, SortedByAge(levels), AllBefore(levels, k),
           NEW after, after = Reduced(levels, p, q)
    PROVE  SortedByAge(after) /\ AllBefore(after, k)
<1>1. /\ DOMAIN after \subseteq DOMAIN levels
      /\ \A x \in DOMAIN levels \ {p} : after[x] = levels[x]
  BY ReducedShape
<1>2. ASSUME p \in DOMAIN after
      PROVE  /\ \A i, j \in 1 .. Len(after[p]) : i < j => after[p][i].n < after[p][j].n
             /\ \A i \in 1 .. Len(after[p]) : after[p][i].n < k
  <2>1. Len(levels[p]) \in Nat
    BY DEF LevelsOK
  <2>2. /\ \A i, j \in 1 .. Len(levels[p]) : i < j => levels[p][i].n < levels[p][j].n
        /\ \A i \in 1 .. Len(levels[p]) : levels[p][i].n < k
    BY DEF SortedByAge, AllBefore
  <2>3. CASE /\ Len(after[p]) = Len(levels[p])
             /\ after[p][1].n = levels[p][1].n
             /\ \A i \in 2 .. Len(levels[p]) : after[p][i] = levels[p][i]
    <3>1. \A i \in 1 .. Len(levels[p]) : after[p][i].n = levels[p][i].n
      BY <2>1, <2>3
    <3> QED BY <2>2, <2>3, <3>1
  <2>4. CASE /\ Len(after[p]) = Len(levels[p]) - 1
             /\ \A i \in 1 .. Len(after[p]) : after[p][i] = levels[p][i + 1]
    <3>1. \A i \in 1 .. Len(after[p]) :
             i + 1 \in 1 .. Len(levels[p]) /\ after[p][i].n = levels[p][i + 1].n
      BY <2>1, <2>4
    <3>2. ASSUME NEW i \in 1 .. Len(after[p]), NEW j \in 1 .. Len(after[p]), i < j
          PROVE  after[p][i].n < after[p][j].n
      <4>1. i + 1 < j + 1
        BY <3>2, <2>1, <2>4
      <4> QED BY <2>2, <3>1, <4>1
    <3>3. \A i \in 1 .. Len(after[p]) : after[p][i].n < k
      BY <2>2, <3>1
    <3> QED BY <3>2, <3>3
  <2>5. \/ /\ Len(after[p]) = Len(levels[p])
           /\ after[p][1].n = levels[p][1].n
           /\ \A i \in 2 .. Len(levels[p]) : after[p][i] = levels[p][i]
        \/ /\ Len(after[p]) = Len(levels[p]) - 1
           /\ \A i \in 1 .. Len(after[p]) : after[p][i] = levels[p][i + 1]
    BY <1>2, ReducedShape
  <2> QED BY <2>3, <2>4, <2>5
<1> QED BY <1>1, <1>2 DEF SortedByAge, AllBefore

\* So does an order that comes to rest and is younger than the others.
LEMMA RestSorted ==
    ASSUME NEW levels, LevelsOK(levels), NEW remain \in RestOrders,
           SortedByAge(levels), AllBefore(levels, remain.n)
    PROVE  /\ SortedByAge(Rest(levels, remain))
           /\ AllBefore(Rest(levels, remain), remain.n + 1)
<1> DEFINE P == remain.price
           after == Rest(levels, remain)
<1>1. /\ DOMAIN after = DOMAIN levels \cup {P}
      /\ \A x \in DOMAIN levels \ {P} : after[x] = levels[x]
      /\ P \in DOMAIN levels => after[P] = Append(levels[P], remain)
      /\ P \notin DOMAIN levels => after[P] = <<remain>>
  BY DEF Rest
<1> HIDE DEF after
<1>2. remain.n \in Nat
  BY BoundAssumption DEF RestOrders
<1>3. \A x \in DOMAIN levels : \A i \in 1 .. Len(levels[x]) : levels[x][i].n \in Nat
  <2> TAKE x \in DOMAIN levels
  <2>1. levels[x] \in Seq(RestOrders)
    BY DEF LevelsOK
  <2> TAKE i \in 1 .. Len(levels[x])
  <2>2. levels[x][i] \in RestOrders
    BY <2>1
  <2> QED BY <2>2, BoundAssumption DEF RestOrders
<1>4. /\ \A i, j \in 1 .. Len(after[P]) : i < j => after[P][i].n < after[P][j].n
      /\ \A i \in 1 .. Len(after[P]) : after[P][i].n < remain.n + 1
  <2>1. CASE P \in DOMAIN levels
    <3>1. levels[P] \in Seq(RestOrders)
      BY <2>1 DEF LevelsOK
    <3>2. /\ \A i, j \in 1 .. Len(levels[P]) : i < j => levels[P][i].n < levels[P][j].n
          /\ \A i \in 1 .. Len(levels[P]) : levels[P][i].n < remain.n
          /\ \A i \in 1 .. Len(levels[P]) : levels[P][i].n \in Nat
      BY <2>1, <1>3 DEF SortedByAge, AllBefore
    <3>3. /\ Len(after[P]) = Len(levels[P]) + 1
          /\ \A i \in 1 .. Len(levels[P]) : after[P][i] = levels[P][i]
          /\ after[P][Len(levels[P]) + 1] = remain
      BY <1>1, <2>1, <3>1
    <3> HIDE DEF P
    <3> DEFINE L == Len(levels[P])
    <3>4. L \in Nat
      BY <3>1
    <3>5. ASSUME NEW i \in 1 .. Len(after[P])
          PROVE  \/ i \in 1 .. L /\ after[P][i] = levels[P][i]
                 \/ i = L + 1 /\ after[P][i] = remain
      BY <3>3, <3>4
    <3>6. ASSUME NEW i \in 1 .. Len(after[P]), NEW j \in 1 .. Len(after[P]), i < j
          PROVE  after[P][i].n < after[P][j].n
      <4>1. i \in 1 .. L /\ after[P][i] = levels[P][i]
        BY <3>3, <3>4, <3>6
      <4> HIDE DEF L
      <4>2. CASE j \in 1 .. L /\ after[P][j] = levels[P][j]
        BY <3>2, <3>6, <4>1, <4>2 DEF L
      <4>3. CASE j = L + 1 /\ after[P][j] = remain
        BY <3>2, <4>1, <4>3 DEF L
      <4> QED BY <3>5, <4>2, <4>3
    <3>7. ASSUME NEW i \in 1 .. Len(after[P]) PROVE after[P][i].n < remain.n + 1
      <4> HIDE DEF L
      <4>1. CASE i \in 1 .. L /\ after[P][i] = levels[P][i]
        <5>1. levels[P][i].n < remain.n /\ levels[P][i].n \in Nat
          BY <3>2, <4>1 DEF L
        <5>2. \A x, y \in Nat : x < y => x < y + 1
          OBVIOUS
        <5> QED BY <1>2, <4>1, <5>1, <5>2
      <4>2. CASE i = L + 1 /\ after[P][i] = remain
        BY <1>2, <4>2
      <4> QED BY <3>5, <4>1, <4>2
    <3> QED BY <3>6, <3>7
  <2>2. CASE P \notin DOMAIN levels
    BY <1>1, <1>2, <2>2
  <2> QED BY <2>1, <2>2
<1>5. \A x \in DOMAIN levels : \A i \in 1 .. Len(levels[x]) : levels[x][i].n < remain.n + 1
  BY <1>2, <1>3 DEF AllBefore
<1> HIDE DEF P
<1>6. SortedByAge(after)
  BY <1>1, <1>4 DEF SortedByAge
<1>7. AllBefore(after, remain.n + 1)
  BY <1>1, <1>4, <1>5 DEF AllBefore
<1> QED BY <1>6, <1>7 DEF after

\* Only the front of its level can be touched by a fill.
LEMMA FrontTouched ==
    ASSUME NEW levels, LevelsOK(levels), NEW p \in DOMAIN levels, NEW q \in Nat,
           NEW after, after = Reduced(levels, p, q),
           NEW o \in Touched(levels, after)
    PROVE  o = levels[p][1]
<1>0. PICK x \in DOMAIN levels : \E i \in DOMAIN levels[x] : o = levels[x][i]
  BY DEF Touched, Resting
<1>1. PICK i \in DOMAIN levels[x] : o = levels[x][i]
  BY <1>0
<1>2. levels[x] \in Seq(RestOrders) /\ DOMAIN levels[x] = 1 .. Len(levels[x])
  BY DEF LevelsOK
<1>3. \A y \in DOMAIN after : \A j \in DOMAIN after[y] : o # after[y][j]
  BY DEF Touched, Resting
<1>4. LevelsOK(after)
  BY ReducedOK
<1>5. \A y \in DOMAIN after : after[y] \in Seq(RestOrders) /\ DOMAIN after[y] = 1 .. Len(after[y])
  BY <1>4 DEF LevelsOK
<1>6. x = p
  BY <1>1, <1>3, ReducedShape
<1>7. SUFFICES ASSUME i # 1 PROVE FALSE
  BY <1>1, <1>6
<1>8. i \in 2 .. Len(levels[p]) /\ Len(levels[p]) \in Nat
  BY <1>2, <1>6, <1>7
<1>9. CASE /\ p \in DOMAIN after
           /\ Len(after[p]) = Len(levels[p])
           /\ \A j \in 2 .. Len(levels[p]) : after[p][j] = levels[p][j]
  BY <1>1, <1>3, <1>5, <1>6, <1>8, <1>9
<1>10. CASE /\ p \in DOMAIN after
            /\ Len(after[p]) = Len(levels[p]) - 1
            /\ \A j \in 1 .. Len(after[p]) : after[p][j] = levels[p][j + 1]
  <2>1. i - 1 \in 1 .. Len(after[p]) /\ (i - 1) + 1 = i
    BY <1>8, <1>10
  <2>2. after[p][i - 1] = levels[p][i] /\ i - 1 \in DOMAIN after[p]
    BY <1>5, <1>10, <2>1
  <2> QED BY <1>1, <1>3, <1>6, <1>10, <2>2
<1>11. CASE Len(levels[p]) = 1
  BY <1>8, <1>11
<1> QED BY <1>9, <1>10, <1>11, ReducedShape

\* The front is the oldest order of its level, and levels are found by price.
LEMMA FrontOldest ==
    ASSUME NEW levels, LevelsOK(levels), SortedByAge(levels),
           NEW p \in DOMAIN levels, NEW r \in Resting(levels)
    PROVE  /\ r.price \in DOMAIN levels
           /\ levels[p][1].price = p
           /\ r.price = p => r.n >= levels[p][1].n
<1>0. PICK x \in DOMAIN levels : \E i \in DOMAIN levels[x] : r = levels[x][i]
  BY DEF Resting
<1>1. PICK i \in DOMAIN levels[x] : r = levels[x][i]
  BY <1>0
<1>2. \A y \in DOMAIN levels : /\ levels[y] \in Seq(RestOrders)
                               /\ DOMAIN levels[y] = 1 .. Len(levels[y])
                               /\ Len(levels[y]) \in Nat \ {0}
                               /\ \A j \in 1 .. Len(levels[y]) : levels[y][j].price = y
  <2> TAKE y \in DOMAIN levels
  <2>1. levels[y] \in Seq(RestOrders) /\ levels[y] # <<>>
    BY DEF LevelsOK
  <2> QED BY <2>1, EmptySeq DEF LevelsOK
<1>3. r.price = x /\ levels[p][1].price = p
  BY <1>1, <1>2
<1>4. ASSUME x = p PROVE r.n >= levels[p][1].n
  <2>1. i \in 1 .. Len(levels[p]) /\ 1 \in 1 .. Len(levels[p]) /\ r = levels[p][i]
    BY <1>1, <1>2, <1>4
  <2>2. r \in RestOrders /\ levels[p][1] \in RestOrders
    BY <1>2, <2>1
  <2>3. r.n \in Nat /\ levels[p][1].n \in Nat
    BY <2>2, BoundAssumption DEF RestOrders
  <2>4. i # 1 => levels[p][1].n < r.n
    BY <2>1 DEF SortedByAge
  <2> QED BY <2>1, <2>3, <2>4
<1> QED BY <1>1, <1>3, <1>4

\* An order that comes to rest touches none of the others.
LEMMA RestTouchesNothing ==
    ASSUME NEW levels, LevelsOK(levels), NEW remain \in RestOrders
    PROVE  Touched(levels, Rest(levels, remain)) = {}
<1> SUFFICES ASSUME NEW o \in Resting(levels)
             PROVE  o \in Resting(Rest(levels, remain))
  BY DEF Touched
<1>0. PICK x \in DOMAIN levels : \E i \in DOMAIN levels[x] : o = levels[x][i]
  BY DEF Resting
<1>1. PICK i \in DOMAIN levels[x] : o = levels[x][i]
  BY <1>0
<1>2. levels[x] \in Seq(RestOrders)
  BY DEF LevelsOK
<1>3. /\ x \in DOMAIN Rest(levels, remain)
      /\ Rest(levels, remain)[x] =
            IF x # remain.price THEN levels[x] ELSE Append(levels[x], remain)
  BY DEF Rest
<1>4. /\ i \in DOMAIN Rest(levels, remain)[x]
      /\ Rest(levels, remain)[x][i] = o
  BY <1>1, <1>2, <1>3
<1> QED BY <1>3, <1>4 DEF Resting

LEMMA AgeInit == BookInit => AgeInv
<1> SUFFICES ASSUME BookInit PROVE AgeInv
  OBVIOUS
<1>1. DOMAIN NoLevels = {}
  BY DEF NoLevels
<1> QED BY <1>1, InitInv DEF BookInit, Inv, AgeInv, SortedByAge, AllBefore

\* What is not changed is not touched.
LEMMA TouchedNone == \A levels : Touched(levels, levels) = {}
  BY DEF Touched

\* What the steps of the book do to its two sides.
LEMMA AddOrderAges ==
    ASSUME AgeInv, NEW b \in BOOLEAN, NEW p \in Prices, NEW q \in Quantities,
           NEW t \in Types, AddOrder(b, p, q, t)
    PROVE  AgeInv' /\ BuyPriority /\ SellPriority
<1>1. TypeInv /\ TypeInv'
  BY AddOrderTypes DEF AgeInv
<1>2. /\ LevelsOK(buy_book_) /\ LevelsOK(sell_book_)
      /\ SortedByAge(buy_book_) /\ SortedByAge(sell_book_)
      /\ AllBefore(buy_book_, NextToRest) /\ AllBefore(sell_book_, NextToRest)
  BY DEF AgeInv, TypeInv
<1>3. UNCHANGED <<buy_book_, sell_book_>> /\ order = NoOrder
  BY DEF AddOrder
<1>4. order'.n = count' /\ count' = count + 1 /\ order' \in Orders
  <2>1. order' = [n |-> count + 1, is_buy |-> b, price |-> p, quantity |-> q, type |-> t]
    BY DEF AddOrder
  <2>2. count + 1 \in 1 .. MaxOrders
    BY <1>1, BoundAssumption DEF AddOrder, TypeInv
  <2> QED BY <2>1, <2>2 DEF AddOrder, Orders
<1>5. NextToRest' = NextToRest
  BY <1>3, <1>4, OrderNotNone DEF NextToRest
<1>6. AgeInv'
  BY <1>1, <1>2, <1>3, <1>4, <1>5 DEF AgeInv
<1> QED BY TouchedNone, <1>3, <1>6 DEF BuyPriority, SellPriority

LEMMA TakeFrontAges ==
    ASSUME AgeInv, NEW p \in Prices, TakeFront(p)
    PROVE  AgeInv' /\ BuyPriority /\ SellPriority
<1>1. TypeInv /\ TypeInv'
  BY TakeFrontTypes DEF AgeInv
<1>2. /\ LevelsOK(buy_book_) /\ LevelsOK(sell_book_)
      /\ SortedByAge(buy_book_) /\ SortedByAge(sell_book_)
      /\ AllBefore(buy_book_, NextToRest) /\ AllBefore(sell_book_, NextToRest)
  BY DEF AgeInv, TypeInv
<1> DEFINE q == MatchQty(Head(Opposite(order)[p]))
<1>3. /\ p \in DOMAIN Opposite(order) /\ IsBest(order, p)
      /\ UNCHANGED <<order, count>>
      /\ IF order.is_buy
           THEN sell_book_' = Reduced(sell_book_, p, q) /\ UNCHANGED buy_book_
           ELSE buy_book_' = Reduced(buy_book_, p, q) /\ UNCHANGED sell_book_
  BY <1>1, AtIsBest DEF TakeFront, Takes
<1>4. order \in Orders /\ NextToRest = order.n /\ order.n \in Nat
  BY <1>1, BoundAssumption DEF TakeFront, NextToRest, TypeInv, Orders
<1>5. q \in Nat
  <2>1. Opposite(order)[p] \in Seq(RestOrders) /\ Opposite(order)[p] # <<>>
    BY <1>2, <1>3 DEF Opposite, LevelsOK
  <2>2. Head(Opposite(order)[p]) \in RestOrders
    BY <2>1
  <2>3. Head(Opposite(order)[p]).quantity \in Nat
    BY <2>2 DEF RestOrders
  <2> QED BY <1>1, <2>3 DEF MatchQty, TypeInv
<1> HIDE DEF q
<1>6. NextToRest' = NextToRest
  BY <1>3 DEF NextToRest
<1>7. CASE order.is_buy
  <2>1. p \in DOMAIN sell_book_ /\ \A x \in DOMAIN sell_book_ : p <= x
    BY <1>3, <1>7 DEF Opposite, IsBest
  <2>2. SortedByAge(sell_book_') /\ AllBefore(sell_book_', NextToRest)
    BY <1>2, <1>3, <1>4, <1>5, <1>7, <2>1, ReducedSorted
  <2>3. SellPriority
    <3> SUFFICES ASSUME NEW o \in Touched(sell_book_, sell_book_'),
                        NEW r \in Resting(sell_book_)
                 PROVE  r.price >= o.price /\ (r.price = o.price => r.n >= o.n)
      BY DEF SellPriority
    <3>1. o = sell_book_[p][1]
      BY <1>2, <1>3, <1>5, <1>7, <2>1, FrontTouched
    <3>2. /\ r.price \in DOMAIN sell_book_ /\ o.price = p
          /\ r.price = p => r.n >= o.n
      BY <1>2, <2>1, <3>1, FrontOldest
    <3>3. p <= r.price /\ p \in Int /\ r.price \in Int
      BY <1>2, <2>1, <3>2, PriceAssumption DEF LevelsOK, Prices
    <3> QED BY <3>2, <3>3
  <2> QED BY <1>1, <1>2, TouchedNone, <1>3, <1>6, <1>7, <2>2, <2>3 DEF AgeInv, BuyPriority
<1>8. CASE ~order.is_buy
  <2>1. p \in DOMAIN buy_book_ /\ \A x \in DOMAIN buy_book_ : p >= x
    BY <1>3, <1>8 DEF Opposite, IsBest
  <2>2. SortedByAge(buy_book_') /\ AllBefore(buy_book_', NextToRest)
    BY <1>2, <1>3, <1>4, <1>5, <1>8, <2>1, ReducedSorted
  <2>3. BuyPriority
    <3> SUFFICES ASSUME NEW o \in Touched(buy_book_, buy_book_'),
                        NEW r \in Resting(buy_book_)
                 PROVE  r.price <= o.price /\ (r.price = o.price => r.n >= o.n)
      BY DEF BuyPriority
    <3>1. o = buy_book_[p][1]
      BY <1>2, <1>3, <1>5, <1>8, <2>1, FrontTouched
    <3>2. /\ r.price \in DOMAIN buy_book_ /\ o.price = p
          /\ r.price = p => r.n >= o.n
      BY <1>2, <2>1, <3>1, FrontOldest
    <3>3. p >= r.price /\ p \in Int /\ r.price \in Int
      BY <1>2, <2>1, <3>2, PriceAssumption DEF LevelsOK, Prices
    <3> QED BY <3>2, <3>3
  <2> QED BY <1>1, <1>2, TouchedNone, <1>3, <1>6, <1>8, <2>2, <2>3 DEF AgeInv, SellPriority
<1> QED BY <1>7, <1>8

LEMMA FinishAges ==
    ASSUME AgeInv, Finish
    PROVE  AgeInv' /\ BuyPriority /\ SellPriority
<1>1. TypeInv /\ TypeInv'
  BY FinishTypes DEF AgeInv
<1>2. /\ LevelsOK(buy_book_) /\ LevelsOK(sell_book_)
      /\ SortedByAge(buy_book_) /\ SortedByAge(sell_book_)
      /\ AllBefore(buy_book_, NextToRest) /\ AllBefore(sell_book_, NextToRest)
  BY DEF AgeInv, TypeInv
<1> DEFINE remain == [order EXCEPT !.quantity = qty_left]
<1>3. order \in Orders /\ order # NoOrder /\ qty_left \in Nat
  BY <1>1 DEF Finish, TypeInv
<1>4. remain \in RestOrders /\ remain.n = order.n
  BY <1>3, OrdersRest DEF Orders
<1>5. order' = NoOrder /\ count' = count /\ order.n = count /\ count \in Nat
  BY <1>1, <1>3 DEF Finish, AgeInv, TypeInv
<1>6. NextToRest = remain.n /\ NextToRest' = remain.n + 1
  BY <1>3, <1>4, <1>5 DEF NextToRest
<1>7. \/ UNCHANGED <<buy_book_, sell_book_>>
      \/ buy_book_' = Rest(buy_book_, remain) /\ UNCHANGED sell_book_
      \/ sell_book_' = Rest(sell_book_, remain) /\ UNCHANGED buy_book_
  BY DEF Finish
<1> HIDE DEF remain
<1>8. ASSUME NEW levels, LevelsOK(levels), AllBefore(levels, remain.n)
      PROVE  AllBefore(levels, remain.n + 1)
  <2> SUFFICES ASSUME NEW x \in DOMAIN levels, NEW i \in 1 .. Len(levels[x])
               PROVE  levels[x][i].n < remain.n + 1
    BY DEF AllBefore
  <2>1. levels[x] \in Seq(RestOrders)
    BY <1>8 DEF LevelsOK
  <2>2. levels[x][i] \in RestOrders
    BY <2>1
  <2>3. levels[x][i].n \in Nat /\ remain.n \in Nat /\ levels[x][i].n < remain.n
    BY <1>4, <1>8, <2>2, BoundAssumption DEF RestOrders, AllBefore
  <2> QED BY <2>3
<1>9. /\ SortedByAge(buy_book_') /\ AllBefore(buy_book_', remain.n + 1)
      /\ SortedByAge(sell_book_') /\ AllBefore(sell_book_', remain.n + 1)
  BY <1>2, <1>4, <1>6, <1>7, <1>8, RestSorted
<1>10. Touched(buy_book_, buy_book_') = {} /\ Touched(sell_book_, sell_book_') = {}
  BY <1>2, TouchedNone, <1>4, <1>7, RestTouchesNothing
<1>11. AgeInv'
  BY <1>1, <1>5, <1>6, <1>9 DEF AgeInv
<1> QED BY <1>10, <1>11 DEF BuyPriority, SellPriority

LEMMA NothingAges ==
    ASSUME AgeInv, UNCHANGED bookVars
    PROVE  AgeInv' /\ BuyPriority /\ SellPriority
  BY TouchedNone DEF bookVars, AgeInv, TypeInv, AtBest, End, NextToRest, BuyPriority, SellPriority

LEMMA AgeNext ==
    ASSUME AgeInv, [BookNext]_bookVars
    PROVE  AgeInv' /\ BuyPriority /\ SellPriority
  BY AddOrderAges, TakeFrontAges, FinishAges, NothingAges DEF BookNext, Running

-----------------------------------------------------------------------------
\* README.md:22 of week 10 promises price-time priority: every resting order that
\* a sweep takes from is one that no other resting order of its side has a better
\* price than, or the same price and an earlier submission.
THEOREM BookHasPriority == BookSpec => PriceTimePriority
<1>1. BookInit => AgeInv
  BY AgeInit
<1>2. AgeInv /\ [BookNext]_bookVars => AgeInv'
  BY AgeNext
<1>3. AgeInv /\ [BookNext]_bookVars
        => [order # NoOrder => BuyPriority /\ SellPriority]_bookVars
  BY AgeNext
<1> QED BY <1>1, <1>2, <1>3, PTL DEF BookSpec, PriceTimePriority

-----------------------------------------------------------------------------
(***************************************************************************)
(* LimitBook: id_map_ of week 9.  An order rests at most at one place: the *)
(* map gives each id one side and one level, and inside a level ids differ *)
(* because the level is sorted by them.  That is what lets cancel_order    *)
(* and a fill erase one entry of the map with one order of the book.       *)
(***************************************************************************)

Side(b) == IF b THEN buy_book_ ELSE sell_book_

\* An order of the id n rests at the level p.
RestsAt(levels, p, n) ==
    p \in DOMAIN levels /\ \E i \in 1 .. Len(levels[p]) : levels[p][i].n = n

\* id_map_ leads from an id to the one place where its order rests.
MapsTo(map, n, b, p) == n \in DOMAIN map /\ map[n] = <<b, p>>
IdMapInv ==
    /\ \A n \in DOMAIN id_map_ : id_map_[n] \in BOOLEAN \X Prices
    /\ \A b \in BOOLEAN, p \in Prices : \A n :
          MapsTo(id_map_, n, b, p) <=> RestsAt(Side(b), p, n)

LimitInv ==
    /\ week \in {9, 10}
    /\ AgeInv
    /\ week = 9 => /\ order # NoOrder => order.type = "MARKET"
                   /\ IdMapInv

\* An order that comes to rest is one place more.
LEMMA RestPlaces ==
    ASSUME NEW levels, LevelsOK(levels), NEW o \in RestOrders
    PROVE  \A p \in Prices : \A n :
              RestsAt(Rest(levels, o), p, n) <=>
                  RestsAt(levels, p, n) \/ (p = o.price /\ n = o.n)
<1> SUFFICES ASSUME NEW p \in Prices, NEW n
             PROVE  RestsAt(Rest(levels, o), p, n) <=>
                        RestsAt(levels, p, n) \/ (p = o.price /\ n = o.n)
  OBVIOUS
<1>1. /\ DOMAIN Rest(levels, o) = DOMAIN levels \cup {o.price}
      /\ p \in DOMAIN levels /\ p # o.price => Rest(levels, o)[p] = levels[p]
      /\ o.price \in DOMAIN levels => Rest(levels, o)[o.price] = Append(levels[o.price], o)
      /\ o.price \notin DOMAIN levels => Rest(levels, o)[o.price] = <<o>>
  BY DEF Rest
<1>2. CASE p # o.price
  <2>1. p \in DOMAIN Rest(levels, o) <=> p \in DOMAIN levels
    BY <1>1, <1>2
  <2>2. p \in DOMAIN levels => Rest(levels, o)[p] = levels[p]
    BY <1>1, <1>2
  <2> QED BY <1>2, <2>1, <2>2 DEF RestsAt
<1>3. CASE p = o.price /\ p \notin DOMAIN levels
  <2>1. p \in DOMAIN Rest(levels, o) /\ Rest(levels, o)[p] = <<o>>
    BY <1>1, <1>3
  <2>2. Len(<<o>>) = 1 /\ <<o>>[1] = o
    OBVIOUS
  <2>3. ~RestsAt(levels, p, n)
    BY <1>3 DEF RestsAt
  <2>4. RestsAt(Rest(levels, o), p, n) <=> \E i \in 1 .. 1 : <<o>>[i].n = n
    BY <2>1, <2>2 DEF RestsAt
  <2> QED BY <1>3, <2>2, <2>3, <2>4
<1>4. CASE p = o.price /\ p \in DOMAIN levels
  <2> DEFINE q == levels[p]
  <2>1. q \in Seq(RestOrders)
    BY <1>4 DEF LevelsOK
  <2> HIDE DEF q
  <2>2. /\ Len(Append(q, o)) = Len(q) + 1 /\ Len(q) \in Nat
        /\ Append(q, o)[Len(q) + 1] = o
        /\ \A i \in 1 .. Len(q) : Append(q, o)[i] = q[i]
    BY <2>1
  <2>3. (\E i \in 1 .. Len(Append(q, o)) : Append(q, o)[i].n = n)
            <=> (\E i \in 1 .. Len(q) : q[i].n = n) \/ n = o.n
    <3>1. \A i \in 1 .. Len(q) + 1 : i \in 1 .. Len(q) \/ i = Len(q) + 1
      BY <2>2
    <3>2. 1 .. Len(q) \subseteq 1 .. Len(q) + 1 /\ Len(q) + 1 \in 1 .. Len(q) + 1
      BY <2>2
    <3> QED BY <2>2, <3>1, <3>2
  <2> QED BY <1>1, <1>4, <2>3 DEF RestsAt, q
<1> QED BY <1>2, <1>3, <1>4

\* Position i of the level p has been erased, and the level with its last order.
ErasedAt(levels, after, p, i) ==
    /\ DOMAIN levels \ {p} \subseteq DOMAIN after
    /\ DOMAIN after \subseteq DOMAIN levels
    /\ \A x \in DOMAIN levels \ {p} : after[x] = levels[x]
    /\ \/ p \notin DOMAIN after /\ Len(levels[p]) = 1
       \/ /\ p \in DOMAIN after
          /\ Len(after[p]) = Len(levels[p]) - 1
          /\ \A j \in 1 .. Len(after[p]) :
                after[p][j] = levels[p][IF j < i THEN j ELSE j + 1]

LEMMA ErasedPlaces ==
    ASSUME NEW levels, LevelsOK(levels), SortedByAge(levels),
           NEW p \in DOMAIN levels, NEW i \in 1 .. Len(levels[p]),
           NEW after, ErasedAt(levels, after, p, i)
    PROVE  \A x \in Prices : \A n :
              RestsAt(after, x, n) <=>
                  RestsAt(levels, x, n) /\ ~(x = p /\ n = levels[p][i].n)
<1> SUFFICES ASSUME NEW x \in Prices, NEW n
             PROVE  RestsAt(after, x, n) <=>
                        RestsAt(levels, x, n) /\ ~(x = p /\ n = levels[p][i].n)
  OBVIOUS
<1>1. CASE x # p
  BY <1>1 DEF ErasedAt, RestsAt
<1>2. CASE x = p
  <2>1. Len(levels[p]) \in Nat
    BY DEF LevelsOK
  <2>2. \A j, k \in 1 .. Len(levels[p]) : levels[p][j].n = levels[p][k].n => j = k
    <3> SUFFICES ASSUME NEW j \in 1 .. Len(levels[p]), NEW k \in 1 .. Len(levels[p]),
                        levels[p][j].n = levels[p][k].n, j < k
                 PROVE  FALSE
      BY <2>1
    <3>1. levels[p] \in Seq(RestOrders)
      BY DEF LevelsOK
    <3>2. levels[p][j] \in RestOrders
      BY <3>1
    <3>3. levels[p][j].n \in Nat
      BY <3>2, BoundAssumption DEF RestOrders
    <3>4. levels[p][j].n < levels[p][k].n
      BY DEF SortedByAge
    <3> QED BY <3>3, <3>4
  <2>3. CASE p \notin DOMAIN after /\ Len(levels[p]) = 1
    BY <1>2, <2>1, <2>2, <2>3 DEF RestsAt
  <2>4. CASE /\ p \in DOMAIN after
             /\ Len(after[p]) = Len(levels[p]) - 1
             /\ \A j \in 1 .. Len(after[p]) :
                   after[p][j] = levels[p][IF j < i THEN j ELSE j + 1]
    <3>1. ASSUME RestsAt(after, x, n)
          PROVE  RestsAt(levels, x, n) /\ n # levels[p][i].n
      <4>1. PICK j \in 1 .. Len(after[p]) : after[p][j].n = n
        BY <1>2, <3>1 DEF RestsAt
      <4>2. PICK k : k = IF j < i THEN j ELSE j + 1
        OBVIOUS
      <4>3. k \in 1 .. Len(levels[p]) /\ k # i
        BY <2>1, <2>4, <4>1, <4>2
      <4>4. levels[p][k].n = n
        BY <2>4, <4>1, <4>2
      <4> QED BY <1>2, <2>2, <4>3, <4>4 DEF RestsAt
    <3>2. ASSUME RestsAt(levels, x, n), n # levels[p][i].n
          PROVE  RestsAt(after, x, n)
      <4>1. PICK k \in 1 .. Len(levels[p]) : levels[p][k].n = n
        BY <1>2, <3>2 DEF RestsAt
      <4>2. PICK j : j = IF k < i THEN k ELSE k - 1
        OBVIOUS
      <4>3. /\ j \in 1 .. Len(after[p])
            /\ k = IF j < i THEN j ELSE j + 1
        BY <2>1, <2>4, <3>2, <4>1, <4>2
      <4>4. after[p][j].n = n
        BY <2>4, <4>1, <4>3
      <4> QED BY <1>2, <2>4, <4>3, <4>4 DEF RestsAt
    <3> QED BY <1>2, <3>1, <3>2
  <2> QED BY <2>3, <2>4 DEF ErasedAt
<1> QED BY <1>1, <1>2

LEMMA ErasedSorted ==
    ASSUME NEW levels, LevelsOK(levels), NEW p \in DOMAIN levels,
           NEW i \in 1 .. Len(levels[p]), NEW k, SortedByAge(levels), AllBefore(levels, k),
           NEW after, ErasedAt(levels, after, p, i)
    PROVE  SortedByAge(after) /\ AllBefore(after, k)
<1>1. ASSUME p \in DOMAIN after
      PROVE  /\ \A j, m \in 1 .. Len(after[p]) : j < m => after[p][j].n < after[p][m].n
             /\ \A j \in 1 .. Len(after[p]) : after[p][j].n < k
  <2> DEFINE old(j) == IF j < i THEN j ELSE j + 1
  <2>1. \A j \in 1 .. Len(after[p]) :
           old(j) \in 1 .. Len(levels[p]) /\ after[p][j] = levels[p][old(j)]
    BY <1>1 DEF ErasedAt, LevelsOK
  <2>2. \A j, m \in 1 .. Len(after[p]) : j < m => old(j) < old(m)
    BY <1>1 DEF ErasedAt, LevelsOK
  <2> HIDE DEF old
  <2> QED BY <2>1, <2>2 DEF SortedByAge, AllBefore
<1> QED BY <1>1 DEF ErasedAt, SortedByAge, AllBefore

\* cancel_order erases one order and keeps the side well formed.
LEMMA RemovedErases ==
    ASSUME NEW levels, LevelsOK(levels), NEW p \in DOMAIN levels,
           NEW i \in 1 .. Len(levels[p])
    PROVE  /\ LevelsOK(Removed(levels, p, i))
           /\ ErasedAt(levels, Removed(levels, p, i), p, i)
<1> DEFINE q == levels[p]
           left == SubSeq(q, 1, i - 1) \o SubSeq(q, i + 1, Len(q))
<1>1. q \in Seq(RestOrders) /\ Len(q) \in Nat /\ i \in 1 .. Len(q)
  BY DEF LevelsOK
<1>2. CASE Len(q) = 1
  <2>1. Removed(levels, p, i) = [x \in DOMAIN levels \ {p} |-> levels[x]]
    BY <1>2 DEF Removed
  <2> QED BY <1>2, <2>1 DEF LevelsOK, ErasedAt
<1>3. CASE Len(q) # 1
  <2>1. Removed(levels, p, i) = [levels EXCEPT ![p] = left]
    BY <1>3 DEF Removed
  <2>2. \A j \in 1 .. Len(q) : q[j].price = p
    BY DEF LevelsOK
  <2> HIDE DEF q
  <2>3. /\ SubSeq(q, 1, i - 1) \in Seq(RestOrders) /\ Len(SubSeq(q, 1, i - 1)) = i - 1
        /\ \A j \in 1 .. i - 1 : SubSeq(q, 1, i - 1)[j] = q[j]
    BY <1>1
  <2>4. /\ SubSeq(q, i + 1, Len(q)) \in Seq(RestOrders)
        /\ Len(SubSeq(q, i + 1, Len(q))) = Len(q) - i
        /\ \A j \in 1 .. Len(q) - i : SubSeq(q, i + 1, Len(q))[j] = q[i + j]
    BY <1>1
  <2>5. /\ left \in Seq(RestOrders) /\ Len(left) = Len(q) - 1
        /\ \A j \in 1 .. Len(left) : left[j] = q[IF j < i THEN j ELSE j + 1]
    <3> DEFINE a == SubSeq(q, 1, i - 1)
               b == SubSeq(q, i + 1, Len(q))
    <3>1. /\ a \in Seq(RestOrders) /\ Len(a) = i - 1
          /\ \A j \in 1 .. i - 1 : a[j] = q[j]
          /\ b \in Seq(RestOrders) /\ Len(b) = Len(q) - i
          /\ \A j \in 1 .. Len(q) - i : b[j] = q[i + j]
      BY <2>3, <2>4
    <3> HIDE DEF a, b
    <3>2. /\ a \o b \in Seq(RestOrders) /\ Len(a \o b) = Len(q) - 1
          /\ \A j \in 1 .. Len(q) - 1 :
                (a \o b)[j] = IF j <= i - 1 THEN a[j] ELSE b[j - (i - 1)]
      <4>1. /\ a \o b \in Seq(RestOrders) /\ Len(a \o b) = Len(a) + Len(b)
            /\ \A j \in 1 .. Len(a) + Len(b) :
                  (a \o b)[j] = IF j <= Len(a) THEN a[j] ELSE b[j - Len(a)]
        BY <3>1, ConcatProperties
      <4>2. Len(a) + Len(b) = Len(q) - 1
        BY <1>1, <3>1
      <4> QED BY <3>1, <4>1, <4>2
    <3>3. ASSUME NEW j \in 1 .. Len(q) - 1
          PROVE  (a \o b)[j] = q[IF j < i THEN j ELSE j + 1]
      <4>1. CASE j < i
        BY <1>1, <3>1, <3>2, <4>1
      <4>2. CASE ~(j < i)
        <5>1. j - (i - 1) \in 1 .. Len(q) - i /\ i + (j - (i - 1)) = j + 1
              /\ ~(j <= i - 1)
          BY <1>1, <4>2
        <5> QED BY <3>1, <3>2, <4>2, <5>1
      <4> QED BY <4>1, <4>2
    <3> QED BY <3>2, <3>3 DEF a, b
  <2> HIDE DEF left
  <2>6. \A j \in 1 .. Len(left) : (IF j < i THEN j ELSE j + 1) \in 1 .. Len(q)
    BY <1>1, <2>5
  <2>7. \A j \in 1 .. Len(left) : left[j].price = p
    BY <2>2, <2>5, <2>6
  <2>8. left # <<>>
    <3>1. Len(left) # 0
      BY <1>1, <1>3, <2>5
    <3> QED BY <3>1
  <2>9. /\ DOMAIN Removed(levels, p, i) = DOMAIN levels
        /\ Removed(levels, p, i)[p] = left
        /\ \A x \in DOMAIN levels \ {p} : Removed(levels, p, i)[x] = levels[x]
    BY <2>1 DEF LevelsOK
  <2>10. LevelsOK(Removed(levels, p, i))
    <3>1. Removed(levels, p, i) \in [DOMAIN levels -> Seq(RestOrders)]
      BY <2>1, <2>5 DEF LevelsOK
    <3>2. DOMAIN Removed(levels, p, i) \subseteq Prices
      BY <2>9 DEF LevelsOK
    <3> DEFINE new == Removed(levels, p, i)
    <3>3. ASSUME NEW x \in DOMAIN new
          PROVE  new[x] # <<>> /\ \A j \in 1 .. Len(new[x]) : new[x][j].price = x
      <4> HIDE DEF new
      <4>1. CASE x = p
        BY <2>7, <2>8, <2>9, <4>1 DEF new
      <4>2. CASE x # p
        <5>1. x \in DOMAIN levels /\ new[x] = levels[x]
          BY <2>9, <3>3, <4>2 DEF new
        <5> QED BY <5>1 DEF LevelsOK
      <4> QED BY <4>1, <4>2
    <3> QED BY <2>9, <3>1, <3>2, <3>3 DEF LevelsOK
  <2> QED BY <2>5, <2>9, <2>10 DEF ErasedAt, q
<1> QED BY <1>2, <1>3

\* So does a fill that uses up the order at the front; another one leaves every
\* order where it is.
LEMMA ReducedErases ==
    ASSUME NEW levels, LevelsOK(levels), NEW p \in DOMAIN levels, NEW q \in Nat,
           NEW after, after = Reduced(levels, p, q)
    PROVE  IF levels[p][1].quantity > q
             THEN \A x \in Prices : \A n : RestsAt(after, x, n) <=> RestsAt(levels, x, n)
             ELSE ErasedAt(levels, after, p, 1)
<1>1. /\ levels[p] \in Seq(RestOrders) /\ Head(levels[p]) = levels[p][1]
      /\ 1 \in 1 .. Len(levels[p]) /\ Len(levels[p]) \in Nat
  <2>1. levels[p] \in Seq(RestOrders) /\ levels[p] # <<>>
    BY DEF LevelsOK
  <2> QED BY <2>1
<1>2. CASE levels[p][1].quantity > q
  <2>1. /\ DOMAIN after = DOMAIN levels
        /\ \A x \in DOMAIN levels \ {p} : after[x] = levels[x]
        /\ Len(after[p]) = Len(levels[p])
        /\ \A i \in 1 .. Len(levels[p]) : after[p][i].n = levels[p][i].n
    <3>1. /\ DOMAIN levels \ {p} \subseteq DOMAIN after
          /\ DOMAIN after \subseteq DOMAIN levels
          /\ \A x \in DOMAIN levels \ {p} : after[x] = levels[x]
          /\ p \in DOMAIN after
          /\ Len(after[p]) = Len(levels[p])
          /\ after[p][1].n = levels[p][1].n
          /\ \A i \in 2 .. Len(levels[p]) : after[p][i] = levels[p][i]
      BY <1>1, <1>2, ReducedShape
    <3>2. \A i \in 1 .. Len(levels[p]) : i = 1 \/ i \in 2 .. Len(levels[p])
      BY <1>1
    <3>3. DOMAIN after = DOMAIN levels
      BY <3>1
    <3> QED BY <3>1, <3>2, <3>3
  <2> QED BY <1>2, <2>1 DEF RestsAt
<1>3. CASE ~(levels[p][1].quantity > q)
  <2>1. /\ DOMAIN levels \ {p} \subseteq DOMAIN after
        /\ DOMAIN after \subseteq DOMAIN levels
        /\ \A x \in DOMAIN levels \ {p} : after[x] = levels[x]
        /\ \/ p \notin DOMAIN after /\ Len(levels[p]) = 1
           \/ /\ p \in DOMAIN after
              /\ Len(after[p]) = Len(levels[p]) - 1
              /\ \A i \in 1 .. Len(after[p]) : after[p][i] = levels[p][i + 1]
    BY <1>1, <1>3, ReducedShape
  <2>2. p \in DOMAIN after =>
           \A j \in 1 .. Len(after[p]) : (IF j < 1 THEN j ELSE j + 1) = j + 1
    BY <1>1, <2>1
  <2>3. ErasedAt(levels, after, p, 1)
    BY <2>1, <2>2 DEF ErasedAt
  <2> QED BY <1>3, <2>3
<1> QED BY <1>2, <1>3

\* id_map_.erase forgets one id.
LEMMA WithoutForgets ==
    ASSUME NEW map, NEW id
    PROVE  /\ DOMAIN Without(map, id) = DOMAIN map \ {id}
           /\ \A n \in DOMAIN map \ {id} : Without(map, id)[n] = map[n]
           /\ \A n, b, p : MapsTo(Without(map, id), n, b, p) <=>
                               MapsTo(map, n, b, p) /\ n # id
  BY DEF Without, MapsTo

\* The two sides of the book.
LEMMA SidesOK ==
    ASSUME AgeInv, NEW b \in BOOLEAN
    PROVE  LevelsOK(Side(b)) /\ SortedByAge(Side(b)) /\ AllBefore(Side(b), NextToRest)
  BY DEF AgeInv, TypeInv, Side

\* An id rests at one place at most.
LEMMA OnePlace ==
    ASSUME IdMapInv, NEW b \in BOOLEAN, NEW p \in Prices, NEW c \in BOOLEAN,
           NEW x \in Prices, NEW n, RestsAt(Side(b), p, n), RestsAt(Side(c), x, n)
    PROVE  b = c /\ p = x
<1>1. MapsTo(id_map_, n, b, p) /\ MapsTo(id_map_, n, c, x)
  BY DEF IdMapInv
<1>2. <<b, p>> = <<c, x>>
  BY <1>1 DEF MapsTo
<1> QED BY <1>2

\* What is younger than all is so one order later.
LEMMA LaterStillBefore ==
    ASSUME NEW levels, LevelsOK(levels), NEW k \in Nat, AllBefore(levels, k)
    PROVE  AllBefore(levels, k + 1)
<1> SUFFICES ASSUME NEW x \in DOMAIN levels, NEW i \in 1 .. Len(levels[x])
             PROVE  levels[x][i].n < k + 1
  BY DEF AllBefore
<1>1. levels[x] \in Seq(RestOrders)
  BY DEF LevelsOK
<1>2. levels[x][i] \in RestOrders
  BY <1>1
<1>3. levels[x][i].n \in Nat /\ levels[x][i].n < k
  BY <1>2, BoundAssumption DEF RestOrders, AllBefore
<1> QED BY <1>3

\* One order of the side b goes, and its id with it.
LEMMA EraseBoth ==
    ASSUME IdMapInv, NEW b \in BOOLEAN, NEW p \in Prices, NEW id,
           RestsAt(Side(b), p, id), id_map_' = Without(id_map_, id),
           \A c \in BOOLEAN : c # b => Side(c)' = Side(c),
           \A x \in Prices : \A n :
               RestsAt(Side(b)', x, n) <=> RestsAt(Side(b), x, n) /\ ~(x = p /\ n = id)
    PROVE  IdMapInv'
<1>1. ASSUME NEW c \in BOOLEAN, NEW x \in Prices, NEW n
      PROVE  MapsTo(id_map_', n, c, x) <=> RestsAt(Side(c)', x, n)
  <2>1. MapsTo(id_map_', n, c, x) <=> MapsTo(id_map_, n, c, x) /\ n # id
    BY WithoutForgets
  <2>2. MapsTo(id_map_, n, c, x) <=> RestsAt(Side(c), x, n)
    BY DEF IdMapInv
  <2>3. RestsAt(Side(c), x, n) /\ n = id => b = c /\ p = x
    BY OnePlace
  <2>4. CASE c = b
    BY <2>1, <2>2, <2>3, <2>4
  <2>5. CASE c # b
    BY <2>1, <2>2, <2>3, <2>5
  <2> QED BY <2>4, <2>5
<1>2. \A n \in DOMAIN id_map_' : id_map_'[n] \in BOOLEAN \X Prices
  <2> TAKE n \in DOMAIN id_map_'
  <2>1. DOMAIN id_map_' = DOMAIN id_map_ \ {id}
    BY WithoutForgets
  <2>2. n \in DOMAIN id_map_ /\ id_map_'[n] = id_map_[n]
    BY <2>1, WithoutForgets
  <2> QED BY <2>2 DEF IdMapInv
<1> QED BY <1>1, <1>2 DEF IdMapInv

\* An order rests that was not there before: its id leads to where it rests.
LEMMA AddLimitKeeps ==
    ASSUME LimitInv, NEW b \in BOOLEAN, NEW p \in Prices, NEW q \in Quantities,
           AddLimit(b, p, q)
    PROVE  LimitInv'
<1>1. PICK o : o = [n |-> count', is_buy |-> b, price |-> p, quantity |-> q, type |-> "LIMIT"]
  OBVIOUS
<1>2. /\ week = 9 /\ order = NoOrder /\ count' = count + 1 /\ count < MaxOrders
      /\ UNCHANGED <<week, order, qty_left, it>>
      /\ IF b THEN buy_book_' = Rest(buy_book_, o) /\ UNCHANGED sell_book_
              ELSE sell_book_' = Rest(sell_book_, o) /\ UNCHANGED buy_book_
      /\ DOMAIN id_map_' = DOMAIN id_map_ \cup {count'}
      /\ \A n \in DOMAIN id_map_ \cup {count'} :
            id_map_'[n] = IF n = count' THEN <<b, p>> ELSE id_map_[n]
  BY <1>1 DEF AddLimit
<1>3. AgeInv /\ TypeInv /\ IdMapInv /\ count \in Nat
  BY <1>2, BoundAssumption DEF LimitInv, AgeInv, TypeInv
<1>4. o \in RestOrders /\ o.n = count + 1 /\ o.price = p
  <2>1. count + 1 \in 1 .. MaxOrders
    BY <1>2, <1>3, BoundAssumption
  <2> QED BY <1>1, <1>2, <2>1, QuantityAssumption DEF RestOrders, Types
<1>5. NextToRest = count + 1 /\ NextToRest' = count + 1 + 1
  BY <1>2 DEF NextToRest
<1>6. \A c \in BOOLEAN : Side(c)' = IF c = b THEN Rest(Side(c), o) ELSE Side(c)
  BY <1>2 DEF Side
<1>7. ASSUME NEW levels, LevelsOK(levels), AllBefore(levels, count + 1)
      PROVE  AllBefore(levels, count + 1 + 1)
  BY <1>3, <1>7, LaterStillBefore
<1>8. \A c \in BOOLEAN : /\ LevelsOK(Side(c)') /\ SortedByAge(Side(c)')
                         /\ AllBefore(Side(c)', count + 1 + 1)
  BY <1>3, <1>4, <1>5, <1>6, <1>7, SidesOK, RestOK, RestSorted
<1>9. AgeInv'
  <2>1. /\ LevelsOK(buy_book_') /\ SortedByAge(buy_book_')
        /\ AllBefore(buy_book_', count + 1 + 1)
    BY <1>8 DEF Side
  <2>2. /\ LevelsOK(sell_book_') /\ SortedByAge(sell_book_')
        /\ AllBefore(sell_book_', count + 1 + 1)
    BY <1>8 DEF Side
  <2>3. TypeInv'
    BY <1>2, <1>3, <2>1, <2>2, BoundAssumption DEF TypeInv, AtBest, End
  <2> QED BY <1>2, <1>5, <2>1, <2>2, <2>3 DEF AgeInv
<1>10. IdMapInv'
  <2>1. \A c \in BOOLEAN, x \in Prices : ~RestsAt(Side(c), x, count + 1)
    BY <1>3, <1>5, SidesOK DEF RestsAt, AllBefore
  <2>2. ASSUME NEW c \in BOOLEAN, NEW x \in Prices, NEW n
        PROVE  MapsTo(id_map_', n, c, x) <=> RestsAt(Side(c)', x, n)
    <3>1. RestsAt(Side(c)', x, n) <=>
             RestsAt(Side(c), x, n) \/ (c = b /\ x = p /\ n = count + 1)
      BY <1>3, <1>4, <1>6, SidesOK, RestPlaces
    <3>2. MapsTo(id_map_', n, c, x) <=> IF n = count + 1 THEN <<b, p>> = <<c, x>>
                                        ELSE MapsTo(id_map_, n, c, x)
      BY <1>2 DEF MapsTo
    <3>3. MapsTo(id_map_, n, c, x) <=> RestsAt(Side(c), x, n)
      BY <1>3 DEF IdMapInv
    <3> QED BY <2>1, <3>1, <3>2, <3>3
  <2>3. \A n \in DOMAIN id_map_' : id_map_'[n] \in BOOLEAN \X Prices
    BY <1>2, <1>3 DEF IdMapInv
  <2> QED BY <2>2, <2>3 DEF IdMapInv
<1> QED BY <1>2, <1>9, <1>10 DEF LimitInv

\* A fill erases the id of the order it uses up, and no other.
LEMMA SweepKeeps ==
    ASSUME LimitInv, NEW p \in Prices, Sweep(p)
    PROVE  LimitInv'
<1> DEFINE front == Head(Opposite(order)[p])
           q == MatchQty(front)
           levels == Opposite(order)
<1>1. /\ week = 9 /\ TakeFront(p) /\ week' = 9
      /\ id_map_' = IF UsedUp(front) THEN Without(id_map_, front.n) ELSE id_map_
  BY DEF Sweep
<1>0. PICK b \in BOOLEAN : b <=> ~order.is_buy
  <2>1. order \in Orders
    BY <1>1 DEF TakeFront, LimitInv, AgeInv, TypeInv
  <2> QED BY <2>1 DEF Orders
<1>2. /\ order \in Orders /\ order # NoOrder /\ p \in DOMAIN levels
      /\ order' = order /\ qty_left \in Nat
      /\ levels = Side(b)
      /\ \A c \in BOOLEAN : Side(c)' = IF c = b THEN Reduced(Side(c), p, q) ELSE Side(c)
  <2>1. /\ order \in Orders /\ order # NoOrder /\ p \in DOMAIN levels
        /\ order' = order /\ qty_left \in Nat
    BY <1>1 DEF TakeFront, Takes, Designated, LimitInv, AgeInv, TypeInv
  <2>2. order.is_buy \in BOOLEAN
    BY <2>1 DEF Orders
  <2>3. IF order.is_buy
          THEN sell_book_' = Reduced(sell_book_, p, q) /\ UNCHANGED buy_book_
          ELSE buy_book_' = Reduced(buy_book_, p, q) /\ UNCHANGED sell_book_
    BY <1>1 DEF TakeFront
  <2> HIDE DEF q
  <2> QED BY <1>0, <2>1, <2>2, <2>3 DEF Opposite, Side
<1>3. AgeInv /\ AgeInv' /\ IdMapInv /\ order.type = "MARKET"
  BY <1>1, <1>2, TakeFrontAges DEF LimitInv
<1>4. /\ front = levels[p][1] /\ front \in RestOrders
      /\ 1 \in 1 .. Len(levels[p])
      /\ LevelsOK(levels) /\ SortedByAge(levels)
  <2>1. LevelsOK(levels) /\ SortedByAge(levels)
    BY <1>2, <1>3, SidesOK
  <2>2. levels[p] \in Seq(RestOrders) /\ levels[p] # <<>>
    BY <1>2, <2>1 DEF LevelsOK
  <2> QED BY <2>1, <2>2
<1>5. q \in Nat /\ (UsedUp(front) <=> ~(front.quantity > q))
  <2> HIDE DEF front, levels
  <2>1. front.quantity \in Nat
    BY <1>4 DEF RestOrders
  <2> QED BY <1>2, <2>1 DEF UsedUp, MatchQty
<1> HIDE DEF front, q, levels
<1>6. IdMapInv'
  <2>1. RestsAt(Side(b), p, front.n)
    BY <1>2, <1>4 DEF RestsAt
  <2>2. CASE UsedUp(front)
    <3>1. ErasedAt(levels, Reduced(levels, p, q), p, 1)
      BY <1>2, <1>4, <1>5, <2>2, ReducedErases
    <3>2. \A x \in Prices : \A n :
             RestsAt(Side(b)', x, n) <=> RestsAt(Side(b), x, n) /\ ~(x = p /\ n = front.n)
      <4>1. Side(b)' = Reduced(levels, p, q) /\ Side(b) = levels
        BY <1>2
      <4>2. \A x \in Prices : \A n :
               RestsAt(Reduced(levels, p, q), x, n) <=>
                   RestsAt(levels, x, n) /\ ~(x = p /\ n = levels[p][1].n)
        BY <1>2, <1>4, <3>1, ErasedPlaces
      <4> QED BY <1>4, <4>1, <4>2
    <3>3. id_map_' = Without(id_map_, front.n)
      BY <1>1, <2>2
    <3>4. \A c \in BOOLEAN : c # b => Side(c)' = Side(c)
      BY <1>2
    <3> QED BY <1>3, <2>1, <3>2, <3>3, <3>4, EraseBoth
  <2>3. CASE ~UsedUp(front)
    <3>1. \A x \in Prices : \A n :
             RestsAt(Reduced(levels, p, q), x, n) <=> RestsAt(levels, x, n)
      BY <1>2, <1>4, <1>5, <2>3, ReducedErases
    <3>2. \A c \in BOOLEAN, x \in Prices : \A n :
             RestsAt(Side(c)', x, n) <=> RestsAt(Side(c), x, n)
      BY <1>2, <3>1
    <3>3. id_map_' = id_map_
      BY <1>1, <2>3
    <3> QED BY <1>3, <3>2, <3>3 DEF IdMapInv
  <2> QED BY <2>2, <2>3
<1> QED BY <1>1, <1>2, <1>3, <1>6 DEF LimitInv

\* cancel_order erases the order and its id together.
LEMMA CancelKeeps ==
    ASSUME LimitInv, NEW id \in 1 .. MaxOrders, CancelOrder(id)
    PROVE  LimitInv'
<1>1. /\ week = 9 /\ order = NoOrder /\ id \in DOMAIN id_map_
      /\ UNCHANGED <<week, order, qty_left, it, count>>
      /\ id_map_' = Without(id_map_, id)
  BY DEF CancelOrder
<1>2. AgeInv /\ TypeInv /\ IdMapInv
  BY <1>1 DEF LimitInv, AgeInv
<1>3. PICK b \in BOOLEAN, p \in Prices : id_map_[id] = <<b, p>>
  BY <1>1, <1>2 DEF IdMapInv
<1>4. /\ LevelsOK(Side(b)) /\ SortedByAge(Side(b)) /\ AllBefore(Side(b), NextToRest)
  BY <1>2, SidesOK
<1>5. PICK i \in DOMAIN Side(b)[p] :
         /\ p \in DOMAIN Side(b) /\ Side(b)[p][i].n = id
         /\ IF b THEN buy_book_' = Removed(Side(b), p, i) /\ UNCHANGED sell_book_
                 ELSE sell_book_' = Removed(Side(b), p, i) /\ UNCHANGED buy_book_
  BY <1>3 DEF CancelOrder, Side
<1>6. i \in 1 .. Len(Side(b)[p])
  BY <1>4, <1>5 DEF LevelsOK
<1>7. \A c \in BOOLEAN : Side(c)' = IF c = b THEN Removed(Side(b), p, i) ELSE Side(c)
  BY <1>5 DEF Side
<1>8. /\ LevelsOK(Removed(Side(b), p, i))
      /\ ErasedAt(Side(b), Removed(Side(b), p, i), p, i)
  BY <1>4, <1>5, <1>6, RemovedErases
<1>9. /\ SortedByAge(Removed(Side(b), p, i))
      /\ AllBefore(Removed(Side(b), p, i), NextToRest)
  BY <1>4, <1>5, <1>6, <1>8, ErasedSorted
<1>10. \A c \in BOOLEAN : /\ LevelsOK(Side(c)') /\ SortedByAge(Side(c)')
                          /\ AllBefore(Side(c)', NextToRest)
  BY <1>2, <1>7, <1>8, <1>9, SidesOK
<1>11. AgeInv'
  <2>1. /\ LevelsOK(buy_book_') /\ SortedByAge(buy_book_')
        /\ AllBefore(buy_book_', NextToRest)
    BY <1>10 DEF Side
  <2>2. /\ LevelsOK(sell_book_') /\ SortedByAge(sell_book_')
        /\ AllBefore(sell_book_', NextToRest)
    BY <1>10 DEF Side
  <2>3. NextToRest' = NextToRest
    BY <1>1 DEF NextToRest
  <2>4. TypeInv'
    BY <1>1, <1>2, <2>1, <2>2 DEF TypeInv, AtBest, End
  <2> QED BY <1>1, <2>1, <2>2, <2>3, <2>4 DEF AgeInv
<1>12. IdMapInv'
  <2>1. RestsAt(Side(b), p, id)
    BY <1>5, <1>6 DEF RestsAt
  <2>2. \A x \in Prices : \A n :
           RestsAt(Side(b)', x, n) <=> RestsAt(Side(b), x, n) /\ ~(x = p /\ n = id)
    <3>1. \A x \in Prices : \A n :
             RestsAt(Removed(Side(b), p, i), x, n) <=>
                 RestsAt(Side(b), x, n) /\ ~(x = p /\ n = Side(b)[p][i].n)
      BY <1>4, <1>5, <1>6, <1>8, ErasedPlaces
    <3> QED BY <1>5, <1>7, <3>1
  <2>3. \A c \in BOOLEAN : c # b => Side(c)' = Side(c)
    BY <1>7
  <2> QED BY <1>1, <1>2, <2>1, <2>2, <2>3, EraseBoth
<1> QED BY <1>1, <1>11, <1>12 DEF LimitInv

\* The steps that leave id_map_ and, in week 9, the books alone.
LEMMA MapStays ==
    ASSUME IdMapInv, UNCHANGED <<buy_book_, sell_book_, id_map_>>
    PROVE  IdMapInv'
  BY DEF IdMapInv, MapsTo, RestsAt, Side

LEMMA AddMarketKeeps ==
    ASSUME LimitInv, NEW b \in BOOLEAN, NEW q \in Quantities, AddMarket(b, q)
    PROVE  LimitInv'
<1>1. /\ AddOrder(b, MinPrice, q, "MARKET") /\ UNCHANGED <<week, id_map_>>
      /\ MinPrice \in Prices /\ "MARKET" \in Types
  BY PriceAssumption, RangeAssumption DEF AddMarket, Prices, Types
<1>2. AgeInv' /\ UNCHANGED <<buy_book_, sell_book_>>
  BY <1>1, AddOrderAges, AddOrderTypes DEF LimitInv, AgeInv
<1>3. order'.type = "MARKET"
  BY <1>1 DEF AddOrder
<1> QED BY <1>1, <1>2, <1>3, MapStays DEF LimitInv

LEMMA ReturnKeeps ==
    ASSUME LimitInv, Return
    PROVE  LimitInv'
<1>1. Finish /\ UNCHANGED <<week, id_map_>> /\ week = 9 /\ order.type = "MARKET"
  BY DEF Return, Finish, LimitInv
<1>2. AgeInv'
  BY <1>1, FinishAges DEF LimitInv
<1>3. order' = NoOrder /\ UNCHANGED <<buy_book_, sell_book_>>
  BY <1>1 DEF Finish
<1> QED BY <1>1, <1>2, <1>3, MapStays DEF LimitInv

LEMMA LimitInvInit == Init => LimitInv
<1> SUFFICES ASSUME Init PROVE LimitInv
  OBVIOUS
<1>1. AgeInv
  BY AgeInit DEF Init
<1>2. IdMapInv
  BY DEF Init, BookInit, NoLevels, IdMapInv, MapsTo, RestsAt, Side
<1> QED BY <1>1, <1>2 DEF Init, BookInit, LimitInv

LEMMA LimitInvNext ==
    ASSUME LimitInv, [Next]_vars
    PROVE  LimitInv'
<1>1. ASSUME NEW b \in BOOLEAN, NEW q \in Quantities, AddMarket(b, q)
      PROVE  LimitInv'
  BY <1>1, AddMarketKeeps
<1>2. ASSUME NEW b \in BOOLEAN, NEW q \in Quantities, NEW p \in Prices, AddLimit(b, p, q)
      PROVE  LimitInv'
  BY <1>2, AddLimitKeeps
<1>3. ASSUME NEW p \in Prices, Sweep(p) PROVE LimitInv'
  BY <1>3, SweepKeeps
<1>4. CASE Return
  BY <1>4, ReturnKeeps
<1>5. ASSUME NEW id \in 1 .. MaxOrders, CancelOrder(id) PROVE LimitInv'
  BY <1>5, CancelKeeps
<1>6. CASE Week10
  BY <1>6, AgeNext DEF Week10, LimitInv
<1>7. CASE UNCHANGED vars
  <2>1. AgeInv' /\ UNCHANGED <<week, order, buy_book_, sell_book_, id_map_>>
    BY <1>7, NothingAges DEF vars, bookVars, LimitInv
  <2> QED BY <2>1, MapStays DEF LimitInv
<1> QED BY <1>1, <1>2, <1>3, <1>4, <1>5, <1>6, <1>7 DEF Next

LEMMA LimitCorrect == Spec => []LimitInv
<1>1. LimitInv /\ [Next]_vars => LimitInv'
  BY LimitInvNext
<1> QED BY <1>1, LimitInvInit, PTL DEF Spec

\* What rests at a place is an order of the book.
LEMMA PlacesAreOrders ==
    ASSUME AgeInv, NEW b \in BOOLEAN
    PROVE  /\ \A o \in Resting(Side(b)) : o.price \in Prices /\ RestsAt(Side(b), o.price, o.n)
           /\ \A p, n : RestsAt(Side(b), p, n) =>
                 \E o \in Resting(Side(b)) : o.n = n /\ o.price = p
<1>1. LevelsOK(Side(b))
  BY SidesOK
<1>2. ASSUME NEW o \in Resting(Side(b))
      PROVE  o.price \in Prices /\ RestsAt(Side(b), o.price, o.n)
  <2>1. PICK p \in DOMAIN Side(b) : \E i \in DOMAIN Side(b)[p] : o = Side(b)[p][i]
    BY DEF Resting
  <2>2. PICK i \in DOMAIN Side(b)[p] : o = Side(b)[p][i]
    BY <2>1
  <2>3. Side(b)[p] \in Seq(RestOrders) /\ p \in Prices
    BY <1>1, <2>1 DEF LevelsOK
  <2>4. i \in 1 .. Len(Side(b)[p])
    BY <2>3
  <2>5. o.price = p
    BY <1>1, <2>1, <2>2, <2>4 DEF LevelsOK
  <2> QED BY <2>1, <2>2, <2>3, <2>4, <2>5 DEF RestsAt
<1>3. ASSUME NEW p, NEW n, RestsAt(Side(b), p, n)
      PROVE  \E o \in Resting(Side(b)) : o.n = n /\ o.price = p
  <2>1. PICK i \in 1 .. Len(Side(b)[p]) : p \in DOMAIN Side(b) /\ Side(b)[p][i].n = n
    BY <1>3 DEF RestsAt
  <2>2. Side(b)[p] \in Seq(RestOrders) /\ Side(b)[p][i].price = p
    BY <1>1, <2>1 DEF LevelsOK
  <2>3. Side(b)[p][i] \in Resting(Side(b))
    BY <2>1, <2>2 DEF Resting
  <2> QED BY <2>1, <2>2, <2>3
<1> QED BY <1>2, <1>3

LEMMA InvIdMap == LimitInv => IdMapAgrees
<1> SUFFICES ASSUME LimitInv, week = 9 PROVE IdMapAgrees
  BY DEF IdMapAgrees
<1>1. AgeInv /\ IdMapInv
  BY DEF LimitInv
<1>2. Side(TRUE) = buy_book_ /\ Side(FALSE) = sell_book_
  BY DEF Side
<1>3. ASSUME NEW id \in DOMAIN id_map_
      PROVE  \E o \in Resting(Side(id_map_[id][1])) : o.n = id /\ o.price = id_map_[id][2]
  <2>1. PICK b \in BOOLEAN, p \in Prices : id_map_[id] = <<b, p>>
    BY <1>1 DEF IdMapInv
  <2>2. RestsAt(Side(b), p, id)
    BY <1>1, <2>1 DEF IdMapInv, MapsTo
  <2>3. \E o \in Resting(Side(b)) : o.n = id /\ o.price = p
    BY <1>1, <2>2, PlacesAreOrders
  <2> QED BY <2>1, <2>3
<1>4. ASSUME NEW b \in BOOLEAN, NEW o \in Resting(Side(b)) PROVE o.n \in DOMAIN id_map_
  <2>1. o.price \in Prices /\ RestsAt(Side(b), o.price, o.n)
    BY <1>1, PlacesAreOrders
  <2> QED BY <1>1, <2>1 DEF IdMapInv, MapsTo
<1>5. DOMAIN id_map_ = {o.n : o \in Resting(buy_book_) \cup Resting(sell_book_)}
  <2>1. ASSUME NEW id \in DOMAIN id_map_
        PROVE  \E o \in Resting(buy_book_) \cup Resting(sell_book_) : o.n = id
    BY <1>3 DEF Side
  <2>2. \A o \in Resting(buy_book_) \cup Resting(sell_book_) : o.n \in DOMAIN id_map_
    BY <1>2, <1>4
  <2> QED BY <2>1, <2>2
<1>6. \A id \in DOMAIN id_map_ :
         \E o \in Resting(IF id_map_[id][1] THEN buy_book_ ELSE sell_book_) :
             o.n = id /\ o.price = id_map_[id][2]
  BY <1>3 DEF Side
<1> QED BY <1>5, <1>6 DEF IdMapAgrees

-----------------------------------------------------------------------------
\* In week 9 id_map_ knows the orders that rest and no others, each at its side
\* and price, whatever is added, swept and canceled: cancel_order finds every
\* order that rests (orderbook.hpp:13-44, 65-116).
THEOREM IndexFollowsBook == Spec => []IdMapAgrees
  BY LimitCorrect, InvIdMap, PTL

\* The books of weeks 9 and 10 serve resting orders in price-time priority, with
\* orders canceled out of the middle of a level too (README.md:10 of week 9,
\* README.md:22 of week 10).
THEOREM LimitBookHasPriority == Spec => PriceTimePriority
<1>1. LimitInv /\ [Next]_vars => [order # NoOrder => BuyPriority /\ SellPriority]_bookVars
  <2> SUFFICES ASSUME LimitInv, [Next]_vars, order # NoOrder
               PROVE  (BuyPriority /\ SellPriority) \/ UNCHANGED bookVars
    OBVIOUS
  <2>1. AgeInv
    BY DEF LimitInv
  <2>2. [BookNext]_bookVars \/ (\E p \in Prices : TakeFront(p)) \/ Finish
    BY DEF Next, Week10, AddMarket, AddLimit, AddOrder, Sweep, Return, CancelOrder, vars
  <2> QED BY <2>1, <2>2, AgeNext, TakeFrontAges, FinishAges
<1> QED BY <1>1, LimitCorrect, PTL DEF Spec, PriceTimePriority

\* A MARKET order leaves nothing of the other side behind while it still wants
\* shares: no level is passed over while the sweep erases levels under its
\* iterator (week 9 orderbook.hpp:65-116, week 10 orderbook.hpp:20-69).
THEOREM MarketSweepsSide == Spec => MarketTakesAll
<1>1. LimitInv /\ [Next]_vars
        => [order # NoOrder /\ order' = NoOrder /\ order.type = "MARKET" /\ qty_left > 0
              => DOMAIN Opposite(order) = {}]_vars
  <2> SUFFICES ASSUME LimitInv, Next, order # NoOrder, order' = NoOrder,
                      order.type = "MARKET", qty_left > 0
               PROVE  DOMAIN Opposite(order) = {}
    OBVIOUS
  <2>1. TypeInv
    BY DEF LimitInv, AgeInv
  <2>2. Finish
    BY DEF Next, Week10, BookNext, Running, AddMarket, AddLimit, AddOrder, Sweep,
           TakeFront, Return, CancelOrder
  <2>3. \A p \in DOMAIN Opposite(order) : ~Within(order, p)
    BY <2>1, <2>2, BeyondLimit DEF Finish
  <2> QED BY <2>3 DEF Within
<1> QED BY <1>1, LimitCorrect, PTL DEF Spec, MarketTakesAll

-----------------------------------------------------------------------------
(***************************************************************************)
(* Sums of quantities over a set of orders                                 *)
(***************************************************************************)

Quantity(S) == [o \in S |-> o.quantity]
Shares(S) == SumFunction(Quantity(S))
HaveQuantity(S) == IsFiniteSet(S) /\ \A o \in S : o.quantity \in Int

LEMMA SharesAdd ==
    ASSUME NEW S, HaveQuantity(S)
    PROVE  Summable(Quantity(S), S) /\ Shares(S) = SumFunctionOnSet(Quantity(S), S)
           /\ Shares(S) \in Int
<1>1. Summable(Quantity(S), S)
  BY DEF HaveQuantity, Summable, Quantity
<1>2. DOMAIN Quantity(S) = S
  BY DEF Quantity
<1> QED BY <1>1, <1>2, SumIsNumber DEF Shares, SumFunction

\* What SharesOf makes of no order, of one more and of one less.
LEMMA SharesOfNone == Shares({}) = 0 /\ HaveQuantity({})
<1>1. HaveQuantity({})
  BY FS_EmptySet DEF HaveQuantity
<1> QED BY <1>1, SharesAdd, SumOfNone

LEMMA SharesWith ==
    ASSUME NEW S, HaveQuantity(S), NEW o, o \notin S, o.quantity \in Int
    PROVE  /\ HaveQuantity(S \cup {o})
           /\ Shares(S \cup {o}) = Shares(S) + o.quantity
<1>1. HaveQuantity(S \cup {o})
  BY FS_AddElement DEF HaveQuantity
<1>2. Summable(Quantity(S), S) /\ DOMAIN Quantity(S) = S
  BY SharesAdd DEF Quantity
<1>3. /\ DOMAIN Quantity(S \cup {o}) = S \cup {o} /\ Quantity(S \cup {o})[o] = o.quantity
      /\ \A y \in S : Quantity(S \cup {o})[y] = Quantity(S)[y]
  BY DEF Quantity
<1>4. SumFunction(Quantity(S \cup {o})) = SumFunction(Quantity(S)) + o.quantity
  BY <1>2, <1>3, SumGrows
<1> QED BY <1>1, <1>4 DEF Shares

LEMMA SharesWithout ==
    ASSUME NEW S, HaveQuantity(S), NEW o \in S
    PROVE  /\ HaveQuantity(S \ {o})
           /\ Shares(S \ {o}) = Shares(S) - o.quantity
           /\ Shares(S) \in Int
<1> DEFINE R == S \ {o}
<1>1. HaveQuantity(R) /\ o.quantity \in Int
  BY FS_RemoveElement DEF HaveQuantity
<1>2. R \cup {o} = S /\ o \notin R
  OBVIOUS
<1> HIDE DEF R
<1>3. Shares(S) = Shares(R) + o.quantity /\ Shares(R) \in Int /\ Shares(S) \in Int
  BY <1>1, <1>2, SharesWith, SharesAdd
<1>4. Shares(R) = Shares(S) - o.quantity
  BY <1>1, <1>3
<1> QED BY <1>1, <1>3, <1>4 DEF R

-----------------------------------------------------------------------------
(***************************************************************************)
(* Shares.  Resting is a set, so a share could be lost in it by two orders *)
(* that are equal; the orders of a side differ, because levels differ in   *)
(* their price and the orders of a level in their number.                  *)
(***************************************************************************)

LEMMA RestingIs ==
    ASSUME NEW levels, LevelsOK(levels)
    PROVE  /\ \A o : o \in Resting(levels) <=>
                        \E x \in DOMAIN levels : \E j \in 1 .. Len(levels[x]) : o = levels[x][j]
           /\ \A x \in DOMAIN levels : \A j \in 1 .. Len(levels[x]) :
                 /\ levels[x][j] \in RestOrders /\ levels[x][j].price = x
                 /\ levels[x][j].n \in Nat /\ levels[x][j].quantity \in Nat
           /\ \A x \in DOMAIN levels : Len(levels[x]) \in Nat \ {0}
<1>1. \A x \in DOMAIN levels : /\ levels[x] \in Seq(RestOrders) /\ levels[x] # <<>>
                               /\ DOMAIN levels[x] = 1 .. Len(levels[x])
  BY DEF LevelsOK
<1>2. \A x \in DOMAIN levels : Len(levels[x]) \in Nat \ {0}
  BY <1>1, EmptySeq
<1>3. \A x \in DOMAIN levels : \A j \in 1 .. Len(levels[x]) :
         levels[x][j] \in RestOrders /\ levels[x][j].price = x
  BY <1>1 DEF LevelsOK
<1>4. \A o \in RestOrders : o.n \in Nat /\ o.quantity \in Nat
  BY BoundAssumption DEF RestOrders
<1>5. \A o : o \in Resting(levels) <=>
         \E x \in DOMAIN levels : \E j \in 1 .. Len(levels[x]) : o = levels[x][j]
  BY <1>1 DEF Resting
<1> QED BY <1>2, <1>3, <1>4, <1>5

\* Two orders at different places differ in price or number.
LEMMA RestingDiffer ==
    ASSUME NEW levels, LevelsOK(levels), SortedByAge(levels),
           NEW x \in DOMAIN levels, NEW i \in 1 .. Len(levels[x]),
           NEW y \in DOMAIN levels, NEW j \in 1 .. Len(levels[y]),
           levels[x][i].price = levels[y][j].price, levels[x][i].n = levels[y][j].n
    PROVE  x = y /\ i = j
<1>1. x = y
  BY RestingIs
<1>2. i \in Nat /\ j \in Nat /\ j \in 1 .. Len(levels[x])
  BY <1>1, RestingIs
<1>3. levels[x][i].n \in Nat
  BY RestingIs
<1>4. ~(i < j)
  BY <1>1, <1>2, <1>3 DEF SortedByAge
<1>5. ~(j < i)
  BY <1>1, <1>2, <1>3 DEF SortedByAge
<1> QED BY <1>1, <1>2, <1>4, <1>5

LEMMA RestingWith ==
    ASSUME NEW levels, LevelsOK(levels), NEW o \in RestOrders, AllBefore(levels, o.n)
    PROVE  Resting(Rest(levels, o)) = Resting(levels) \cup {o} /\ o \notin Resting(levels)
<1> DEFINE after == Rest(levels, o)
           P == o.price
<1>1. LevelsOK(after) /\ P \in Prices /\ o.n \in Nat
  <2>1. LevelsOK(after)
    BY RestOK
  <2>2. P \in Prices /\ o.n \in 1 .. MaxOrders
    BY DEF RestOrders
  <2> QED BY <2>1, <2>2, BoundAssumption
<1>2. /\ DOMAIN after = DOMAIN levels \cup {P}
      /\ \A x \in DOMAIN levels \ {P} : after[x] = levels[x]
      /\ P \in DOMAIN levels => after[P] = Append(levels[P], o)
      /\ P \notin DOMAIN levels => after[P] = <<o>>
  BY DEF Rest
<1> HIDE DEF after, P
<1>3. /\ \A j \in 1 .. Len(after[P]) :
            after[P][j] = o \/ (P \in DOMAIN levels /\ j \in 1 .. Len(levels[P])
                                                   /\ after[P][j] = levels[P][j])
      /\ \E j \in 1 .. Len(after[P]) : after[P][j] = o
      /\ P \in DOMAIN levels => \A j \in 1 .. Len(levels[P]) :
            j \in 1 .. Len(after[P]) /\ after[P][j] = levels[P][j]
  <2>1. CASE P \in DOMAIN levels
    <3>1. levels[P] \in Seq(RestOrders)
      BY <2>1 DEF LevelsOK
    <3> DEFINE s == levels[P]
    <3> HIDE DEF s
    <3>2. /\ Len(s) \in Nat /\ Len(Append(s, o)) = Len(s) + 1 /\ Append(s, o)[Len(s) + 1] = o
          /\ \A j \in 1 .. Len(s) : Append(s, o)[j] = s[j]
      BY <3>1 DEF s
    <3>3. after[P] = Append(s, o)
      BY <1>2, <2>1 DEF s
    <3>4. \A j \in 1 .. Len(s) + 1 : j \in 1 .. Len(s) \/ j = Len(s) + 1
      BY <3>2
    <3>5. 1 .. Len(s) \subseteq 1 .. Len(s) + 1 /\ Len(s) + 1 \in 1 .. Len(s) + 1
      BY <3>2
    <3> QED BY <2>1, <3>2, <3>3, <3>4, <3>5 DEF s
  <2>2. CASE P \notin DOMAIN levels
    BY <1>2, <2>2
  <2> QED BY <2>1, <2>2
<1>4. ASSUME NEW r PROVE r \in Resting(after) <=> r \in Resting(levels) \/ r = o
  <2>1. ASSUME NEW x \in DOMAIN after, NEW j \in 1 .. Len(after[x]), r = after[x][j]
        PROVE  r \in Resting(levels) \/ r = o
    <3>1. CASE x = P
      BY <1>3, <2>1, <3>1, RestingIs
    <3>2. CASE x # P
      BY <1>2, <2>1, <3>2, RestingIs
    <3> QED BY <3>1, <3>2
  <2>2. ASSUME NEW x \in DOMAIN levels, NEW j \in 1 .. Len(levels[x]), r = levels[x][j]
        PROVE  \E y \in DOMAIN after : \E k \in 1 .. Len(after[y]) : r = after[y][k]
    <3>1. CASE x = P
      BY <1>2, <1>3, <2>2, <3>1
    <3>2. CASE x # P
      BY <1>2, <2>2, <3>2
    <3> QED BY <3>1, <3>2
  <2>3. \E k \in 1 .. Len(after[P]) : o = after[P][k]
    BY <1>3
  <2>4. r \in Resting(after) <=>
           \E x \in DOMAIN after : \E j \in 1 .. Len(after[x]) : r = after[x][j]
    BY <1>1, RestingIs
  <2>5. r \in Resting(levels) <=>
           \E x \in DOMAIN levels : \E j \in 1 .. Len(levels[x]) : r = levels[x][j]
    BY RestingIs
  <2>6. P \in DOMAIN after
    BY <1>2
  <2> QED BY <2>1, <2>2, <2>3, <2>4, <2>5, <2>6
<1>5. o \notin Resting(levels)
  <2> SUFFICES ASSUME o \in Resting(levels) PROVE FALSE
    OBVIOUS
  <2>1. PICK x \in DOMAIN levels : \E j \in 1 .. Len(levels[x]) : o = levels[x][j]
    BY RestingIs
  <2>2. o.n < o.n
    BY <2>1 DEF AllBefore
  <2> QED BY <1>1, <2>2
<1>6. Resting(after) = Resting(levels) \cup {o}
  BY <1>4
<1> QED BY <1>5, <1>6 DEF after

LEMMA RestingWithout ==
    ASSUME NEW levels, LevelsOK(levels), SortedByAge(levels),
           NEW p \in DOMAIN levels, NEW i \in 1 .. Len(levels[p]),
           NEW after, LevelsOK(after), ErasedAt(levels, after, p, i)
    PROVE  /\ Resting(after) = Resting(levels) \ {levels[p][i]}
           /\ levels[p][i] \in Resting(levels)
<1> DEFINE old(j) == IF j < i THEN j ELSE j + 1
<1>1. /\ DOMAIN levels \ {p} \subseteq DOMAIN after
      /\ DOMAIN after \subseteq DOMAIN levels
      /\ \A x \in DOMAIN levels \ {p} : after[x] = levels[x]
      /\ p \in DOMAIN after => /\ Len(after[p]) = Len(levels[p]) - 1
                               /\ \A j \in 1 .. Len(after[p]) : after[p][j] = levels[p][old(j)]
      /\ p \notin DOMAIN after => Len(levels[p]) = 1
  BY DEF ErasedAt
<1>2. Len(levels[p]) \in Nat \ {0} /\ i \in Nat
  BY RestingIs
<1>3. ASSUME p \in DOMAIN after, NEW j \in 1 .. Len(after[p])
      PROVE  old(j) \in 1 .. Len(levels[p]) /\ old(j) # i
  BY <1>1, <1>2, <1>3
<1>4. ASSUME NEW k \in 1 .. Len(levels[p]), k # i
      PROVE  p \in DOMAIN after /\ \E j \in 1 .. Len(after[p]) : old(j) = k
  <2>1. Len(levels[p]) # 1
    <3> DEFINE m == Len(levels[p])
    <3>1. m \in Nat /\ i \in 1 .. m /\ k \in 1 .. m
      BY <1>2
    <3> HIDE DEF m
    <3>2. m # 1
      BY <1>4, <3>1
    <3> QED BY <3>2 DEF m
  <2>2. p \in DOMAIN after /\ Len(after[p]) = Len(levels[p]) - 1
    BY <1>1, <2>1
  <2>3. PICK j : j = IF k < i THEN k ELSE k - 1
    OBVIOUS
  <2>4. j \in 1 .. Len(after[p]) /\ old(j) = k
    BY <1>2, <1>4, <2>2, <2>3
  <2> QED BY <2>2, <2>4
<1> HIDE DEF old
<1>5. ASSUME NEW r
      PROVE  r \in Resting(after) <=> r \in Resting(levels) /\ r # levels[p][i]
  <2>1. ASSUME NEW x \in DOMAIN after, NEW j \in 1 .. Len(after[x]), r = after[x][j]
        PROVE  r \in Resting(levels) /\ r # levels[p][i]
    <3>1. CASE x = p
      <4>1. r = levels[p][old(j)] /\ old(j) \in 1 .. Len(levels[p]) /\ old(j) # i
        BY <1>1, <1>3, <2>1, <3>1
      <4>2. r \in Resting(levels)
        BY <4>1, RestingIs
      <4>3. ASSUME r = levels[p][i] PROVE FALSE
        <5>1. PICK k : k = old(j)
          OBVIOUS
        <5>2. k \in 1 .. Len(levels[p]) /\ k # i /\ levels[p][k] = levels[p][i]
          BY <4>1, <4>3, <5>1
        <5> QED BY <5>2, RestingDiffer
      <4> QED BY <4>2, <4>3
    <3>2. CASE x # p
      <4>1. x \in DOMAIN levels /\ j \in 1 .. Len(levels[x]) /\ r = levels[x][j]
        BY <1>1, <2>1, <3>2
      <4>2. r \in Resting(levels) /\ r.price = x /\ levels[p][i].price = p
        BY <4>1, RestingIs
      <4> QED BY <3>2, <4>2
    <3> QED BY <3>1, <3>2
  <2>2. ASSUME NEW x \in DOMAIN levels, NEW j \in 1 .. Len(levels[x]), r = levels[x][j],
               r # levels[p][i]
        PROVE  \E y \in DOMAIN after : \E k \in 1 .. Len(after[y]) : r = after[y][k]
    <3>1. CASE x = p
      <4>1. PICK k \in 1 .. Len(after[p]) : p \in DOMAIN after /\ old(k) = j
        BY <1>4, <2>2, <3>1
      <4> QED BY <1>1, <2>2, <3>1, <4>1
    <3>2. CASE x # p
      BY <1>1, <2>2, <3>2
    <3> QED BY <3>1, <3>2
  <2>3. r \in Resting(after) <=>
           \E x \in DOMAIN after : \E j \in 1 .. Len(after[x]) : r = after[x][j]
    BY RestingIs
  <2>4. r \in Resting(levels) <=>
           \E x \in DOMAIN levels : \E j \in 1 .. Len(levels[x]) : r = levels[x][j]
    BY RestingIs
  <2> QED BY <2>1, <2>2, <2>3, <2>4
<1>6. levels[p][i] \in Resting(levels)
  BY RestingIs
<1> QED BY <1>5, <1>6

\* The order at the front of p gives q and keeps something.
LEMMA RestingLess ==
    ASSUME NEW levels, LevelsOK(levels), SortedByAge(levels),
           NEW p \in DOMAIN levels, NEW q \in Nat, levels[p][1].quantity > q,
           NEW after, after = Reduced(levels, p, q)
    PROVE  \E f2 : /\ f2.quantity = levels[p][1].quantity - q
                   /\ Resting(after) = (Resting(levels) \ {levels[p][1]}) \cup {f2}
                   /\ f2 \notin Resting(levels) \ {levels[p][1]}
                   /\ levels[p][1] \in Resting(levels)
<1> DEFINE f == levels[p][1]
           f2 == after[p][1]
<1>1. /\ levels[p] \in Seq(RestOrders) /\ levels[p] # <<>> /\ Head(levels[p]) = f
      /\ Len(levels[p]) \in Nat \ {0} /\ 1 \in 1 .. Len(levels[p])
      /\ f \in RestOrders /\ f.price = p /\ f.quantity \in Nat
  <2>1. levels[p] \in Seq(RestOrders) /\ levels[p] # <<>> /\ Head(levels[p]) = f
    BY DEF LevelsOK
  <2>2. Len(levels[p]) \in Nat \ {0}
    BY RestingIs
  <2>3. 1 \in 1 .. Len(levels[p])
    BY <2>2
  <2> QED BY <2>1, <2>2, <2>3, RestingIs
<1>2. /\ DOMAIN after = DOMAIN levels
      /\ \A x \in DOMAIN levels \ {p} : after[x] = levels[x]
      /\ Len(after[p]) = Len(levels[p]) /\ f2.n = f.n
      /\ \A j \in 2 .. Len(levels[p]) : after[p][j] = levels[p][j]
  <2>1. Head(levels[p]).quantity > q
    BY <1>1
  <2>2. /\ DOMAIN levels \ {p} \subseteq DOMAIN after
        /\ DOMAIN after \subseteq DOMAIN levels
        /\ \A x \in DOMAIN levels \ {p} : after[x] = levels[x]
        /\ p \in DOMAIN after
        /\ Len(after[p]) = Len(levels[p])
        /\ after[p][1].n = levels[p][1].n
        /\ \A j \in 2 .. Len(levels[p]) : after[p][j] = levels[p][j]
    BY <2>1, ReducedShape
  <2> QED BY <2>2
<1>3. LevelsOK(after)
  BY ReducedOK
<1>4. f2.quantity = f.quantity - q
  <2>1. Reduced(levels, p, q) = [levels EXCEPT ![p][1].quantity = @ - q]
    <3>1. ~(Head(levels[p]).quantity <= q) /\ Head(levels[p]).quantity > q
      BY <1>1
    <3> QED BY <3>1 DEF Reduced
  <2>2. after[p] = [levels[p] EXCEPT ![1].quantity = @ - q]
    BY <2>1 DEF LevelsOK
  <2>3. after[p][1] = [f EXCEPT !.quantity = @ - q]
    BY <1>1, <2>2
  <2> HIDE DEF f
  <2> QED BY <1>1, <2>3 DEF RestOrders
<1>5. f2.price = p
  BY <1>1, <1>2, <1>3, RestingIs
<1> HIDE DEF f2
<1>6. ASSUME NEW r
      PROVE  r \in Resting(after) <=> (r \in Resting(levels) /\ r # f) \/ r = f2
  <2>1. ASSUME NEW x \in DOMAIN after, NEW j \in 1 .. Len(after[x]), r = after[x][j]
        PROVE  (r \in Resting(levels) /\ r # f) \/ r = f2
    <3>1. CASE x = p /\ j = 1
      BY <2>1, <3>1 DEF f2
    <3>2. CASE x = p /\ j # 1
      <4>1. j \in 2 .. Len(levels[p]) /\ j \in 1 .. Len(levels[p])
        BY <1>1, <1>2, <3>2
      <4>2. r = levels[p][j]
        BY <1>2, <2>1, <3>2, <4>1
      <4>3. r # f
        BY <1>1, <3>2, <4>1, <4>2, RestingDiffer
      <4> QED BY <4>1, <4>2, <4>3, RestingIs
    <3>3. CASE x # p
      <4>1. x \in DOMAIN levels /\ j \in 1 .. Len(levels[x]) /\ r = levels[x][j]
        BY <1>2, <2>1, <3>3
      <4>2. r.price = x
        BY <4>1, RestingIs
      <4> QED BY <1>1, <3>3, <4>1, <4>2, RestingIs
    <3> QED BY <3>1, <3>2, <3>3
  <2>2. ASSUME NEW x \in DOMAIN levels, NEW j \in 1 .. Len(levels[x]), r = levels[x][j], r # f
        PROVE  \E y \in DOMAIN after : \E k \in 1 .. Len(after[y]) : r = after[y][k]
    <3>1. CASE x = p
      <4>1. j # 1
        BY <2>2, <3>1
      <4>2. j \in 2 .. Len(levels[p])
        BY <1>1, <3>1, <4>1
      <4> QED BY <1>2, <2>2, <3>1, <4>2
    <3>2. CASE x # p
      BY <1>2, <2>2, <3>2
    <3> QED BY <3>1, <3>2
  <2>3. p \in DOMAIN after /\ 1 \in 1 .. Len(after[p]) /\ f2 = after[p][1]
    BY <1>1, <1>2 DEF f2
  <2>4. r \in Resting(after) <=>
           \E x \in DOMAIN after : \E j \in 1 .. Len(after[x]) : r = after[x][j]
    BY <1>3, RestingIs
  <2>5. r \in Resting(levels) <=>
           \E x \in DOMAIN levels : \E j \in 1 .. Len(levels[x]) : r = levels[x][j]
    BY RestingIs
  <2> HIDE DEF f
  <2> QED BY <2>1, <2>2, <2>3, <2>4, <2>5
<1>7. ASSUME f2 \in Resting(levels) PROVE f2 = f
  <2>1. PICK x \in DOMAIN levels : \E j \in 1 .. Len(levels[x]) : f2 = levels[x][j]
    BY <1>7, RestingIs
  <2>2. PICK j \in 1 .. Len(levels[x]) : f2 = levels[x][j]
    BY <2>1
  <2>3. x = p /\ j = 1
    BY <1>1, <1>2, <1>5, <2>2, RestingDiffer
  <2> QED BY <2>2, <2>3
<1>8. f \in Resting(levels)
  BY <1>1, RestingIs
<1> QED BY <1>4, <1>6, <1>7, <1>8

\* What the steps do to the shares of one side.
SideShares(levels) == HaveQuantity(Resting(levels))

LEMMA SharesAreNumbers ==
    ASSUME NEW levels, SideShares(levels)
    PROVE  SharesOf(levels) = Shares(Resting(levels)) /\ SharesOf(levels) \in Int
<1>1. SharesOf(levels) = Shares(Resting(levels))
  BY DEF SharesOf, Shares, Quantity
<1> QED BY <1>1, SharesAdd DEF SideShares

LEMMA SharesRest ==
    ASSUME NEW levels, LevelsOK(levels), SideShares(levels),
           NEW o \in RestOrders, AllBefore(levels, o.n)
    PROVE  /\ SideShares(Rest(levels, o))
           /\ SharesOf(Rest(levels, o)) = SharesOf(levels) + o.quantity
<1>1. o.quantity \in Int
  BY DEF RestOrders
<1>2. Resting(Rest(levels, o)) = Resting(levels) \cup {o} /\ o \notin Resting(levels)
  BY RestingWith
<1>3. /\ HaveQuantity(Resting(levels) \cup {o})
      /\ Shares(Resting(levels) \cup {o}) = Shares(Resting(levels)) + o.quantity
  BY <1>1, <1>2, SharesWith DEF SideShares
<1>4. SideShares(Rest(levels, o))
  BY <1>2, <1>3 DEF SideShares
<1> QED BY <1>2, <1>3, <1>4, SharesAreNumbers

LEMMA SharesErased ==
    ASSUME NEW levels, LevelsOK(levels), SortedByAge(levels), SideShares(levels),
           NEW p \in DOMAIN levels, NEW i \in 1 .. Len(levels[p]),
           NEW after, LevelsOK(after), ErasedAt(levels, after, p, i)
    PROVE  /\ SideShares(after)
           /\ SharesOf(after) = SharesOf(levels) - levels[p][i].quantity
<1>1. /\ Resting(after) = Resting(levels) \ {levels[p][i]}
      /\ levels[p][i] \in Resting(levels)
  BY RestingWithout
<1>2. /\ HaveQuantity(Resting(after))
      /\ Shares(Resting(after)) = Shares(Resting(levels)) - levels[p][i].quantity
  BY <1>1, SharesWithout DEF SideShares
<1>3. SideShares(after)
  BY <1>2 DEF SideShares
<1> QED BY <1>2, <1>3, SharesAreNumbers

LEMMA SharesReduced ==
    ASSUME NEW levels, LevelsOK(levels), SortedByAge(levels), SideShares(levels),
           NEW p \in DOMAIN levels, NEW q \in Nat, q <= levels[p][1].quantity,
           NEW after, after = Reduced(levels, p, q)
    PROVE  SideShares(after) /\ SharesOf(after) = SharesOf(levels) - q
<1> DEFINE f == levels[p][1]
<1>1. LevelsOK(after) /\ 1 \in 1 .. Len(levels[p]) /\ f.quantity \in Nat
  <2>1. Len(levels[p]) \in Nat \ {0}
    BY RestingIs
  <2>2. 1 \in 1 .. Len(levels[p])
    BY <2>1
  <2> QED BY <2>2, ReducedOK, RestingIs
<1>2. CASE ~(f.quantity > q)
  <2>1. ErasedAt(levels, after, p, 1)
    BY <1>2, ReducedErases
  <2>2. SideShares(after) /\ SharesOf(after) = SharesOf(levels) - f.quantity
    BY <1>1, <2>1, SharesErased
  <2>3. f.quantity = q
    BY <1>1, <1>2
  <2> QED BY <2>2, <2>3
<1>3. CASE f.quantity > q
  <2>1. PICK f2 : /\ f2.quantity = f.quantity - q
                  /\ Resting(after) = (Resting(levels) \ {f}) \cup {f2}
                  /\ f2 \notin Resting(levels) \ {f} /\ f \in Resting(levels)
    BY <1>3, RestingLess
  <2> HIDE DEF f
  <2>2. /\ HaveQuantity(Resting(levels) \ {f})
        /\ Shares(Resting(levels) \ {f}) = Shares(Resting(levels)) - f.quantity
        /\ Shares(Resting(levels)) \in Int
    BY <2>1, SharesWithout DEF SideShares
  <2>3. /\ HaveQuantity(Resting(after))
        /\ Shares(Resting(after)) = Shares(Resting(levels) \ {f}) + f2.quantity
    <3>1. f2.quantity \in Int
      BY <1>1, <2>1
    <3> QED BY <2>1, <2>2, <3>1, SharesWith
  <2>4. Shares(Resting(after)) = Shares(Resting(levels)) - q
    BY <1>1, <2>1, <2>2, <2>3
  <2>5. SideShares(after)
    BY <2>3 DEF SideShares
  <2> QED BY <2>4, <2>5, SharesAreNumbers
<1> QED BY <1>2, <1>3

\* The balance of one side, and the invariant: all that is added up is a number.
Balance(b) == placed[b] = SharesOf(Side(b)) + traded + InHand(b) + expired[b]
SharesInv ==
    /\ placed \in [BOOLEAN -> Int] /\ expired \in [BOOLEAN -> Int] /\ traded \in Int
    /\ \A b \in BOOLEAN : SideShares(Side(b)) /\ Balance(b)

LEMMA BalanceIsConserved == (\A b \in BOOLEAN : Balance(b)) <=> SharesConserved
<1>1. Side(TRUE) = buy_book_ /\ Side(FALSE) = sell_book_
  BY DEF Side
<1> QED BY <1>1 DEF Balance, SharesConserved

LEMMA SharesInit == BookInit => SharesInv
<1> SUFFICES ASSUME BookInit PROVE SharesInv
  OBVIOUS
<1>1. Resting(NoLevels) = {}
  BY DEF Resting, NoLevels
<1>2. \A b \in BOOLEAN : Side(b) = NoLevels
  BY DEF BookInit, Side
<1>3. SideShares(NoLevels) /\ SharesOf(NoLevels) = 0
  <2>1. SideShares(NoLevels)
    BY <1>1, SharesOfNone DEF SideShares
  <2> QED BY <1>1, <2>1, SharesOfNone, SharesAreNumbers
<1>4. \A b \in BOOLEAN : InHand(b) = 0 /\ placed[b] = 0 /\ expired[b] = 0 /\ traded = 0
  BY DEF BookInit, InHand
<1>5. \A b \in BOOLEAN : SideShares(Side(b)) /\ Balance(b)
  BY <1>2, <1>3, <1>4 DEF Balance
<1> QED BY <1>5 DEF BookInit, SharesInv

\* One side of a step: its shares change by d, and so does what else is counted.
LEMMA SideBalances ==
    ASSUME SharesInv, NEW b \in BOOLEAN, NEW d \in Int,
           SideShares(Side(b)'), SharesOf(Side(b)') = SharesOf(Side(b)) + d,
           placed[b]' - traded' - InHand(b)' - expired[b]'
               = placed[b] - traded - InHand(b) - expired[b] + d,
           placed[b]' \in Int, traded' \in Int, InHand(b)' \in Int, expired[b]' \in Int,
           InHand(b) \in Int
    PROVE  Balance(b)'
<1>1. PICK s \in Int : s = SharesOf(Side(b))
  BY SharesAreNumbers DEF SharesInv
<1>2. PICK s2 \in Int : s2 = SharesOf(Side(b)')
  BY SharesAreNumbers
<1>3. placed[b] \in Int /\ traded \in Int /\ expired[b] \in Int
      /\ placed[b] = s + traded + InHand(b) + expired[b]
  BY <1>1 DEF SharesInv, Balance
<1>4. placed[b]' = s2 + traded' + InHand(b)' + expired[b]'
  BY <1>1, <1>2, <1>3
<1> QED BY <1>2, <1>4 DEF Balance

LEMMA AddOrderBalances ==
    ASSUME AgeInv, SharesInv, NEW b \in BOOLEAN, NEW p \in Prices, NEW q \in Quantities,
           NEW t \in Types, AddOrder(b, p, q, t)
    PROVE  SharesInv'
<1>1. /\ order = NoOrder /\ order' \in Orders /\ order'.is_buy = b /\ qty_left' = q
      /\ placed' = [placed EXCEPT ![b] = @ + q]
      /\ UNCHANGED <<buy_book_, sell_book_, traded, expired>>
  <2>1. order' = [n |-> count + 1, is_buy |-> b, price |-> p, quantity |-> q, type |-> t]
    BY DEF AddOrder
  <2>2. count + 1 \in 1 .. MaxOrders
    BY BoundAssumption DEF AddOrder, AgeInv, TypeInv
  <2> QED BY <2>1, <2>2 DEF AddOrder, Orders
<1>2. q \in Int /\ order' # NoOrder
  BY <1>1, QuantityAssumption, OrderNotNone
<1>3. \A c \in BOOLEAN : /\ InHand(c) = 0
                         /\ InHand(c)' = IF c = b THEN q ELSE 0
                         /\ Side(c)' = Side(c)
  BY <1>1, <1>2 DEF InHand, Side
<1>4. /\ placed' \in [BOOLEAN -> Int] /\ expired' \in [BOOLEAN -> Int] /\ traded' \in Int
      /\ \A c \in BOOLEAN : placed[c]' = IF c = b THEN placed[c] + q ELSE placed[c]
  BY <1>1, <1>2 DEF SharesInv
<1>5. ASSUME NEW c \in BOOLEAN PROVE SideShares(Side(c)') /\ Balance(c)'
  <2>1. SideShares(Side(c)')
    BY <1>3 DEF SharesInv
  <2>2. SharesOf(Side(c)') = SharesOf(Side(c)) + 0
    BY <1>3, SharesAreNumbers DEF SharesInv
  <2>3. placed[c] \in Int /\ expired[c] \in Int /\ traded \in Int
    BY DEF SharesInv
  <2> QED BY <1>1, <1>2, <1>3, <1>4, <2>1, <2>2, <2>3, SideBalances
<1> QED BY <1>4, <1>5 DEF SharesInv

LEMMA TakeFrontBalances ==
    ASSUME AgeInv, SharesInv, NEW p \in Prices, TakeFront(p)
    PROVE  SharesInv'
<1> DEFINE levels == Opposite(order)
           front == Head(levels[p])
           q == MatchQty(front)
<1>1. /\ order \in Orders /\ order # NoOrder /\ p \in DOMAIN levels
      /\ qty_left \in Nat /\ order.is_buy \in BOOLEAN
      /\ UNCHANGED <<order, placed, expired>>
      /\ qty_left' = qty_left - q /\ traded' = traded + q
      /\ IF order.is_buy
           THEN sell_book_' = Reduced(sell_book_, p, q) /\ UNCHANGED buy_book_
           ELSE buy_book_' = Reduced(buy_book_, p, q) /\ UNCHANGED sell_book_
  BY DEF TakeFront, Takes, Designated, AgeInv, TypeInv, Orders
<1>2. PICK b \in BOOLEAN : b = order.is_buy /\ (b <=> order.is_buy)
  BY <1>1
<1>3. levels = Side(~b) /\ (~b) \in BOOLEAN
  <2>1. levels = (IF order.is_buy THEN sell_book_ ELSE buy_book_)
    BY DEF Opposite
  <2>2. Side(~b) = (IF b THEN sell_book_ ELSE buy_book_)
    BY DEF Side
  <2> HIDE DEF levels
  <2>3. levels = Side(~b)
    BY <1>2, <2>1, <2>2
  <2>4. (~b) \in BOOLEAN
    OBVIOUS
  <2> QED BY <2>3, <2>4
<1>4. LevelsOK(levels) /\ SortedByAge(levels) /\ SideShares(levels)
  BY <1>3, SidesOK DEF SharesInv
<1>5. front = levels[p][1] /\ front.quantity \in Nat
  <2>1. levels[p] \in Seq(RestOrders) /\ levels[p] # <<>>
    BY <1>1, <1>4 DEF LevelsOK
  <2>2. front = levels[p][1] /\ front \in RestOrders
    BY <2>1
  <2> QED BY <2>2 DEF RestOrders
<1>6. q \in Nat /\ q <= front.quantity /\ q <= qty_left
  <2> HIDE DEF front
  <2> QED BY <1>1, <1>5 DEF MatchQty
<1>7. /\ Side(~b)' = Reduced(levels, p, q) /\ Side(b)' = Side(b)
  <2> HIDE DEF q
  <2>1. CASE b
    BY <1>1, <1>2, <2>1 DEF Opposite, Side
  <2>2. CASE ~b
    BY <1>1, <1>2, <2>2 DEF Opposite, Side
  <2> QED BY <2>1, <2>2
<1> HIDE DEF levels, front, q
<1>8. SideShares(Side(~b)') /\ SharesOf(Side(~b)') = SharesOf(Side(~b)) + (0 - q)
  <2>1. SideShares(Side(~b)') /\ SharesOf(Side(~b)') = SharesOf(levels) - q
    BY <1>1, <1>4, <1>5, <1>6, <1>7, SharesReduced
  <2>2. SharesOf(levels) \in Int
    BY <1>4, SharesAreNumbers
  <2> QED BY <1>3, <1>6, <2>1, <2>2
<1>9. /\ InHand(b) = qty_left /\ InHand(b)' = qty_left - q
      /\ InHand(~b) = 0 /\ InHand(~b)' = 0
  BY <1>1, <1>2 DEF InHand
<1>10. /\ \A c \in BOOLEAN : placed[c]' = placed[c] /\ placed[c] \in Int
                             /\ expired[c]' = expired[c] /\ expired[c] \in Int
       /\ traded \in Int /\ traded' = traded + q /\ traded' \in Int
  BY <1>1, <1>6 DEF SharesInv
<1>11. Balance(b)' /\ SideShares(Side(b)')
  <2>1. SideShares(Side(b)') /\ SharesOf(Side(b)') = SharesOf(Side(b)) + 0
    BY <1>7, SharesAreNumbers DEF SharesInv
  <2> QED BY <1>1, <1>6, <1>9, <1>10, <2>1, SideBalances
<1>12. Balance(~b)'
  <2>1. PICK c \in BOOLEAN : c = ~b
    BY <1>3
  <2>2. SideShares(Side(c)') /\ SharesOf(Side(c)') = SharesOf(Side(c)) + (0 - q)
    BY <1>8, <2>1
  <2>3. InHand(c) = 0 /\ InHand(c)' = 0
    BY <1>9, <2>1
  <2>4. 0 - q \in Int
    BY <1>6
  <2>5. Balance(c)'
    BY <1>6, <1>10, <2>2, <2>3, <2>4, SideBalances
  <2> QED BY <2>1, <2>5
<1>13. \A c \in BOOLEAN : SideShares(Side(c)') /\ Balance(c)'
  <2> SUFFICES ASSUME NEW c \in BOOLEAN PROVE SideShares(Side(c)') /\ Balance(c)'
    OBVIOUS
  <2>1. c = b \/ c = ~b
    OBVIOUS
  <2> QED BY <1>8, <1>11, <1>12, <2>1
<1>14. placed' \in [BOOLEAN -> Int] /\ expired' \in [BOOLEAN -> Int] /\ traded' \in Int
  BY <1>1, <1>10 DEF SharesInv
<1> QED BY <1>13, <1>14 DEF SharesInv

LEMMA FinishBalances ==
    ASSUME AgeInv, SharesInv, Finish
    PROVE  SharesInv'
<1> DEFINE remain == [order EXCEPT !.quantity = qty_left]
<1>1. /\ order \in Orders /\ order # NoOrder /\ qty_left \in Nat
      /\ order.is_buy \in BOOLEAN /\ order' = NoOrder
      /\ UNCHANGED <<placed, traded>>
      /\ order.n = NextToRest
  BY DEF Finish, AgeInv, TypeInv, Orders, NextToRest
<1>2. /\ remain \in RestOrders /\ remain.n = order.n /\ remain.quantity = qty_left
  BY <1>1, OrdersRest DEF Orders
<1>3. PICK b \in BOOLEAN : b = order.is_buy
  BY <1>1
<1>4. \A c \in BOOLEAN : /\ InHand(c) = IF c = b THEN qty_left ELSE 0
                         /\ InHand(c)' = 0
  BY <1>1, <1>3 DEF InHand
<1>5. \A c \in BOOLEAN : /\ placed[c]' = placed[c] /\ placed[c] \in Int
                         /\ expired[c] \in Int /\ traded \in Int /\ traded' = traded
                         /\ LevelsOK(Side(c)) /\ SideShares(Side(c))
                         /\ AllBefore(Side(c), order.n)
  BY <1>1, SidesOK DEF SharesInv
<1>6. CASE order.type = "LIMIT" /\ qty_left > 0
  <2>1. \A c \in BOOLEAN : Side(c)' = IF c = b THEN Rest(Side(c), remain) ELSE Side(c)
    <3>1. IF order.is_buy
            THEN buy_book_' = Rest(buy_book_, remain) /\ UNCHANGED sell_book_
            ELSE sell_book_' = Rest(sell_book_, remain) /\ UNCHANGED buy_book_
      BY <1>6 DEF Finish
    <3> HIDE DEF remain
    <3> QED BY <1>3, <3>1 DEF Side
  <2> HIDE DEF remain
  <2>2. expired' = expired
    BY <1>6 DEF Finish
  <2>3. ASSUME NEW c \in BOOLEAN PROVE SideShares(Side(c)') /\ Balance(c)'
    <3>1. PICK d \in Int : d = IF c = b THEN qty_left ELSE 0
      BY <1>1
    <3>2. SideShares(Side(c)') /\ SharesOf(Side(c)') = SharesOf(Side(c)) + d
      <4>1. CASE c = b
        <5>1. SideShares(Rest(Side(c), remain))
              /\ SharesOf(Rest(Side(c), remain)) = SharesOf(Side(c)) + remain.quantity
          BY <1>2, <1>5, SharesRest
        <5> QED BY <1>2, <2>1, <3>1, <4>1, <5>1
      <4>2. CASE c # b
        BY <1>5, <2>1, <3>1, <4>2, SharesAreNumbers
      <4> QED BY <4>1, <4>2
    <3> QED BY <1>1, <1>4, <1>5, <2>2, <3>1, <3>2, SideBalances
  <2> QED BY <1>1, <2>2, <2>3 DEF SharesInv
<1>7. CASE ~(order.type = "LIMIT" /\ qty_left > 0)
  <2>1. \A c \in BOOLEAN : Side(c)' = Side(c)
    BY <1>7 DEF Finish, Side
  <2>2. \A c \in BOOLEAN : expired[c]' = expired[c] + InHand(c)
    <3>1. CASE order.type = "LIMIT"
      <4>1. qty_left = 0 /\ expired' = expired
        BY <1>1, <1>7, <3>1 DEF Finish
      <4> QED BY <1>4, <1>5, <4>1
    <3>2. CASE order.type # "LIMIT"
      <4>1. expired' = [expired EXCEPT ![b] = @ + qty_left]
        BY <1>3, <3>2 DEF Finish
      <4> QED BY <1>4, <1>5, <4>1 DEF SharesInv
    <3> QED BY <3>1, <3>2
  <2>3. \A c \in BOOLEAN : InHand(c) \in Int /\ expired[c]' \in Int
    BY <1>1, <1>4, <1>5, <2>2
  <2>4. expired' \in [BOOLEAN -> Int]
    <3>1. expired' = expired \/ expired' = [expired EXCEPT ![b] = @ + qty_left]
      BY <1>3 DEF Finish
    <3> QED BY <1>1, <3>1 DEF SharesInv
  <2>5. ASSUME NEW c \in BOOLEAN PROVE SideShares(Side(c)') /\ Balance(c)'
    <3>1. SideShares(Side(c)') /\ SharesOf(Side(c)') = SharesOf(Side(c)) + 0
      BY <1>5, <2>1, SharesAreNumbers
    <3> QED BY <1>4, <1>5, <2>2, <2>3, <3>1, SideBalances
  <2> QED BY <1>1, <2>4, <2>5 DEF SharesInv
<1> QED BY <1>6, <1>7

LEMMA AddLimitBalances ==
    ASSUME AgeInv, SharesInv, NEW b \in BOOLEAN, NEW p \in Prices, NEW q \in Quantities,
           AddLimit(b, p, q)
    PROVE  SharesInv'
<1>1. PICK o : o = [n |-> count', is_buy |-> b, price |-> p, quantity |-> q, type |-> "LIMIT"]
  OBVIOUS
<1>2. /\ order = NoOrder /\ count' = count + 1 /\ count < MaxOrders /\ count \in Nat
      /\ UNCHANGED <<order, traded, expired>>
      /\ placed' = [placed EXCEPT ![b] = @ + q]
      /\ IF b THEN buy_book_' = Rest(buy_book_, o) /\ UNCHANGED sell_book_
              ELSE sell_book_' = Rest(sell_book_, o) /\ UNCHANGED buy_book_
  BY <1>1, BoundAssumption DEF AddLimit, AgeInv, TypeInv
<1>3. o \in RestOrders /\ o.n = NextToRest /\ o.quantity = q /\ q \in Int
  <2>1. count + 1 \in 1 .. MaxOrders
    BY <1>2, BoundAssumption
  <2> QED BY <1>1, <1>2, <2>1, QuantityAssumption DEF RestOrders, Types, NextToRest
<1>4. \A c \in BOOLEAN : /\ Side(c)' = IF c = b THEN Rest(Side(c), o) ELSE Side(c)
                         /\ InHand(c) = 0 /\ InHand(c)' = 0
  BY <1>2 DEF Side, InHand
<1>5. /\ placed' \in [BOOLEAN -> Int] /\ expired' \in [BOOLEAN -> Int] /\ traded' \in Int
      /\ \A c \in BOOLEAN : placed[c]' = IF c = b THEN placed[c] + q ELSE placed[c]
      /\ \A c \in BOOLEAN : placed[c] \in Int /\ expired[c] \in Int /\ placed[c]' \in Int
      /\ traded \in Int
  BY <1>2, <1>3 DEF SharesInv
<1>6. ASSUME NEW c \in BOOLEAN PROVE SideShares(Side(c)') /\ Balance(c)'
  <2>1. PICK d \in Int : d = IF c = b THEN q ELSE 0
    BY <1>3
  <2>2. /\ LevelsOK(Side(c)) /\ AllBefore(Side(c), o.n) /\ SideShares(Side(c))
    BY <1>3, SidesOK DEF SharesInv
  <2>3. SideShares(Side(c)') /\ SharesOf(Side(c)') = SharesOf(Side(c)) + d
    <3>1. CASE c = b
      BY <1>3, <1>4, <2>1, <2>2, <3>1, SharesRest
    <3>2. CASE c # b
      BY <1>4, <2>1, <2>2, <3>2, SharesAreNumbers
    <3> QED BY <3>1, <3>2
  <2> QED BY <1>2, <1>4, <1>5, <2>1, <2>3, SideBalances
<1> QED BY <1>5, <1>6 DEF SharesInv

LEMMA CancelBalances ==
    ASSUME LimitInv, SharesInv, NEW id \in 1 .. MaxOrders, CancelOrder(id)
    PROVE  SharesInv'
<1>1. /\ week = 9 /\ order = NoOrder /\ id \in DOMAIN id_map_
      /\ UNCHANGED <<order, placed, traded>>
  BY DEF CancelOrder
<1>2. AgeInv /\ IdMapInv
  BY <1>1 DEF LimitInv
<1>3. PICK b \in BOOLEAN, p \in Prices : id_map_[id] = <<b, p>>
  BY <1>1, <1>2 DEF IdMapInv
<1>4. LevelsOK(Side(b)) /\ SortedByAge(Side(b))
  BY <1>2, SidesOK
<1>5. Side(b) = (IF b THEN buy_book_ ELSE sell_book_)
       /\ id_map_[id][1] = b /\ id_map_[id][2] = p
  BY <1>3 DEF Side
<1>6. PICK i \in DOMAIN Side(b)[p] :
         /\ p \in DOMAIN Side(b)
         /\ expired' = [expired EXCEPT ![b] = @ + Side(b)[p][i].quantity]
         /\ IF b THEN buy_book_' = Removed(Side(b), p, i) /\ UNCHANGED sell_book_
                 ELSE sell_book_' = Removed(Side(b), p, i) /\ UNCHANGED buy_book_
  BY <1>5 DEF CancelOrder
<1>7. i \in 1 .. Len(Side(b)[p])
  BY <1>4, <1>6 DEF LevelsOK
<1>8. PICK q \in Int : q = Side(b)[p][i].quantity
  BY <1>4, <1>6, <1>7, RestingIs
<1>9. \A c \in BOOLEAN : /\ Side(c)' = IF c = b THEN Removed(Side(b), p, i) ELSE Side(c)
                         /\ InHand(c) = 0 /\ InHand(c)' = 0
  BY <1>1, <1>6 DEF Side, InHand
<1>10. /\ LevelsOK(Removed(Side(b), p, i))
      /\ ErasedAt(Side(b), Removed(Side(b), p, i), p, i)
  BY <1>4, <1>6, <1>7, RemovedErases
<1>11. /\ SideShares(Removed(Side(b), p, i))
       /\ SharesOf(Removed(Side(b), p, i)) = SharesOf(Side(b)) - q
       /\ SharesOf(Side(b)) \in Int
  BY <1>4, <1>6, <1>7, <1>8, <1>10, SharesErased, SharesAreNumbers DEF SharesInv
<1>12. /\ placed' \in [BOOLEAN -> Int] /\ expired' \in [BOOLEAN -> Int] /\ traded' \in Int
       /\ \A c \in BOOLEAN : expired[c]' = IF c = b THEN expired[c] + q ELSE expired[c]
       /\ \A c \in BOOLEAN : placed[c] \in Int /\ placed[c]' = placed[c]
                             /\ expired[c] \in Int /\ expired[c]' \in Int
       /\ traded \in Int
  BY <1>1, <1>6, <1>8 DEF SharesInv
<1>13. ASSUME NEW c \in BOOLEAN PROVE SideShares(Side(c)') /\ Balance(c)'
  <2>1. PICK d \in Int : d = IF c = b THEN 0 - q ELSE 0
    OBVIOUS
  <2>2. SideShares(Side(c)') /\ SharesOf(Side(c)') = SharesOf(Side(c)) + d
    <3>1. CASE c = b
      BY <1>9, <1>11, <2>1, <3>1
    <3>2. CASE c # b
      BY <1>9, <2>1, <3>2, SharesAreNumbers DEF SharesInv
    <3> QED BY <3>1, <3>2
  <2> QED BY <1>1, <1>9, <1>12, <2>1, <2>2, SideBalances
<1> QED BY <1>12, <1>13 DEF SharesInv

LEMMA NothingBalances ==
    ASSUME SharesInv, UNCHANGED bookVars
    PROVE  SharesInv'
<1>1. UNCHANGED <<buy_book_, sell_book_, order, qty_left, placed, traded, expired>>
  BY DEF bookVars, shareVars
<1>2. \A b \in BOOLEAN : Side(b)' = Side(b) /\ InHand(b)' = InHand(b)
  BY <1>1 DEF Side, InHand
<1> QED BY <1>1, <1>2 DEF SharesInv, Balance

LEMMA SharesNext ==
    ASSUME LimitInv, SharesInv, [Next]_vars
    PROVE  SharesInv'
<1>0. AgeInv
  BY DEF LimitInv
<1>1. ASSUME NEW b \in BOOLEAN, NEW q \in Quantities, AddMarket(b, q)
      PROVE  SharesInv'
  <2>1. AddOrder(b, MinPrice, q, "MARKET") /\ MinPrice \in Prices /\ "MARKET" \in Types
    BY <1>1, PriceAssumption, RangeAssumption DEF AddMarket, Prices, Types
  <2> QED BY <1>0, <2>1, AddOrderBalances
<1>2. ASSUME NEW b \in BOOLEAN, NEW q \in Quantities, NEW p \in Prices, AddLimit(b, p, q)
      PROVE  SharesInv'
  BY <1>0, <1>2, AddLimitBalances
<1>3. ASSUME NEW p \in Prices, Sweep(p) PROVE SharesInv'
  BY <1>0, <1>3, TakeFrontBalances DEF Sweep
<1>4. CASE Return
  BY <1>0, <1>4, FinishBalances DEF Return
<1>5. ASSUME NEW id \in 1 .. MaxOrders, CancelOrder(id) PROVE SharesInv'
  BY <1>5, CancelBalances
<1>6. CASE Week10
  BY <1>0, <1>6, AddOrderBalances, TakeFrontBalances, FinishBalances
     DEF Week10, BookNext, Running
<1>7. CASE UNCHANGED vars
  BY <1>7, NothingBalances DEF vars
<1> QED BY <1>1, <1>2, <1>3, <1>4, <1>5, <1>6, <1>7 DEF Next

\* In the books of weeks 9 and 10, for any prices, quantities and number of orders:
\* each share submitted on a side is resting, traded, still in the hands of
\* add_order, was left of a MARKET order or went with an order that was canceled;
\* none is lost or made when a level is erased under the sweep or an order out of
\* the middle of a level (week 9 orderbook.hpp:13-116, week 10 orderbook.hpp:20-69).
THEOREM NoShareIsLost == Spec => []SharesConserved
<1>1. Init => SharesInv
  BY SharesInit DEF Init
<1>2. LimitInv /\ SharesInv /\ [Next]_vars => SharesInv'
  BY SharesNext
<1>3. SharesInv => SharesConserved
  BY BalanceIsConserved DEF SharesInv
<1> QED BY <1>1, <1>2, <1>3, LimitCorrect, PTL DEF Spec
=============================================================================
