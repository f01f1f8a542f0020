------------------------- MODULE MatchingEngine_proofs -------------------------
(***************************************************************************)
(* Proofs about OrderBookOptimized, which takes match() one pass of its    *)
(* loop at a time, and about EngineManager, which calls match() as a       *)
(* whole; both are built from the operators of OrderBookOps.  They hold    *)
(* for every set of prices, quantities, symbols and order ids and every    *)
(* number of orders.                                                       *)
(***************************************************************************)
EXTENDS OrderBookOptimized, EngineManager, Recursion, SequenceTheorems, TLAPS

\* The history: the order submitted n-th has id n, and nothing is traded before
\* it is submitted.
HistoryOK ==
    /\ submitted \in Seq(Orders)
    /\ \A n \in 1 .. Len(submitted) : submitted[n].order_id = n
    /\ filled \in [OrderIds -> Int]
    /\ \A n \in OrderIds : n > Len(submitted) => filled[n] = 0

\* An entry o at price p of side b, given what was submitted and filled.
EntryOK(o, b, p, sub, fill) ==
    /\ o.order_id \in 1 .. Len(sub)
    /\ o.is_buy = b /\ sub[o.order_id].is_buy = b
    /\ o.price = p /\ sub[o.order_id].price = p
    /\ o.quantity = sub[o.order_id].quantity - fill[o.order_id]

\* One side of the book: the entries of a level are in the order of their ids.
SideOK(levels, b, sub, fill) ==
    /\ DOMAIN levels \subseteq Prices
    /\ levels \in [DOMAIN levels -> Seq(Orders)]
    /\ \A p \in DOMAIN levels : \A i \in DOMAIN levels[p] :
          EntryOK(levels[p][i], b, p, sub, fill)
    /\ \A p \in DOMAIN levels : \A i, j \in DOMAIN levels[p] :
          i < j => levels[p][i].order_id < levels[p][j].order_id

\* Order n rests on a side, or has been traded in full.
RestsIn(levels, n, p) ==
    p \in DOMAIN levels /\ \E i \in DOMAIN levels[p] : levels[p][i].order_id = n
Settled(levels, b, sub, fill) == \A n \in 1 .. Len(sub) :
    sub[n].is_buy = b => fill[n] = sub[n].quantity \/ RestsIn(levels, n, sub[n].price)

Books == /\ SideOK(buy_levels, TRUE, submitted, filled)
         /\ SideOK(sell_levels, FALSE, submitted, filled)
         /\ Settled(buy_levels, TRUE, submitted, filled)
         /\ Settled(sell_levels, FALSE, submitted, filled)

\* Until the first trade of a call the iterators are at the best levels, and a
\* level pair that has been entered has orders on both sides.
AtBestLevels == mpc # "idle" /\ trades = <<>> =>
    /\ buy_it = FirstBuy(DOMAIN buy_levels)
    /\ sell_it = FirstSell(DOMAIN sell_levels)
    /\ mpc = "pair" => BuyQueue # <<>> /\ SellQueue # <<>>

Trades == [buy_order_id : OrderIds, sell_order_id : OrderIds, symbol : {Symbol},
           price : Prices, quantity : Int]

BookInv == /\ HistoryOK /\ Books /\ IteratorsValid /\ AtBestLevels
           /\ mpc \in {"idle", "levels", "pair"} /\ trades \in Seq(Trades)

-----------------------------------------------------------------------------
(***************************************************************************)
(* The iterators                                                           *)
(***************************************************************************)

\* Any prices at all have a lowest and a highest: the one with the least distance
\* from MinPrice, and from MaxPrice.
LEMMA ExtremesExist ==
    ASSUME NEW D \in SUBSET Prices, D # {}
    PROVE  /\ \E m \in D : \A d \in D : m <= d
           /\ \E m \in D : \A d \in D : m >= d
<1>0. \A d \in D : d \in Int /\ MinPrice <= d /\ d <= MaxPrice
  BY DomainAssumption
<1>1. MinPrice \in Int /\ MaxPrice \in Int
  BY DomainAssumption
<1>2. \E m \in D : \A d \in D : m <= d
  <2> DEFINE Above == {d - MinPrice : d \in D}
  <2>1. Above \in SUBSET Nat /\ Above # {}
    BY <1>0, <1>1
  <2> HIDE DEF Above
  <2>2. PICK x \in Above : \A y \in Above : x <= y
    BY <2>1, LeastExists
  <2>3. PICK m \in D : x = m - MinPrice
    BY <2>2 DEF Above
  <2>4. \A d \in D : x <= d - MinPrice
    BY <2>2 DEF Above
  <2> QED BY <1>0, <1>1, <2>3, <2>4
<1>3. \E m \in D : \A d \in D : m >= d
  <2> DEFINE Below == {MaxPrice - d : d \in D}
  <2>1. Below \in SUBSET Nat /\ Below # {}
    BY <1>0, <1>1
  <2> HIDE DEF Below
  <2>2. PICK x \in Below : \A y \in Below : x <= y
    BY <2>1, LeastExists
  <2>3. PICK m \in D : x = MaxPrice - m
    BY <2>2 DEF Below
  <2>4. \A d \in D : x <= MaxPrice - d
    BY <2>2 DEF Below
  <2> QED BY <1>0, <1>1, <2>3, <2>4
<1> QED BY <1>2, <1>3

\* begin() and ++ give a price of the book, or end().
LEMMA FirstIsBest ==
    ASSUME NEW D \in SUBSET Prices
    PROVE  /\ FirstBuy(D) \in D \cup {End} /\ FirstSell(D) \in D \cup {End}
           /\ FirstBuy(D) # End => \A p \in D : p <= FirstBuy(D)
           /\ FirstSell(D) # End => \A p \in D : p >= FirstSell(D)
  BY ExtremesExist DEF FirstBuy, FirstSell

LEMMA EndIsNoPrice == End \notin Prices /\ Prices \subseteq Int
  BY EndAssumption, NumbersAssumption

-----------------------------------------------------------------------------
(***************************************************************************)
(* What the operators of the book do to one side of it                     *)
(***************************************************************************)

LEMMA AppendShape ==
    ASSUME NEW S, NEW q \in Seq(S), NEW e \in S
    PROVE  /\ Append(q, e) \in Seq(S) /\ Append(q, e) # <<>>
           /\ DOMAIN Append(q, e) = 1 .. Len(q) + 1
           /\ DOMAIN q = 1 .. Len(q) /\ Len(q) \in Nat
           /\ \A i \in DOMAIN q : i \in DOMAIN Append(q, e) /\ Append(q, e)[i] = q[i]
           /\ Append(q, e)[Len(q) + 1] = e
  OBVIOUS

\* push_back at the price of an order that has just been submitted.
LEMMA AddOrderKeeps ==
    ASSUME NEW sub \in Seq(Orders), NEW fill \in [OrderIds -> Int], NEW levels,
           NEW b \in BOOLEAN, NEW o \in Orders,
           \A n \in 1 .. Len(sub) : sub[n].order_id = n,
           o.order_id = Len(sub) + 1, o.is_buy = b, fill[o.order_id] = 0,
           SideOK(levels, b, sub, fill), Settled(levels, b, sub, fill)
    PROVE  /\ SideOK(AddOrder(levels, o), b, Append(sub, o), fill)
           /\ Settled(AddOrder(levels, o), b, Append(sub, o), fill)
           /\ DOMAIN AddOrder(levels, o) = DOMAIN levels \cup {o.price}
           /\ \A p \in DOMAIN AddOrder(levels, o) :
                 AddOrder(levels, o)[p] = <<>> => p \in DOMAIN levels /\ levels[p] = <<>>
<1> DEFINE new == AddOrder(levels, o)
<1>1. levels \in [DOMAIN levels -> Seq(Orders)] /\ DOMAIN levels \subseteq Prices
      /\ o.price \in Prices /\ o.quantity \in Int
  BY DEF SideOK, Orders
<1>2. /\ DOMAIN new = DOMAIN levels \cup {o.price}
      /\ \A p \in DOMAIN levels : p # o.price => new[p] = levels[p]
      /\ o.price \in DOMAIN levels => new[o.price] = Append(levels[o.price], o)
      /\ o.price \notin DOMAIN levels => new[o.price] = <<o>>
  BY DEF AddOrder
<1> HIDE DEF new
<1>2a. ASSUME NEW p \in DOMAIN levels
      PROVE  /\ levels[p] \in Seq(Orders)
             /\ Append(levels[p], o) \in Seq(Orders) /\ Append(levels[p], o) # <<>>
             /\ DOMAIN Append(levels[p], o) = 1 .. Len(levels[p]) + 1
             /\ DOMAIN levels[p] = 1 .. Len(levels[p]) /\ Len(levels[p]) \in Nat
             /\ \A i \in DOMAIN levels[p] : /\ i \in DOMAIN Append(levels[p], o)
                                            /\ Append(levels[p], o)[i] = levels[p][i]
             /\ Append(levels[p], o)[Len(levels[p]) + 1] = o
  <2>1. levels[p] \in Seq(Orders)
    BY <1>1
  <2> QED BY <2>1, AppendShape
<1>2b. /\ <<o>> \in Seq(Orders) /\ <<o>> # <<>> /\ DOMAIN <<o>> = {1} /\ <<o>>[1] = o
  OBVIOUS
<1>2c. \A p \in DOMAIN new :
         \/ p \in DOMAIN levels /\ new[p] = levels[p]
         \/ p = o.price /\ p \in DOMAIN levels /\ new[p] = Append(levels[p], o)
         \/ p = o.price /\ p \notin DOMAIN levels /\ new[p] = <<o>>
  BY <1>2
<1>3. new \in [DOMAIN new -> Seq(Orders)]
  <2>1. new = [p \in DOMAIN new |-> new[p]]
    BY DEF new, AddOrder
  <2>2. \A p \in DOMAIN new : new[p] \in Seq(Orders)
    BY <1>2a, <1>2b, <1>2c
  <2> QED BY <2>1, <2>2
<1>4. \A p \in DOMAIN new : \A i \in DOMAIN new[p] :
         \/ p \in DOMAIN levels /\ i \in DOMAIN levels[p] /\ new[p][i] = levels[p][i]
         \/ /\ p = o.price /\ new[p][i] = o
            /\ p \in DOMAIN levels => i = Len(levels[p]) + 1
            /\ p \notin DOMAIN levels => i = 1
  <2> SUFFICES ASSUME NEW p \in DOMAIN new, NEW i \in DOMAIN new[p]
               PROVE  \/ /\ p \in DOMAIN levels /\ i \in DOMAIN levels[p]
                         /\ new[p][i] = levels[p][i]
                      \/ /\ p = o.price /\ new[p][i] = o
                         /\ p \in DOMAIN levels => i = Len(levels[p]) + 1
                         /\ p \notin DOMAIN levels => i = 1
    OBVIOUS
  <2>1. CASE p \in DOMAIN levels /\ new[p] = levels[p]
    BY <2>1
  <2>2. CASE p = o.price /\ p \in DOMAIN levels /\ new[p] = Append(levels[p], o)
    <3>1. i \in 1 .. Len(levels[p]) + 1 /\ Len(levels[p]) \in Nat
      BY <1>2a, <2>2
    <3>2. i \in 1 .. Len(levels[p]) \/ i = Len(levels[p]) + 1
      BY <3>1
    <3> QED BY <1>2a, <2>2, <3>2
  <2>3. CASE p = o.price /\ p \notin DOMAIN levels /\ new[p] = <<o>>
    BY <1>2b, <2>3
  <2> QED BY <1>2c, <2>1, <2>2, <2>3
<1>5. /\ Len(Append(sub, o)) = Len(sub) + 1
      /\ \A n \in 1 .. Len(sub) : Append(sub, o)[n] = sub[n]
      /\ Append(sub, o)[Len(sub) + 1] = o
      /\ Len(sub) \in Nat
  OBVIOUS
<1>6. \A e, p : EntryOK(e, b, p, sub, fill) => EntryOK(e, b, p, Append(sub, o), fill)
  BY <1>5 DEF EntryOK
<1>7. EntryOK(o, b, o.price, Append(sub, o), fill)
  BY <1>1, <1>5 DEF EntryOK
<1>8. \A p \in DOMAIN new : \A i \in DOMAIN new[p] :
         EntryOK(new[p][i], b, p, Append(sub, o), fill)
  BY <1>4, <1>6, <1>7 DEF SideOK
<1>9. ASSUME NEW p \in DOMAIN new, NEW i \in DOMAIN new[p], NEW j \in DOMAIN new[p], i < j
      PROVE  new[p][i].order_id < new[p][j].order_id
  <2>1. CASE p \in DOMAIN levels
    <3>1. DOMAIN levels[p] = 1 .. Len(levels[p]) /\ Len(levels[p]) \in Nat
      BY <1>1, <2>1
    <3>2. i \in DOMAIN levels[p] /\ new[p][i] = levels[p][i]
      BY <1>1, <1>2, <1>4, <1>9, <2>1, <3>1
    <3>3. levels[p][i].order_id \in 1 .. Len(sub)
      BY <2>1, <3>2 DEF SideOK, EntryOK
    <3>4. CASE new[p][j] = o
      BY <1>5, <3>2, <3>3, <3>4
    <3>5. CASE j \in DOMAIN levels[p] /\ new[p][j] = levels[p][j]
      BY <1>9, <2>1, <3>2, <3>5 DEF SideOK
    <3> QED BY <1>4, <3>4, <3>5
  <2>2. CASE p \notin DOMAIN levels
    BY <1>4, <1>9, <2>2
  <2> QED BY <2>1, <2>2
<1>10. SideOK(new, b, Append(sub, o), fill)
  BY <1>1, <1>2, <1>3, <1>8, <1>9 DEF SideOK
<1>11. \A n, p : RestsIn(levels, n, p) => RestsIn(new, n, p)
  <2> SUFFICES ASSUME NEW n, NEW p, NEW i \in DOMAIN levels[p], p \in DOMAIN levels,
                      levels[p][i].order_id = n
               PROVE  RestsIn(new, n, p)
    BY DEF RestsIn
  <2>1. i \in DOMAIN new[p] /\ new[p][i] = levels[p][i]
    <3>1. new[p] = levels[p] \/ new[p] = Append(levels[p], o)
      BY <1>2
    <3> QED BY <1>2a, <3>1
  <2> QED BY <1>2, <2>1 DEF RestsIn
<1>12. RestsIn(new, o.order_id, o.price)
  <2>1. \E i \in DOMAIN new[o.price] : new[o.price][i] = o
    <3>1. CASE o.price \in DOMAIN levels
      <4>1. Len(levels[o.price]) + 1 \in 1 .. Len(levels[o.price]) + 1
        BY <1>2a, <3>1
      <4> QED BY <1>2, <1>2a, <3>1, <4>1
    <3>2. CASE o.price \notin DOMAIN levels
      BY <1>2, <1>2b, <3>2
    <3> QED BY <3>1, <3>2
  <2> QED BY <1>2, <2>1 DEF RestsIn
<1>13. Settled(new, b, Append(sub, o), fill)
  <2> SUFFICES ASSUME NEW n \in 1 .. Len(sub) + 1, Append(sub, o)[n].is_buy = b
               PROVE  \/ fill[n] = Append(sub, o)[n].quantity
                      \/ RestsIn(new, n, Append(sub, o)[n].price)
    BY <1>5 DEF Settled
  <2>1. CASE n = Len(sub) + 1
    BY <1>5, <1>12, <2>1
  <2>2. CASE n \in 1 .. Len(sub)
    BY <1>5, <1>11, <2>2 DEF Settled
  <2> QED BY <1>5, <2>1, <2>2
<1>14. \A p \in DOMAIN new : new[p] = <<>> => p \in DOMAIN levels /\ levels[p] = <<>>
  BY <1>2a, <1>2b, <1>2c
<1> QED BY <1>2, <1>10, <1>13, <1>14 DEF new

\* What is left of a level when quantity q is taken from its front.
LEMMA FrontTaken ==
    ASSUME NEW s \in Seq(Orders), s # <<>>, NEW q \in Int
    PROVE  LET t == IF Head(s).quantity = q THEN Tail(s)
                    ELSE [s EXCEPT ![1].quantity = @ - q]
           IN  /\ t \in Seq(Orders)
               /\ Head(s).quantity = q =>
                     /\ \A i \in DOMAIN t : i + 1 \in DOMAIN s /\ t[i] = s[i + 1]
                     /\ \A i \in DOMAIN s : i # 1 => i - 1 \in DOMAIN t /\ t[i - 1] = s[i]
               /\ Head(s).quantity # q =>
                     /\ DOMAIN t = DOMAIN s
                     /\ \A i \in DOMAIN s : i # 1 => t[i] = s[i]
                     /\ t[1].order_id = s[1].order_id /\ t[1].is_buy = s[1].is_buy
                     /\ t[1].price = s[1].price
                     /\ t[1].quantity = s[1].quantity - q
<1>1. Head(s) = s[1] /\ s[1] \in Orders /\ 1 \in DOMAIN s
  OBVIOUS
<1>2. CASE Head(s).quantity = q
  BY <1>2
<1>3. CASE Head(s).quantity # q
  <2> DEFINE e == [s[1] EXCEPT !.quantity = @ - q]
  <2>1. /\ e \in Orders /\ e.order_id = s[1].order_id /\ e.is_buy = s[1].is_buy
        /\ e.price = s[1].price /\ e.quantity = s[1].quantity - q
    BY <1>1 DEF Orders
  <2>2. [s EXCEPT ![1].quantity = @ - q] = [s EXCEPT ![1] = e]
    OBVIOUS
  <2> HIDE DEF e
  <2>3. [s EXCEPT ![1] = e] \in Seq(Orders) /\ DOMAIN [s EXCEPT ![1] = e] = DOMAIN s
        /\ [s EXCEPT ![1] = e][1] = e
        /\ \A i \in DOMAIN s : i # 1 => [s EXCEPT ![1] = e][i] = s[i]
    BY <1>1, <2>1
  <2> QED BY <1>3, <2>1, <2>2, <2>3
<1> QED BY <1>2, <1>3

\* Between fill and fill2, q was traded of the first entry at p and nothing of
\* any other order of the side.
FrontFilled(levels, p, q, b, sub, fill, fill2) ==
    LET h == Head(levels[p]).order_id
    IN  /\ fill2[h] = fill[h] + q
        /\ \A n \in 1 .. Len(sub) : sub[n].is_buy = b /\ n # h => fill2[n] = fill[n]

LEMMA TakeFrontKeeps ==
    ASSUME NEW sub \in Seq(Orders), NEW fill \in [OrderIds -> Int],
           NEW fill2 \in [OrderIds -> Int], NEW levels, NEW b \in BOOLEAN,
           NEW p \in DOMAIN levels, levels[p] # <<>>, NEW q \in Int,
           SideOK(levels, b, sub, fill), Settled(levels, b, sub, fill),
           FrontFilled(levels, p, q, b, sub, fill, fill2)
    PROVE  /\ SideOK(TakeFront(levels, p, q), b, sub, fill2)
           /\ Settled(TakeFront(levels, p, q), b, sub, fill2)
           /\ DOMAIN TakeFront(levels, p, q) = DOMAIN levels
           /\ \A r \in DOMAIN levels :
                 r # p => TakeFront(levels, p, q)[r] = levels[r]
<1> DEFINE new == TakeFront(levels, p, q)
           s == levels[p]
           t == new[p]
           h == Head(s).order_id
<1>1. levels \in [DOMAIN levels -> Seq(Orders)] /\ DOMAIN levels \subseteq Prices
  BY DEF SideOK
<1>2. s \in Seq(Orders) /\ s # <<>> /\ Head(s) = s[1] /\ 1 \in DOMAIN s
  BY <1>1
<1>3. /\ DOMAIN new = DOMAIN levels
      /\ \A r \in DOMAIN levels : r # p => new[r] = levels[r]
      /\ t = IF Head(s).quantity = q THEN Tail(s) ELSE [s EXCEPT ![1].quantity = @ - q]
      /\ new = [r \in DOMAIN new |-> new[r]]
  BY <1>1 DEF TakeFront
<1>4. /\ t \in Seq(Orders)
      /\ Head(s).quantity = q =>
            /\ \A i \in DOMAIN t : i + 1 \in DOMAIN s /\ t[i] = s[i + 1]
            /\ \A i \in DOMAIN s : i # 1 => i - 1 \in DOMAIN t /\ t[i - 1] = s[i]
      /\ Head(s).quantity # q =>
            /\ DOMAIN t = DOMAIN s
            /\ \A i \in DOMAIN s : i # 1 => t[i] = s[i]
            /\ t[1].order_id = s[1].order_id /\ t[1].is_buy = s[1].is_buy
            /\ t[1].price = s[1].price
            /\ t[1].quantity = s[1].quantity - q
  BY <1>2, <1>3, FrontTaken
<1>5. \A r \in DOMAIN levels : \A i \in DOMAIN levels[r] :
         EntryOK(levels[r][i], b, r, sub, fill) /\ i \in Nat \ {0}
         /\ levels[r][i] \in Orders
  <2> SUFFICES ASSUME NEW r \in DOMAIN levels, NEW i \in DOMAIN levels[r]
               PROVE  EntryOK(levels[r][i], b, r, sub, fill) /\ i \in Nat \ {0}
                      /\ levels[r][i] \in Orders
    OBVIOUS
  <2>1. levels[r] \in Seq(Orders)
    BY <1>1
  <2>2. i \in Nat \ {0} /\ levels[r][i] \in Orders
    BY ONLY <2>1, i \in DOMAIN levels[r]
  <2> QED BY <2>2 DEF SideOK
<1>6. \A i, j \in DOMAIN s : i < j => s[i].order_id < s[j].order_id
  BY DEF SideOK
<1>7. \A i \in DOMAIN s : i # 1 => s[i].order_id # h
  <2> SUFFICES ASSUME NEW i \in DOMAIN s, i # 1 PROVE s[i].order_id # h
    OBVIOUS
  <2>1. 1 < i /\ s[1].order_id < s[i].order_id
    BY <1>2, <1>5, <1>6
  <2>2. s[1].order_id \in Int /\ s[i].order_id \in Int
    BY <1>2, <1>5 DEF EntryOK
  <2> QED BY <1>2, <2>1, <2>2
<1> HIDE DEF new, s, t, h
<1>8. fill2[h] = fill[h] + q
      /\ \A n \in 1 .. Len(sub) : sub[n].is_buy = b /\ n # h => fill2[n] = fill[n]
  BY DEF FrontFilled, h, s
<1>9. EntryOK(s[1], b, p, sub, fill) /\ h = s[1].order_id
      /\ h \in 1 .. Len(sub) /\ sub[h].is_buy = b
  BY <1>2, <1>5 DEF EntryOK, s, h
<1>10. \A o, r : EntryOK(o, b, r, sub, fill) /\ o.order_id # h => EntryOK(o, b, r, sub, fill2)
  BY <1>8 DEF EntryOK
<1>11. ASSUME NEW r \in DOMAIN levels, r # p, NEW i \in DOMAIN levels[r]
       PROVE  EntryOK(levels[r][i], b, r, sub, fill2)
  BY <1>5, <1>9, <1>10, <1>11 DEF EntryOK
<1>12. /\ sub[h].quantity \in Int /\ fill[h] \in Int
       /\ s[1].quantity = sub[h].quantity - fill[h]
  <2>1. sub[h] \in Orders
    BY <1>9
  <2>2. s[1] \in Orders
    BY <1>2
  <2>3. h \in OrderIds
    BY <1>9, <2>2 DEF Orders
  <2> QED BY <1>9, <2>1, <2>3 DEF Orders, EntryOK
<1>13. ASSUME NEW i \in DOMAIN t
       PROVE  EntryOK(t[i], b, p, sub, fill2)
  <2>1. \A j \in DOMAIN s : j # 1 => EntryOK(s[j], b, p, sub, fill2)
    BY <1>5, <1>7, <1>10 DEF s
  <2>2. CASE s[1].quantity = q
    <3>1. i \in Nat \ {0}
      BY <1>4
    <3>2. i + 1 \in DOMAIN s /\ t[i] = s[i + 1] /\ i + 1 # 1
      BY <1>2, <1>4, <2>2, <3>1
    <3> QED BY <2>1, <3>2
  <2>3. CASE s[1].quantity # q /\ i # 1
    BY <1>2, <1>4, <2>1, <2>3
  <2>4. CASE s[1].quantity # q /\ i = 1
    <3>1. /\ t[1].order_id = h /\ t[1].is_buy = b /\ t[1].price = p
          /\ t[1].quantity = sub[h].quantity - fill[h] - q
      BY <1>2, <1>4, <1>9, <1>12, <2>4 DEF EntryOK
    <3>2. t[1].quantity = sub[h].quantity - fill2[h]
      BY <1>8, <1>12, <3>1
    <3> QED BY <1>9, <2>4, <3>1, <3>2 DEF EntryOK
  <2> QED BY <2>2, <2>3, <2>4
<1>14. ASSUME NEW i \in DOMAIN t, NEW j \in DOMAIN t, i < j
       PROVE  t[i].order_id < t[j].order_id
  <2>1. i \in Nat \ {0} /\ j \in Nat \ {0}
    BY <1>4
  <2>2. CASE s[1].quantity = q
    <3>1. /\ i + 1 \in DOMAIN s /\ t[i] = s[i + 1] /\ j + 1 \in DOMAIN s
          /\ t[j] = s[j + 1] /\ i + 1 < j + 1
      BY <1>2, <1>4, <1>14, <2>1, <2>2
    <3> QED BY <1>6, <3>1
  <2>3. CASE s[1].quantity # q
    <3>1. DOMAIN t = DOMAIN s /\ j # 1
      BY <1>4, <1>14, <2>1, <2>3
    <3>2. t[i].order_id = s[i].order_id /\ t[j].order_id = s[j].order_id
      BY <1>2, <1>4, <2>3, <3>1
    <3> QED BY <1>6, <1>14, <3>1, <3>2
  <2> QED BY <2>2, <2>3
<1>15. SideOK(new, b, sub, fill2)
  <2>1. new \in [DOMAIN new -> Seq(Orders)]
    <3> HIDE DEF new
    <3>1. ASSUME NEW r \in DOMAIN new PROVE new[r] \in Seq(Orders)
      <4>1. CASE r = p
        BY <1>4, <4>1 DEF t
      <4>2. CASE r # p
        BY <1>1, <1>3, <3>1, <4>2
      <4> QED BY <4>1, <4>2
    <3>2. new = [r \in DOMAIN new |-> new[r]]
      BY <1>3
    <3> QED BY <3>1, <3>2
  <2>2. \A r \in DOMAIN new : \A i \in DOMAIN new[r] : EntryOK(new[r][i], b, r, sub, fill2)
    BY <1>3, <1>11, <1>13 DEF t
  <2>3. \A r \in DOMAIN new : \A i, j \in DOMAIN new[r] :
           i < j => new[r][i].order_id < new[r][j].order_id
    BY <1>3, <1>14 DEF t, SideOK
  <2> QED BY <1>1, <1>3, <2>1, <2>2, <2>3 DEF SideOK
<1>16. Settled(new, b, sub, fill2)
  <2> SUFFICES ASSUME NEW n \in 1 .. Len(sub), sub[n].is_buy = b
               PROVE  fill2[n] = sub[n].quantity \/ RestsIn(new, n, sub[n].price)
    BY DEF Settled
  <2>1. CASE n = h /\ s[1].quantity = q
    BY <1>8, <1>12, <2>1
  <2>2. CASE n = h /\ s[1].quantity # q
    <3>1. 1 \in DOMAIN t /\ t[1].order_id = h
      BY <1>2, <1>4, <1>9, <2>2
    <3>2. sub[h].price = p
      BY <1>9 DEF EntryOK
    <3> QED BY <1>3, <2>2, <3>1, <3>2 DEF RestsIn, t
  <2>3. CASE n # h
    <3> SUFFICES ASSUME RestsIn(levels, n, sub[n].price)
                 PROVE  RestsIn(new, n, sub[n].price)
      BY <1>8, <2>3 DEF Settled
    <3>1. PICK i \in DOMAIN levels[sub[n].price] :
             levels[sub[n].price][i].order_id = n
      BY DEF RestsIn
    <3>2. CASE sub[n].price # p
      BY <1>3, <3>1, <3>2 DEF RestsIn
    <3>3. CASE sub[n].price = p
      <4>1. i \in DOMAIN s /\ s[i].order_id = n /\ i # 1
        BY <1>9, <2>3, <3>1, <3>3 DEF s
      <4>2. \E k \in DOMAIN t : t[k] = s[i]
        BY <1>2, <1>4, <4>1
      <4> QED BY <1>3, <3>3, <4>1, <4>2 DEF RestsIn, t
    <3> QED BY <3>2, <3>3
  <2> QED BY <2>1, <2>2, <2>3
<1> QED BY <1>3, <1>15, <1>16 DEF new

LEMMA EraseKeeps ==
    ASSUME NEW sub, NEW fill, NEW levels, NEW b \in BOOLEAN, NEW p \in DOMAIN levels,
           SideOK(levels, b, sub, fill), Settled(levels, b, sub, fill)
    PROVE  /\ SideOK(EraseIfEmpty(levels, p), b, sub, fill)
           /\ Settled(EraseIfEmpty(levels, p), b, sub, fill)
           /\ \A r : r \in DOMAIN EraseIfEmpty(levels, p) <=>
                     r \in DOMAIN levels /\ (r # p \/ levels[r] # <<>>)
           /\ \A r \in DOMAIN EraseIfEmpty(levels, p) :
                 EraseIfEmpty(levels, p)[r] = levels[r]
<1> DEFINE new == EraseIfEmpty(levels, p)
<1>1. CASE levels[p] # <<>>
  <2>1. new = levels
    BY <1>1 DEF EraseIfEmpty
  <2> QED BY <1>1, <2>1
<1>2. CASE levels[p] = <<>>
  <2>1. /\ DOMAIN new = DOMAIN levels \ {p}
        /\ \A r \in DOMAIN new : new[r] = levels[r]
        /\ new = [r \in DOMAIN new |-> new[r]]
    BY <1>2 DEF EraseIfEmpty, Erase
  <2> HIDE DEF new
  <2>2. SideOK(new, b, sub, fill)
    BY <2>1 DEF SideOK
  <2>3. \A n, r : RestsIn(levels, n, r) => RestsIn(new, n, r)
    BY <1>2, <2>1 DEF RestsIn
  <2>4. Settled(new, b, sub, fill)
    BY <2>3 DEF Settled
  <2>5. \A r : r \in DOMAIN new <=> r \in DOMAIN levels /\ (r # p \/ levels[r] # <<>>)
    BY <1>2, <2>1
  <2> QED BY <2>1, <2>2, <2>4, <2>5 DEF new
<1> QED BY <1>1, <1>2

-----------------------------------------------------------------------------
(***************************************************************************)
(* The steps of the book                                                   *)
(***************************************************************************)
LEMMA BookInvInit == Init => BookInv
<1> SUFFICES ASSUME Init PROVE BookInv
  OBVIOUS
<1> USE DEF Init
<1>1. HistoryOK
  BY DEF HistoryOK
<1>2. Books
  BY DEF Books, SideOK, Settled, NoLevels
<1>3. IteratorsValid /\ AtBestLevels
  BY DEF IteratorsValid, AtBestLevels, NoLevels
<1> QED BY <1>1, <1>2, <1>3 DEF BookInv

LEMMA SubmitKeeps ==
    ASSUME BookInv, NEW b \in BOOLEAN, NEW p \in Prices, NEW q \in Quantities,
           Submit(b, p, q)
    PROVE  BookInv'
<1> USE DEF matchVars
<1>1. PICK o \in Orders : o = Order(Len(submitted) + 1, b, p, q)
  <2>1. Len(submitted) \in Nat /\ Len(submitted) < MaxOrders
    BY DEF Submit, BookInv, HistoryOK
  <2>2. Order(Len(submitted) + 1, b, p, q) \in Orders
    BY <2>1, NumbersAssumption DEF Order, Orders, OrderIds
  <2> QED BY ONLY <2>2
<1>2. /\ o.order_id = Len(submitted) + 1 /\ o.is_buy = b /\ o.price = p
      /\ o.order_id \in OrderIds
  BY <1>1 DEF Order, Orders
<1>3. /\ mpc = "idle" /\ submitted' = Append(submitted, o)
      /\ UNCHANGED <<mpc, buy_it, sell_it, trades, filled>>
      /\ b => buy_levels' = AddOrder(buy_levels, o) /\ UNCHANGED sell_levels
      /\ ~b => sell_levels' = AddOrder(sell_levels, o) /\ UNCHANGED buy_levels
  BY <1>1 DEF Submit
<1>4. /\ submitted \in Seq(Orders) /\ Len(submitted) \in Nat
      /\ \A n \in 1 .. Len(submitted) : submitted[n].order_id = n
      /\ filled \in [OrderIds -> Int]
      /\ \A n \in OrderIds : n > Len(submitted) => filled[n] = 0
  BY DEF BookInv, HistoryOK
<1>5. /\ submitted' \in Seq(Orders) /\ Len(submitted') = Len(submitted) + 1
      /\ \A n \in 1 .. Len(submitted) : submitted'[n] = submitted[n]
      /\ submitted'[Len(submitted) + 1] = o
  BY <1>3, <1>4
<1>6. HistoryOK'
  BY <1>2, <1>3, <1>4, <1>5 DEF HistoryOK, OrderIds
<1>7. filled[o.order_id] = 0
  BY <1>2, <1>4
<1>8. ASSUME NEW levels, NEW c \in BOOLEAN, c # b,
             SideOK(levels, c, submitted, filled), Settled(levels, c, submitted, filled)
      PROVE  SideOK(levels, c, submitted', filled) /\ Settled(levels, c, submitted', filled)
  <2>1. \A e, r : EntryOK(e, c, r, submitted, filled) => EntryOK(e, c, r, submitted', filled)
    BY <1>4, <1>5 DEF EntryOK
  <2>2. \A n \in 1 .. Len(submitted') : submitted'[n].is_buy = c => n \in 1 .. Len(submitted)
    BY <1>2, <1>4, <1>5, <1>8
  <2> QED BY <1>5, <1>8, <2>1, <2>2 DEF SideOK, Settled
<1>9. CASE b
  <2>1. /\ SideOK(buy_levels', TRUE, submitted', filled)
        /\ Settled(buy_levels', TRUE, submitted', filled)
        /\ \A r \in DOMAIN buy_levels' :
              buy_levels'[r] = <<>> => r \in DOMAIN buy_levels /\ buy_levels[r] = <<>>
    <3>1. SideOK(buy_levels, TRUE, submitted, filled)
          /\ Settled(buy_levels, TRUE, submitted, filled)
      BY DEF BookInv, Books
    <3>2. o.is_buy = TRUE
      BY <1>2, <1>9
    <3>3. /\ SideOK(AddOrder(buy_levels, o), TRUE, Append(submitted, o), filled)
          /\ Settled(AddOrder(buy_levels, o), TRUE, Append(submitted, o), filled)
          /\ \A r \in DOMAIN AddOrder(buy_levels, o) :
                AddOrder(buy_levels, o)[r] = <<>> =>
                   r \in DOMAIN buy_levels /\ buy_levels[r] = <<>>
      BY <1>2, <1>4, <1>7, <3>1, <3>2, AddOrderKeeps
    <3> QED BY <1>3, <1>9, <3>3
  <2>2. SideOK(sell_levels', FALSE, submitted', filled)
        /\ Settled(sell_levels', FALSE, submitted', filled)
    BY <1>3, <1>8, <1>9 DEF BookInv, Books
  <2>3. Books'
    BY <1>3, <2>1, <2>2 DEF Books
  <2>4. IteratorsValid'
    BY <1>3, <1>9, <2>1 DEF BookInv, IteratorsValid
  <2> QED BY <1>3, <1>6, <2>3, <2>4 DEF BookInv, AtBestLevels
<1>10. CASE ~b
  <2>1. /\ SideOK(sell_levels', FALSE, submitted', filled)
        /\ Settled(sell_levels', FALSE, submitted', filled)
        /\ \A r \in DOMAIN sell_levels' :
              sell_levels'[r] = <<>> => r \in DOMAIN sell_levels /\ sell_levels[r] = <<>>
    <3>1. SideOK(sell_levels, FALSE, submitted, filled)
          /\ Settled(sell_levels, FALSE, submitted, filled)
      BY DEF BookInv, Books
    <3>2. o.is_buy = FALSE
      BY <1>2, <1>10
    <3>3. /\ SideOK(AddOrder(sell_levels, o), FALSE, Append(submitted, o), filled)
          /\ Settled(AddOrder(sell_levels, o), FALSE, Append(submitted, o), filled)
          /\ \A r \in DOMAIN AddOrder(sell_levels, o) :
                AddOrder(sell_levels, o)[r] = <<>> =>
                   r \in DOMAIN sell_levels /\ sell_levels[r] = <<>>
      BY <1>2, <1>4, <1>7, <3>1, <3>2, AddOrderKeeps
    <3> QED BY <1>3, <1>10, <3>3
  <2>2. SideOK(buy_levels', TRUE, submitted', filled)
        /\ Settled(buy_levels', TRUE, submitted', filled)
    BY <1>3, <1>8, <1>10 DEF BookInv, Books
  <2>3. Books'
    BY <1>3, <2>1, <2>2 DEF Books
  <2>4. IteratorsValid'
    BY <1>3, <1>10, <2>1 DEF BookInv, IteratorsValid
  <2> QED BY <1>3, <1>6, <2>3, <2>4 DEF BookInv, AtBestLevels
<1> QED BY <1>9, <1>10

\* The outer loop between two level pairs.
LEMMA OuterLoopKeeps ==
    ASSUME BookInv, MatchBegin \/ MatchEnd \/ EnterLevels
    PROVE  BookInv'
<1> USE DEF bookVars
<1>1. UNCHANGED <<bookVars, submitted, filled>>
  BY DEF MatchBegin, MatchEnd, EnterLevels
<1>2. HistoryOK' /\ Books'
  BY <1>1 DEF BookInv, HistoryOK, Books
<1>3. DOMAIN buy_levels \subseteq Prices /\ DOMAIN sell_levels \subseteq Prices
  BY DEF BookInv, Books, SideOK
<1>4. \A p : (p \in DOMAIN buy_levels => buy_levels[p] # <<>>)
             /\ (p \in DOMAIN sell_levels => sell_levels[p] # <<>>)
  BY DEF BookInv, IteratorsValid, MatchBegin, MatchEnd, EnterLevels
<1>5. CASE MatchBegin
  <2>1. buy_it' \in DOMAIN buy_levels \cup {End} /\ sell_it' \in DOMAIN sell_levels \cup {End}
    BY <1>3, <1>5, FirstIsBest DEF MatchBegin
  <2>2. IteratorsValid' /\ AtBestLevels'
    BY <1>1, <1>4, <1>5, <2>1 DEF MatchBegin, IteratorsValid, AtBestLevels
  <2> QED BY <1>2, <1>5, <2>2 DEF BookInv, MatchBegin
<1>6. CASE MatchEnd
  BY <1>1, <1>2, <1>4, <1>6 DEF BookInv, MatchEnd, IteratorsValid, AtBestLevels
<1>7. CASE EnterLevels
  <2>1. buy_it # End /\ sell_it # End
    BY <1>7 DEF EnterLevels, Crosses
  <2>2. IteratorsValid'
    BY <1>1, <1>4, <1>7, <2>1 DEF BookInv, EnterLevels, IteratorsValid
  <2>3. BuyQueue # <<>> /\ SellQueue # <<>>
    BY <1>4, <1>7, <2>1 DEF BookInv, EnterLevels, IteratorsValid, BuyQueue, SellQueue
  <2>4. AtBestLevels'
    BY <1>1, <1>7, <2>3 DEF BookInv, EnterLevels, AtBestLevels, BuyQueue, SellQueue
  <2> QED BY <1>2, <1>7, <2>2, <2>4 DEF BookInv, EnterLevels
<1> QED BY <1>5, <1>6, <1>7

\* What the front entries of the pair are.
LEMMA Fronts ==
    ASSUME BookInv, mpc = "pair", BuyQueue # <<>>, SellQueue # <<>>
    PROVE  /\ buy_it \in DOMAIN buy_levels /\ sell_it \in DOMAIN sell_levels
           /\ BuyQueue \in Seq(Orders) /\ SellQueue \in Seq(Orders)
           /\ Head(BuyQueue) = BuyQueue[1] /\ 1 \in DOMAIN BuyQueue
           /\ Head(SellQueue) = SellQueue[1] /\ 1 \in DOMAIN SellQueue
           /\ EntryOK(Head(BuyQueue), TRUE, buy_it, submitted, filled)
           /\ EntryOK(Head(SellQueue), FALSE, sell_it, submitted, filled)
           /\ Head(BuyQueue) \in Orders /\ Head(SellQueue) \in Orders
<1>1. buy_it \in DOMAIN buy_levels /\ sell_it \in DOMAIN sell_levels
  BY DEF BookInv, IteratorsValid
<1>2. BuyQueue \in Seq(Orders) /\ SellQueue \in Seq(Orders)
  BY <1>1 DEF BookInv, Books, SideOK, BuyQueue, SellQueue
<1>3. /\ Head(BuyQueue) = BuyQueue[1] /\ 1 \in DOMAIN BuyQueue
      /\ Head(SellQueue) = SellQueue[1] /\ 1 \in DOMAIN SellQueue
      /\ Head(BuyQueue) \in Orders /\ Head(SellQueue) \in Orders
  BY <1>2
<1> QED BY <1>1, <1>2, <1>3 DEF BookInv, Books, SideOK, BuyQueue, SellQueue

LEMMA FillKeeps ==
    ASSUME BookInv, Fill
    PROVE  BookInv'
<1> DEFINE buy == Head(BuyQueue)
           sell == Head(SellQueue)
           qty == MinQuantity(buy, sell)
<1>1. /\ mpc = "pair" /\ BuyQueue # <<>> /\ SellQueue # <<>>
      /\ trades' = Append(trades, TradeOf(buy, sell, sell_it))
      /\ buy_levels' = TakeFront(buy_levels, buy_it, qty)
      /\ sell_levels' = TakeFront(sell_levels, sell_it, qty)
      /\ filled' = [filled EXCEPT ![buy.order_id] = @ + qty,
                                  ![sell.order_id] = @ + qty]
      /\ UNCHANGED <<mpc, buy_it, sell_it, submitted>>
  BY DEF Fill
<1>2. /\ buy_it \in DOMAIN buy_levels /\ sell_it \in DOMAIN sell_levels
      /\ EntryOK(buy, TRUE, buy_it, submitted, filled)
      /\ EntryOK(sell, FALSE, sell_it, submitted, filled)
      /\ buy \in Orders /\ sell \in Orders
  BY <1>1, Fronts
<1> HIDE DEF buy, sell, qty
<1>3. qty \in Int /\ buy.order_id \in OrderIds /\ sell.order_id \in OrderIds
  BY <1>2 DEF Orders, qty, MinQuantity
<1>4. /\ buy.order_id \in 1 .. Len(submitted) /\ sell.order_id \in 1 .. Len(submitted)
      /\ submitted[buy.order_id].is_buy /\ ~submitted[sell.order_id].is_buy
      /\ buy.order_id # sell.order_id
      /\ 1 .. Len(submitted) \subseteq OrderIds
  <2>1. Len(submitted) \in Nat /\ \A n \in 1 .. Len(submitted) : n \in OrderIds
    <3>1. submitted \in Seq(Orders)
          /\ \A n \in 1 .. Len(submitted) : submitted[n].order_id = n
      BY DEF BookInv, HistoryOK
    <3>2. \A n \in 1 .. Len(submitted) : submitted[n] \in Orders
      BY <3>1
    <3>3. \A n \in 1 .. Len(submitted) : submitted[n].order_id \in OrderIds
      BY <3>2 DEF Orders
    <3> QED BY <3>1, <3>3
  <2> QED BY <1>2, <2>1 DEF EntryOK
<1>5. /\ submitted \in Seq(Orders) /\ filled \in [OrderIds -> Int]
  BY DEF BookInv, HistoryOK
<1>6. /\ filled' \in [OrderIds -> Int]
      /\ filled'[buy.order_id] = filled[buy.order_id] + qty
      /\ filled'[sell.order_id] = filled[sell.order_id] + qty
      /\ \A n \in OrderIds :
            n # buy.order_id /\ n # sell.order_id => filled'[n] = filled[n]
  <2> DEFINE x == buy.order_id
             y == sell.order_id
  <2>1. filled' = [filled EXCEPT ![x] = @ + qty, ![y] = @ + qty]
    BY <1>1
  <2>2. x \in OrderIds /\ y \in OrderIds /\ x # y /\ qty \in Int
    BY <1>3, <1>4
  <2> HIDE DEF x, y
  <2>3. /\ DOMAIN filled' = OrderIds /\ filled' = [n \in OrderIds |-> filled'[n]]
        /\ filled'[x] = filled[x] + qty /\ filled'[y] = filled[y] + qty
        /\ \A n \in OrderIds : n # x /\ n # y => filled'[n] = filled[n]
    <3>1. DOMAIN filled' = OrderIds /\ filled' = [n \in OrderIds |-> filled'[n]]
      BY <1>5, <2>1
    <3>2. filled'[x] = filled[x] + qty /\ filled'[y] = filled[y] + qty
      BY <1>5, <2>1, <2>2
    <3>3. \A n \in OrderIds : n # x /\ n # y => filled'[n] = filled[n]
      BY <1>5, <2>1, <2>2
    <3> QED BY <3>1, <3>2, <3>3
  <2>4. \A n \in OrderIds : filled'[n] \in Int
    BY <1>5, <2>2, <2>3
  <2>5. filled' \in [OrderIds -> Int]
    BY <2>3, <2>4
  <2> QED BY <2>3, <2>5 DEF x, y
<1>7. HistoryOK'
  BY <1>1, <1>4, <1>5, <1>6, SMTT(30) DEF BookInv, HistoryOK, OrderIds
<1>8. /\ SideOK(buy_levels', TRUE, submitted, filled')
      /\ Settled(buy_levels', TRUE, submitted, filled')
      /\ DOMAIN buy_levels' = DOMAIN buy_levels
      /\ \A r \in DOMAIN buy_levels : r # buy_it => buy_levels'[r] = buy_levels[r]
  <2>0. PICK b \in BOOLEAN : b = TRUE
    OBVIOUS
  <2>1. \A n \in 1 .. Len(submitted) : submitted[n].is_buy = b /\ n # buy.order_id =>
           filled'[n] = filled[n]
    BY <1>4, <1>6, <2>0
  <2>2. SideOK(buy_levels, b, submitted, filled)
        /\ Settled(buy_levels, b, submitted, filled)
    BY <2>0 DEF BookInv, Books
  <2>3. buy_levels[buy_it] # <<>> /\ Head(buy_levels[buy_it]) = buy
    BY <1>1 DEF BuyQueue, buy
  <2>4. PICK fill \in [OrderIds -> Int] : fill = filled'
    BY <1>6
  <2>5. FrontFilled(buy_levels, buy_it, qty, b, submitted, filled, fill)
    BY <1>6, <2>1, <2>3, <2>4 DEF FrontFilled
  <2>6. LET new == TakeFront(buy_levels, buy_it, qty) IN
        /\ SideOK(new, b, submitted, fill) /\ Settled(new, b, submitted, fill)
        /\ DOMAIN new = DOMAIN buy_levels
        /\ \A r \in DOMAIN buy_levels : r # buy_it => new[r] = buy_levels[r]
    BY <1>2, <1>3, <1>5, <2>2, <2>3, <2>5, TakeFrontKeeps, SMTT(30)
  <2> QED BY <1>1, <2>0, <2>4, <2>6
<1>9. /\ SideOK(sell_levels', FALSE, submitted, filled')
      /\ Settled(sell_levels', FALSE, submitted, filled')
      /\ DOMAIN sell_levels' = DOMAIN sell_levels
      /\ \A r \in DOMAIN sell_levels : r # sell_it => sell_levels'[r] = sell_levels[r]
  <2>0. PICK b \in BOOLEAN : b = FALSE
    OBVIOUS
  <2>1. \A n \in 1 .. Len(submitted) : submitted[n].is_buy = b /\ n # sell.order_id =>
           filled'[n] = filled[n]
    BY <1>4, <1>6, <2>0
  <2>2. SideOK(sell_levels, b, submitted, filled)
        /\ Settled(sell_levels, b, submitted, filled)
    BY <2>0 DEF BookInv, Books
  <2>3. sell_levels[sell_it] # <<>> /\ Head(sell_levels[sell_it]) = sell
    BY <1>1 DEF SellQueue, sell
  <2>4. PICK fill \in [OrderIds -> Int] : fill = filled'
    BY <1>6
  <2>5. FrontFilled(sell_levels, sell_it, qty, b, submitted, filled, fill)
    BY <1>6, <2>1, <2>3, <2>4 DEF FrontFilled
  <2>6. LET new == TakeFront(sell_levels, sell_it, qty) IN
        /\ SideOK(new, b, submitted, fill) /\ Settled(new, b, submitted, fill)
        /\ DOMAIN new = DOMAIN sell_levels
        /\ \A r \in DOMAIN sell_levels : r # sell_it => new[r] = sell_levels[r]
    BY <1>2, <1>3, <1>5, <2>2, <2>3, <2>5, TakeFrontKeeps, SMTT(30)
  <2> QED BY <1>1, <2>0, <2>4, <2>6
<1>10. Books'
  BY <1>1, <1>8, <1>9 DEF Books
<1>11. IteratorsValid'
  BY <1>1, <1>8, <1>9 DEF BookInv, IteratorsValid
<1>12. trades' \in Seq(Trades) /\ trades' # <<>>
  <2>1. TradeOf(buy, sell, sell_it) \in Trades
    <3>1. sell_it \in Prices
      BY <1>2 DEF BookInv, Books, SideOK
    <3>2. buy.symbol = Symbol
      BY <1>2 DEF Orders
    <3> QED BY <1>3, <3>1, <3>2 DEF TradeOf, Trades, qty
  <2>2. trades \in Seq(Trades)
    BY DEF BookInv
  <2> QED BY <1>1, <2>1, <2>2, AppendShape
<1>13. AtBestLevels'
  BY <1>12 DEF AtBestLevels
<1> QED BY <1>1, <1>7, <1>10, <1>11, <1>12, <1>13 DEF BookInv

LEMMA NextLevelsKeeps ==
    ASSUME BookInv, NextLevels
    PROVE  BookInv'
<1>1. /\ mpc = "pair" /\ mpc' = "levels"
      /\ BuyQueue = <<>> \/ SellQueue = <<>>
      /\ buy_it' = NextBuy(buy_levels, buy_it)
      /\ sell_it' = NextSell(sell_levels, sell_it)
      /\ buy_levels' = EraseIfEmpty(buy_levels, buy_it)
      /\ sell_levels' = EraseIfEmpty(sell_levels, sell_it)
      /\ UNCHANGED <<trades, submitted, filled>>
  BY DEF NextLevels
<1>2. /\ buy_it \in DOMAIN buy_levels /\ sell_it \in DOMAIN sell_levels
      /\ DOMAIN buy_levels \subseteq Prices /\ DOMAIN sell_levels \subseteq Prices
  BY <1>1 DEF BookInv, IteratorsValid, Books, SideOK
<1>3. /\ buy_it' \in {q \in DOMAIN buy_levels : q < buy_it} \cup {End}
      /\ sell_it' \in {q \in DOMAIN sell_levels : q > sell_it} \cup {End}
  BY <1>1, <1>2, FirstIsBest DEF NextBuy, NextSell
<1>4. /\ SideOK(buy_levels', TRUE, submitted, filled)
      /\ Settled(buy_levels', TRUE, submitted, filled)
      /\ \A r : r \in DOMAIN buy_levels' <=>
                r \in DOMAIN buy_levels /\ (r # buy_it \/ buy_levels[r] # <<>>)
      /\ \A r \in DOMAIN buy_levels' : buy_levels'[r] = buy_levels[r]
  <2>0. PICK b \in BOOLEAN : b = TRUE
    OBVIOUS
  <2>1. SideOK(buy_levels, b, submitted, filled)
        /\ Settled(buy_levels, b, submitted, filled)
    BY <2>0 DEF BookInv, Books
  <2>2. LET new == EraseIfEmpty(buy_levels, buy_it) IN
        /\ SideOK(new, b, submitted, filled) /\ Settled(new, b, submitted, filled)
        /\ \A r : r \in DOMAIN new <=>
                  r \in DOMAIN buy_levels /\ (r # buy_it \/ buy_levels[r] # <<>>)
        /\ \A r \in DOMAIN new : new[r] = buy_levels[r]
    BY <1>2, <2>1, EraseKeeps
  <2> QED BY <1>1, <2>0, <2>2
<1>5. /\ SideOK(sell_levels', FALSE, submitted, filled)
      /\ Settled(sell_levels', FALSE, submitted, filled)
      /\ \A r : r \in DOMAIN sell_levels' <=>
                r \in DOMAIN sell_levels /\ (r # sell_it \/ sell_levels[r] # <<>>)
      /\ \A r \in DOMAIN sell_levels' : sell_levels'[r] = sell_levels[r]
  <2>0. PICK b \in BOOLEAN : b = FALSE
    OBVIOUS
  <2>1. SideOK(sell_levels, b, submitted, filled)
        /\ Settled(sell_levels, b, submitted, filled)
    BY <2>0 DEF BookInv, Books
  <2>2. LET new == EraseIfEmpty(sell_levels, sell_it) IN
        /\ SideOK(new, b, submitted, filled) /\ Settled(new, b, submitted, filled)
        /\ \A r : r \in DOMAIN new <=>
                  r \in DOMAIN sell_levels /\ (r # sell_it \/ sell_levels[r] # <<>>)
        /\ \A r \in DOMAIN new : new[r] = sell_levels[r]
    BY <1>2, <2>1, EraseKeeps
  <2> QED BY <1>1, <2>0, <2>2
<1>6. HistoryOK' /\ Books'
  BY <1>1, <1>4, <1>5 DEF BookInv, HistoryOK, Books
<1>7. IteratorsValid'
  <2>1. buy_it' \in DOMAIN buy_levels' \cup {End} /\ sell_it' \in DOMAIN sell_levels' \cup {End}
    <3>0. buy_it \in Int /\ sell_it \in Int
      BY <1>2, EndIsNoPrice
    <3>1. /\ \A q \in Int : q < buy_it => q # buy_it
          /\ \A q \in Int : q > sell_it => q # sell_it
      BY <3>0
    <3> QED BY <1>2, <1>3, <1>4, <1>5, <3>1, EndIsNoPrice
  <2> QED BY <1>1, <1>4, <1>5, <2>1 DEF BookInv, IteratorsValid
<1>8. trades # <<>>
  BY <1>1 DEF BookInv, AtBestLevels
<1> QED BY <1>1, <1>6, <1>7, <1>8 DEF BookInv, AtBestLevels

LEMMA BookInvNext == BookInv /\ [Next]_vars => BookInv'
<1> SUFFICES ASSUME BookInv, [Next]_vars PROVE BookInv'
  OBVIOUS
<1>1. CASE UNCHANGED vars
  BY <1>1 DEF vars, bookVars, matchVars, BookInv, HistoryOK, Books, IteratorsValid,
              AtBestLevels, BuyQueue, SellQueue
<1> QED BY <1>1, SubmitKeeps, OuterLoopKeeps, FillKeeps, NextLevelsKeeps
        DEF Next, MatchStep

LEMMA BookCorrect == Spec => []BookInv
  BY BookInvInit, BookInvNext, PTL DEF Spec

-----------------------------------------------------------------------------
(***************************************************************************)
(* What the invariant says                                                 *)
(***************************************************************************)
LEMMA LedgerFromInv == BookInv => LedgerBalanced
<1> SUFFICES ASSUME BookInv PROVE LedgerBalanced
  OBVIOUS
<1>0. /\ submitted \in Seq(Orders)
      /\ \A n \in 1 .. Len(submitted) : submitted[n].order_id = n
  BY DEF BookInv, HistoryOK
<1>1. ASSUME NEW b \in BOOLEAN PROVE SideOK(Levels(b), b, submitted, filled)
  BY DEF BookInv, Books, Levels
<1>2. ASSUME NEW b \in BOOLEAN, NEW p \in DOMAIN Levels(b), NEW i \in DOMAIN Levels(b)[p]
      PROVE  LET o == Levels(b)[p][i] IN
             o = [submitted[o.order_id] EXCEPT !.quantity = @ - filled[o.order_id]]
               /\ o.is_buy = b /\ o.price = p
  <2>1. PICK o : o = Levels(b)[p][i]
    OBVIOUS
  <2>2. Levels(b)[p] \in Seq(Orders) /\ EntryOK(o, b, p, submitted, filled)
    BY <1>1, <2>1 DEF SideOK
  <2>3. o \in Orders
    BY <2>1, <2>2
  <2>4. submitted[o.order_id] \in Orders /\ submitted[o.order_id].order_id = o.order_id
    BY <1>0, <2>2 DEF EntryOK
  <2>5. o = [submitted[o.order_id] EXCEPT !.quantity = @ - filled[o.order_id]]
    BY <2>2, <2>3, <2>4 DEF EntryOK, Orders
  <2> QED BY <2>1, <2>2, <2>5 DEF EntryOK
<1>3. ASSUME NEW n \in 1 .. Len(submitted)
      PROVE  filled[n] = submitted[n].quantity \/ IsResting(n)
  <2>1. submitted[n].is_buy \in BOOLEAN
    <3>1. submitted[n] \in Orders
      BY <1>0
    <3> QED BY <3>1 DEF Orders
  <2> QED BY <2>1 DEF BookInv, Books, Settled, RestsIn, IsResting, Levels
<1> QED BY <1>2, <1>3 DEF LedgerBalanced

\* Every order rests at its own price with exactly what has not been traded of
\* it, or has been traded in full: no step of add_order or match() loses or
\* repeats a quantity (orderbook_optimized.hpp:11-55).
THEOREM LedgerIsBalanced == Spec => []LedgerBalanced
  BY LedgerFromInv, BookCorrect, PTL

\* match() dereferences no iterator of a level it has erased, and leaves no
\* empty level behind (orderbook_optimized.hpp:22-53).
THEOREM IteratorsStayValid == Spec => []IteratorsValid
<1>1. BookInv => IteratorsValid
  BY DEF BookInv
<1> QED BY <1>1, BookCorrect, PTL

\* The front order of the best level of a side goes before every other order
\* that rests on the side.
LEMMA BestFrontHasPriority ==
    ASSUME BookInv, NEW b \in BOOLEAN, NEW p \in DOMAIN Levels(b), Levels(b)[p] # <<>>,
           \A r \in DOMAIN Levels(b) : IF b THEN r <= p ELSE r >= p
    PROVE  HasPriority(Head(Levels(b)[p]).order_id)
<1> DEFINE s == Levels(b)[p]
           n == Head(s).order_id
<1>1. SideOK(Levels(b), b, submitted, filled)
  BY DEF BookInv, Books, Levels
<1>2. s \in Seq(Orders) /\ Head(s) = s[1] /\ 1 \in DOMAIN s /\ s # <<>>
      /\ \A i \in DOMAIN s : i # 1 => 1 < i
  <2>1. s \in Seq(Orders) /\ s # <<>>
    BY <1>1 DEF SideOK
  <2> QED BY ONLY <2>1
<1>3. /\ EntryOK(s[1], b, p, submitted, filled) /\ n = s[1].order_id
      /\ \A i \in DOMAIN s : i # 1 => n < s[i].order_id
  BY <1>1, <1>2 DEF SideOK
<1>4. submitted[n].is_buy = b /\ submitted[n].price = p /\ p \in Int
  BY <1>1, <1>3, EndIsNoPrice DEF EntryOK, SideOK
<1>5. ASSUME NEW m \in 1 .. Len(submitted), m # n, submitted[m].is_buy = b, IsResting(m)
      PROVE  \/ b /\ submitted[m].price < p
             \/ ~b /\ submitted[m].price > p
             \/ submitted[m].price = p /\ n < m
  <2>1. PICK r \in DOMAIN Levels(b) : r = submitted[m].price
             /\ \E i \in DOMAIN Levels(b)[r] : Levels(b)[r][i].order_id = m
    BY <1>5 DEF IsResting
  <2>2. r \in Int
    BY <1>1, EndIsNoPrice DEF SideOK
  <2>3. CASE r = p
    BY <1>3, <2>1, <2>3, <1>5
  <2>4. CASE r # p
    BY <1>4, <2>1, <2>2, <2>4
  <2> QED BY <2>3, <2>4
<1> QED BY <1>4, <1>5 DEF HasPriority

\* The first trade of a call of match() is between the two orders that
\* price-time priority selects: the iterators start at the best levels, and a
\* level keeps its orders in the order of arrival
\* (orderbook_optimized.hpp:22-29).
THEOREM FirstTradeServesPriority == Spec => FirstTradeHasPriority
<1>1. ASSUME BookInv, Fill, trades = <<>> PROVE TradesByPriority
  <2>1. /\ mpc = "pair" /\ BuyQueue # <<>> /\ SellQueue # <<>>
        /\ buy_it = FirstBuy(DOMAIN buy_levels) /\ sell_it = FirstSell(DOMAIN sell_levels)
    BY <1>1 DEF Fill, BookInv, AtBestLevels
  <2>2. /\ buy_it \in DOMAIN buy_levels /\ sell_it \in DOMAIN sell_levels
        /\ buy_it # End /\ sell_it # End
        /\ DOMAIN buy_levels \subseteq Prices /\ DOMAIN sell_levels \subseteq Prices
    BY <1>1, <2>1 DEF BookInv, IteratorsValid, Books, SideOK
  <2>3. /\ \A r \in DOMAIN buy_levels : r <= buy_it
        /\ \A r \in DOMAIN sell_levels : r >= sell_it
    BY <2>1, <2>2, FirstIsBest
  <2>4. HasPriority(Head(BuyQueue).order_id)
    <3>1. PICK b \in BOOLEAN : b = TRUE
      OBVIOUS
    <3>2. buy_levels = Levels(b)
      BY <3>1 DEF Levels
    <3> QED BY <1>1, <2>1, <2>2, <2>3, <3>1, <3>2, BestFrontHasPriority DEF BuyQueue
  <2>5. HasPriority(Head(SellQueue).order_id)
    <3>1. PICK b \in BOOLEAN : b = FALSE
      OBVIOUS
    <3>2. sell_levels = Levels(b)
      BY <3>1 DEF Levels
    <3> QED BY <1>1, <2>1, <2>2, <2>3, <3>1, <3>2, BestFrontHasPriority DEF SellQueue
  <2> QED BY <2>4, <2>5 DEF TradesByPriority
<1>2. BookInv /\ [Next]_vars => [Fill /\ trades = <<>> => TradesByPriority]_vars
  BY <1>1
<1> QED BY <1>2, BookCorrect, PTL DEF Spec, FirstTradeHasPriority

-----------------------------------------------------------------------------
(***************************************************************************)
(* The engine.  A map of levels is finite, so that begin() and ++ have a   *)
(* best price to give; all that is traded is a number.                     *)
(***************************************************************************)
Resting == [order_id : Ids, symbol : Symbols, is_buy : BOOLEAN,
            price : Prices, quantity : Int]
EngineTrades == [buy_order_id : Ids, sell_order_id : Ids, symbol : Symbols,
                 price : Int, quantity : Int]
FinitePrices == {D \in SUBSET Prices : IsFiniteSet(D)}
LevelMaps == UNION {[D -> Seq(Resting)] : D \in FinitePrices}
BookStates == [buys : LevelMaps, sells : LevelMaps]
Cursors == Prices \cup {End}

\* match() between two of its steps.
MatchStates ==
    {m \in [book : BookStates, trades : Seq(EngineTrades), bp : Cursors, sp : Cursors] :
        /\ m.bp \in DOMAIN m.book.buys \cup {End}
        /\ m.sp \in DOMAIN m.book.sells \cup {End}}

LEMMA LevelMap ==
    /\ \A levels \in LevelMaps : /\ DOMAIN levels \in FinitePrices
                                 /\ levels \in [DOMAIN levels -> Seq(Resting)]
                                 /\ \A p \in DOMAIN levels : levels[p] \in Seq(Resting)
    /\ \A D \in FinitePrices : \A levels \in [D -> Seq(Resting)] : levels \in LevelMaps
  BY DEF LevelMaps

\* A finite set of prices has a highest and a lowest.
LEMMA FiniteHasBest ==
    ASSUME NEW D \in FinitePrices, D # {}
    PROVE  /\ \E m \in D : \A d \in D : d <= m
           /\ \E m \in D : \A d \in D : d >= m
<1>1. D \subseteq Int /\ IsFiniteSet(D)
  BY NumbersAssumption DEF FinitePrices
<1>2. \E m \in D : \A d \in D : d <= m
  <2> DEFINE B == {s \in SUBSET D : s # {} /\ ~\E m \in s : \A d \in s : d <= m}
  <2> SUFFICES ASSUME B # {} PROVE FALSE
    OBVIOUS
  <2>1. B \in SUBSET SUBSET D
    OBVIOUS
  <2>2. PICK s \in B : \A x \in s : s \ {x} \notin B
    <3> HIDE DEF B
    <3> QED BY <1>1, <2>1, SmallestExists
  <2>3. s \in SUBSET D /\ s # {} /\ ~\E m \in s : \A d \in s : d <= m
    OBVIOUS
  <2>4. PICK x \in s : TRUE
    BY <2>3
  <2>5. CASE s \ {x} = {}
    BY <1>1, <2>3, <2>4, <2>5
  <2>6. CASE s \ {x} # {}
    <3>1. PICK m \in s \ {x} : \A d \in s \ {x} : d <= m
      BY <2>2, <2>3, <2>6
    <3>2. x \in Int /\ m \in Int /\ \A d \in s : d \in Int
      BY <1>1, <2>3
    <3>3. CASE x <= m
      BY <2>3, <3>1, <3>3
    <3>4. CASE ~(x <= m)
      <4>1. m <= x
        BY <3>2, <3>4
      <4>2. \A d \in s : d <= x
        BY <3>1, <3>2, <4>1
      <4> QED BY <2>3, <4>2
    <3> QED BY <3>3, <3>4
  <2> QED BY <2>5, <2>6
<1>3. \E m \in D : \A d \in D : d >= m
  <2> DEFINE B == {s \in SUBSET D : s # {} /\ ~\E m \in s : \A d \in s : d >= m}
  <2> SUFFICES ASSUME B # {} PROVE FALSE
    OBVIOUS
  <2>1. B \in SUBSET SUBSET D
    OBVIOUS
  <2>2. PICK s \in B : \A x \in s : s \ {x} \notin B
    <3> HIDE DEF B
    <3> QED BY <1>1, <2>1, SmallestExists
  <2>3. s \in SUBSET D /\ s # {} /\ ~\E m \in s : \A d \in s : d >= m
    OBVIOUS
  <2>4. PICK x \in s : TRUE
    BY <2>3
  <2>5. CASE s \ {x} = {}
    BY <1>1, <2>3, <2>4, <2>5
  <2>6. CASE s \ {x} # {}
    <3>1. PICK m \in s \ {x} : \A d \in s \ {x} : d >= m
      BY <2>2, <2>3, <2>6
    <3>2. x \in Int /\ m \in Int /\ \A d \in s : d \in Int
      BY <1>1, <2>3
    <3>3. CASE x >= m
      BY <2>3, <3>1, <3>3
    <3>4. CASE ~(x >= m)
      <4>1. m >= x
        BY <3>2, <3>4
      <4>2. \A d \in s : d >= x
        BY <3>1, <3>2, <4>1
      <4> QED BY <2>3, <4>2
    <3> QED BY <3>3, <3>4
  <2> QED BY <2>5, <2>6
<1> QED BY <1>2, <1>3

LEMMA FirstIsInBook ==
    ASSUME NEW D \in FinitePrices
    PROVE  FirstBuy(D) \in D \cup {End} /\ FirstSell(D) \in D \cup {End}
  BY FiniteHasBest DEF FirstBuy, FirstSell

LEMMA NextIsInBook ==
    ASSUME NEW levels \in LevelMaps, NEW p \in DOMAIN levels
    PROVE  /\ NextBuy(levels, p) \in (DOMAIN levels \ {p}) \cup {End}
           /\ NextSell(levels, p) \in (DOMAIN levels \ {p}) \cup {End}
<1>1. DOMAIN levels \in SUBSET Prices /\ IsFiniteSet(DOMAIN levels)
  BY LevelMap DEF FinitePrices
<1>2. p \in Int
  BY <1>1, NumbersAssumption
<1>3. ASSUME NEW S \in SUBSET DOMAIN levels PROVE S \in FinitePrices
  BY <1>1, FS_Subset DEF FinitePrices
<1> DEFINE L == {q \in DOMAIN levels : q < p}
           G == {q \in DOMAIN levels : q > p}
<1>4. L \in FinitePrices /\ G \in FinitePrices
  BY <1>3
<1>5. p \notin L /\ p \notin G /\ L \subseteq DOMAIN levels /\ G \subseteq DOMAIN levels
  BY <1>2
<1>6. NextBuy(levels, p) = FirstBuy(L) /\ NextSell(levels, p) = FirstSell(G)
  BY DEF NextBuy, NextSell
<1> HIDE DEF L, G
<1> QED BY <1>4, <1>5, <1>6, FirstIsInBook

\* What the operators of the book do to a map of levels.
LEMMA EngineAddOrder ==
    ASSUME NEW levels \in LevelMaps, NEW o \in Resting
    PROVE  AddOrder(levels, o) \in LevelMaps
<1> DEFINE new == AddOrder(levels, o)
           D == DOMAIN levels \cup {o.price}
<1>1. DOMAIN levels \in SUBSET Prices /\ IsFiniteSet(DOMAIN levels) /\ o.price \in Prices
  BY LevelMap DEF FinitePrices, Resting
<1>2. D \in FinitePrices
  BY <1>1, FS_AddElement DEF FinitePrices
<1>3. \A p \in DOMAIN levels : Append(levels[p], o) \in Seq(Resting) /\ levels[p] \in Seq(Resting)
  BY LevelMap
<1>4. <<o>> \in Seq(Resting)
  OBVIOUS
<1>5. new \in [D -> Seq(Resting)]
  BY <1>3, <1>4 DEF AddOrder
<1> QED BY <1>2, <1>5, LevelMap

LEMMA FrontReplaced ==
    ASSUME NEW S, NEW s \in Seq(S), NEW e \in S
    PROVE  [s EXCEPT ![1] = e] \in Seq(S)
<1>1. s \in [1 .. Len(s) -> S] /\ Len(s) \in Nat
  OBVIOUS
<1> DEFINE t == [s EXCEPT ![1] = e]
<1>2. t \in [1 .. Len(s) -> S]
  BY <1>1
<1> HIDE DEF t
<1>3. t \in Seq(S)
  BY <1>1, <1>2
<1> QED BY <1>3 DEF t

LEMMA EngineTakeFront ==
    ASSUME NEW levels \in LevelMaps, NEW p \in DOMAIN levels, levels[p] # <<>>, NEW q \in Int
    PROVE  /\ TakeFront(levels, p, q) \in LevelMaps
           /\ DOMAIN TakeFront(levels, p, q) = DOMAIN levels
<1> DEFINE s == levels[p]
           e == [s[1] EXCEPT !.quantity = @ - q]
           t == IF Head(s).quantity = q THEN Tail(s) ELSE [s EXCEPT ![1] = e]
<1>1. /\ levels \in [DOMAIN levels -> Seq(Resting)] /\ DOMAIN levels \in FinitePrices
      /\ s \in Seq(Resting)
  BY LevelMap
<1>2. s[1] \in Resting /\ Tail(s) \in Seq(Resting)
  BY <1>1
<1>3. e \in Resting
  BY <1>2 DEF Resting
<1>4. [s EXCEPT ![1] = e] \in Seq(Resting)
  <2> HIDE DEF e, s
  <2> QED BY <1>1, <1>3, FrontReplaced
<1>5. t \in Seq(Resting)
  BY <1>2, <1>4
<1>6. TakeFront(levels, p, q) = [levels EXCEPT ![p] = t]
  BY DEF TakeFront
<1> HIDE DEF t
<1>7. [levels EXCEPT ![p] = t] \in [DOMAIN levels -> Seq(Resting)]
  BY <1>1, <1>5
<1> QED BY <1>1, <1>6, <1>7, LevelMap

LEMMA EngineErase ==
    ASSUME NEW levels \in LevelMaps, NEW p \in DOMAIN levels
    PROVE  /\ EraseIfEmpty(levels, p) \in LevelMaps
           /\ DOMAIN levels \ {p} \subseteq DOMAIN EraseIfEmpty(levels, p)
<1>1. /\ levels \in [DOMAIN levels -> Seq(Resting)]
      /\ DOMAIN levels \in SUBSET Prices /\ IsFiniteSet(DOMAIN levels)
  BY LevelMap DEF FinitePrices
<1>2. DOMAIN levels \ {p} \in FinitePrices
  BY <1>1, FS_RemoveElement DEF FinitePrices
<1>3. Erase(levels, p) \in [DOMAIN levels \ {p} -> Seq(Resting)]
  BY <1>1 DEF Erase
<1>4. Erase(levels, p) \in LevelMaps
  BY <1>2, <1>3, LevelMap
<1> QED BY <1>3, <1>4 DEF EraseIfEmpty

LEMMA LevelStepStays ==
    ASSUME NEW m \in MatchStates, Crosses(m.bp, m.sp)
    PROVE  LevelStep(m) \in MatchStates
<1> DEFINE buys == m.book.buys
           sells == m.book.sells
           bq == buys[m.bp]
           sq == sells[m.sp]
           t == TradeOf(Head(bq), Head(sq), m.sp)
<1>1. /\ buys \in LevelMaps /\ sells \in LevelMaps /\ m.trades \in Seq(EngineTrades)
      /\ m.bp \in DOMAIN buys /\ m.sp \in DOMAIN sells
      /\ m = [book |-> m.book, trades |-> m.trades, bp |-> m.bp, sp |-> m.sp]
  BY DEF MatchStates, BookStates, Crosses
<1>2. bq \in Seq(Resting) /\ sq \in Seq(Resting) /\ m.sp \in Int
  <2>1. DOMAIN sells \subseteq Prices
    BY <1>1, LevelMap DEF FinitePrices
  <2> QED BY <1>1, <2>1, LevelMap, NumbersAssumption
<1>3. CASE bq # <<>> /\ sq # <<>>
  <2>1. Head(bq) \in Resting /\ Head(sq) \in Resting
    BY <1>2, <1>3
  <2>2. MinQuantity(Head(bq), Head(sq)) \in Int
    BY <2>1 DEF MinQuantity, Resting
  <2>3. t \in EngineTrades
    BY <1>2, <2>1, <2>2 DEF TradeOf, EngineTrades, Resting
  <2> DEFINE b2 == TakeFront(buys, m.bp, t.quantity)
             s2 == TakeFront(sells, m.sp, t.quantity)
  <2>4. LevelStep(m) = [book |-> [buys |-> b2, sells |-> s2],
                        trades |-> Append(m.trades, t), bp |-> m.bp, sp |-> m.sp]
    <3>1. LevelStep(m) = [m EXCEPT !.book = [buys |-> b2, sells |-> s2], !.trades = Append(@, t)]
      BY <1>3 DEF LevelStep, Book
    <3> HIDE DEF b2, s2, t
    <3> QED BY <1>1, <3>1
  <2>5. t.quantity \in Int
    BY <2>3 DEF EngineTrades
  <2>6. /\ b2 \in LevelMaps /\ DOMAIN b2 = DOMAIN buys
        /\ s2 \in LevelMaps /\ DOMAIN s2 = DOMAIN sells
    <3> HIDE DEF t
    <3> QED BY <1>1, <1>3, <2>5, EngineTakeFront
  <2>7. Append(m.trades, t) \in Seq(EngineTrades)
    <3> HIDE DEF t
    <3> QED BY <1>1, <2>3
  <2>8. m.bp \in Cursors /\ m.sp \in Cursors
    BY DEF MatchStates
  <2> HIDE DEF b2, s2, t, buys, sells
  <2> QED BY <1>1, <2>4, <2>6, <2>7, <2>8 DEF MatchStates, BookStates
<1>4. CASE ~(bq # <<>> /\ sq # <<>>)
  <2> DEFINE b2 == EraseIfEmpty(buys, m.bp)
             s2 == EraseIfEmpty(sells, m.sp)
             bn == NextBuy(buys, m.bp)
             sn == NextSell(sells, m.sp)
  <2>1. LevelStep(m) = [book |-> [buys |-> b2, sells |-> s2],
                        trades |-> m.trades, bp |-> bn, sp |-> sn]
    <3>1. LevelStep(m) = [m EXCEPT !.book = [buys |-> b2, sells |-> s2], !.bp = bn, !.sp = sn]
      BY <1>4 DEF LevelStep, Book
    <3> HIDE DEF b2, s2, bn, sn
    <3> QED BY <1>1, <3>1
  <2>2. /\ b2 \in LevelMaps /\ DOMAIN buys \ {m.bp} \subseteq DOMAIN b2
        /\ s2 \in LevelMaps /\ DOMAIN sells \ {m.sp} \subseteq DOMAIN s2
    BY <1>1, EngineErase
  <2>3. /\ bn \in (DOMAIN buys \ {m.bp}) \cup {End}
        /\ sn \in (DOMAIN sells \ {m.sp}) \cup {End}
    BY <1>1, NextIsInBook
  <2>4. DOMAIN buys \subseteq Prices /\ DOMAIN sells \subseteq Prices
    BY <1>1, LevelMap DEF FinitePrices
  <2> HIDE DEF b2, s2, bn, sn, buys, sells
  <2> QED BY <1>1, <2>1, <2>2, <2>3, <2>4 DEF MatchStates, BookStates, Cursors
<1> QED BY <1>3, <1>4

\* match() as the states between its steps: the first, and one after the other.
StartOf(book) == [book |-> book, trades |-> <<>>,
                  bp |-> FirstBuy(DOMAIN book.buys), sp |-> FirstSell(DOMAIN book.sells)]
IsRun(r, book, fuel) ==
    /\ r[0] = StartOf(book)
    /\ \A k \in 1 .. fuel :
          r[k] = IF Crosses(r[k - 1].bp, r[k - 1].sp) THEN LevelStep(r[k - 1]) ELSE r[k - 1]
    /\ \A k \in 0 .. fuel : r[k] \in MatchStates

\* A whole call of match() is such a run: however long it goes on, it leaves a book
\* and trades.
LEMMA MatchRuns ==
    ASSUME NEW book \in BookStates, NEW fuel \in Nat
    PROVE  \E r : IsRun(r, book, fuel) /\ Match(book, fuel) = r[fuel]
<1> DEFINE start == StartOf(book)
           Step(m) == IF Crosses(m.bp, m.sp) THEN LevelStep(m) ELSE m
           Body(r) == [k \in 0 .. fuel |->
                          IF k = 0 THEN start
                          ELSE CHOOSE x \in {Step(m) : m \in {r[k - 1]}} : TRUE]
           run == CHOOSE r : r = Body(r)
<1>1. start \in MatchStates
  <2>1. /\ book.buys \in LevelMaps /\ book.sells \in LevelMaps
        /\ DOMAIN book.buys \in FinitePrices /\ DOMAIN book.sells \in FinitePrices
    BY LevelMap DEF BookStates
  <2>2. /\ FirstBuy(DOMAIN book.buys) \in DOMAIN book.buys \cup {End}
        /\ FirstSell(DOMAIN book.sells) \in DOMAIN book.sells \cup {End}
    BY <2>1, FirstIsInBook
  <2>3. DOMAIN book.buys \subseteq Prices /\ DOMAIN book.sells \subseteq Prices
    BY <2>1 DEF FinitePrices
  <2> QED BY <2>2, <2>3 DEF MatchStates, Cursors, StartOf
<1>2. \A m \in MatchStates : Step(m) \in MatchStates
  BY LevelStepStays
<1>3. \A m : (CHOOSE x \in {Step(n) : n \in {m}} : TRUE) = Step(m)
  <2> HIDE DEF Step
  <2> QED OBVIOUS
<1> DEFINE step == [k \in 1 .. fuel |-> [m \in MatchStates |-> Step(m)]]
<1>4. step \in [1 .. fuel -> [MatchStates -> MatchStates]]
  <2> HIDE DEF Step
  <2> QED BY <1>2
<1>5. PICK r \in [0 .. fuel -> MatchStates] : Iterates(r, start, step, fuel)
  <2> HIDE DEF start, step
  <2> QED BY <1>1, <1>4, IterationExists
<1>6. r = Body(r)
  <2>1. ASSUME NEW k \in 0 .. fuel
        PROVE  r[k] = IF k = 0 THEN start
                      ELSE CHOOSE x \in {Step(m) : m \in {r[k - 1]}} : TRUE
    <3>1. CASE k = 0
      BY <1>5, <3>1 DEF Iterates
    <3>2. CASE k # 0
      <4>1. k \in 1 .. fuel /\ k - 1 \in 0 .. fuel
        BY <3>2
      <4>2. r[k - 1] \in MatchStates
        BY <1>5, <4>1
      <4> HIDE DEF Step
      <4>3. r[k] = Step(r[k - 1])
        BY <1>5, <4>1, <4>2 DEF Iterates
      <4> QED BY <1>3, <3>2, <4>3
    <3> QED BY <3>1, <3>2
  <2> HIDE DEF start, Step
  <2> QED BY <1>5, <2>1
<1>7. run = Body(run)
  <2> HIDE DEF Body
  <2> QED BY <1>6
<1>8. Match(book, fuel) = run[fuel]
  BY Zenon DEF Match, StartOf
<1>9. \A k \in 0 .. fuel : run[k] = IF k = 0 THEN start
                         ELSE CHOOSE x \in {Step(m) : m \in {run[k - 1]}} : TRUE
  <2> HIDE DEF run, start, Step
  <2> QED BY <1>7
<1> HIDE DEF run, Step, start
<1> DEFINE Good == {k \in 0 .. fuel : run[k] \in MatchStates}
<1>10. 0 \in Good
  BY <1>1, <1>9
<1>11. ASSUME NEW k \in 1 .. fuel PROVE run[k] = Step(run[k - 1])
  BY <1>3, <1>9
<1>12. ASSUME NEW k \in 1 .. fuel, k - 1 \in Good PROVE k \in Good
  BY <1>2, <1>11, <1>12
<1>13. \A k \in 0 .. fuel : k \in Good
  <2> HIDE DEF Good
  <2> QED BY <1>10, <1>12, UpwardsTo
<1>14. run[0] = StartOf(book)
  BY <1>9 DEF start
<1>15. IsRun(run, book, fuel)
  BY <1>11, <1>13, <1>14 DEF IsRun, Step
<1> QED BY <1>8, <1>15

LEMMA MatchStays ==
    ASSUME NEW book \in BookStates, NEW fuel \in Nat
    PROVE  Match(book, fuel) \in MatchStates
  BY MatchRuns DEF IsRun

-----------------------------------------------------------------------------
(***************************************************************************)
(* The portfolio                                                           *)
(***************************************************************************)
PnlMaps == UNION {[D -> Int] : D \in SUBSET Ids}
AmountIn(pnl, n) == IF n \in DOMAIN pnl THEN pnl[n] ELSE 0

LEMMA AddToAdds ==
    ASSUME NEW pnl \in PnlMaps, NEW id \in Ids, NEW amount \in Int
    PROVE  /\ AddTo(pnl, id, amount) \in PnlMaps
           /\ \A n \in Ids : /\ AmountIn(pnl, n) \in Int
                             /\ AmountIn(AddTo(pnl, id, amount), n)
                                   = AmountIn(pnl, n) + (IF n = id THEN amount ELSE 0)
<1>1. PICK D \in SUBSET Ids : pnl \in [D -> Int]
  BY DEF PnlMaps
<1> DEFINE new == AddTo(pnl, id, amount)
           v == IF id \in DOMAIN pnl THEN pnl[id] + amount ELSE amount
<1>2. v \in Int /\ DOMAIN pnl = D
  BY <1>1
<1>3. new = [k \in D \cup {id} |-> IF k = id THEN v ELSE pnl[k]]
  BY <1>2 DEF AddTo, Put
<1>4. new \in [D \cup {id} -> Int]
  <2> HIDE DEF v
  <2> QED BY <1>1, <1>2, <1>3
<1>5. D \cup {id} \in SUBSET Ids
  OBVIOUS
<1>6. new \in PnlMaps
  <2> HIDE DEF new
  <2> QED BY <1>4, <1>5 DEF PnlMaps
<1>7. ASSUME NEW n \in Ids
      PROVE  /\ AmountIn(pnl, n) \in Int
             /\ AmountIn(new, n) = AmountIn(pnl, n) + (IF n = id THEN amount ELSE 0)
  <2>1. AmountIn(pnl, n) \in Int
    BY <1>1 DEF AmountIn
  <2>2. DOMAIN new = D \cup {id} /\ \A k \in D \cup {id} : new[k] = IF k = id THEN v ELSE pnl[k]
    <3> HIDE DEF v
    <3> QED BY <1>3
  <2> HIDE DEF new
  <2>3. CASE n = id
    <3>1. AmountIn(new, n) = v
      BY <2>2, <2>3 DEF AmountIn
    <3>2. v = AmountIn(pnl, n) + amount
      <4>1. CASE id \in DOMAIN pnl
        BY <2>3, <4>1 DEF AmountIn
      <4>2. CASE id \notin DOMAIN pnl
        BY <2>3, <4>2 DEF AmountIn
      <4> QED BY <4>1, <4>2
    <3> HIDE DEF v
    <3> QED BY <2>1, <2>3, <3>1, <3>2
  <2>4. CASE n # id
    BY <1>2, <2>1, <2>2, <2>4 DEF AmountIn
  <2> QED BY <2>1, <2>3, <2>4
<1> QED BY <1>6, <1>7

LEMMA RecordTradeAdds ==
    ASSUME NEW pnl \in PnlMaps, NEW t \in EngineTrades
    PROVE  /\ RecordTrade(pnl, t) \in PnlMaps
           /\ \A n \in Ids : /\ Cash(n, t) \in Int /\ AmountIn(pnl, n) \in Int
                             /\ AmountIn(RecordTrade(pnl, t), n) = AmountIn(pnl, n) + Cash(n, t)
<1>1. /\ t.buy_order_id \in Ids /\ t.sell_order_id \in Ids
      /\ t.price \in Int /\ t.quantity \in Int
  BY DEF EngineTrades
<1>2. PICK c \in Int : c = t.price * t.quantity
  BY <1>1
<1> DEFINE mid == AddTo(pnl, t.buy_order_id, -c)
<1>3. -c \in Int
  OBVIOUS
<1>4. /\ mid \in PnlMaps
      /\ \A n \in Ids : /\ AmountIn(pnl, n) \in Int
                        /\ AmountIn(mid, n)
                              = AmountIn(pnl, n) + (IF n = t.buy_order_id THEN -c ELSE 0)
  <2>1. PICK id \in Ids : id = t.buy_order_id
    BY <1>1
  <2>2. PICK d \in Int : d = -c
    BY <1>3
  <2>3. /\ AddTo(pnl, id, d) \in PnlMaps
        /\ \A n \in Ids : /\ AmountIn(pnl, n) \in Int
                          /\ AmountIn(AddTo(pnl, id, d), n)
                                = AmountIn(pnl, n) + (IF n = id THEN d ELSE 0)
    BY AddToAdds
  <2> QED BY <2>1, <2>2, <2>3
<1> HIDE DEF mid
<1>5. RecordTrade(pnl, t) = AddTo(mid, t.sell_order_id, c)
  BY <1>2 DEF RecordTrade, mid
<1>6. /\ AddTo(mid, t.sell_order_id, c) \in PnlMaps
      /\ \A n \in Ids : AmountIn(AddTo(mid, t.sell_order_id, c), n)
                           = AmountIn(mid, n) + (IF n = t.sell_order_id THEN c ELSE 0)
  <2>1. PICK id \in Ids : id = t.sell_order_id
    BY <1>1
  <2>2. mid \in PnlMaps
    BY <1>4
  <2>3. /\ AddTo(mid, id, c) \in PnlMaps
        /\ \A n \in Ids : AmountIn(AddTo(mid, id, c), n)
                             = AmountIn(mid, n) + (IF n = id THEN c ELSE 0)
    BY <2>2, AddToAdds
  <2> QED BY <2>1, <2>3
<1>7. \A n : Cash(n, t) = (IF t.sell_order_id = n THEN c ELSE 0)
                           - (IF t.buy_order_id = n THEN c ELSE 0)
  BY <1>2 DEF Cash
<1>8. ASSUME NEW n \in Ids
      PROVE  /\ Cash(n, t) \in Int /\ AmountIn(pnl, n) \in Int
             /\ AmountIn(RecordTrade(pnl, t), n) = AmountIn(pnl, n) + Cash(n, t)
  <2>1. PICK a \in Int : a = AmountIn(pnl, n)
    BY <1>4
  <2>2. AmountIn(mid, n) = a + (IF n = t.buy_order_id THEN -c ELSE 0)
    BY <1>4, <2>1
  <2>3. AmountIn(RecordTrade(pnl, t), n)
           = a + (IF n = t.buy_order_id THEN -c ELSE 0) + (IF n = t.sell_order_id THEN c ELSE 0)
    BY <1>5, <1>6, <2>2
  <2> QED BY <1>7, <2>1, <2>3
<1> QED BY <1>5, <1>6, <1>8

\* Recording the trades of a book after those that were executed before.
Concat(s, t) == s \o t
CashFlow(n, ts) == [i \in DOMAIN ts |-> Cash(n, ts[i])]

LEMMA CashFlowAdds ==
    ASSUME NEW ts \in Seq(EngineTrades), NEW n \in Ids
    PROVE  /\ Summable(CashFlow(n, ts), 1 .. Len(ts))
           /\ DOMAIN CashFlow(n, ts) = 1 .. Len(ts)
           /\ \A i \in 1 .. Len(ts) : CashFlow(n, ts)[i] = Cash(n, ts[i])
           /\ \A i \in 1 .. Len(ts) : Cash(n, ts[i]) \in Int
           /\ SumFunction(CashFlow(n, ts)) = SumFunctionOnSet(CashFlow(n, ts), 1 .. Len(ts))
<1>1. DOMAIN ts = 1 .. Len(ts) /\ Len(ts) \in Nat /\ \A i \in 1 .. Len(ts) : ts[i] \in EngineTrades
  OBVIOUS
<1>2. ASSUME NEW t \in EngineTrades PROVE Cash(n, t) \in Int
  <2>1. t.price \in Int /\ t.quantity \in Int
    BY DEF EngineTrades
  <2>2. t.price * t.quantity \in Int
    BY <2>1
  <2> QED BY <2>2 DEF Cash
<1>3. /\ DOMAIN CashFlow(n, ts) = 1 .. Len(ts)
      /\ \A i \in 1 .. Len(ts) : CashFlow(n, ts)[i] = Cash(n, ts[i])
  BY <1>1 DEF CashFlow
<1>4. IsFiniteSet(1 .. Len(ts))
  BY <1>1, FS_Interval
<1> QED BY <1>1, <1>2, <1>3, <1>4 DEF Summable, SumFunction

\* The portfolios between the trades of a book.
Recorded(r, pnl, ts, n) == r[0] = pnl /\ \A k \in 1 .. n : r[k] = RecordTrade(r[k - 1], ts[k])

LEMMA PortfoliosBetween ==
    ASSUME NEW pnl \in PnlMaps, NEW n \in Nat, NEW ts, \A k \in 1 .. n : ts[k] \in EngineTrades
    PROVE  \E r \in [0 .. n -> PnlMaps] : Recorded(r, pnl, ts, n)
<1> DEFINE step == [k \in 1 .. n |-> [m \in PnlMaps |-> RecordTrade(m, ts[k])]]
<1>1. step \in [1 .. n -> [PnlMaps -> PnlMaps]]
  BY RecordTradeAdds
<1>2. PICK r \in [0 .. n -> PnlMaps] : Iterates(r, pnl, step, n)
  <2> HIDE DEF step
  <2> QED BY <1>1, IterationExists
<1>3. ASSUME NEW k \in 1 .. n PROVE r[k] = RecordTrade(r[k - 1], ts[k])
  <2>1. k - 1 \in 0 .. n
    OBVIOUS
  <2>2. r[k - 1] \in PnlMaps
    BY <1>2, <2>1
  <2>3. r[k] = step[k][r[k - 1]]
    BY <1>2 DEF Iterates
  <2> HIDE DEF Iterates
  <2> QED BY <2>2, <2>3
<1>4. r[0] = pnl
  BY <1>2 DEF Iterates
<1> QED BY <1>3, <1>4 DEF Recorded

LEMMA RecordTradesAdds ==
    ASSUME NEW pnl \in PnlMaps, NEW ts \in Seq(EngineTrades), NEW done \in Seq(EngineTrades),
           \A n \in Ids : AmountIn(pnl, n) = SumFunction(CashFlow(n, done))
    PROVE  /\ RecordTrades(pnl, ts) \in PnlMaps
           /\ \A n \in Ids : AmountIn(RecordTrades(pnl, ts), n)
                                = SumFunction(CashFlow(n, Concat(done, ts)))
<1> DEFINE N == Len(ts)
           L == Len(done)
           all == Concat(done, ts)
           Body(r) == [k \in 0 .. Len(ts) |->
                          IF k = 0 THEN pnl ELSE RecordTrade(r[k - 1], ts[k])]
           after == CHOOSE r : r = Body(r)
           SumTo(n, k) == SumFunctionOnSet(CashFlow(n, all), 1 .. k)
<1>1. /\ N \in Nat /\ L \in Nat /\ all \in Seq(EngineTrades) /\ Len(all) = L + N
      /\ \A i \in 1 .. N : all[L + i] = ts[i] /\ ts[i] \in EngineTrades
      /\ \A i \in 1 .. L : all[i] = done[i]
  BY DEF Concat
<1>3. PICK r \in [0 .. N -> PnlMaps] : Recorded(r, pnl, ts, N)
  <2> HIDE DEF N
  <2> QED BY <1>1, PortfoliosBetween
<1>4. r = Body(r)
  <2>1. ASSUME NEW k \in 0 .. N
        PROVE  r[k] = IF k = 0 THEN pnl ELSE RecordTrade(r[k - 1], ts[k])
    <3>1. CASE k = 0
      BY <1>3, <3>1 DEF Recorded
    <3>2. CASE k # 0
      <4>1. k \in 1 .. N /\ k - 1 \in 0 .. N
        BY <1>1, <3>2
      <4> QED BY <1>3, <3>2, <4>1 DEF Recorded
    <3> QED BY <3>1, <3>2
  <2> QED BY <1>3, <2>1
<1>5. after = Body(after)
  <2> HIDE DEF Body
  <2> QED BY <1>4
<1>6. RecordTrades(pnl, ts) = after[N]
  BY Zenon DEF RecordTrades
<1>7. \A k \in 0 .. N : after[k] = IF k = 0 THEN pnl ELSE RecordTrade(after[k - 1], ts[k])
  <2> HIDE DEF after
  <2> QED BY <1>5
<1> HIDE DEF after, all
<1>8. /\ \A n \in Ids : SumTo(n, L) = SumFunction(CashFlow(n, done))
      /\ \A n \in Ids : SumTo(n, L + N) = SumFunction(CashFlow(n, all))
  <2> SUFFICES ASSUME NEW n \in Ids
               PROVE  /\ SumTo(n, L) = SumFunction(CashFlow(n, done))
                      /\ SumTo(n, L + N) = SumFunction(CashFlow(n, all))
    OBVIOUS
  <2>1. /\ Summable(CashFlow(n, done), 1 .. L)
        /\ SumFunction(CashFlow(n, done)) = SumFunctionOnSet(CashFlow(n, done), 1 .. L)
        /\ SumFunction(CashFlow(n, all)) = SumFunctionOnSet(CashFlow(n, all), 1 .. L + N)
    BY <1>1, CashFlowAdds
  <2>2. \A i \in 1 .. L : CashFlow(n, done)[i] = CashFlow(n, all)[i]
    <3>1. \A i \in 1 .. L : i \in 1 .. Len(all)
      BY <1>1
    <3> QED BY <1>1, <3>1, CashFlowAdds
  <2>3. SumFunctionOnSet(CashFlow(n, all), 1 .. L) = SumFunctionOnSet(CashFlow(n, done), 1 .. L)
    <3> DEFINE f == CashFlow(n, done)
               g == CashFlow(n, all)
               S == 1 .. L
    <3>1. Summable(f, S) /\ \A x \in S : f[x] = g[x]
      BY <2>1, <2>2
    <3> HIDE DEF f, g, S
    <3>2. SumFunctionOnSet(g, S) = SumFunctionOnSet(f, S)
      BY <3>1, SumAgrees
    <3> QED BY <3>2 DEF f, g, S
  <2> QED BY <2>1, <2>3
<1>9. ASSUME NEW n \in Ids, NEW k \in 1 .. N
      PROVE  /\ SumTo(n, L + k) = SumTo(n, L + k - 1) + Cash(n, ts[k])
             /\ SumTo(n, L + k - 1) \in Int
  <2> DEFINE f == CashFlow(n, all)
             S == 1 .. L + k - 1
             x == L + k
  <2>1. x \in 1 .. L + N /\ x \notin S /\ S \cup {x} = 1 .. x /\ S \subseteq 1 .. L + N
    <3>1. L \in Nat /\ N \in Nat
      BY <1>1
    <3> HIDE DEF L, N
    <3> QED BY <3>1
  <2>2. Summable(f, 1 .. L + N) /\ f[x] = Cash(n, ts[k]) /\ f[x] \in Int
    <3>1. all[x] = ts[k] /\ x \in 1 .. Len(all)
      BY <1>1, <2>1
    <3>2. /\ Summable(CashFlow(n, all), 1 .. Len(all))
          /\ CashFlow(n, all)[x] = Cash(n, all[x]) /\ Cash(n, all[x]) \in Int
      <4> HIDE DEF x
      <4> QED BY <1>1, <3>1, CashFlowAdds
    <3> QED BY <1>1, <3>1, <3>2
  <2>3. IsFiniteSet(S)
    BY <1>1, FS_Interval
  <2> HIDE DEF f, S, x
  <2>4. Summable(f, S)
    BY <2>1, <2>2, <2>3 DEF Summable
  <2>5. /\ SumFunctionOnSet(f, S \cup {x}) = SumFunctionOnSet(f, S) + f[x]
        /\ SumFunctionOnSet(f, S) \in Int
    BY <2>1, <2>2, <2>4, SumWith, SumIsNumber
  <2> QED BY <2>1, <2>2, <2>5 DEF f, S, x
<1> HIDE DEF SumTo
<1> DEFINE Good == {k \in 0 .. N : /\ after[k] \in PnlMaps
                                   /\ \A n \in Ids : AmountIn(after[k], n) = SumTo(n, L + k)}
<1>10. 0 \in Good
  <2>1. after[0] = pnl /\ L + 0 = L
    BY <1>1, <1>7
  <2> QED BY <1>1, <1>8, <2>1
<1>11. ASSUME NEW k \in 1 .. N, k - 1 \in Good PROVE k \in Good
  <2>1. k \in 0 .. N /\ k # 0 /\ L + (k - 1) = L + k - 1
    BY <1>1
  <2>2. after[k] = RecordTrade(after[k - 1], ts[k])
    BY <1>7, <2>1
  <2>3. after[k - 1] \in PnlMaps /\ \A n \in Ids : AmountIn(after[k - 1], n) = SumTo(n, L + k - 1)
    BY <1>11, <2>1
  <2>4. /\ after[k] \in PnlMaps
        /\ \A n \in Ids : AmountIn(after[k], n) = AmountIn(after[k - 1], n) + Cash(n, ts[k])
    <3>1. ts[k] \in EngineTrades
      BY <1>1
    <3> QED BY <2>2, <2>3, <3>1, RecordTradeAdds
  <2>5. \A n \in Ids : AmountIn(after[k], n) = SumTo(n, L + k)
    BY <1>9, <2>3, <2>4
  <2> QED BY <2>1, <2>4, <2>5
<1> HIDE DEF Good
<1>12. N \in Good
  <2>1. \A k \in 0 .. N : k \in Good
    <3> HIDE DEF N
    <3> QED BY <1>1, <1>10, <1>11, UpwardsTo
  <2> QED BY <1>1, <2>1
<1> QED BY <1>6, <1>8, <1>12 DEF Good, all

-----------------------------------------------------------------------------
(***************************************************************************)
(* The invariant.  The ledger of AmountIn against the sum of the cash of   *)
(* all trades is carried through a call of match by RecordTradesAdds.      *)
(***************************************************************************)
EngineTypes ==
    /\ DOMAIN books \subseteq Symbols
    /\ \A s \in DOMAIN books : books[s] \in BookStates
    /\ pnl_map \in PnlMaps
    /\ matcher \in {"setup", "drain", "match", "log"}
    /\ todo \subseteq DOMAIN books
    /\ all_trades \in Seq(EngineTrades)
    /\ trade_log \in Seq(EngineTrades)
    /\ executed \in Seq(EngineTrades)
    /\ matcher \in {"setup", "drain"} => all_trades = <<>>
Ledger == \A n \in Ids : AmountIn(pnl_map, n) = SumFunction(CashFlow(n, executed))
EngineInv == EngineTypes /\ Ledger /\ TradesLoggedOnce

\* The books only change here and in MatchBook.
LEMMA PutBook ==
    ASSUME DOMAIN books \subseteq Symbols, \A s \in DOMAIN books : books[s] \in BookStates,
           NEW s \in Symbols, NEW b \in BookStates
    PROVE  /\ DOMAIN Put(books, s, b) = DOMAIN books \cup {s}
           /\ \A k \in DOMAIN books \cup {s} : Put(books, s, b)[k] \in BookStates
  BY DEF Put

LEMMA EmptyIsBook == EmptyBook \in BookStates
<1> DEFINE none == [p \in {} |-> <<>>]
<1>1. {} \in FinitePrices
  BY FS_EmptySet DEF FinitePrices
<1>2. none \in [{} -> Seq(Resting)]
  OBVIOUS
<1>3. none \in LevelMaps
  <2> HIDE DEF none
  <2> QED BY <1>1, <1>2, LevelMap
<1> HIDE DEF none
<1>4. [buys |-> none, sells |-> none] \in BookStates
  BY <1>3 DEF BookStates
<1> QED BY <1>4 DEF EmptyBook, Book, NoLevels, none

LEMMA EngineStarts == EngineInit => EngineInv
<1> SUFFICES ASSUME EngineInit PROVE EngineInv
  OBVIOUS
<1>1. pnl_map \in PnlMaps /\ DOMAIN pnl_map = {}
  <2>1. [x \in {} |-> 0] \in [{} -> Int]
    OBVIOUS
  <2> QED BY <2>1 DEF EngineInit, EmptyMap, PnlMaps
<1>2. EngineTypes /\ TradesLoggedOnce
  BY <1>1 DEF EngineInit, EmptyMap, EngineTypes, TradesLoggedOnce
<1>3. ASSUME NEW n \in Ids
      PROVE  AmountIn(pnl_map, n) = SumFunction(CashFlow(n, executed))
  <2>1. executed = <<>> /\ executed \in Seq(EngineTrades) /\ 1 .. Len(executed) = {}
    BY DEF EngineInit
  <2>2. SumFunction(CashFlow(n, executed)) = SumFunctionOnSet(CashFlow(n, executed), {})
    BY <2>1, CashFlowAdds
  <2>3. SumFunctionOnSet(CashFlow(n, executed), {}) = 0
    BY SumOfNone
  <2>4. AmountIn(pnl_map, n) = 0
    BY <1>1 DEF AmountIn
  <2> QED BY <2>2, <2>3, <2>4
<1> QED BY <1>2, <1>3 DEF EngineInv, Ledger

LEMMA AddSymbolKeeps ==
    ASSUME EngineInv, NEW s \in KnownSymbols, AddSymbol(s)
    PROVE  EngineInv'
<1>1. s \in Symbols /\ EmptyBook \in BookStates
  BY KnownAssumption, EmptyIsBook
<1>2. DOMAIN books' = DOMAIN books \cup {s} /\ \A k \in DOMAIN books' : books'[k] \in BookStates
  BY <1>1, PutBook DEF EngineInv, EngineTypes, AddSymbol
<1>3. EngineTypes'
  BY <1>1, <1>2 DEF EngineInv, EngineTypes, AddSymbol
<1> QED BY <1>3 DEF EngineInv, AddSymbol, Ledger, TradesLoggedOnce

LEMMA SubmitOrderKeeps ==
    ASSUME EngineInv, NEW o \in EngineOrders, SubmitOrder(o)
    PROVE  EngineInv'
<1> DEFINE b == BookOf(o.symbol)
           new == IF o.is_buy THEN Book(AddOrder(b.buys, o), b.sells)
                              ELSE Book(b.buys, AddOrder(b.sells, o))
<1>1. o \in Resting /\ o.symbol \in Symbols
  BY NumbersAssumption DEF EngineOrders, Resting
<1>2. b \in BookStates
  BY EmptyIsBook DEF BookOf, EngineInv, EngineTypes
<1>3. new \in BookStates
  <2>1. b.buys \in LevelMaps /\ b.sells \in LevelMaps
    BY <1>2 DEF BookStates
  <2>2. AddOrder(b.buys, o) \in LevelMaps /\ AddOrder(b.sells, o) \in LevelMaps
    BY <1>1, <2>1, EngineAddOrder
  <2> HIDE DEF b
  <2> QED BY <2>1, <2>2 DEF BookStates, Book
<1>4. books' = Put(books, o.symbol, new)
  BY DEF SubmitOrder
<1> HIDE DEF new
<1>5. /\ DOMAIN books' = DOMAIN books \cup {o.symbol}
      /\ \A k \in DOMAIN books' : books'[k] \in BookStates
  BY <1>1, <1>3, <1>4, PutBook DEF EngineInv, EngineTypes
<1>6. /\ EngineTypes'
  BY <1>1, <1>5 DEF EngineInv, EngineTypes, SubmitOrder
<1> QED BY <1>6 DEF EngineInv, SubmitOrder, Ledger, TradesLoggedOnce

LEMMA MatchAllBeginKeeps == ASSUME EngineInv, MatchAllBegin PROVE EngineInv'
<1>1. all_trades = <<>>
  BY DEF EngineInv, EngineTypes, MatchAllBegin
<1>2. EngineTypes'
  BY DEF EngineInv, EngineTypes, MatchAllBegin, Visited
<1> QED BY <1>1, <1>2 DEF EngineInv, MatchAllBegin, Ledger, TradesLoggedOnce

LEMMA LaterTrades ==
    ASSUME NEW a \in Seq(EngineTrades), NEW b \in Seq(EngineTrades), NEW c \in Seq(EngineTrades)
    PROVE  a \o (b \o c) = (a \o b) \o c
  BY ConcatAssociative, SMTT(40)

LEMMA MatchBookKeeps ==
    ASSUME EngineInv, NEW s \in Symbols, MatchBook(s)
    PROVE  EngineInv'
<1> DEFINE m == Match(books[s], Fuel)
<1>1. /\ matcher = "match" /\ matcher' = matcher /\ s \in DOMAIN books /\ todo' = todo \ {s}
      /\ books' = [books EXCEPT ![s] = m.book] /\ pnl_map' = RecordTrades(pnl_map, m.trades)
      /\ all_trades' = all_trades \o m.trades /\ executed' = executed \o m.trades
      /\ trade_log' = trade_log
  BY DEF MatchBook, EngineInv, EngineTypes, Collected
<1>2. m.book \in BookStates /\ m.trades \in Seq(EngineTrades)
  <2>1. books[s] \in BookStates
    BY <1>1 DEF EngineInv, EngineTypes
  <2>2. Fuel \in Nat
    BY NumbersAssumption DEF Fuel
  <2>3. m \in MatchStates
    BY <2>1, <2>2, MatchStays
  <2> HIDE DEF m
  <2> QED BY <2>3 DEF MatchStates
<1> HIDE DEF m
<1>3. /\ pnl_map' \in PnlMaps
      /\ \A n \in Ids : AmountIn(pnl_map', n) = SumFunction(CashFlow(n, executed'))
  <2>1. /\ RecordTrades(pnl_map, m.trades) \in PnlMaps
        /\ \A n \in Ids : AmountIn(RecordTrades(pnl_map, m.trades), n)
                             = SumFunction(CashFlow(n, Concat(executed, m.trades)))
    BY <1>2, RecordTradesAdds DEF EngineInv, EngineTypes, Ledger
  <2>2. Concat(executed, m.trades) = executed'
    BY <1>1 DEF Concat
  <2> QED BY <1>1, <2>1, <2>2
<1>4. /\ all_trades' \in Seq(EngineTrades) /\ executed' \in Seq(EngineTrades)
      /\ trade_log' \o all_trades' = executed'
  <2>1. /\ all_trades \in Seq(EngineTrades) /\ executed \in Seq(EngineTrades)
        /\ trade_log \in Seq(EngineTrades) /\ trade_log \o all_trades = executed
    BY DEF EngineInv, EngineTypes, TradesLoggedOnce
  <2>2. trade_log \o (all_trades \o m.trades) = (trade_log \o all_trades) \o m.trades
    BY <1>2, <2>1, LaterTrades, Zenon
  <2> QED BY <1>1, <1>2, <2>1, <2>2
<1>5. EngineTypes'
  <2>1. DOMAIN books' = DOMAIN books /\ \A k \in DOMAIN books' : books'[k] \in BookStates
    BY <1>1, <1>2 DEF EngineInv, EngineTypes
  <2> QED BY <1>1, <1>3, <1>4, <2>1 DEF EngineInv, EngineTypes
<1> QED BY <1>3, <1>4, <1>5 DEF EngineInv, Ledger, TradesLoggedOnce

LEMMA MatchAllEndKeeps == ASSUME EngineInv, MatchAllEnd PROVE EngineInv'
<1>1. EngineTypes'
  BY DEF EngineInv, EngineTypes, MatchAllEnd
<1> QED BY <1>1 DEF EngineInv, MatchAllEnd, Ledger, TradesLoggedOnce

\* The log grows by what the round has still to write.
LEMMA LogTradeKeeps == ASSUME EngineInv, LogTrade PROVE EngineInv'
<1>1. /\ all_trades \in Seq(EngineTrades) /\ trade_log \in Seq(EngineTrades)
      /\ all_trades # <<>> /\ trade_log \o all_trades = executed
      /\ all_trades' = Tail(all_trades) /\ trade_log' = Append(trade_log, Head(all_trades))
      /\ executed' = executed
  BY DEF EngineInv, EngineTypes, LogTrade, TradesLoggedOnce
<1>2. /\ all_trades' \in Seq(EngineTrades) /\ trade_log' \in Seq(EngineTrades)
      /\ trade_log' \o all_trades' = executed'
  <2>1. /\ Head(all_trades) \in EngineTrades /\ Tail(all_trades) \in Seq(EngineTrades)
    BY <1>1
  <2>2. Append(trade_log, Head(all_trades)) \o Tail(all_trades) = trade_log \o all_trades
    <3> DEFINE h == Head(all_trades)
               t == Tail(all_trades)
    <3>1. /\ h \in EngineTrades /\ t \in Seq(EngineTrades) /\ <<h>> \in Seq(EngineTrades)
          /\ <<h>> \o t = all_trades
      BY <1>1, <2>1, ConcatSimplifications
    <3> HIDE DEF h, t
    <3>2. Append(trade_log, h) = trade_log \o <<h>>
      BY <1>1, <3>1, AppendIsConcat
    <3>3. (trade_log \o <<h>>) \o t = trade_log \o (<<h>> \o t)
      BY <1>1, <3>1, ConcatAssociative, SMTT(40)
    <3> QED BY <3>1, <3>2, <3>3 DEF h, t
  <2> QED BY <1>1, <2>1, <2>2
<1>3. EngineTypes'
  BY <1>2 DEF EngineInv, EngineTypes, LogTrade
<1> QED BY <1>2, <1>3 DEF EngineInv, LogTrade, Ledger, TradesLoggedOnce

LEMMA LogDoneKeeps == ASSUME EngineInv, LogDone PROVE EngineInv'
<1>1. EngineTypes'
  BY DEF EngineInv, EngineTypes, LogDone
<1> QED BY <1>1 DEF EngineInv, LogDone, Ledger, TradesLoggedOnce

LEMMA EngineInvariant == EngineSpec => []EngineInv
<1>1. EngineInit => EngineInv
  BY EngineStarts
<1>2. EngineInv /\ [EngineNext]_engineVars => EngineInv'
  <2> SUFFICES ASSUME EngineInv, [EngineNext]_engineVars PROVE EngineInv'
    OBVIOUS
  <2>1. CASE \E s \in KnownSymbols : AddSymbol(s)
    BY <2>1, AddSymbolKeeps
  <2>2. CASE \E o \in EngineOrders : SubmitOrder(o)
    BY <2>2, SubmitOrderKeeps
  <2>3. CASE \E s \in Symbols : MatchBook(s)
    BY <2>3, MatchBookKeeps
  <2>4. CASE MatchAllBegin \/ MatchAllEnd \/ LogTrade \/ LogDone
    BY <2>4, MatchAllBeginKeeps, MatchAllEndKeeps, LogTradeKeeps, LogDoneKeeps
  <2>5. CASE UNCHANGED engineVars
    BY <2>5 DEF engineVars, EngineInv, EngineTypes, Ledger, TradesLoggedOnce
  <2> QED BY <2>1, <2>2, <2>3, <2>4, <2>5 DEF EngineNext, Matcher
<1> QED BY <1>1, <1>2, PTL DEF EngineSpec

\* PortfolioManager::record_trade keeps for every order id what its sales
\* brought minus what its purchases cost, over all trades that any book has
\* made (portfolio_manager.cpp, called for each trade by EngineManager::match_all).
THEOREM PnlIsExact == EngineSpec => []PnlIsTradeLedger
<1>1. EngineInv => PnlIsTradeLedger
  BY DEF EngineInv, Ledger, PnlIsTradeLedger, AmountIn, PnlOf, CashOf, CashFlow
<1> QED BY <1>1, EngineInvariant, PTL

\* Every trade of match_all is handed to TradeLogger::log_trade exactly once and in
\* order: nothing is lost between the two loops of main's matcher thread.
THEOREM LogIsComplete == EngineSpec => []TradesLoggedOnce
<1>1. EngineInv => TradesLoggedOnce
  BY DEF EngineInv
<1> QED BY <1>1, EngineInvariant, PTL

-----------------------------------------------------------------------------
(***************************************************************************)
(* How long match() runs: a level counts one, and so does each order in it.*)
(* Every pass of a loop leaves less of them in the book.                   *)
(***************************************************************************)
Sizes(levels) == [p \in DOMAIN levels |-> Len(levels[p]) + 1]
Effort(levels) == SumFunctionOnSet(Sizes(levels), DOMAIN levels)

LEMMA EffortAdds ==
    ASSUME NEW levels \in LevelMaps
    PROVE  /\ Summable(Sizes(levels), DOMAIN levels)
           /\ Effort(levels) \in Nat
           /\ \A p \in DOMAIN levels : Effort(levels) > 0 /\ Sizes(levels)[p] = Len(levels[p]) + 1
<1> DEFINE f == Sizes(levels)
           D == DOMAIN levels
<1>1. IsFiniteSet(D) /\ \A p \in D : f[p] \in Nat /\ f[p] = Len(levels[p]) + 1 /\ f[p] > 0
  <2>1. \A p \in D : Len(levels[p]) \in Nat
    BY LevelMap
  <2> QED BY <2>1, LevelMap DEF FinitePrices, Sizes
<1> HIDE DEF f
<1>2. Summable(f, D)
  BY <1>1 DEF Summable
<1>3. SumFunctionOnSet(f, D) \in Int /\ 0 <= SumFunctionOnSet(f, D)
  BY <1>1, <1>2, SumIsNumber, SumNotNegative
<1>4. ASSUME NEW p \in D PROVE SumFunctionOnSet(f, D) > 0
  <2>1. /\ Summable(f, D \ {p})
        /\ SumFunctionOnSet(f, D \ {p}) = SumFunctionOnSet(f, D) - f[p]
    BY <1>2, SumWithout
  <2>2. 0 <= SumFunctionOnSet(f, D \ {p})
    BY <1>1, <2>1, SumNotNegative
  <2>3. f[p] \in Int /\ f[p] > 0
    BY <1>1
  <2> QED BY <1>3, <2>1, <2>2, <2>3
<1> QED BY <1>1, <1>2, <1>3, <1>4 DEF Effort, f

\* A level that changes.
LEMMA EffortChanges ==
    ASSUME NEW levels \in LevelMaps, NEW new \in LevelMaps, DOMAIN new = DOMAIN levels,
           NEW p \in DOMAIN levels, \A q \in DOMAIN levels : q # p => new[q] = levels[q]
    PROVE  Effort(new) = Effort(levels) - Len(levels[p]) + Len(new[p])
<1> DEFINE f == Sizes(levels)
           g == Sizes(new)
           D == DOMAIN levels
<1>1. /\ Summable(f, D) /\ Len(levels[p]) \in Nat /\ Len(new[p]) \in Nat
      /\ f[p] = Len(levels[p]) + 1 /\ g[p] = Len(new[p]) + 1
      /\ \A q \in D : q # p => f[q] = g[q]
  BY EffortAdds, LevelMap DEF Sizes
<1>2. Effort(levels) = SumFunctionOnSet(f, D) /\ Effort(new) = SumFunctionOnSet(g, D)
      /\ Effort(levels) \in Int
  BY EffortAdds DEF Effort
<1> HIDE DEF f, g, D
<1>3. g[p] \in Int /\ p \in D
  BY <1>1 DEF D
<1>4. SumFunctionOnSet(g, D) = SumFunctionOnSet(f, D) - f[p] + g[p]
  <2>1. /\ Summable(f, D) /\ p \in D /\ g[p] \in Int
        /\ \A q \in D : q # p => f[q] = g[q]
    BY <1>1, <1>3
  <2> QED BY ONLY <2>1, SumChanges, Zenon
<1> QED BY <1>1, <1>2, <1>4

\* A level that is new.
LEMMA EffortGrows ==
    ASSUME NEW levels \in LevelMaps, NEW new \in LevelMaps, NEW p, p \notin DOMAIN levels,
           DOMAIN new = DOMAIN levels \cup {p}, \A q \in DOMAIN levels : new[q] = levels[q]
    PROVE  Effort(new) = Effort(levels) + Len(new[p]) + 1
<1> DEFINE f == Sizes(new)
           D == DOMAIN levels
<1>1. /\ Summable(f, D \cup {p}) /\ f[p] = Len(new[p]) + 1 /\ Len(new[p]) \in Nat
      /\ Summable(Sizes(levels), D) /\ \A q \in D : Sizes(levels)[q] = f[q]
  BY EffortAdds, LevelMap DEF Sizes
<1>2. Effort(new) = SumFunctionOnSet(f, D \cup {p}) /\ Effort(new) \in Int
  BY EffortAdds DEF Effort
<1>3. SumFunctionOnSet(f, D) = Effort(levels)
  <2> HIDE DEF f
  <2> QED BY <1>1, SumAgrees DEF Effort
<1> HIDE DEF f
<1>4. /\ p \in D \cup {p} /\ (D \cup {p}) \ {p} = D
  OBVIOUS
<1> HIDE DEF D
<1>5. SumFunctionOnSet(f, (D \cup {p}) \ {p}) = SumFunctionOnSet(f, D \cup {p}) - f[p]
  BY <1>1, <1>4, SumWithout
<1>6. Effort(levels) = Effort(new) - f[p]
  BY <1>2, <1>3, <1>4, <1>5
<1> QED BY <1>1, <1>2, <1>6

LEMMA AddOrderEffort ==
    ASSUME NEW levels \in LevelMaps, NEW o \in Resting
    PROVE  Effort(AddOrder(levels, o)) <= Effort(levels) + 2
<1> DEFINE new == AddOrder(levels, o)
<1>1. /\ new \in LevelMaps /\ DOMAIN new = DOMAIN levels \cup {o.price}
      /\ \A q \in DOMAIN levels : q # o.price => new[q] = levels[q]
  BY EngineAddOrder DEF AddOrder
<1>2. Effort(levels) \in Nat
  BY EffortAdds
<1>3. CASE o.price \in DOMAIN levels
  <2>1. levels[o.price] \in Seq(Resting) /\ new[o.price] = Append(levels[o.price], o)
    BY <1>3, LevelMap DEF AddOrder
  <2>2. Len(new[o.price]) = Len(levels[o.price]) + 1 /\ Len(levels[o.price]) \in Nat
    BY <2>1
  <2>3. DOMAIN new = DOMAIN levels
    BY <1>1, <1>3
  <2> HIDE DEF new
  <2>4. Effort(new) = Effort(levels) - Len(levels[o.price]) + Len(new[o.price])
    BY <1>1, <1>3, <2>3, EffortChanges
  <2> QED BY <1>2, <2>2, <2>4 DEF new
<1>4. CASE o.price \notin DOMAIN levels
  <2>1. new[o.price] = <<o>> /\ Len(<<o>>) = 1
    BY <1>4 DEF AddOrder
  <2> HIDE DEF new
  <2>2. \A q \in DOMAIN levels : new[q] = levels[q]
    BY <1>1, <1>4
  <2>3. Effort(new) = Effort(levels) + Len(new[o.price]) + 1
    BY <1>1, <1>4, <2>2, EffortGrows
  <2> QED BY <1>2, <2>1, <2>3 DEF new
<1> QED BY <1>3, <1>4

LEMMA TakeFrontEffort ==
    ASSUME NEW levels \in LevelMaps, NEW p \in DOMAIN levels, levels[p] # <<>>, NEW q \in Int
    PROVE  Effort(TakeFront(levels, p, q))
              = Effort(levels) - (IF Head(levels[p]).quantity = q THEN 1 ELSE 0)
<1> DEFINE new == TakeFront(levels, p, q)
<1>1. new \in LevelMaps /\ DOMAIN new = DOMAIN levels
  BY EngineTakeFront
<1>2. \A x \in DOMAIN levels : x # p => new[x] = levels[x]
  BY DEF TakeFront
<1>3. levels[p] \in Seq(Resting) /\ Len(levels[p]) \in Nat \ {0}
  BY LevelMap
<1>4. Len(new[p]) = Len(levels[p]) - (IF Head(levels[p]).quantity = q THEN 1 ELSE 0)
  <2>1. CASE Head(levels[p]).quantity = q
    <3>1. new[p] = Tail(levels[p])
      BY <2>1 DEF TakeFront
    <3> HIDE DEF new
    <3> QED BY <1>3, <2>1, <3>1
  <2>2. CASE Head(levels[p]).quantity # q
    <3> DEFINE e == [levels[p][1] EXCEPT !.quantity = @ - q]
    <3>1. new[p] = [levels[p] EXCEPT ![1] = e]
      BY <2>2 DEF TakeFront
    <3> HIDE DEF new, e
    <3>2. Len([levels[p] EXCEPT ![1] = e]) = Len(levels[p])
      BY <1>3
    <3> QED BY <1>3, <2>2, <3>1, <3>2
  <2> QED BY <2>1, <2>2
<1> HIDE DEF new
<1>5. Effort(new) = Effort(levels) - Len(levels[p]) + Len(new[p])
  BY <1>1, <1>2, EffortChanges
<1>6. Effort(levels) \in Int
  BY EffortAdds
<1> QED BY <1>3, <1>4, <1>5, <1>6 DEF new

LEMMA EraseEffort ==
    ASSUME NEW levels \in LevelMaps, NEW p \in DOMAIN levels
    PROVE  Effort(EraseIfEmpty(levels, p))
              = Effort(levels) - (IF levels[p] = <<>> THEN 1 ELSE 0)
<1> DEFINE new == EraseIfEmpty(levels, p)
<1>1. new \in LevelMaps /\ Effort(levels) \in Int /\ Effort(new) \in Int
  BY EngineErase, EffortAdds
<1>2. CASE levels[p] = <<>>
  <2>1. new = [q \in DOMAIN levels \ {p} |-> levels[q]]
    BY <1>2 DEF EraseIfEmpty, Erase
  <2> HIDE DEF new
  <2>2. /\ p \notin DOMAIN new /\ DOMAIN levels = DOMAIN new \cup {p}
        /\ \A q \in DOMAIN new : levels[q] = new[q]
    BY <2>1
  <2>3. Effort(levels) = Effort(new) + Len(levels[p]) + 1
    BY <1>1, <2>2, EffortGrows
  <2>4. Len(levels[p]) = 0
    BY <1>2
  <2> QED BY <1>1, <1>2, <2>3, <2>4 DEF new
<1>3. CASE levels[p] # <<>>
  BY <1>1, <1>3 DEF EraseIfEmpty
<1> QED BY <1>2, <1>3

\* What is left to do in a call of match().
EffortOf(b) == Effort(b.buys) + Effort(b.sells)

LEMMA LevelStepEffort ==
    ASSUME NEW m \in MatchStates, Crosses(m.bp, m.sp)
    PROVE  /\ EffortOf(m.book) \in Nat /\ EffortOf(m.book) > 0
           /\ EffortOf(LevelStep(m).book) < EffortOf(m.book)
<1> DEFINE buys == m.book.buys
           sells == m.book.sells
           bq == buys[m.bp]
           sq == sells[m.sp]
<1>1. /\ buys \in LevelMaps /\ sells \in LevelMaps
      /\ m.bp \in DOMAIN buys /\ m.sp \in DOMAIN sells
      /\ m = [book |-> m.book, trades |-> m.trades, bp |-> m.bp, sp |-> m.sp]
  BY DEF MatchStates, BookStates, Crosses
<1>2. bq \in Seq(Resting) /\ sq \in Seq(Resting)
  BY <1>1, LevelMap
<1>3. /\ Effort(buys) \in Nat /\ Effort(sells) \in Nat /\ Effort(buys) > 0
      /\ EffortOf(m.book) = Effort(buys) + Effort(sells)
  BY <1>1, EffortAdds DEF EffortOf
<1>4. CASE bq # <<>> /\ sq # <<>>
  <2> DEFINE t == TradeOf(Head(bq), Head(sq), m.sp)
             b2 == TakeFront(buys, m.bp, t.quantity)
             s2 == TakeFront(sells, m.sp, t.quantity)
  <2>1. LevelStep(m).book = [buys |-> b2, sells |-> s2]
    <3>1. LevelStep(m) = [m EXCEPT !.book = [buys |-> b2, sells |-> s2], !.trades = Append(@, t)]
      BY <1>4 DEF LevelStep, Book
    <3> HIDE DEF b2, s2, t
    <3> QED BY <1>1, <3>1
  <2>2. /\ t.quantity = MinQuantity(Head(bq), Head(sq))
        /\ Head(bq).quantity \in Int /\ Head(sq).quantity \in Int
    <3>1. Head(bq) \in Resting /\ Head(sq) \in Resting
      BY <1>2, <1>4
    <3> QED BY <3>1 DEF TradeOf, Resting
  <2>3. t.quantity \in Int
        /\ (Head(bq).quantity = t.quantity \/ Head(sq).quantity = t.quantity)
    <3> HIDE DEF t
    <3> QED BY <2>2 DEF MinQuantity
  <2> HIDE DEF t
  <2>4. /\ Effort(b2) = Effort(buys) - (IF Head(bq).quantity = t.quantity THEN 1 ELSE 0)
        /\ Effort(s2) = Effort(sells) - (IF Head(sq).quantity = t.quantity THEN 1 ELSE 0)
    BY <1>1, <1>4, <2>3, TakeFrontEffort
  <2>5. EffortOf(LevelStep(m).book) = Effort(b2) + Effort(s2)
    <3> HIDE DEF b2, s2
    <3> QED BY <2>1 DEF EffortOf
  <2> HIDE DEF b2, s2, bq, sq
  <2>6. CASE Head(bq).quantity = t.quantity
    BY <1>3, <2>4, <2>5, <2>6
  <2>7. CASE Head(sq).quantity = t.quantity
    BY <1>3, <2>4, <2>5, <2>7
  <2> QED BY <1>3, <2>3, <2>6, <2>7
<1>5. CASE ~(bq # <<>> /\ sq # <<>>)
  <2> DEFINE b2 == EraseIfEmpty(buys, m.bp)
             s2 == EraseIfEmpty(sells, m.sp)
             bn == NextBuy(buys, m.bp)
             sn == NextSell(sells, m.sp)
  <2>1. LevelStep(m).book = [buys |-> b2, sells |-> s2]
    <3>1. LevelStep(m) = [m EXCEPT !.book = [buys |-> b2, sells |-> s2], !.bp = bn, !.sp = sn]
      BY <1>5 DEF LevelStep, Book
    <3> HIDE DEF b2, s2, bn, sn
    <3> QED BY <1>1, <3>1
  <2>2. /\ Effort(b2) = Effort(buys) - (IF bq = <<>> THEN 1 ELSE 0)
        /\ Effort(s2) = Effort(sells) - (IF sq = <<>> THEN 1 ELSE 0)
    BY <1>1, EraseEffort
  <2>3. EffortOf(LevelStep(m).book) = Effort(b2) + Effort(s2)
    <3> HIDE DEF b2, s2
    <3> QED BY <2>1 DEF EffortOf
  <2> HIDE DEF b2, s2, bq, sq
  <2>4. CASE bq = <<>>
    BY <1>3, <2>2, <2>3, <2>4
  <2>5. CASE sq = <<>>
    BY <1>3, <2>2, <2>3, <2>5
  <2> QED BY <1>3, <1>5, <2>4, <2>5
<1> QED BY <1>4, <1>5

\* A call that may take as many steps as there are orders and levels comes to the
\* end of the loop, and leaves no more of them than it found.
LEMMA MatchReturns ==
    ASSUME NEW book \in BookStates, NEW fuel \in Nat, EffortOf(book) <= fuel
    PROVE  /\ ~Crosses(Match(book, fuel).bp, Match(book, fuel).sp)
           /\ EffortOf(Match(book, fuel).book) <= EffortOf(book)
<1>1. PICK r : IsRun(r, book, fuel) /\ Match(book, fuel) = r[fuel]
  BY MatchRuns
<1>2. \A k \in 0 .. fuel : r[k] \in MatchStates /\ EffortOf(r[k].book) \in Nat
  <2> TAKE k \in 0 .. fuel
  <2>1. r[k] \in MatchStates
    BY <1>1 DEF IsRun
  <2>2. r[k].book.buys \in LevelMaps /\ r[k].book.sells \in LevelMaps
    BY <2>1 DEF MatchStates, BookStates
  <2> QED BY <2>1, <2>2, EffortAdds DEF EffortOf
<1>3. r[0].book = book
  BY <1>1 DEF IsRun, StartOf
<1> DEFINE e == EffortOf(book)
           Good == {k \in 0 .. fuel : /\ EffortOf(r[k].book) <= e
                                      /\ Crosses(r[k].bp, r[k].sp) => EffortOf(r[k].book) + k <= e}
<1>4. 0 \in Good
  BY <1>2, <1>3
<1>5. ASSUME NEW k \in 1 .. fuel, k - 1 \in Good PROVE k \in Good
  <2>1. k \in 0 .. fuel /\ k - 1 \in 0 .. fuel
    OBVIOUS
  <2>2. EffortOf(r[k].book) \in Nat /\ EffortOf(r[k - 1].book) \in Nat /\ e \in Nat
    <3>1. 0 \in 0 .. fuel
      OBVIOUS
    <3> QED BY <1>2, <1>3, <2>1, <3>1
  <2>3. CASE ~Crosses(r[k - 1].bp, r[k - 1].sp)
    <3>1. r[k] = r[k - 1]
      BY <1>1, <2>3 DEF IsRun
    <3> QED BY <1>5, <2>1, <2>3, <3>1
  <2>4. CASE Crosses(r[k - 1].bp, r[k - 1].sp)
    <3>1. r[k] = LevelStep(r[k - 1])
      BY <1>1, <2>4 DEF IsRun
    <3>2. EffortOf(r[k].book) < EffortOf(r[k - 1].book)
      BY <1>2, <2>1, <2>4, <3>1, LevelStepEffort
    <3>3. EffortOf(r[k - 1].book) + (k - 1) <= e
      BY <1>5, <2>4
    <3> QED BY <2>1, <2>2, <3>2, <3>3
  <2> QED BY <2>3, <2>4
<1> HIDE DEF Good
<1>6. \A k \in 0 .. fuel : k \in Good
  BY <1>4, <1>5, UpwardsTo
<1>7. fuel \in Good /\ fuel \in 0 .. fuel
  BY <1>6
<1>8. ASSUME Crosses(r[fuel].bp, r[fuel].sp) PROVE FALSE
  <2>1. EffortOf(r[fuel].book) + fuel <= e
    BY <1>7, <1>8 DEF Good
  <2>2. EffortOf(r[fuel].book) > 0
    BY <1>2, <1>7, <1>8, LevelStepEffort
  <2>3. EffortOf(r[fuel].book) \in Nat /\ e \in Nat
    <3>1. 0 \in 0 .. fuel
      OBVIOUS
    <3> QED BY <1>2, <1>3, <1>7, <3>1
  <2> QED BY <2>1, <2>2, <2>3
<1> QED BY <1>1, <1>7, <1>8 DEF Good

\* No more orders and levels than two for each order submitted.
EngineEffort ==
    /\ submits \in 0 .. MaxOrders
    /\ \A s \in DOMAIN books : EffortOf(books[s]) <= 2 * submits

LEMMA EngineEffortNext == EngineInv /\ EngineEffort /\ [EngineNext]_engineVars => EngineEffort'
<1> SUFFICES ASSUME EngineInv, EngineEffort, [EngineNext]_engineVars PROVE EngineEffort'
  OBVIOUS
<1>1. /\ submits \in 0 .. MaxOrders /\ submits \in Nat /\ MaxOrders \in Nat
      /\ \A s \in DOMAIN books : EffortOf(books[s]) <= 2 * submits /\ EffortOf(books[s]) \in Nat
  <2>1. \A b \in BookStates : EffortOf(b) \in Nat
    BY EffortAdds DEF BookStates, EffortOf
  <2> QED BY <2>1, NumbersAssumption DEF EngineEffort, EngineInv, EngineTypes
<1>2. EmptyBook \in BookStates /\ EffortOf(EmptyBook) = 0
  <2>1. Effort(NoLevels) = SumFunctionOnSet(Sizes(NoLevels), {})
    BY DEF Effort, NoLevels
  <2>2. Effort(NoLevels) = 0
    BY <2>1, SumOfNone
  <2> QED BY <2>2, EmptyIsBook DEF EmptyBook, Book, EffortOf
<1>3. ASSUME NEW s \in KnownSymbols, AddSymbol(s) PROVE EngineEffort'
  <2>1. books' = Put(books, s, EmptyBook) /\ submits' = submits
    BY <1>3 DEF AddSymbol
  <2>2. \A k \in DOMAIN books' : \/ books'[k] = EmptyBook
                                 \/ k \in DOMAIN books /\ books'[k] = books[k]
    BY <2>1 DEF Put
  <2> QED BY <1>1, <1>2, <2>1, <2>2 DEF EngineEffort
<1>4. ASSUME NEW o \in EngineOrders, SubmitOrder(o) PROVE EngineEffort'
  <2> DEFINE b == BookOf(o.symbol)
             new == IF o.is_buy THEN Book(AddOrder(b.buys, o), b.sells)
                                ELSE Book(b.buys, AddOrder(b.sells, o))
  <2>1. /\ books' = Put(books, o.symbol, new) /\ submits' = submits + 1 /\ submits < MaxOrders
    BY <1>4 DEF SubmitOrder
  <2>2. o \in Resting
    BY NumbersAssumption DEF EngineOrders, Resting
  <2>3. b \in BookStates /\ EffortOf(b) <= 2 * submits
    BY <1>1, <1>2 DEF BookOf, EngineInv, EngineTypes
  <2>4. /\ b.buys \in LevelMaps /\ b.sells \in LevelMaps
        /\ EffortOf(b) = Effort(b.buys) + Effort(b.sells)
    BY <2>3 DEF BookStates, EffortOf
  <2>5. /\ Effort(AddOrder(b.buys, o)) <= Effort(b.buys) + 2
        /\ Effort(AddOrder(b.sells, o)) <= Effort(b.sells) + 2
        /\ Effort(b.buys) \in Nat /\ Effort(b.sells) \in Nat
        /\ Effort(AddOrder(b.buys, o)) \in Nat /\ Effort(AddOrder(b.sells, o)) \in Nat
    <3> HIDE DEF b
    <3> QED BY <2>2, <2>4, AddOrderEffort, EffortAdds, EngineAddOrder
  <2>6. EffortOf(new) <= 2 * (submits + 1)
    <3> HIDE DEF b
    <3>1. CASE o.is_buy
      <4>1. EffortOf(new) = Effort(AddOrder(b.buys, o)) + Effort(b.sells)
        BY <3>1 DEF EffortOf, Book
      <4> HIDE DEF new
      <4> QED BY <1>1, <2>3, <2>4, <2>5, <4>1
    <3>2. CASE ~o.is_buy
      <4>1. EffortOf(new) = Effort(b.buys) + Effort(AddOrder(b.sells, o))
        BY <3>2 DEF EffortOf, Book
      <4> HIDE DEF new
      <4> QED BY <1>1, <2>3, <2>4, <2>5, <4>1
    <3> QED BY <3>1, <3>2
  <2> HIDE DEF new
  <2>7. \A k \in DOMAIN books' : books'[k] = new \/ (k \in DOMAIN books /\ books'[k] = books[k])
    BY <2>1 DEF Put
  <2> QED BY <1>1, <2>1, <2>6, <2>7 DEF EngineEffort
<1>5. ASSUME NEW s \in Symbols, MatchBook(s) PROVE EngineEffort'
  <2> DEFINE m == Match(books[s], Fuel)
  <2>1. s \in DOMAIN books /\ books' = [books EXCEPT ![s] = m.book] /\ submits' = submits
    BY <1>5 DEF MatchBook, EngineInv, EngineTypes
  <2>2. books[s] \in BookStates /\ Fuel \in Nat /\ EffortOf(books[s]) <= Fuel
    BY <1>1, <2>1 DEF EngineInv, EngineTypes, Fuel
  <2>3. EffortOf(m.book) <= EffortOf(books[s])
    BY <2>2, MatchReturns
  <2>4. m.book \in BookStates /\ EffortOf(m.book) \in Nat
    <3>1. m \in MatchStates
      BY <2>2, MatchStays
    <3> HIDE DEF m
    <3>2. m.book \in BookStates
      BY <3>1 DEF MatchStates
    <3> QED BY <3>2, EffortAdds DEF BookStates, EffortOf
  <2> HIDE DEF m
  <2>5. \A k \in DOMAIN books' :
           /\ k \in DOMAIN books
           /\ books'[k] = (IF k = s THEN m.book ELSE books[k])
    BY <2>1
  <2>6. EffortOf(m.book) <= 2 * submits
    BY <1>1, <2>1, <2>3, <2>4
  <2> QED BY <1>1, <2>1, <2>5, <2>6 DEF EngineEffort
<1>6. CASE MatchAllBegin \/ MatchAllEnd \/ LogTrade \/ LogDone \/ UNCHANGED engineVars
  BY <1>6 DEF EngineEffort, MatchAllBegin, MatchAllEnd, LogTrade, LogDone, engineVars
<1> QED BY <1>3, <1>4, <1>5, <1>6 DEF EngineNext, Matcher

\* A call of match() on any book the matcher can come to is over within Fuel steps:
\* the loop has left its levels, and did not run out of steps.
MatchIsOver == \A s \in DOMAIN books :
    LET m == Match(books[s], Fuel) IN ~Crosses(m.bp, m.sp)

\* EngineManager::match_all never hangs in a book, whatever was submitted, orders
\* for no shares or fewer included (orderbook_optimized.hpp, both loops of match()).
THEOREM MatchEnds == EngineSpec => []MatchIsOver
<1>1. EngineInit => EngineEffort
  BY NumbersAssumption DEF EngineInit, EmptyMap, EngineEffort
<1>2. EngineInv /\ EngineEffort => MatchIsOver
  <2> SUFFICES ASSUME EngineInv, EngineEffort, NEW s \in DOMAIN books
               PROVE  ~Crosses(Match(books[s], Fuel).bp, Match(books[s], Fuel).sp)
    BY DEF MatchIsOver
  <2>1. books[s] \in BookStates /\ Fuel \in Nat /\ EffortOf(books[s]) <= Fuel
    <3>1. books[s] \in BookStates
      BY DEF EngineInv, EngineTypes
    <3>2. EffortOf(books[s]) \in Nat
      BY <3>1, EffortAdds DEF BookStates, EffortOf
    <3> QED BY <3>1, <3>2, NumbersAssumption DEF EngineEffort, Fuel
  <2> QED BY <2>1, MatchReturns
<1> QED BY <1>1, <1>2, EngineInvariant, EngineEffortNext, PTL DEF EngineSpec

(***************************************************************************)
(* The two descriptions of match(): OrderBookOptimized goes through its    *)
(* loops one action at a time, LevelStep is one step of the run that Match *)
(* computes.                                                               *)
(***************************************************************************)
Pass == [book |-> Book(buy_levels, sell_levels), trades |-> trades,
         bp |-> buy_it, sp |-> sell_it]
PairCrosses == mpc = "pair" => Crosses(buy_it, sell_it)

LEMMA PairCrossesHolds == Spec => []PairCrosses
<1>1. Init => PairCrosses
  BY DEF Init, PairCrosses
<1>2. PairCrosses /\ [Next]_vars => PairCrosses'
  <2> SUFFICES ASSUME PairCrosses, [Next]_vars PROVE PairCrosses'
    OBVIOUS
  <2>1. CASE \E b \in BOOLEAN, p \in Prices, q \in Quantities : Submit(b, p, q)
    BY <2>1 DEF Submit, matchVars, PairCrosses
  <2>2. CASE MatchBegin
    BY <2>2 DEF MatchBegin, PairCrosses
  <2>3. CASE MatchEnd
    BY <2>3 DEF MatchEnd, PairCrosses
  <2>4. CASE EnterLevels
    BY <2>4 DEF EnterLevels, PairCrosses
  <2>5. CASE Fill
    BY <2>5 DEF Fill, PairCrosses
  <2>6. CASE NextLevels
    BY <2>6 DEF NextLevels, PairCrosses
  <2>7. CASE UNCHANGED vars
    BY <2>7 DEF vars, matchVars, PairCrosses
  <2> QED BY <2>1, <2>2, <2>3, <2>4, <2>5, <2>6, <2>7 DEF Next, MatchStep
<1> QED BY <1>1, <1>2, PTL DEF Spec

\* The actions of a call are the steps of Match: the first state, then one LevelStep
\* after the other while the levels cross, and the end only when they do not.
PassIsLevelStep ==
    /\ MatchBegin => Pass' = StartOf(Pass.book)
    /\ Fill \/ NextLevels => Crosses(Pass.bp, Pass.sp) /\ Pass' = LevelStep(Pass)
    /\ EnterLevels \/ MatchEnd => Pass' = Pass
    /\ MatchEnd => ~Crosses(Pass.bp, Pass.sp)

\* OrderBookOptimized::match() with a step for each pass of its loops, and the whole
\* call that EngineManager::match_all makes, are the same computation.
THEOREM StepsAreMatch == Spec => [][PassIsLevelStep]_vars
<1>1. PairCrosses /\ [Next]_vars => [PassIsLevelStep]_vars
  <2> SUFFICES ASSUME PairCrosses, Next PROVE PassIsLevelStep
    OBVIOUS
  <2>1. /\ Pass.book = [buys |-> buy_levels, sells |-> sell_levels]
        /\ Pass.bp = buy_it /\ Pass.sp = sell_it /\ Pass.trades = trades
        /\ Pass.book.buys = buy_levels /\ Pass.book.sells = sell_levels
    BY DEF Pass, Book
  <2>2. ASSUME MatchBegin PROVE Pass' = StartOf(Pass.book)
    <3>1. /\ buy_levels' = buy_levels /\ sell_levels' = sell_levels /\ trades' = <<>>
          /\ buy_it' = FirstBuy(DOMAIN buy_levels) /\ sell_it' = FirstSell(DOMAIN sell_levels)
      BY <2>2 DEF MatchBegin, bookVars
    <3> QED BY <2>1, <3>1 DEF Pass, StartOf, Book
  <2>3. ASSUME Fill PROVE Crosses(Pass.bp, Pass.sp) /\ Pass' = LevelStep(Pass)
    <3> DEFINE t == TradeOf(Head(BuyQueue), Head(SellQueue), sell_it)
               b2 == TakeFront(buy_levels, buy_it, t.quantity)
               s2 == TakeFront(sell_levels, sell_it, t.quantity)
    <3>1. t.quantity = MinQuantity(Head(BuyQueue), Head(SellQueue))
      BY DEF TradeOf
    <3>2. /\ mpc = "pair" /\ BuyQueue # <<>> /\ SellQueue # <<>>
          /\ trades' = Append(trades, t) /\ buy_levels' = b2 /\ sell_levels' = s2
          /\ buy_it' = buy_it /\ sell_it' = sell_it
      BY <2>3, <3>1 DEF Fill
    <3>3. LevelStep(Pass) = [Pass EXCEPT !.book = [buys |-> b2, sells |-> s2],
                                         !.trades = Append(@, t)]
      BY <2>1, <3>2 DEF LevelStep, BuyQueue, SellQueue, Book
    <3> HIDE DEF t, b2, s2
    <3>4. LevelStep(Pass) = [book |-> [buys |-> b2, sells |-> s2], trades |-> Append(trades, t),
                             bp |-> buy_it, sp |-> sell_it]
      BY <3>3 DEF Pass
    <3> QED BY <2>1, <3>2, <3>4 DEF PairCrosses, Pass, Book
  <2>4. ASSUME NextLevels PROVE Crosses(Pass.bp, Pass.sp) /\ Pass' = LevelStep(Pass)
    <3> DEFINE b2 == EraseIfEmpty(buy_levels, buy_it)
               s2 == EraseIfEmpty(sell_levels, sell_it)
               bn == NextBuy(buy_levels, buy_it)
               sn == NextSell(sell_levels, sell_it)
    <3>1. /\ mpc = "pair" /\ ~(BuyQueue # <<>> /\ SellQueue # <<>>)
          /\ trades' = trades /\ buy_levels' = b2 /\ sell_levels' = s2
          /\ buy_it' = bn /\ sell_it' = sn
      BY <2>4 DEF NextLevels
    <3>2. LevelStep(Pass) = [Pass EXCEPT !.book = [buys |-> b2, sells |-> s2], !.bp = bn, !.sp = sn]
      BY <2>1, <3>1 DEF LevelStep, BuyQueue, SellQueue, Book
    <3> HIDE DEF b2, s2, bn, sn
    <3>3. LevelStep(Pass) = [book |-> [buys |-> b2, sells |-> s2], trades |-> trades,
                             bp |-> bn, sp |-> sn]
      BY <3>2 DEF Pass
    <3> QED BY <2>1, <3>1, <3>3 DEF PairCrosses, Pass, Book
  <2>5. ASSUME EnterLevels \/ MatchEnd PROVE Pass' = Pass
    BY <2>5 DEF EnterLevels, MatchEnd, bookVars, Pass
  <2>6. ASSUME MatchEnd PROVE ~Crosses(Pass.bp, Pass.sp)
    BY <2>1, <2>6 DEF MatchEnd
  <2> QED BY <2>2, <2>3, <2>4, <2>5, <2>6 DEF PassIsLevelStep
<1> QED BY <1>1, PairCrossesHolds, PTL DEF Spec
===============================================================================
