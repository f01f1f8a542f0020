------------------------ MODULE StrategyExchange_proofs ------------------------
(***************************************************************************)
(* Proofs about StrategyExchange, for every set of prices and quantities   *)
(* and every number of rows and rounds: that the accounts stay equal and   *)
(* the sides alternate, the arithmetic of fractions, and what the profits  *)
(* say about the money.                                                    *)
(***************************************************************************)
EXTENDS StrategyExchange, Recursion, SequenceTheorems, TLAPS

Threads == {"md", "mm"}

IsCall(c) == /\ c = [fills |-> c.fills, k |-> c.k, half |-> c.half]
             /\ c.k \in 1 .. 3 /\ c.half \in BOOLEAN

TypeInv ==
    /\ week \in {8, 10}
    /\ at \in {"idle", "mark", "marking", "buy", "buying", "sell", "selling", "over"}
    /\ mm \in {"wait", "quoting", "bid", "bidding", "ask", "asking", "round", "done"}
    /\ turn \in 0 .. 3
    /\ order_mutex_ \in Threads \cup {"free"}
    /\ DOMAIN call = Threads /\ call = [t \in Threads |-> call[t]]
    /\ \A t \in Threads : IsCall(call[t])

\* Fills are reported from inside submit_order only, and one thread at a time is
\* there: in week 8 the one that holds the mutex, in week 10 the only thread.
OneSubmits ==
    /\ week = 8 => /\ order = NoOrder
                   /\ \A t \in Threads : Submitting(t) <=> order_mutex_ = t
    /\ week = 10 => mm = "done" /\ order_mutex_ = "free"
    /\ order # NoOrder => Submitting("md") /\ call["md"].fills = <<>>
    /\ \A t \in Threads : IF call[t].fills = <<>> THEN call[t] = NoCall ELSE Submitting(t)

\* The account of a strategy, and what the two halves of on_order_filled make of
\* an account.
Account(s) == [position |-> position_[s], cash |-> cash_[s], count |-> trade_count_[s],
               avg |-> avg_cost_[s], realized |-> realized_pnl_[s]]
Moved(a, f) == [a EXCEPT !.position = @ + Flow(f)]
AverageAfter(a, f) ==
    CASE a.position = 0 -> Whole(0)
      [] a.position # 0 /\ f.is_buy ->
            Over(Plus(Times(a.avg, a.position - f.quantity), Whole(f.price * f.quantity)),
                 a.position)
      [] OTHER -> a.avg
RealizedAfter(a, f) ==
    IF f.is_buy THEN a.realized
    ELSE Plus(a.realized, Times(Minus(Whole(f.price), a.avg), f.quantity))
Booked(a, f) == [position |-> a.position, cash |-> a.cash - Flow(f) * f.price,
                 count |-> a.count + 1, avg |-> AverageAfter(a, f),
                 realized |-> RealizedAfter(a, f)]
Filled(a, f) == Booked(Moved(a, f), f)
LedgerOf(a) == [position |-> a.position, cash |-> a.cash, count |-> a.count]

\* Every strategy had the account `a' before the fill that is being reported:
\* those already told have booked it, the one being told has moved its position.
ToldOf(c, a) ==
    LET f == Head(c.fills) IN
    /\ \A i \in 1 .. 3 : Account(Strategies[i]) =
          IF i < c.k THEN Filled(a, f)
          ELSE IF i = c.k /\ c.half THEN Moved(a, f) ELSE a
    /\ ledger = LedgerOf(IF c.k = 1 /\ ~c.half THEN a ELSE Filled(a, f))
AllHave(a) ==
    /\ \A i \in 1 .. 3 : Account(Strategies[i]) = a
    /\ ledger = LedgerOf(a)
InStep == \E a :
    /\ \A t \in Threads : call[t].fills # <<>> => ToldOf(call[t], a)
    /\ (\A t \in Threads : call[t].fills = <<>>) => AllHave(a)

AccountTypes ==
    /\ DOMAIN position_ = Names /\ DOMAIN cash_ = Names /\ DOMAIN trade_count_ = Names
    /\ DOMAIN avg_cost_ = Names /\ DOMAIN realized_pnl_ = Names

AccountsInv == TypeInv /\ OneSubmits /\ AccountTypes /\ InStep

\* What MOM and MR have ordered, with the order that is being submitted.
SidesInv ==
    /\ has_position_ \in [{"MOM", "MR"} -> BOOLEAN]
    /\ DOMAIN ordered = {"MOM", "MR"}
    /\ at \in {"mark", "marking", "buy", "buying", "sell", "selling"} => turn \in 1 .. 3
    /\ at \in {"buy", "buying", "sell", "selling"} => turn # 1
    /\ \A s \in {"MOM", "MR"} :
          ordered[s] = IF IF Submitting("md") /\ s = Strategies[turn]
                          THEN at = "buying" ELSE has_position_[s]
                       THEN OrderQty[s] ELSE 0

LEMMA StrategiesShape ==
    /\ Strategies[1] = "MM" /\ Strategies[2] = "MOM" /\ Strategies[3] = "MR"
    /\ Len(Strategies) = 3 /\ Audience = 3
    /\ \A i \in 1 .. 3 : Strategies[i] \in Names
    /\ \A i, j \in 1 .. 3 : Strategies[i] = Strategies[j] => i = j
    /\ \A s \in Names : \E i \in 1 .. 3 : s = Strategies[i]
  BY DEF Strategies, Names, Audience

-----------------------------------------------------------------------------
(***************************************************************************)
(* Steps that report nothing                                               *)
(***************************************************************************)
LEMMA InvInit == Init => AccountsInv /\ SidesInv
<1> SUFFICES ASSUME Init PROVE AccountsInv /\ SidesInv
  OBVIOUS
<1> USE DEF Init
<1>1. TypeInv
  <2>1. DOMAIN call = Threads /\ \A t \in Threads : call[t] = NoCall
    BY DEF Threads
  <2>2. call = [t \in Threads |-> call[t]]
    BY DEF Threads
  <2>3. IsCall(NoCall)
    BY DEF NoCall, IsCall
  <2> QED BY <2>1, <2>2, <2>3 DEF TypeInv
<1>2. OneSubmits
  BY DEF OneSubmits, Submitting, Threads, NoCall, BookInit
<1>3. AccountTypes
  BY DEF AccountTypes, AccountsInit
<1>4. InStep
  <2> DEFINE a == [position |-> 0, cash |-> 0, count |-> 0,
                   avg |-> Whole(0), realized |-> Whole(0)]
  <2>1. \A s \in Names : Account(s) = a
    BY DEF Account, AccountsInit
  <2>2. ledger = LedgerOf(a)
    BY DEF LedgerOf
  <2> HIDE DEF a
  <2>3. AllHave(a)
    BY <2>1, <2>2, StrategiesShape DEF AllHave
  <2>4. \A t \in Threads : call[t].fills = <<>>
    BY DEF Threads, NoCall
  <2> QED BY <2>3, <2>4 DEF InStep
<1>5. SidesInv
  BY DEF SidesInv, AccountsInit, Submitting
<1> QED BY <1>1, <1>2, <1>3, <1>4, <1>5 DEF AccountsInv

\* The accounts depend on the calls and on the fields of the strategies.
LEMMA InStepFrame ==
    ASSUME InStep, UNCHANGED <<call, accountVars, ledger>>
    PROVE  InStep'
<1>1. \A s : Account(s)' = Account(s)
  BY DEF Account, accountVars, costVars
<1>2. \A a : AllHave(a) => AllHave(a)'
  BY <1>1 DEF AllHave
<1>3. \A t, a : ToldOf(call[t], a) => ToldOf(call[t], a)'
  BY <1>1 DEF ToldOf
<1> QED BY <1>2, <1>3 DEF InStep

\* Nobody enters or leaves submit_order.
LEMMA QuietKeeps ==
    ASSUME AccountsInv, TypeInv',
           UNCHANGED <<week, order, order_mutex_, call, ledger, accountVars>>,
           \A t \in Threads : Submitting(t)' <=> Submitting(t),
           week = 10 /\ mm = "done" => mm' = "done"
    PROVE  AccountsInv'
<1>1. OneSubmits'
  BY DEF AccountsInv, OneSubmits, Threads
<1>2. AccountTypes'
  BY DEF AccountsInv, AccountTypes, accountVars, costVars
<1> QED BY <1>1, <1>2, InStepFrame DEF AccountsInv

\* Only one thread can be inside submit_order.
LEMMA Exclusive ==
    ASSUME TypeInv, OneSubmits
    PROVE  ~(Submitting("md") /\ Submitting("mm"))
  BY DEF TypeInv, OneSubmits, Submitting, Threads

\* The call that begins to report has the fields of a call.
LEMMA NewCallIsCall == \A c, fs : c = [NoCall EXCEPT !.fills = fs] => IsCall(c)
<1>1. 1 \in 1 .. 3
  OBVIOUS
<1>2. \A c, fs : c = [NoCall EXCEPT !.fills = fs] => c.k = 1 /\ c.half = FALSE
  BY Zenon DEF NoCall
<1>3. \A c, fs : c = [NoCall EXCEPT !.fills = fs] =>
                     c = [x \in {"fills", "k", "half"} |-> c[x]]
  BY SMT DEF NoCall
<1>4. \A c, fs : c = [NoCall EXCEPT !.fills = fs] =>
                     c.k \in 1 .. 3 /\ c.half \in BOOLEAN
  BY <1>1, <1>2, Zenon
<1>5. \A c : /\ c = [x \in {"fills", "k", "half"} |-> c[x]]
             /\ c.k \in 1 .. 3 /\ c.half \in BOOLEAN
             => IsCall(c)
  BY ONLY SMT DEF IsCall
<1> QED
  <2> TAKE c, fs
  <2> HAVE c = [NoCall EXCEPT !.fills = fs]
  <2>1. c = [x \in {"fills", "k", "half"} |-> c[x]]
    BY <1>3, Zenon
  <2>2. c.k \in 1 .. 3 /\ c.half \in BOOLEAN
    BY <1>4, Zenon
  <2> QED BY ONLY <1>5, <2>1, <2>2, SMT

\* When no fill is being reported, the accounts agree with the ledger; a call
\* that begins to report changes nothing about that.
LEMMA CallBegins ==
    ASSUME AccountsInv, NEW t \in Threads, NEW fs,
           \A u \in Threads : call[u].fills = <<>>,
           call' = [call EXCEPT ![t].fills = fs],
           UNCHANGED <<ledger, accountVars>>
    PROVE  /\ InStep'
           /\ DOMAIN call' = Threads /\ call' = [u \in Threads |-> call'[u]]
           /\ call'[t] = [NoCall EXCEPT !.fills = fs]
           /\ \A u \in Threads : u # t => call'[u] = call[u]
<1>1. /\ call[t] = NoCall /\ DOMAIN call = Threads
      /\ \A u \in Threads : call[u] = NoCall
  BY DEF AccountsInv, TypeInv, OneSubmits
<1>2. /\ DOMAIN call' = Threads /\ call' = [u \in Threads |-> call'[u]]
      /\ call'[t] = [call[t] EXCEPT !.fills = fs]
      /\ \A u \in Threads : u # t => call'[u] = call[u]
  BY <1>1
<1>3. call'[t].k = 1 /\ call'[t].half = FALSE
  BY <1>1, <1>2 DEF NoCall
<1>4. PICK a : AllHave(a)
  BY DEF AccountsInv, InStep
<1>5. \A s : Account(s)' = Account(s)
  BY DEF Account, accountVars, costVars
<1>6. AllHave(a)'
  BY <1>4, <1>5 DEF AllHave
<1>7. ToldOf(call[t], a)'
  <2>1. \A i \in 1 .. 3 : ~(i < 1)
    OBVIOUS
  <2> QED BY <1>3, <1>6, <2>1 DEF ToldOf, AllHave
<1>8. \A u \in Threads : u # t => call'[u].fills = <<>>
  BY <1>2
<1> QED BY <1>1, <1>2, <1>6, <1>7, <1>8 DEF InStep

LEMMA SubmitKeeps ==
    ASSUME AccountsInv, NEW t \in Threads, NEW o, Submit(t, o),
           ~Submitting(t), Submitting(t)',
           \A u \in Threads : u # t => (Submitting(u)' <=> Submitting(u)),
           week = 10 => t = "md" /\ mm' = mm,
           UNCHANGED <<week, accountVars>>,
           at' \in {"idle", "mark", "marking", "buy", "buying", "sell", "selling", "over"},
           mm' \in {"wait", "quoting", "bid", "bidding", "ask", "asking", "round", "done"},
           turn' \in 0 .. 3
    PROVE  AccountsInv'
<1> USE DEF AccountsInv
<1>1. AccountTypes'
  BY DEF AccountTypes, accountVars, costVars
<1>2. CASE week = 10
  <2>1. UNCHANGED <<order_mutex_, call, ledger>> /\ order = NoOrder
    BY <1>2 DEF Submit, AddOrder, callVars
  <2>2. call[t].fills = <<>>
    BY DEF OneSubmits
  <2>3. TypeInv'
    BY <2>1 DEF TypeInv
  <2>4. OneSubmits'
    BY <1>2, <2>1, <2>2 DEF OneSubmits, Threads
  <2> QED BY <1>1, <2>1, <2>3, <2>4, InStepFrame
<1>3. CASE week = 8
  <2>1. /\ order_mutex_ = "free" /\ order_mutex_' = t
        /\ call' = [call EXCEPT ![t].fills = <<o>>]
        /\ UNCHANGED <<order, ledger>> /\ order = NoOrder
    BY <1>3 DEF Submit, bookVars, OneSubmits
  <2>2. \A u \in Threads : ~Submitting(u) /\ call[u] = NoCall /\ call[u].fills = <<>>
    BY <1>3, <2>1 DEF OneSubmits, NoCall, Threads
  <2>3. /\ InStep'
        /\ DOMAIN call' = Threads /\ call' = [u \in Threads |-> call'[u]]
        /\ call'[t] = [NoCall EXCEPT !.fills = <<o>>]
        /\ \A u \in Threads : u # t => call'[u] = call[u]
    BY <2>1, <2>2, CallBegins
  <2>4. TypeInv'
    BY <2>1, <2>2, <2>3 DEF TypeInv, IsCall, NoCall
  <2>5. OneSubmits'
    BY <1>3, <2>1, <2>2, <2>3 DEF OneSubmits
  <2> QED BY <1>1, <2>3, <2>4, <2>5
<1> QED BY <1>2, <1>3 DEF TypeInv

LEMMA ReturnKeeps ==
    ASSUME AccountsInv, NEW t \in Threads, Returned(t), ~Submitting(t)',
           \A u \in Threads : u # t => (Submitting(u)' <=> Submitting(u)),
           week = 10 /\ mm = "done" => mm' = "done",
           at' \in {"idle", "mark", "marking", "buy", "buying", "sell", "selling", "over"},
           mm' \in {"wait", "quoting", "bid", "bidding", "ask", "asking", "round", "done"},
           turn' \in 0 .. 3
    PROVE  AccountsInv'
<1> USE DEF AccountsInv
<1>1. /\ Submitting(t) /\ order = NoOrder /\ call[t].fills = <<>>
      /\ order_mutex_' = IF order_mutex_ = t THEN "free" ELSE order_mutex_
      /\ UNCHANGED <<week, order, call, ledger, accountVars>>
  BY DEF Returned, Unlocked, bookVars
<1>2. TypeInv'
  BY <1>1 DEF TypeInv
<1>3. OneSubmits'
  BY <1>1 DEF OneSubmits, TypeInv, Threads
<1>4. AccountTypes'
  BY <1>1 DEF AccountTypes, accountVars, costVars
<1> QED BY <1>1, <1>2, <1>3, <1>4, InStepFrame

LEMMA MatchKeeps ==
    ASSUME AccountsInv, Match
    PROVE  AccountsInv'
<1> USE DEF AccountsInv
<1>1. /\ week = 10 /\ Submitting("md") /\ order # NoOrder
      /\ call' = IF order' = NoOrder THEN [call EXCEPT !["md"].fills = fills] ELSE call
      /\ UNCHANGED <<week, mdVars, broadcastVars, last_md_, quoteVars, mainVars,
                     order_mutex_, ledger, ordered, has_position_, accountVars, markVars>>
  <2>1. order # NoOrder
    BY DEF Match, Running, TakeFront, Finish
  <2> QED BY <2>1 DEF Match
<1>2. mm = "done" /\ "md" \in Threads /\ "mm" \in Threads
  BY <1>1 DEF OneSubmits, Threads
<1>3. /\ \A t \in Threads : Submitting(t)' <=> Submitting(t)
      /\ ~Submitting("mm")
  BY <1>1, <1>2 DEF Submitting, broadcastVars, quoteVars
<1>4. \A t \in Threads : call[t] = NoCall /\ call[t].fills = <<>>
  BY <1>1, <1>3 DEF OneSubmits, Threads, NoCall
<1>5. AccountTypes'
  BY <1>1 DEF AccountTypes, accountVars, costVars
<1>6. CASE order' = NoOrder
  <2>1. /\ InStep'
        /\ DOMAIN call' = Threads /\ call' = [u \in Threads |-> call'[u]]
        /\ call'["md"] = [NoCall EXCEPT !.fills = fills]
        /\ \A u \in Threads : u # "md" => call'[u] = call[u]
    <3>1. PICK fs : fs = fills
      OBVIOUS
    <3> QED BY <1>1, <1>2, <1>4, <1>6, <3>1, CallBegins
  <2>2. TypeInv'
    <3>1. \A t \in Threads : IsCall(call[t])
      BY DEF TypeInv
    <3>2. ASSUME NEW t \in Threads PROVE IsCall(call'[t])
      <4>1. CASE t = "md"
        BY <2>1, <4>1, NewCallIsCall
      <4>2. CASE t # "md"
        BY <2>1, <3>1, <4>2
      <4> QED BY <4>1, <4>2
    <3>3. /\ UNCHANGED <<week, at, mm, turn, order_mutex_>>
      BY <1>1 DEF broadcastVars, quoteVars, mdVars, mainVars
    <3>4. DOMAIN call' = Threads /\ call' = [u \in Threads |-> call'[u]]
      BY <2>1
    <3> HIDE DEF IsCall
    <3>5. \A t \in Threads : IsCall(call'[t])
      BY <3>2
    <3> QED BY <3>3, <3>4, <3>5 DEF TypeInv, IsCall
  <2>3. OneSubmits'
    BY <1>1, <1>3, <1>4, <1>6, <2>1 DEF OneSubmits, quoteVars, NoCall, Threads
  <2> QED BY <1>5, <2>1, <2>2, <2>3
<1>7. CASE order' # NoOrder
  <2>1. TypeInv'
    BY <1>1, <1>7 DEF TypeInv, broadcastVars, quoteVars
  <2>2. OneSubmits'
    BY <1>1, <1>3, <1>4, <1>7 DEF OneSubmits, quoteVars, Threads
  <2> QED BY <1>1, <1>5, <1>7, <2>1, <2>2, InStepFrame
<1> QED BY <1>6, <1>7

-----------------------------------------------------------------------------
(***************************************************************************)
(* A step of the report                                                    *)
(***************************************************************************)

\* The halves of on_order_filled, as functions of the account.
LEMMA MovePositionShape ==
    ASSUME AccountTypes, NEW s \in Names, NEW f, MovePosition(s, f)
    PROVE  /\ AccountTypes'
           /\ Account(s)' = Moved(Account(s), f)
           /\ \A r \in Names : r # s => Account(r)' = Account(r)
<1>1. /\ position_' = [position_ EXCEPT ![s] = @ + Flow(f)]
      /\ UNCHANGED <<cash_, trade_count_, avg_cost_, realized_pnl_>>
  BY DEF MovePosition, costVars
<1>2. /\ position_'[s] = position_[s] + Flow(f) /\ DOMAIN position_' = Names
      /\ \A r \in Names : r # s => position_'[r] = position_[r]
  BY <1>1 DEF AccountTypes
<1> QED BY <1>1, <1>2 DEF AccountTypes, Account, Moved

LEMMA BookFillShape ==
    ASSUME AccountTypes, NEW s \in Names, NEW f, BookFill(s, f)
    PROVE  /\ AccountTypes'
           /\ Account(s)' = Booked(Account(s), f)
           /\ \A r \in Names : r # s => Account(r)' = Account(r)
<1>1. /\ cash_' = [cash_ EXCEPT ![s] = @ - Flow(f) * f.price]
      /\ trade_count_' = [trade_count_ EXCEPT ![s] = @ + 1]
      /\ avg_cost_' = [avg_cost_ EXCEPT ![s] = AverageCost(s, f)]
      /\ realized_pnl_' = [realized_pnl_ EXCEPT ![s] = Realized(s, f)]
      /\ UNCHANGED position_
  BY DEF BookFill
<1>2. AverageCost(s, f) = AverageAfter(Account(s), f)
  BY DEF AverageCost, AverageAfter, Account
<1>3. Realized(s, f) = RealizedAfter(Account(s), f)
  BY DEF Realized, RealizedAfter, Account
<1>4. /\ cash_'[s] = cash_[s] - Flow(f) * f.price
      /\ trade_count_'[s] = trade_count_[s] + 1
      /\ avg_cost_'[s] = AverageAfter(Account(s), f)
      /\ realized_pnl_'[s] = RealizedAfter(Account(s), f)
  BY <1>1, <1>2, <1>3 DEF AccountTypes
<1>5. AccountTypes'
  BY <1>1 DEF AccountTypes
<1>6. \A r \in Names : r # s => Account(r)' = Account(r)
  BY <1>1 DEF AccountTypes, Account
<1>7. Account(s)' = Booked(Account(s), f)
  <2>1. /\ Account(s).position = position_[s] /\ Account(s).cash = cash_[s]
        /\ Account(s).count = trade_count_[s]
    BY DEF Account
  <2>2. Booked(Account(s), f) =
           [position |-> position_[s], cash |-> cash_[s] - Flow(f) * f.price,
            count |-> trade_count_[s] + 1, avg |-> AverageAfter(Account(s), f),
            realized |-> RealizedAfter(Account(s), f)]
    BY <2>1 DEF Booked
  <2>3. Account(s)' = [position |-> position_'[s], cash |-> cash_'[s],
                       count |-> trade_count_'[s], avg |-> avg_cost_'[s],
                       realized |-> realized_pnl_'[s]]
    BY DEF Account
  <2> QED BY <1>1, <1>4, <2>2, <2>3
<1> QED BY <1>5, <1>6, <1>7

\* A step of the report tells one thread's next strategy one half of a fill.
LEMMA ReportShape ==
    ASSUME AccountsInv, NEW t \in Threads, ReportFill(t)
    PROVE  /\ call[t].fills # <<>> /\ call[t].k \in 1 .. 3 /\ call[t].half \in BOOLEAN
           /\ IF call[t].half THEN BookFill(Strategies[call[t].k], Head(call[t].fills))
                              ELSE MovePosition(Strategies[call[t].k], Head(call[t].fills))
           /\ \A u \in Threads : u # t => /\ ~Submitting(u)
                                          /\ call[u] = NoCall /\ call'[u] = call[u]
           /\ ~call[t].half => call'[t] = [fills |-> call[t].fills, k |-> call[t].k, half |-> TRUE]
           /\ call[t].half /\ call[t].k < 3 =>
                 call'[t] = [fills |-> call[t].fills, k |-> call[t].k + 1, half |-> FALSE]
           /\ call[t].half /\ ~(call[t].k < 3) =>
                 call'[t] = [fills |-> Tail(call[t].fills), k |-> 1, half |-> FALSE]
           /\ Submitting(t) /\ DOMAIN call' = Threads /\ call' = [u \in Threads |-> call'[u]]
<1> USE DEF AccountsInv
<1>0. call[t].k \in 1 .. 3 /\ call[t].half \in BOOLEAN
  BY DEF TypeInv, IsCall
<1>1a. PICK k \in 1 .. 3, half \in BOOLEAN : k = call[t].k /\ half = call[t].half
  BY <1>0
<1>1b. PICK fs, f, rest : fs = call[t].fills /\ f = Head(fs) /\ rest = Tail(fs)
  OBVIOUS
<1>1. /\ k = call[t].k /\ half = call[t].half /\ fs = call[t].fills
      /\ f = Head(fs) /\ rest = Tail(fs)
  BY <1>1a, <1>1b
<1>2. /\ fs # <<>>
      /\ IF half THEN BookFill(Strategies[k], f) ELSE MovePosition(Strategies[k], f)
      /\ call' = [call EXCEPT ![t] =
            CASE ~half -> [call[t] EXCEPT !.half = TRUE]
              [] half /\ k < 3 -> [call[t] EXCEPT !.k = @ + 1, !.half = FALSE]
              [] OTHER -> [NoCall EXCEPT !.fills = rest]]
  BY <1>1, StrategiesShape DEF ReportFill
<1>3. /\ Submitting(t)
      /\ \A u \in Threads : u # t => ~Submitting(u) /\ call[u] = NoCall
  <2>1. Submitting(t)
    BY <1>1, <1>2 DEF OneSubmits
  <2> QED BY <2>1, Exclusive DEF OneSubmits, Threads
<1>4. /\ DOMAIN call' = Threads /\ call' = [u \in Threads |-> call'[u]]
      /\ \A u \in Threads : u # t => call'[u] = call[u]
      /\ ~half => call'[t] = [call[t] EXCEPT !.half = TRUE]
      /\ half /\ k < 3 => call'[t] = [call[t] EXCEPT !.k = @ + 1, !.half = FALSE]
      /\ half /\ ~(k < 3) => call'[t] = [NoCall EXCEPT !.fills = rest]
  BY <1>2 DEF TypeInv
<1>5. call[t] = [fills |-> fs, k |-> k, half |-> half]
  BY <1>1 DEF TypeInv, IsCall
<1>6. PICK c, d : c = call[t] /\ d = call'[t]
  OBVIOUS
<1>7. ~half => d = [fills |-> fs, k |-> k, half |-> TRUE]
  <2>1. ASSUME ~half PROVE d = [fills |-> fs, k |-> k, half |-> TRUE]
    <3>1. d = [c EXCEPT !.half = TRUE] /\ c = [fills |-> fs, k |-> k, half |-> half]
      BY <1>4, <1>5, <1>6, <2>1
    <3> QED BY ONLY <3>1
  <2> QED BY <2>1
<1>8. half /\ k < 3 => d = [fills |-> fs, k |-> k + 1, half |-> FALSE]
  <2>1. ASSUME half, k < 3 PROVE d = [fills |-> fs, k |-> k + 1, half |-> FALSE]
    <3>1. d = [c EXCEPT !.k = @ + 1, !.half = FALSE] /\ c = [fills |-> fs, k |-> k, half |-> half]
      BY <1>4, <1>5, <1>6, <2>1
    <3> QED BY ONLY <3>1
  <2> QED BY <2>1
<1>9. half /\ ~(k < 3) => d = [fills |-> rest, k |-> 1, half |-> FALSE]
  BY <1>4, <1>6 DEF NoCall
<1> QED BY <1>1, <1>2, <1>3, <1>4, <1>6, <1>7, <1>8, <1>9

LEMMA ReportKeeps ==
    ASSUME AccountsInv, NEW t \in Threads, ReportFill(t)
    PROVE  AccountsInv'
<1> USE DEF AccountsInv
<1>1a. PICK k \in 1 .. 3 : k = call[t].k
  BY ReportShape
<1>1b. PICK half \in BOOLEAN : half = call[t].half
  BY ReportShape
<1>1c. PICK s \in Names : s = Strategies[k]
  BY StrategiesShape
<1>1d. PICK f, rest : f = Head(call[t].fills) /\ rest = Tail(call[t].fills)
  OBVIOUS
<1>1. /\ call[t].k = k /\ call[t].half = half
      /\ f = Head(call[t].fills) /\ rest = Tail(call[t].fills)
      /\ s = Strategies[k]
  BY <1>1a, <1>1b, <1>1c, <1>1d
<1>2. /\ call[t].fills # <<>>
      /\ IF half THEN BookFill(s, f) ELSE MovePosition(s, f)
      /\ ledger' = IF k = 1 /\ ~half THEN Recorded(f) ELSE ledger
      /\ UNCHANGED <<week, order, mdVars, broadcastVars, last_md_, quoteVars,
                     mainVars, order_mutex_>>
  BY <1>1, ReportShape DEF ReportFill, bookVars
<1>3. /\ Submitting(t)
      /\ \A u \in Threads : Submitting(u)' <=> Submitting(u)
      /\ \A u \in Threads : u # t => ~Submitting(u) /\ call[u] = NoCall
                                     /\ call[u].fills = <<>>
  <2>1. \A u \in Threads : Submitting(u)' <=> Submitting(u)
    BY <1>2 DEF Submitting, broadcastVars, quoteVars
  <2>2. NoCall.fills = <<>>
    BY DEF NoCall
  <2> QED BY <2>1, <2>2, ReportShape
<1>4. /\ DOMAIN call' = Threads /\ call' = [u \in Threads |-> call'[u]]
      /\ \A u \in Threads : u # t => call'[u] = call[u]
  BY ReportShape
<1>6. /\ ~half => call'[t] = [fills |-> call[t].fills, k |-> k, half |-> TRUE]
      /\ half /\ k < 3 => call'[t] = [fills |-> call[t].fills, k |-> k + 1, half |-> FALSE]
      /\ half /\ ~(k < 3) => call'[t] = [fills |-> rest, k |-> 1, half |-> FALSE]
  BY <1>1, ReportShape
<1>7. TypeInv'
  <2>1. IsCall(call'[t])
    <3>1. PICK d, fs : d = call'[t] /\ fs = call[t].fills
      OBVIOUS
    <3>2. CASE ~half
      <4>1. d = [fills |-> fs, k |-> k, half |-> TRUE]
        BY <1>6, <3>1, <3>2
      <4>2. IsCall(d)
        BY ONLY <4>1 DEF IsCall
      <4> QED BY <3>1, <4>2
    <3>3. CASE half /\ k < 3
      <4>1. d = [fills |-> fs, k |-> k + 1, half |-> FALSE] /\ k + 1 \in 1 .. 3
        BY <1>6, <3>1, <3>3
      <4>2. IsCall(d)
        BY ONLY <4>1 DEF IsCall
      <4> QED BY <3>1, <4>2
    <3>4. CASE half /\ ~(k < 3)
      <4>1. d = [fills |-> rest, k |-> 1, half |-> FALSE]
        BY <1>6, <3>1, <3>4
      <4>2. IsCall(d)
        BY ONLY <4>1 DEF IsCall
      <4> QED BY <3>1, <4>2
    <3> QED BY <3>2, <3>3, <3>4
  <2> QED BY <1>2, <1>4, <2>1 DEF TypeInv, broadcastVars, quoteVars
<1>8. OneSubmits'
  <2>1. \A u \in Threads : IF call'[u].fills = <<>> THEN call'[u] = NoCall
                           ELSE Submitting(u)'
    <3>1. CASE half /\ ~(k < 3)
      BY <1>3, <1>4, <1>6, <3>1 DEF NoCall
    <3>2. CASE ~(half /\ ~(k < 3))
      <4>1. call'[t].fills = call[t].fills
        BY <1>6, <3>2
      <4> QED BY <1>2, <1>3, <1>4, <4>1
    <3> QED BY <3>1, <3>2
  <2>2. order = NoOrder
    BY <1>2, <1>3 DEF OneSubmits, Threads
  <2> QED BY <1>2, <1>3, <2>1, <2>2 DEF OneSubmits, quoteVars
<1>9. PICK a : ToldOf(call[t], a)
  BY <1>2 DEF InStep
<1>10. /\ \A i \in 1 .. 3 : Account(Strategies[i]) =
             IF i < k THEN Filled(a, f) ELSE IF i = k /\ half THEN Moved(a, f) ELSE a
       /\ ledger = LedgerOf(IF k = 1 /\ ~half THEN a ELSE Filled(a, f))
  BY <1>1, <1>9 DEF ToldOf
<1>11. CASE ~half
  <2>1. /\ AccountTypes' /\ Account(s)' = Moved(Account(s), f)
        /\ \A r \in Names : r # s => Account(r)' = Account(r)
    BY <1>2, <1>11, MovePositionShape
  <2>2. \A i \in 1 .. 3 : Account(Strategies[i])' =
           IF i < k THEN Filled(a, f) ELSE IF i = k THEN Moved(a, f) ELSE a
    BY <1>1, <1>10, <1>11, <2>1, StrategiesShape
  <2>3. ledger' = LedgerOf(Filled(a, f))
    <3>1. CASE k = 1
      <4>1. ledger' = Recorded(f) /\ ledger = LedgerOf(a)
        BY <1>2, <1>10, <1>11, <3>1
      <4>2. /\ ledger.position = a.position /\ ledger.cash = a.cash
            /\ ledger.count = a.count
        BY <4>1 DEF LedgerOf
      <4>3. /\ Moved(a, f).position = a.position + Flow(f)
            /\ Moved(a, f).cash = a.cash /\ Moved(a, f).count = a.count
        <5>1. \E i \in 1 .. 3 : Account(Strategies[i]) = a
          BY <1>10, <1>11, <3>1
        <5> QED BY <5>1 DEF Moved, Account
      <4> QED BY <4>1, <4>2, <4>3 DEF Recorded, LedgerOf, Filled, Booked
    <3>2. CASE k # 1
      BY <1>2, <1>10, <3>2
    <3> QED BY <3>1, <3>2
  <2>4. call'[t].fills = call[t].fills /\ call'[t].k = k /\ call'[t].half = TRUE
    BY <1>6, <1>11
  <2>5. ToldOf(call[t], a)'
    BY <1>1, <2>2, <2>3, <2>4 DEF ToldOf
  <2>6. InStep'
    BY <1>2, <1>3, <1>4, <2>4, <2>5 DEF InStep
  <2> QED BY <1>7, <1>8, <2>1, <2>6
<1>12. CASE half
  <2>1. /\ AccountTypes' /\ Account(s)' = Booked(Account(s), f)
        /\ \A r \in Names : r # s => Account(r)' = Account(r)
    BY <1>2, <1>12, BookFillShape
  <2>2. \A i \in 1 .. 3 : Account(Strategies[i])' =
           IF i < k + 1 THEN Filled(a, f) ELSE a
    <3>1. Account(s)' = Filled(a, f)
      BY <1>1, <1>10, <1>12, <2>1 DEF Filled
    <3> QED BY <1>1, <1>10, <1>12, <2>1, <3>1, StrategiesShape
  <2>3. ledger' = LedgerOf(Filled(a, f))
    BY <1>2, <1>10, <1>12
  <2>4. CASE k < 3
    <3>1. call'[t].fills = call[t].fills /\ call'[t].k = k + 1 /\ call'[t].half = FALSE
      BY <1>6, <1>12, <2>4
    <3>2. ToldOf(call[t], a)'
      BY <1>1, <2>2, <2>3, <3>1 DEF ToldOf
    <3>3. InStep'
      BY <1>2, <1>3, <1>4, <3>1, <3>2 DEF InStep
    <3> QED BY <1>7, <1>8, <2>1, <3>3
  <2>5. CASE ~(k < 3)
    <3>1. PICK b : b = Filled(a, f)
      OBVIOUS
    <3>2. AllHave(b)'
      BY <2>2, <2>3, <2>5, <3>1 DEF AllHave
    <3>3. call'[t].k = 1 /\ call'[t].half = FALSE
      BY <1>6, <1>12, <2>5
    <3>4. ToldOf(call[t], b)'
      <4>1. \A i \in 1 .. 3 : ~(i < 1)
        OBVIOUS
      <4> QED BY <3>2, <3>3, <4>1 DEF ToldOf, AllHave
    <3>5. InStep'
      BY <1>3, <1>4, <3>2, <3>4 DEF InStep
    <3> QED BY <1>7, <1>8, <2>1, <3>5
  <2> QED BY <2>4, <2>5
<1> QED BY <1>11, <1>12

-----------------------------------------------------------------------------
(***************************************************************************)
(* Every step                                                              *)
(***************************************************************************)

\* The steps of the threads that neither enter nor leave submit_order.
LEMMA OtherStepsKeep ==
    ASSUME AccountsInv,
           NextRow \/ LastRow \/ Mark \/ Marked \/ QuoteBid \/ QuoteAsk \/ Main
    PROVE  AccountsInv'
<1> USE DEF mdVars, broadcastVars, quoteVars, mainVars, callVars, bookVars, NextStrategy
<1>1. TypeInv
  BY DEF AccountsInv
<1>2. UNCHANGED <<week, order, order_mutex_, call, ledger, accountVars>>
  BY DEF NextRow, LastRow, Mark, Marked, QuoteBid, QuoteAsk, Main
<1>3. /\ at' \in {"idle", "mark", "marking", "buy", "buying", "sell", "selling", "over"}
      /\ turn' \in 0 .. 3
      /\ Submitting("md")' <=> Submitting("md")
  BY <1>1, StrategiesShape
     DEF NextRow, LastRow, Mark, Marked, QuoteBid, QuoteAsk, Main, TypeInv, Submitting
<1>4. /\ mm' \in {"wait", "quoting", "bid", "bidding", "ask", "asking", "round", "done"}
      /\ Submitting("mm")' <=> Submitting("mm")
      /\ mm = "done" => mm' = "done"
  BY <1>1 DEF NextRow, LastRow, Mark, Marked, QuoteBid, QuoteAsk, Main, TypeInv, Submitting
<1>5. TypeInv'
  BY <1>1, <1>2, <1>3, <1>4 DEF TypeInv
<1> QED BY <1>2, <1>3, <1>4, <1>5, QuietKeeps DEF Threads

\* Buy and Sell, whether the row says so or not.
LEMMA OrderKeeps ==
    ASSUME AccountsInv, Buy \/ Sell
    PROVE  AccountsInv'
<1> USE DEF mdVars, broadcastVars, quoteVars, mainVars
<1>1. TypeInv /\ "md" \in Threads
  BY DEF AccountsInv, Threads
<1>2. /\ UNCHANGED <<week, accountVars, mm>>
      /\ at' \in {"idle", "mark", "marking", "buy", "buying", "sell", "selling", "over"}
      /\ turn' \in 0 .. 3
      /\ mm' \in {"wait", "quoting", "bid", "bidding", "ask", "asking", "round", "done"}
      /\ Submitting("mm")' <=> Submitting("mm")
      /\ ~Submitting("md")
  BY <1>1, StrategiesShape DEF Buy, Sell, NextStrategy, TypeInv, Submitting
<1>3. CASE UNCHANGED <<bookVars, callVars>> /\ ~Submitting("md")'
  <2>1. UNCHANGED <<order, order_mutex_, call, ledger>>
    BY <1>3 DEF bookVars, callVars
  <2>2. TypeInv'
    BY <1>1, <1>2, <2>1 DEF TypeInv
  <2> QED BY <1>2, <1>3, <2>1, <2>2, QuietKeeps DEF Threads
<1>4. ASSUME NEW o, Submit("md", o), Submitting("md")'
      PROVE  AccountsInv'
  BY <1>1, <1>2, <1>4, SubmitKeeps DEF Threads
<1>5. \/ UNCHANGED <<bookVars, callVars>> /\ ~Submitting("md")'
      \/ (\E o : Submit("md", o)) /\ Submitting("md")'
  <2>1. CASE Buy
    BY <2>1 DEF Buy, Submitting
  <2>2. CASE Sell
    BY <2>2 DEF Sell, NextStrategy, Submitting
  <2> QED BY <2>1, <2>2
<1> QED BY <1>3, <1>4, <1>5

LEMMA SubmitQuoteKeeps ==
    ASSUME AccountsInv, SubmitQuote
    PROVE  AccountsInv'
<1> USE DEF mdVars, broadcastVars, quoteVars, mainVars
<1>1. TypeInv /\ "mm" \in Threads /\ (week = 10 => mm = "done")
  BY DEF AccountsInv, OneSubmits, Threads
<1>2. PICK o : Submit("mm", o)
  BY DEF SubmitQuote
<1>3. /\ UNCHANGED <<week, accountVars, at, turn>> /\ mm # "done"
      /\ mm' \in {"wait", "quoting", "bid", "bidding", "ask", "asking", "round", "done"}
      /\ Submitting("md")' <=> Submitting("md")
      /\ ~Submitting("mm") /\ Submitting("mm")'
  BY DEF SubmitQuote, Submitting
<1> QED BY <1>1, <1>2, <1>3, SubmitKeeps DEF Threads, TypeInv

LEMMA ReturnsKeep ==
    ASSUME AccountsInv, Submitted \/ QuoteSubmitted
    PROVE  AccountsInv'
<1> USE DEF mdVars, broadcastVars, quoteVars, mainVars
<1>1. TypeInv /\ "md" \in Threads /\ "mm" \in Threads
  BY DEF AccountsInv, Threads
<1>2. CASE Submitted
  <2>1. /\ Returned("md") /\ ~Submitting("md")' /\ mm' = mm
        /\ at' \in {"idle", "mark", "marking", "buy", "buying", "sell", "selling", "over"}
        /\ turn' \in 0 .. 3
        /\ Submitting("mm")' <=> Submitting("mm")
    BY <1>1, <1>2, StrategiesShape DEF Submitted, NextStrategy, Submitting, TypeInv
  <2> QED BY <1>1, <2>1, ReturnKeeps DEF Threads, TypeInv
<1>3. CASE QuoteSubmitted
  <2>1. /\ Returned("mm") /\ ~Submitting("mm")' /\ UNCHANGED <<at, turn>>
        /\ mm' \in {"wait", "quoting", "bid", "bidding", "ask", "asking", "round", "done"}
        /\ mm # "done" /\ (Submitting("md")' <=> Submitting("md"))
    BY <1>3 DEF QuoteSubmitted, Returned, Submitting
  <2>2. /\ at' \in {"idle", "mark", "marking", "buy", "buying", "sell", "selling", "over"}
        /\ turn' \in 0 .. 3
        /\ \A u \in Threads : u # "mm" => (Submitting(u)' <=> Submitting(u))
    BY <1>1, <2>1 DEF TypeInv, Threads
  <2> QED BY <1>1, <2>1, <2>2, ReturnKeeps
<1> QED BY <1>2, <1>3

LEMMA AccountsInvNext == AccountsInv /\ [Next]_vars => AccountsInv'
<1> SUFFICES ASSUME AccountsInv, [Next]_vars PROVE AccountsInv'
  OBVIOUS
<1>1. CASE UNCHANGED vars
  <2>1. /\ UNCHANGED <<week, order, order_mutex_, call, ledger, accountVars, at, mm, turn>>
    BY <1>1 DEF vars, bookVars, broadcastVars, quoteVars, callVars
  <2>2. TypeInv'
    BY <2>1 DEF AccountsInv, TypeInv
  <2> QED BY <2>1, <2>2, QuietKeeps DEF Submitting
<1> QED BY <1>1, OtherStepsKeep, OrderKeeps, SubmitQuoteKeeps, ReturnsKeep, MatchKeeps,
           ReportKeeps DEF Next, Broadcast, MarketMaker, Threads

LEMMA SidesInvNext == AccountsInv /\ SidesInv /\ [Next]_vars => SidesInv'
<1> SUFFICES ASSUME AccountsInv, SidesInv, [Next]_vars PROVE SidesInv'
  OBVIOUS
<1> USE DEF mdVars, broadcastVars, quoteVars, mainVars, callVars, bookVars
<1>0. /\ turn \in 0 .. 3
      /\ at \in {"idle", "mark", "marking", "buy", "buying", "sell", "selling", "over"}
  BY DEF AccountsInv, TypeInv
<1>1. CASE UNCHANGED <<at, turn, ordered, has_position_>>
  BY <1>1 DEF SidesInv, Submitting
<1>2. UNCHANGED vars \/ Match \/ MarketMaker \/ Main \/ ReportFill("md") =>
         UNCHANGED <<at, turn, ordered, has_position_>>
  BY DEF vars, Match, MarketMaker, Main, ReportFill, QuoteBid, QuoteAsk, SubmitQuote,
         QuoteSubmitted, Returned
<1>3. CASE NextRow \/ LastRow \/ Mark \/ Marked
  <2>1. /\ UNCHANGED <<ordered, has_position_>>
        /\ ~Submitting("md") /\ ~Submitting("md")'
        /\ at' \in {"mark", "marking", "buy"} => turn' \in 1 .. 3
        /\ at' = "buy" => turn' # 1
        /\ at' \in {"idle", "mark", "marking", "buy", "over"}
    BY <1>0, <1>3, StrategiesShape
       DEF SidesInv, NextRow, LastRow, Mark, Marked, NextStrategy, Submitting
  <2> QED BY <2>1 DEF SidesInv
<1>4. CASE Buy
  BY <1>0, <1>4, StrategiesShape DEF SidesInv, Buy, BuySignal, Submitting, OrderQty
<1>5. CASE Sell
  BY <1>0, <1>5, StrategiesShape
     DEF SidesInv, Sell, SellSignal, NextStrategy, Submitting, OrderQty
<1>6. CASE Submitted
  <2>1. /\ at \in {"buying", "selling"} /\ turn \in {2, 3}
        /\ has_position_' = [has_position_ EXCEPT ![Strategies[turn]] = (at = "buying")]
        /\ ordered' = ordered /\ Submitting("md")
        /\ \A s \in {"MOM", "MR"} :
              ordered[s] = IF IF s = Strategies[turn] THEN at = "buying" ELSE has_position_[s]
                           THEN OrderQty[s] ELSE 0
    BY <1>0, <1>6 DEF Submitted, Returned, Submitting, SidesInv
  <2>2. Strategies[turn] \in {"MOM", "MR"}
    BY <2>1, StrategiesShape
  <2>3. has_position_' \in [{"MOM", "MR"} -> BOOLEAN]
    BY <2>1 DEF SidesInv
  <2>4. \A s \in {"MOM", "MR"} :
           has_position_'[s] <=> IF s = Strategies[turn] THEN at = "buying" ELSE has_position_[s]
    BY <2>1, <2>2 DEF SidesInv
  <2>5. /\ ~Submitting("md")'
        /\ at' \in {"mark", "marking", "buy", "buying", "sell", "selling"} => turn' \in 1 .. 3
        /\ at' \in {"buy", "buying", "sell", "selling"} => turn' # 1
    BY <1>6, <2>1, StrategiesShape DEF Submitted, NextStrategy, Submitting
  <2>6. DOMAIN ordered' = {"MOM", "MR"}
    BY <2>1 DEF SidesInv
  <2> QED BY <2>1, <2>3, <2>4, <2>5, <2>6 DEF SidesInv
<1> QED BY <1>1, <1>2, <1>3, <1>4, <1>5, <1>6 DEF Next, Broadcast

LEMMA ExchangeCorrect == Spec => [](AccountsInv /\ SidesInv)
  BY InvInit, AccountsInvNext, SidesInvNext, PTL DEF Spec

-----------------------------------------------------------------------------
(***************************************************************************)
(* What the invariants say                                                 *)
(***************************************************************************)

\* Every strategy is told every fill, and all of them in the same order: their
\* accounts are equal to each other and to the exchange's fills whenever no
\* submit_order runs (exchange.hpp of weeks 8 and 10, submit_order).
THEOREM AccountsStayEqual == Spec => []AccountsAgree
<1>1. ASSUME AccountsInv PROVE AccountsAgree
  <2> SUFFICES ASSUME Quiet PROVE \A s \in Names :
           /\ position_[s] = ledger.position /\ cash_[s] = ledger.cash
           /\ trade_count_[s] = ledger.count
           /\ \A t \in Names : realized_pnl_[s] = realized_pnl_[t]
    BY DEF AccountsAgree
  <2>1. \A t \in Threads : call[t].fills = <<>>
    BY <1>1 DEF Quiet, AccountsInv, OneSubmits, Threads
  <2>2. PICK a : AllHave(a)
    BY <1>1, <2>1 DEF AccountsInv, InStep
  <2>3. \A s \in Names : Account(s) = a
    BY <2>2, StrategiesShape DEF AllHave
  <2>4. \A s \in Names : /\ position_[s] = a.position /\ cash_[s] = a.cash
                         /\ trade_count_[s] = a.count /\ realized_pnl_[s] = a.realized
    BY <2>3 DEF Account
  <2>5. ledger.position = a.position /\ ledger.cash = a.cash /\ ledger.count = a.count
    BY <2>2 DEF AllHave, LedgerOf
  <2> QED BY <2>4, <2>5
<1> QED BY <1>1, ExchangeCorrect, PTL

\* The purchases and the sales of MOM and of MR alternate, although their fills
\* arrive before has_position_ is set (momentum_strategy.hpp and
\* mean_reversion_strategy.hpp, on_market_data).
THEOREM SidesStayAlternate == Spec => []SidesAlternate
<1>1. SidesInv => SidesAlternate
  BY DEF SidesInv, SidesAlternate, Quiet, Submitting
<1> QED BY <1>1, ExchangeCorrect, PTL

-----------------------------------------------------------------------------
(***************************************************************************)
(* Fractions.  Frac(n, d) depends on the quotient of n and d only, which   *)
(* makes the sums and products of fractions obey the laws of arithmetic.   *)
(***************************************************************************)
Positive == Nat \ {0}
Nonzero == Int \ {0}

LEMMA Cancel ==
    ASSUME NEW d \in Int, d # 0, NEW x \in Int, NEW y \in Int, d * x = d * y
    PROVE  x = y
  OBVIOUS

LEMMA ExactQuotient ==
    ASSUME NEW a \in Int, NEW q \in Int, NEW d \in Nat, d > 0, a = d * q
    PROVE  a \div d = q /\ a % d = 0
  OBVIOUS

LEMMA NoRemainder ==
    ASSUME NEW a \in Int, NEW d \in Nat, d > 0, a % d = 0
    PROVE  a \div d \in Int /\ a = d * (a \div d)
  OBVIOUS

LEMMA Multiple ==
    ASSUME NEW d \in Positive, NEW a \in Int
    PROVE  /\ \A q \in Int : a = d * q => a % d = 0 /\ a \div d = q
           /\ a % d = 0 => a \div d \in Int /\ a = d * (a \div d)
<1>1. d \in Nat /\ d > 0
  BY DEF Positive
<1> QED BY <1>1, ExactQuotient, NoRemainder

\* The denominators of n / d, not only the smallest.
Denominators(n, d) == {k \in 1 .. d : (n * k) % d = 0}

LEMMA SameMultiple ==
    ASSUME NEW n \in Int, NEW m \in Int, NEW d \in Positive, NEW e \in Positive,
           n * e = m * d, NEW k \in Int, (n * k) % d = 0
    PROVE  (m * k) % e = 0 /\ (m * k) \div e = (n * k) \div d
<1>1. d \in Int /\ e \in Int /\ d # 0 /\ n * k \in Int /\ m * k \in Int
  BY DEF Positive
<1>2. PICK q \in Int : q = (n * k) \div d /\ n * k = d * q
  BY <1>1, Multiple
<1>3. d * (m * k) = d * (e * q)
  <2>1. d * (m * k) = (m * d) * k /\ d * (e * q) = e * (d * q) /\ (n * e) * k = e * (n * k)
    BY <1>1
  <2> QED BY <1>2, <2>1
<1>4. m * k = e * q
  <2>1. PICK x \in Int : x = m * k
    BY <1>1
  <2>2. PICK y \in Int : y = e * q
    BY <1>1
  <2>3. d * x = d * y
    BY <1>3, <2>1, <2>2
  <2>4. x = y
    BY <1>1, <2>3, Cancel
  <2> QED BY <2>1, <2>2, <2>4
<1> QED BY <1>1, <1>2, <1>4, Multiple

LEMMA DenominatorIsLeast ==
    ASSUME NEW n \in Int, NEW d \in Positive
    PROVE  /\ Denominator(n, d) \in Denominators(n, d)
           /\ \A k \in Denominators(n, d) : Denominator(n, d) <= k
<1>1. d \in 1 .. d /\ n * d = d * n /\ n * d \in Int
  BY DEF Positive
<1>2. d \in Denominators(n, d)
  BY <1>1, Multiple DEF Denominators
<1>3. Denominators(n, d) \subseteq Nat
  BY DEF Denominators, Positive
<1>4. PICK l \in Denominators(n, d) : \A k \in Denominators(n, d) : l <= k
  BY <1>2, <1>3, LeastExists
<1>5. Denominator(n, d) = Min(Denominators(n, d))
  BY DEF Denominator, Denominators
<1> QED BY <1>4, <1>5 DEF Min

LEMMA ReduceIs ==
    ASSUME NEW n \in Int, NEW d \in Positive
    PROVE  Reduce(n, d) = <<(n * Denominator(n, d)) \div d, Denominator(n, d)>>
  BY DEF Reduce

LEMMA SameReduced ==
    ASSUME NEW n \in Int, NEW m \in Int, NEW d \in Positive, NEW e \in Positive, n * e = m * d
    PROVE  Reduce(n, d) = Reduce(m, e)
<1> DEFINE k == Denominator(n, d)
           j == Denominator(m, e)
<1>1. /\ k \in Denominators(n, d) /\ \A i \in Denominators(n, d) : k <= i
      /\ j \in Denominators(m, e) /\ \A i \in Denominators(m, e) : j <= i
  BY DenominatorIsLeast
<1>2. Reduce(n, d) = <<(n * k) \div d, k>> /\ Reduce(m, e) = <<(m * j) \div e, j>>
  BY ReduceIs
<1> HIDE DEF k, j
<1>3. /\ k \in 1 .. d /\ (n * k) % d = 0 /\ k \in Int
      /\ j \in 1 .. e /\ (m * j) % e = 0 /\ j \in Int
  BY <1>1 DEF Denominators
<1>4. (m * k) % e = 0 /\ (m * k) \div e = (n * k) \div d
  BY <1>3, SameMultiple
<1>5. m * d = n * e
  OBVIOUS
<1>6. (n * j) % d = 0
  BY <1>3, <1>5, SameMultiple
<1>7. k <= e => k \in Denominators(m, e)
  BY <1>3, <1>4 DEF Denominators
<1>8. j <= d => j \in Denominators(n, d)
  BY <1>3, <1>6 DEF Denominators
<1>9. k = j
  BY <1>1, <1>3, <1>7, <1>8 DEF Positive
<1> QED BY <1>2, <1>4, <1>9

LEMMA FracIs ==
    ASSUME NEW n \in Int, NEW d \in Nonzero
    PROVE  Frac(n, d) = IF d < 0 THEN Reduce(-n, -d) ELSE Reduce(n, d)
  BY DEF Frac

\* The value of a fraction.
LEMMA FracValue ==
    ASSUME NEW n \in Int, NEW d \in Nonzero
    PROVE  /\ Frac(n, d) \in Int \X Positive
           /\ Frac(n, d)[1] * d = n * Frac(n, d)[2]
<1>1. ASSUME NEW a \in Int, NEW b \in Positive
      PROVE  /\ Reduce(a, b) \in Int \X Positive
             /\ Reduce(a, b)[1] * b = a * Reduce(a, b)[2]
  <2>1. PICK k : k = Denominator(a, b)
    OBVIOUS
  <2>7. k \in 1 .. b /\ (a * k) % b = 0
    BY <2>1, DenominatorIsLeast DEF Denominators
  <2>2. k \in Positive /\ (a * k) % b = 0
    BY <2>7 DEF Positive
  <2>3. a * k \in Int
    BY <2>2 DEF Positive
  <2>4. PICK q \in Int : q = (a * k) \div b /\ a * k = b * q
    BY <2>2, <2>3, Multiple
  <2>5. Reduce(a, b) = <<q, k>>
    BY <2>1, <2>4, ReduceIs
  <2>6. q * b = a * k
    BY <2>4 DEF Positive
  <2> QED BY <2>2, <2>5, <2>6
<1>2. CASE d < 0
  <2>1. -n \in Int /\ -d \in Positive
    BY <1>2 DEF Positive, Nonzero
  <2>2. Frac(n, d) = Reduce(-n, -d)
    BY <1>2, FracIs
  <2>3. PICK r \in Int \X Positive : r = Frac(n, d) /\ r[1] * (-d) = (-n) * r[2]
    BY <1>1, <2>1, <2>2
  <2>4. r[1] \in Int /\ r[2] \in Int
    BY <2>3 DEF Positive
  <2>5. r[1] * d = n * r[2]
    BY <2>3, <2>4 DEF Nonzero
  <2> QED BY <2>3, <2>5
<1>3. CASE ~(d < 0)
  <2>1. d \in Positive
    BY <1>3 DEF Positive, Nonzero
  <2> QED BY <1>1, <1>3, <2>1, FracIs
<1> QED BY <1>2, <1>3

LEMMA SameFrac ==
    ASSUME NEW n \in Int, NEW m \in Int, NEW d \in Nonzero, NEW e \in Nonzero, n * e = m * d
    PROVE  Frac(n, d) = Frac(m, e)
<1>1. PICK a \in Int, b \in Positive : Frac(n, d) = Reduce(a, b) /\ a * d = n * b
  <2>1. CASE d < 0
    <3>1. -n \in Int /\ -d \in Positive /\ (-n) * d = n * (-d)
      BY <2>1 DEF Positive, Nonzero
    <3> QED BY <2>1, <3>1, FracIs
  <2>2. CASE ~(d < 0)
    BY <2>2, FracIs DEF Positive, Nonzero
  <2> QED BY <2>1, <2>2
<1>2. PICK p \in Int, q \in Positive : Frac(m, e) = Reduce(p, q) /\ p * e = m * q
  <2>1. CASE e < 0
    <3>1. -m \in Int /\ -e \in Positive /\ (-m) * e = m * (-e)
      BY <2>1 DEF Positive, Nonzero
    <3> QED BY <2>1, <3>1, FracIs
  <2>2. CASE ~(e < 0)
    BY <2>2, FracIs DEF Positive, Nonzero
  <2> QED BY <2>1, <2>2
<1>3. d \in Int /\ e \in Int /\ b \in Int /\ q \in Int /\ d * e # 0 /\ d * e \in Int
  BY DEF Positive, Nonzero
<1>4. (d * e) * (a * q) = (d * e) * (p * b)
  <2>1. (d * e) * (a * q) = (a * d) * (e * q)
    BY <1>3
  <2>2. (d * e) * (p * b) = (p * e) * (d * b)
    BY <1>3
  <2>3. (n * b) * (e * q) = (n * e) * (b * q)
    BY <1>3
  <2>4. (m * q) * (d * b) = (m * d) * (b * q)
    BY <1>3
  <2> QED BY <1>1, <1>2, <2>1, <2>2, <2>3, <2>4
<1>5. a * q = p * b
  BY <1>3, <1>4, Cancel
<1> QED BY <1>1, <1>2, <1>5, SameReduced

\* A fraction in lowest terms.
Fraction == {Frac(n, d) : n \in Int, d \in Nonzero}

LEMMA FractionIs ==
    ASSUME NEW x \in Fraction
    PROVE  /\ x \in Int \X Positive /\ x[1] \in Int /\ x[2] \in Nonzero
           /\ x = Frac(x[1], x[2])
<1>1. PICK n \in Int, d \in Nonzero : x = Frac(n, d)
  BY DEF Fraction
<1>2. x \in Int \X Positive /\ x[1] * d = n * x[2]
  BY <1>1, FracValue
<1>3. x[1] \in Int /\ x[2] \in Nonzero
  BY <1>2 DEF Positive, Nonzero
<1>4. n * x[2] = x[1] * d
  BY <1>2
<1> QED BY <1>1, <1>2, <1>3, <1>4, SameFrac

LEMMA FracIsFraction == \A n \in Int : \A d \in Nonzero : Frac(n, d) \in Fraction
  BY DEF Fraction

LEMMA WholeIs == ASSUME NEW k \in Int PROVE Whole(k) = Frac(k, 1)
<1>1. 1 \in Positive /\ 1 \in Nonzero /\ ~(1 < 0)
  BY DEF Positive, Nonzero
<1>2. Denominator(k, 1) = 1
  BY <1>1, DenominatorIsLeast DEF Denominators
<1>3. (k * 1) \div 1 = k
  OBVIOUS
<1> QED BY <1>1, <1>2, <1>3, FracIs, ReduceIs DEF Whole

\* What the operators do with the quotients.
LEMMA PlusOf ==
    ASSUME NEW n \in Int, NEW d \in Nonzero, NEW m \in Int, NEW e \in Nonzero
    PROVE  /\ Plus(Frac(n, d), Frac(m, e)) = Frac(n * e + m * d, d * e)
           /\ n * e + m * d \in Int /\ d * e \in Nonzero
<1>1. PICK a \in Int, b \in Positive : Frac(n, d) = <<a, b>> /\ a * d = n * b
  BY FracValue
<1>2. PICK p \in Int, q \in Positive : Frac(m, e) = <<p, q>> /\ p * e = m * q
  BY FracValue
<1>3. d \in Int /\ e \in Int /\ b \in Int /\ q \in Int /\ d # 0 /\ e # 0 /\ b # 0 /\ q # 0
  BY DEF Positive, Nonzero
<1>4. /\ d * e \in Nonzero /\ b * q \in Nonzero
      /\ a * q + p * b \in Int /\ n * e + m * d \in Int
  BY <1>3 DEF Nonzero
<1>5. (a * q + p * b) * (d * e) = (n * e + m * d) * (b * q)
  <2>1. (a * q + p * b) * (d * e) = (a * d) * (q * e) + (p * e) * (b * d)
    BY <1>3
  <2>2. (n * e + m * d) * (b * q) = (n * b) * (q * e) + (m * q) * (b * d)
    BY <1>3
  <2> QED BY <1>1, <1>2, <2>1, <2>2
<1>6. Frac(a * q + p * b, b * q) = Frac(n * e + m * d, d * e)
  BY <1>4, <1>5, SameFrac
<1> QED BY <1>1, <1>2, <1>4, <1>6 DEF Plus

LEMMA TimesOf ==
    ASSUME NEW n \in Int, NEW d \in Nonzero, NEW k \in Int
    PROVE  Times(Frac(n, d), k) = Frac(n * k, d) /\ n * k \in Int
<1>1. PICK a \in Int, b \in Positive : Frac(n, d) = <<a, b>> /\ a * d = n * b
  BY FracValue
<1>2. d \in Int /\ b \in Int /\ b \in Nonzero /\ a * k \in Int /\ n * k \in Int
  BY DEF Positive, Nonzero
<1>3. (a * k) * d = (n * k) * b
  <2>1. (a * k) * d = (a * d) * k /\ (n * k) * b = (n * b) * k
    BY <1>2
  <2> QED BY <1>1, <2>1
<1>4. Frac(a * k, b) = Frac(n * k, d)
  BY <1>2, <1>3, SameFrac
<1> QED BY <1>1, <1>2, <1>4 DEF Times

LEMMA OverOf ==
    ASSUME NEW n \in Int, NEW d \in Nonzero, NEW k \in Nonzero
    PROVE  Over(Frac(n, d), k) = Frac(n, d * k) /\ d * k \in Nonzero
<1>1. PICK a \in Int, b \in Positive : Frac(n, d) = <<a, b>> /\ a * d = n * b
  BY FracValue
<1>2. d \in Int /\ b \in Int /\ b # 0 /\ d # 0 /\ k \in Int /\ k # 0
  BY DEF Positive, Nonzero
<1>3. b * k \in Nonzero /\ d * k \in Nonzero
  BY <1>2 DEF Nonzero
<1>4. a * (d * k) = n * (b * k)
  <2>1. a * (d * k) = (a * d) * k /\ n * (b * k) = (n * b) * k
    BY <1>2
  <2> QED BY <1>1, <2>1
<1>5. Frac(a, b * k) = Frac(n, d * k)
  BY <1>3, <1>4, SameFrac
<1> QED BY <1>1, <1>3, <1>5 DEF Over

\* The laws.
LEMMA FractionOperations ==
    ASSUME NEW x \in Fraction, NEW y \in Fraction, NEW k \in Int
    PROVE  /\ Plus(x, y) \in Fraction /\ Times(x, k) \in Fraction
           /\ k # 0 => Over(x, k) \in Fraction
           /\ Minus(x, y) \in Fraction /\ Whole(k) \in Fraction
<1>1. PICK n \in Int, d \in Nonzero : x = Frac(n, d)
  BY DEF Fraction
<1>2. PICK m \in Int, e \in Nonzero : y = Frac(m, e)
  BY DEF Fraction
<1>3. \A j \in Int : Times(y, j) \in Fraction
  BY <1>2, TimesOf, FracIsFraction
<1>4. \A z \in Fraction : Plus(x, z) \in Fraction
  <2> SUFFICES ASSUME NEW z \in Fraction PROVE Plus(x, z) \in Fraction
    OBVIOUS
  <2>1. PICK l \in Int, f \in Nonzero : z = Frac(l, f)
    BY DEF Fraction
  <2> QED BY <1>1, <2>1, PlusOf, FracIsFraction
<1>5. Times(x, k) \in Fraction
  BY <1>1, TimesOf, FracIsFraction
<1>6. ASSUME k # 0 PROVE Over(x, k) \in Fraction
  <2>1. k \in Nonzero
    BY <1>6 DEF Nonzero
  <2> QED BY <1>1, <2>1, OverOf, FracIsFraction
<1>7. Minus(x, y) \in Fraction
  BY <1>3, <1>4 DEF Minus
<1>8. Whole(k) \in Fraction
  BY WholeIs, FracIsFraction DEF Nonzero
<1> QED BY <1>4, <1>5, <1>6, <1>7, <1>8

LEMMA PlusCommutes == ASSUME NEW x \in Fraction, NEW y \in Fraction PROVE Plus(x, y) = Plus(y, x)
<1>1. /\ x[1] \in Int /\ x[2] \in Int /\ y[1] \in Int /\ y[2] \in Int
  BY FractionIs DEF Nonzero
<1>2. /\ x[1] * y[2] + y[1] * x[2] = y[1] * x[2] + x[1] * y[2]
      /\ x[2] * y[2] = y[2] * x[2]
  BY <1>1
<1> QED BY <1>2 DEF Plus

LEMMA PlusAssociates ==
    ASSUME NEW x \in Fraction, NEW y \in Fraction, NEW z \in Fraction
    PROVE  Plus(Plus(x, y), z) = Plus(x, Plus(y, z))
<1>1. PICK n \in Int, d \in Nonzero : x = Frac(n, d)
  BY DEF Fraction
<1>2. PICK m \in Int, e \in Nonzero : y = Frac(m, e)
  BY DEF Fraction
<1>3. PICK l \in Int, f \in Nonzero : z = Frac(l, f)
  BY DEF Fraction
<1>4. /\ Plus(x, y) = Frac(n * e + m * d, d * e)
      /\ n * e + m * d \in Int /\ d * e \in Nonzero
  BY <1>1, <1>2, PlusOf
<1>5. Plus(Plus(x, y), z) = Frac((n * e + m * d) * f + l * (d * e), (d * e) * f)
  BY <1>3, <1>4, PlusOf
<1>6. /\ Plus(y, z) = Frac(m * f + l * e, e * f)
      /\ m * f + l * e \in Int /\ e * f \in Nonzero
  BY <1>2, <1>3, PlusOf
<1>7. Plus(x, Plus(y, z)) = Frac(n * (e * f) + (m * f + l * e) * d, d * (e * f))
  BY <1>1, <1>6, PlusOf
<1>8. d \in Int /\ e \in Int /\ f \in Int
  BY DEF Nonzero
<1>9. /\ (n * e + m * d) * f + l * (d * e) = n * (e * f) + (m * f + l * e) * d
      /\ (d * e) * f = d * (e * f)
  BY <1>8
<1> QED BY <1>5, <1>7, <1>9

LEMMA TimesOfPlus ==
    ASSUME NEW x \in Fraction, NEW y \in Fraction, NEW k \in Int
    PROVE  Times(Plus(x, y), k) = Plus(Times(x, k), Times(y, k))
<1>1. PICK n \in Int, d \in Nonzero : x = Frac(n, d)
  BY DEF Fraction
<1>2. PICK m \in Int, e \in Nonzero : y = Frac(m, e)
  BY DEF Fraction
<1>3. /\ Plus(x, y) = Frac(n * e + m * d, d * e)
      /\ n * e + m * d \in Int /\ d * e \in Nonzero
  BY <1>1, <1>2, PlusOf
<1>4. Times(Plus(x, y), k) = Frac((n * e + m * d) * k, d * e)
  BY <1>3, TimesOf
<1>5. /\ Times(x, k) = Frac(n * k, d) /\ Times(y, k) = Frac(m * k, e)
      /\ n * k \in Int /\ m * k \in Int
  BY <1>1, <1>2, TimesOf
<1>6. Plus(Times(x, k), Times(y, k)) = Frac((n * k) * e + (m * k) * d, d * e)
  BY <1>5, PlusOf
<1>7. (n * e + m * d) * k = (n * k) * e + (m * k) * d
  BY DEF Nonzero
<1> QED BY <1>4, <1>6, <1>7

LEMMA TimesOfSum ==
    ASSUME NEW x \in Fraction, NEW j \in Int, NEW k \in Int
    PROVE  Times(x, j + k) = Plus(Times(x, j), Times(x, k))
<1>1. PICK n \in Int, d \in Nonzero : x = Frac(n, d)
  BY DEF Fraction
<1>2. /\ \A i \in Int : Times(x, i) = Frac(n * i, d)
      /\ j + k \in Int /\ n * j \in Int /\ n * k \in Int /\ n * (j + k) \in Int
  BY <1>1, TimesOf
<1>3. /\ Plus(Times(x, j), Times(x, k)) = Frac((n * j) * d + (n * k) * d, d * d)
      /\ (n * j) * d + (n * k) * d \in Int /\ d * d \in Nonzero
  <2>1. Times(x, j) = Frac(n * j, d) /\ Times(x, k) = Frac(n * k, d)
    BY <1>2
  <2>2. PICK a \in Int : a = n * j
    BY <1>2
  <2>3. PICK b \in Int : b = n * k
    BY <1>2
  <2> QED BY <2>1, <2>2, <2>3, PlusOf
<1>4. (n * (j + k)) * (d * d) = ((n * j) * d + (n * k) * d) * d
  BY DEF Nonzero
<1> QED BY <1>2, <1>3, <1>4, SameFrac

LEMMA TimesOfTimes ==
    ASSUME NEW x \in Fraction, NEW j \in Int, NEW k \in Int
    PROVE  Times(Times(x, j), k) = Times(x, j * k)
<1>1. PICK n \in Int, d \in Nonzero : x = Frac(n, d)
  BY DEF Fraction
<1>2. Times(x, j) = Frac(n * j, d) /\ n * j \in Int
  BY <1>1, TimesOf
<1>3. Times(Times(x, j), k) = Frac((n * j) * k, d)
  BY <1>2, TimesOf
<1>4. j * k \in Int /\ (n * j) * k = n * (j * k)
  OBVIOUS
<1>5. Times(x, j * k) = Frac(n * (j * k), d)
  BY <1>1, <1>4, TimesOf
<1> QED BY <1>3, <1>4, <1>5

LEMMA TimesOver ==
    ASSUME NEW x \in Fraction, NEW k \in Int, k # 0
    PROVE  Times(Over(x, k), k) = x
<1>1. PICK n \in Int, d \in Nonzero : x = Frac(n, d)
  BY DEF Fraction
<1>2. k \in Nonzero
  BY DEF Nonzero
<1>3. Over(x, k) = Frac(n, d * k) /\ d * k \in Nonzero
  BY <1>1, <1>2, OverOf
<1>4. Times(Over(x, k), k) = Frac(n * k, d * k) /\ n * k \in Int
  BY <1>3, TimesOf
<1>5. (n * k) * d = n * (d * k)
  BY DEF Nonzero
<1> QED BY <1>1, <1>3, <1>4, <1>5, SameFrac

LEMMA WholeOperations ==
    ASSUME NEW j \in Int, NEW k \in Int
    PROVE  /\ Plus(Whole(j), Whole(k)) = Whole(j + k)
           /\ Times(Whole(j), k) = Whole(j * k)
<1>1. Whole(j) = Frac(j, 1) /\ Whole(k) = Frac(k, 1) /\ 1 \in Nonzero
  BY WholeIs DEF Nonzero
<1>2. Plus(Whole(j), Whole(k)) = Frac(j * 1 + k * 1, 1 * 1)
  BY <1>1, PlusOf
<1>3. Times(Whole(j), k) = Frac(j * k, 1)
  BY <1>1, TimesOf
<1>4. j * 1 + k * 1 = j + k /\ 1 * 1 = 1 /\ j + k \in Int /\ j * k \in Int
  OBVIOUS
<1>5. Whole(j + k) = Frac(j + k, 1) /\ Whole(j * k) = Frac(j * k, 1)
  BY <1>4, WholeIs
<1> QED BY <1>2, <1>3, <1>4, <1>5

LEMMA Zeros ==
    ASSUME NEW x \in Fraction
    PROVE  Plus(x, Whole(0)) = x /\ Times(x, 0) = Whole(0)
<1>1. PICK n \in Int, d \in Nonzero : x = Frac(n, d)
  BY DEF Fraction
<1>2. Whole(0) = Frac(0, 1) /\ 1 \in Nonzero
  BY WholeIs DEF Nonzero
<1>3. Plus(x, Whole(0)) = Frac(n * 1 + 0 * d, d * 1)
  BY <1>1, <1>2, PlusOf
<1>4. n * 1 + 0 * d = n /\ d * 1 = d
  BY DEF Nonzero
<1>5. Times(x, 0) = Frac(n * 0, d)
  BY <1>1, TimesOf
<1>8. n * 0 = 0
  OBVIOUS
<1>6. 0 * 1 = 0 * d
  BY DEF Nonzero
<1>7. Frac(0, d) = Frac(0, 1)
  BY <1>2, <1>6, SameFrac
<1> QED BY <1>1, <1>2, <1>3, <1>4, <1>5, <1>7, <1>8

-----------------------------------------------------------------------------
(***************************************************************************)
(* What a fill earns and what a marked account is worth                    *)
(***************************************************************************)

\* What a strategy has earned: its cash and the cost of what it holds.
Earned(cash, avg, position) == Plus(Whole(cash), Times(avg, position))

LEMMA Rearrange ==
    ASSUME NEW w \in Fraction, NEW a \in Fraction, NEW b \in Fraction, NEW x \in Fraction,
           NEW m \in Fraction, Plus(b, m) = Whole(0)
    PROVE  Plus(Plus(w, Plus(a, b)), Plus(x, m)) = Plus(Plus(w, x), a)
<1>1. \A u, v \in Fraction : Plus(u, v) \in Fraction /\ Plus(u, v) = Plus(v, u)
  <2>1. 0 \in Int
    OBVIOUS
  <2> QED BY <2>1, FractionOperations, PlusCommutes, Zenon
<1>2. \A u, v, z \in Fraction : Plus(Plus(u, v), z) = Plus(u, Plus(v, z))
  BY PlusAssociates, Zenon
<1>3. Plus(Plus(a, b), Plus(x, m)) = Plus(x, a)
  <2>1. Plus(x, m) = Plus(m, x)
    BY <1>1
  <2>2. Plus(Plus(a, b), Plus(m, x)) = Plus(a, Plus(b, Plus(m, x)))
    BY <1>1, <1>2
  <2>3. Plus(b, Plus(m, x)) = Plus(Whole(0), x)
    BY <1>2
  <2>4. Plus(Whole(0), x) = x
    BY <1>1, Zeros, FractionOperations
  <2> QED BY <2>1, <2>2, <2>3, <2>4, <1>1
<1>4. Plus(Plus(w, Plus(a, b)), Plus(x, m)) = Plus(w, Plus(x, a))
  BY <1>1, <1>2, <1>3
<1> QED BY <1>2, <1>4

\* A sale at a price earns its profit over the average.
LEMMA SaleEarns ==
    ASSUME NEW c \in Int, NEW avg \in Fraction, NEW p \in Int, NEW price \in Int, NEW q \in Int
    PROVE  Plus(Earned(c, avg, p + q), Times(Minus(Whole(price), avg), q))
              = Earned(c + q * price, avg, p)
<1>1. -1 \in Int /\ (-1) * q \in Int /\ q + (-1) * q = 0 /\ price * q \in Int /\ 0 \in Int
  OBVIOUS
<1>2. /\ Times(avg, p + q) = Plus(Times(avg, p), Times(avg, q))
      /\ Times(avg, q + (-1) * q) = Plus(Times(avg, q), Times(avg, (-1) * q))
  BY <1>1, TimesOfSum
<1>3. Plus(Times(avg, q), Times(avg, (-1) * q)) = Whole(0)
  BY <1>1, <1>2, Zeros
<1>4. /\ Whole(c) \in Fraction /\ Whole(price) \in Fraction /\ Whole(price * q) \in Fraction
      /\ Times(avg, -1) \in Fraction /\ Times(avg, p) \in Fraction
      /\ Times(avg, q) \in Fraction /\ Times(avg, (-1) * q) \in Fraction
  BY <1>1, FractionOperations
<1>5. Times(Minus(Whole(price), avg), q) = Plus(Whole(price * q), Times(avg, (-1) * q))
  <2>1. Times(Minus(Whole(price), avg), q) = Plus(Times(Whole(price), q), Times(Times(avg, -1), q))
    BY <1>4, TimesOfPlus DEF Minus
  <2>2. Times(Times(avg, -1), q) = Times(avg, (-1) * q)
    BY <1>1, TimesOfTimes
  <2> QED BY <2>1, <2>2, WholeOperations
<1>6. Plus(Whole(c), Whole(price * q)) = Whole(c + q * price)
  <2>1. c + price * q = c + q * price
    OBVIOUS
  <2> QED BY <1>1, <2>1, WholeOperations
<1> QED BY <1>2, <1>3, <1>4, <1>5, <1>6, Rearrange DEF Earned

\* A purchase moves its price from the cash to the cost of what is held.
LEMMA PurchaseKeeps ==
    ASSUME NEW c \in Int, NEW avg \in Fraction, NEW p \in Int, p # 0, NEW price \in Int,
           NEW q \in Int
    PROVE  Earned(c - q * price, Over(Plus(Times(avg, p - q), Whole(price * q)), p), p)
              = Earned(c, avg, p - q)
<1>1. p - q \in Int /\ price * q \in Int /\ c - q * price \in Int
      /\ (c - q * price) + price * q = c
  OBVIOUS
<1>2. PICK t \in Fraction, x \in Fraction, w \in Fraction :
         t = Times(avg, p - q) /\ x = Whole(price * q) /\ w = Whole(c - q * price)
  BY <1>1, FractionOperations
<1>3. Times(Over(Plus(t, x), p), p) = Plus(t, x)
  BY FractionOperations, TimesOver, <1>1
<1>4. Plus(w, Plus(t, x)) = Plus(Plus(w, x), t)
  <2>1. Plus(t, x) = Plus(x, t)
    BY PlusCommutes
  <2>2. Plus(Plus(w, x), t) = Plus(w, Plus(x, t))
    BY PlusAssociates
  <2> QED BY <2>1, <2>2
<1>5. Plus(w, x) = Whole(c)
  BY <1>1, <1>2, WholeOperations
<1> QED BY <1>2, <1>3, <1>4, <1>5 DEF Earned

\* What is earned and what is held marked to the market are the account's worth.
LEMMA WorthOfMarked ==
    ASSUME NEW c \in Int, NEW avg \in Fraction, NEW p \in Int, NEW last \in Int
    PROVE  Plus(Earned(c, avg, p), MarkToMarket(last, avg, p)) = Whole(c + p * last)
<1>1. /\ c + p * last \in Int /\ Whole(c + p * last) \in Fraction /\ Whole(c) \in Fraction
      /\ 0 \in Int /\ 0 + p = p
  BY FractionOperations
<1>2. \A k \in Int : Earned(k, avg, 0) = Whole(k)
  BY <1>1, Zeros, FractionOperations DEF Earned
<1>3. CASE p = 0
  <2>1. MarkToMarket(last, avg, p) = Whole(0) /\ c + p * last = c
    BY <1>3 DEF MarkToMarket
  <2> QED BY <1>1, <1>2, <1>3, <2>1, Zeros
<1>4. CASE p # 0
  <2>1. MarkToMarket(last, avg, p) = Times(Minus(Whole(last), avg), p)
    BY <1>4 DEF MarkToMarket
  <2>2. Plus(Earned(c, avg, 0 + p), Times(Minus(Whole(last), avg), p))
           = Earned(c + p * last, avg, 0)
    BY <1>1, SaleEarns
  <2> QED BY <1>1, <1>2, <2>1, <2>2
<1> QED BY <1>3, <1>4

-----------------------------------------------------------------------------
(***************************************************************************)
(* The numbers: what is submitted, what rests, what is filled              *)
(***************************************************************************)
LiveOrders == [is_buy : BOOLEAN, price : Int, quantity : Int]
BookOrders == [n : Nat, is_buy : BOOLEAN, price : Int, quantity : Int, type : Types]
Fills == LiveOrders \cup BookOrders

\* One side of the book.
Queues(levels) == levels \in [DOMAIN levels -> Seq(BookOrders) \ {<<>>}]

BookNumbers ==
    /\ count \in Nat /\ qty_left \in Int
    /\ order \in BookOrders \cup {NoOrder}
    /\ fills \in Seq(BookOrders)
    /\ Queues(buy_book_) /\ Queues(sell_book_)

NumbersInv ==
    /\ md.last \in Int /\ last_md_ \in Int /\ bid \in Int /\ ask \in Int
    /\ BookNumbers
    /\ \A t \in Threads : call[t].fills \in Seq(Fills)

LEMMA TailIsQueue ==
    ASSUME NEW S, NEW s \in Seq(S), s # <<>>
    PROVE  /\ Head(s) \in S /\ Head(s) = s[1] /\ Tail(s) \in Seq(S)
           /\ Len(s) # 1 => Tail(s) # <<>>
<1>1. Len(s) \in Nat /\ Len(s) # 0
  BY EmptySeq
<1>2. Head(s) \in S /\ Head(s) = s[1] /\ Tail(s) \in Seq(S)
  BY <1>1
<1>3. Len(s) # 1 => Len(Tail(s)) # 0
  BY <1>1
<1> QED BY <1>2, <1>3, EmptySeq

LEMMA ReducedQueues ==
    ASSUME NEW levels, Queues(levels), NEW p \in DOMAIN levels, NEW q \in Int
    PROVE  Queues(Reduced(levels, p, q))
<1> PICK queue \in Seq(BookOrders) \ {<<>>} : queue = levels[p]
  BY DEF Queues
<1>1. /\ Head(queue) \in BookOrders /\ Head(queue) = queue[1] /\ Tail(queue) \in Seq(BookOrders)
      /\ Len(queue) # 1 => Tail(queue) # <<>>
  BY TailIsQueue
<1>2. Head(queue).quantity \in Int
  BY <1>1 DEF BookOrders
<1>3. CASE Head(queue).quantity > q
  <2> DEFINE front == [queue[1] EXCEPT !.quantity = @ - q]
             left == [queue EXCEPT ![1] = front]
  <2>1. Reduced(levels, p, q) = [levels EXCEPT ![p] = left]
    <3>1. ~(Head(queue).quantity <= q)
      BY <1>2, <1>3
    <3> QED BY <1>3, <3>1 DEF Reduced
  <2>2. front \in BookOrders
    <3>1. \A r \in BookOrders : \A k \in Int : [r EXCEPT !.quantity = k] \in BookOrders
      BY DEF BookOrders
    <3>2. queue[1].quantity - q \in Int
      BY <1>1, <1>2
    <3> QED BY <1>1, <3>1, <3>2
  <2> HIDE DEF front
  <2>3. left \in Seq(BookOrders) /\ Len(left) = Len(queue)
    BY <2>2
  <2>4. left # <<>>
    BY <2>3, EmptySeq
  <2> HIDE DEF left
  <2> QED BY <2>1, <2>3, <2>4 DEF Queues
<1>4. CASE Head(queue).quantity <= q /\ Len(queue) = 1
  <2>1. ~(Head(queue).quantity > q)
    BY <1>2, <1>4
  <2>2. Reduced(levels, p, q) = [x \in DOMAIN levels \ {p} |-> levels[x]]
    BY <1>4, <2>1 DEF Reduced
  <2> QED BY <2>2 DEF Queues
<1>5. CASE Head(queue).quantity <= q /\ Len(queue) # 1
  <2>1. ~(Head(queue).quantity > q)
    BY <1>2, <1>5
  <2>2. Reduced(levels, p, q) = [levels EXCEPT ![p] = Tail(queue)]
    BY <1>5, <2>1 DEF Reduced
  <2> QED BY <1>1, <1>5, <2>2 DEF Queues
<1> QED BY <1>2, <1>3, <1>4, <1>5

LEMMA RestQueues ==
    ASSUME NEW levels, Queues(levels), NEW remain \in BookOrders
    PROVE  Queues(Rest(levels, remain))
<1> DEFINE P == remain.price
           queue == IF P \in DOMAIN levels THEN Append(levels[P], remain) ELSE <<remain>>
<1>1. queue \in Seq(BookOrders) \ {<<>>}
  <2>1. CASE P \in DOMAIN levels
    <3>1. levels[P] \in Seq(BookOrders)
      BY <2>1 DEF Queues
    <3>2. Append(levels[P], remain) \in Seq(BookOrders) /\ Len(Append(levels[P], remain)) # 0
      BY <3>1
    <3> QED BY <2>1, <3>2, EmptySeq
  <2>2. CASE P \notin DOMAIN levels
    BY <2>2
  <2> QED BY <2>1, <2>2
<1>2. Rest(levels, remain) = [p \in DOMAIN levels \cup {P} |->
                                 IF p # P THEN levels[p] ELSE queue]
  BY DEF Rest
<1> HIDE DEF queue, P
<1> QED BY <1>1, <1>2 DEF Queues

\* The book fills whole numbers of shares.
LEMMA RunningNumbers ==
    ASSUME BookNumbers, Running
    PROVE  BookNumbers'
<1> USE DEF BookNumbers
<1>1. ASSUME NEW p \in Prices, TakeFront(p) PROVE BookNumbers'
  <2>1. /\ order \in BookOrders /\ p \in Int /\ Queues(Opposite(order))
        /\ p \in DOMAIN Opposite(order)
    BY <1>1, PriceAssumption DEF TakeFront, Takes, Designated, Opposite, Prices
  <2>2. PICK front \in BookOrders : front = Head(Opposite(order)[p])
    BY <2>1, TailIsQueue DEF Queues
  <2>3. PICK q \in Int : q = MatchQty(front)
    BY <2>2 DEF MatchQty, BookOrders
  <2>4. /\ fills' = Append(fills, [order EXCEPT !.price = p, !.quantity = q])
        /\ qty_left' = qty_left - q
        /\ UNCHANGED <<order, count>>
        /\ IF order.is_buy
             THEN sell_book_' = Reduced(sell_book_, p, q) /\ UNCHANGED buy_book_
             ELSE buy_book_' = Reduced(buy_book_, p, q) /\ UNCHANGED sell_book_
    BY <1>1, <2>2, <2>3 DEF TakeFront
  <2>5. Queues(buy_book_') /\ Queues(sell_book_')
    BY <2>1, <2>4, ReducedQueues DEF Opposite
  <2>6. fills' \in Seq(BookOrders)
    <3>1. [order EXCEPT !.price = p, !.quantity = q] \in BookOrders
      BY <2>1 DEF BookOrders
    <3> QED BY <2>4, <3>1
  <2> QED BY <2>4, <2>5, <2>6
<1>2. CASE Finish
  <2>1. order \in BookOrders
    BY <1>2 DEF Finish
  <2>2. PICK remain \in BookOrders : remain = [order EXCEPT !.quantity = qty_left]
    BY <2>1 DEF BookOrders
  <2>3. /\ order' = NoOrder /\ qty_left' = 0 /\ UNCHANGED <<count, fills>>
        /\ \/ UNCHANGED <<buy_book_, sell_book_>>
           \/ buy_book_' = Rest(buy_book_, remain) /\ UNCHANGED sell_book_
           \/ sell_book_' = Rest(sell_book_, remain) /\ UNCHANGED buy_book_
    BY <1>2, <2>2 DEF Finish
  <2>4. Queues(buy_book_') /\ Queues(sell_book_')
    BY <2>3, RestQueues
  <2> QED BY <2>3, <2>4
<1> QED BY <1>1, <1>2 DEF Running

\* What is left to report after the step.
LEMMA ReportLeaves ==
    ASSUME AccountsInv, NEW t \in Threads, ReportFill(t)
    PROVE  /\ call'[t].fills \in {call[t].fills, Tail(call[t].fills)}
           /\ call[t].half => ~call'[t].half
<1>0. PICK k \in 1 .. 3, half \in BOOLEAN : k = call[t].k /\ half = call[t].half
  BY ReportShape
<1>1. PICK fs, d : fs = call[t].fills /\ d = call'[t]
  OBVIOUS
<1>2. /\ ~half => d = [fills |-> fs, k |-> k, half |-> TRUE]
      /\ half /\ k < 3 => d = [fills |-> fs, k |-> k + 1, half |-> FALSE]
      /\ half /\ ~(k < 3) => d = [fills |-> Tail(fs), k |-> 1, half |-> FALSE]
  BY <1>0, <1>1, ReportShape
<1>3. d.fills \in {fs, Tail(fs)} /\ (half => ~d.half)
  BY <1>2
<1> QED BY <1>0, <1>1, <1>3

\* A call that begins has told nobody anything.
LEMMA SubmitShape ==
    ASSUME AccountsInv, NEW t \in Threads, NEW o, Submit(t, o), ~Submitting(t)
    PROVE  /\ \A u \in Threads : u # t => call'[u] = call[u]
           /\ ~call[t].half /\ ~call'[t].half
           /\ call'[t].fills \in {call[t].fills, <<o>>}
<1> USE DEF AccountsInv
<1>1. call[t] = NoCall /\ DOMAIN call = Threads
  BY DEF OneSubmits, TypeInv
<1>2. CASE week = 10
  BY <1>1, <1>2 DEF Submit, callVars, NoCall
<1>3. CASE week = 8
  <2>1. call' = [call EXCEPT ![t].fills = <<o>>]
    BY <1>3 DEF Submit
  <2>2. /\ call'[t] = [NoCall EXCEPT !.fills = <<o>>]
        /\ \A u \in Threads : u # t => call'[u] = call[u]
    BY <1>1, <2>1
  <2> QED BY <1>1, <2>2 DEF NoCall
<1> QED BY <1>2, <1>3 DEF TypeInv

LEMMA MatchShape ==
    ASSUME AccountsInv, Match
    PROVE  /\ Running
           /\ \A u \in Threads : u # "md" => call'[u] = call[u]
           /\ ~call["md"].half /\ ~call'["md"].half
           /\ call'["md"].fills \in {call["md"].fills, fills}
<1> USE DEF AccountsInv
<1>1. /\ Running /\ order # NoOrder
      /\ call' = IF order' = NoOrder THEN [call EXCEPT !["md"].fills = fills] ELSE call
  BY DEF Match, Running, TakeFront, Finish
<1>2. call["md"] = NoCall /\ DOMAIN call = Threads /\ "md" \in Threads
  BY <1>1 DEF OneSubmits, TypeInv, Threads
<1>3. \/ call' = call
      \/ /\ call'["md"] = [NoCall EXCEPT !.fills = fills]
         /\ \A u \in Threads : u # "md" => call'[u] = call[u]
  BY <1>1, <1>2
<1> QED BY <1>1, <1>2, <1>3 DEF NoCall

LEMMA NumbersInit == Init => NumbersInv
<1> SUFFICES ASSUME Init PROVE NumbersInv
  OBVIOUS
<1>1. Queues(NoLevels)
  BY DEF Queues, NoLevels
<1>2. BookNumbers
  BY <1>1 DEF Init, BookInit, BookNumbers
<1>3. \A t \in Threads : call[t].fills \in Seq(Fills)
  <2>1. \A t \in Threads : call[t].fills = <<>>
    BY DEF Init, Threads, NoCall
  <2> QED BY <2>1, EmptySeq
<1> QED BY <1>2, <1>3, PriceAssumption DEF Init, NumbersInv, NoRow

LEMMA SubmitNumbers ==
    ASSUME AccountsInv, NumbersInv, NEW t \in Threads, NEW o \in LiveOrders, Submit(t, o),
           ~Submitting(t)
    PROVE  /\ BookNumbers'
           /\ \A u \in Threads : call'[u].fills \in Seq(Fills)
<1>1. BookNumbers'
  <2>1. CASE week = 10
    <3>1. AddOrder(o.is_buy, o.price, o.quantity, "LIMIT")
      BY <2>1 DEF Submit
    <3>2. count' \in Nat /\ qty_left' \in Int /\ fills' \in Seq(BookOrders)
      BY <3>1 DEF AddOrder, NumbersInv, BookNumbers, LiveOrders
    <3>3. order' \in BookOrders
      BY <3>1, <3>2 DEF AddOrder, LiveOrders, BookOrders, Types
    <3>4. Queues(buy_book_') /\ Queues(sell_book_')
      BY <3>1 DEF AddOrder, NumbersInv, BookNumbers
    <3> QED BY <3>2, <3>3, <3>4 DEF BookNumbers
  <2>2. CASE week = 8
    BY <2>2 DEF Submit, bookVars, NumbersInv, BookNumbers
  <2> QED BY <2>1, <2>2 DEF AccountsInv, TypeInv
<1>2. <<o>> \in Seq(Fills)
  BY DEF Fills
<1>3. ASSUME NEW u \in Threads PROVE call'[u].fills \in Seq(Fills)
  <2>1. call[u].fills \in Seq(Fills) /\ call[t].fills \in Seq(Fills)
    BY DEF NumbersInv
  <2>2. CASE u = t
    BY <1>2, <2>1, <2>2, SubmitShape
  <2>3. CASE u # t
    BY <2>1, <2>3, SubmitShape
  <2> QED BY <2>2, <2>3
<1> QED BY <1>1, <1>3

\* The steps that neither submit, nor match, nor report.
QuietStep == \/ NextRow \/ LastRow \/ Mark \/ Marked \/ Submitted
             \/ QuoteBid \/ QuoteAsk \/ QuoteSubmitted \/ Main

\* What the strategies and the market maker submit.
LEMMA OrderShape ==
    ASSUME SidesInv, NumbersInv, AccountsInv, Buy \/ Sell
    PROVE  \/ UNCHANGED <<bookVars, callVars>>
           \/ \E o \in LiveOrders : Submit("md", o)
<1>1. turn \in {2, 3}
  <2>1. turn \in 1 .. 3 /\ turn # 1
    BY DEF SidesInv, Buy, Sell
  <2> QED BY <2>1
<1>2. OrderQty[Strategies[turn]] \in Int /\ md.last \in Int
  BY <1>1, StrategiesShape DEF OrderQty, NumbersInv
<1>3. \A b \in BOOLEAN : [is_buy |-> b, price |-> md.last,
                          quantity |-> OrderQty[Strategies[turn]]] \in LiveOrders
  BY <1>2 DEF LiveOrders
<1>4. CASE Buy
  BY <1>3, <1>4 DEF Buy
<1>5. CASE Sell
  BY <1>3, <1>5 DEF Sell
<1> QED BY <1>4, <1>5

LEMMA QuoteShape ==
    ASSUME NumbersInv, SubmitQuote
    PROVE  \E o \in LiveOrders : Submit("mm", o)
<1>1. PICK q \in Quantities :
         Submit("mm", [is_buy |-> mm = "bid", price |-> IF mm = "bid" THEN bid ELSE ask,
                       quantity |-> q])
  BY DEF SubmitQuote
<1>2. [is_buy |-> mm = "bid", price |-> IF mm = "bid" THEN bid ELSE ask,
       quantity |-> q] \in LiveOrders
  <2>1. (mm = "bid") \in BOOLEAN
    OBVIOUS
  <2>2. (IF mm = "bid" THEN bid ELSE ask) \in Int /\ q \in Int
    BY QuantityAssumption DEF NumbersInv
  <2> QED BY <2>1, <2>2 DEF LiveOrders
<1> QED BY <1>1, <1>2

LEMMA NumbersNext == AccountsInv /\ SidesInv /\ NumbersInv /\ [Next]_vars => NumbersInv'
<1> SUFFICES ASSUME AccountsInv, SidesInv, NumbersInv, [Next]_vars PROVE NumbersInv'
  OBVIOUS
<1> USE DEF mdVars, quoteVars
<1>1. md'.last \in Int /\ last_md_' \in Int /\ bid' \in Int /\ ask' \in Int
  <2>1. md'.last \in Int
    <3>1. CASE NextRow
      <4>1. CASE week = 10
        BY <3>1, <4>1, PriceAssumption DEF NextRow, Rows, Prices
      <4>2. CASE week # 10
        <5>1. PICK p \in LivePrices : md' = RowOf(prices', p)
          BY <3>1, <4>2 DEF NextRow
        <5>2. md'.last = p
          BY <5>1 DEF RowOf
        <5> QED BY <5>2, LiveAssumption
      <4> QED BY <4>1, <4>2
    <3>2. CASE ~NextRow
      <4>1. md' = md
        BY <3>2 DEF vars, Next, Broadcast, MarketMaker, LastRow, Mark, Marked, Submitted, Buy,
                    Sell, Match, ReportFill, QuoteBid, QuoteAsk, SubmitQuote, QuoteSubmitted,
                    Main, Returned
      <4> QED BY <4>1 DEF NumbersInv
    <3> QED BY <3>1, <3>2
  <2>2. last_md_' \in {last_md_, md.last}
    BY DEF vars, Next, Broadcast, MarketMaker, NextRow, LastRow, Mark, Marked, Submitted, Buy,
           Sell, Match, ReportFill, QuoteBid, QuoteAsk, SubmitQuote, QuoteSubmitted,
           Main, Returned
  <2>3. bid' \in {bid, last_md_ - 1}
    BY DEF vars, Next, Broadcast, MarketMaker, NextRow, LastRow, Mark, Marked, Submitted, Buy,
           Sell, Match, ReportFill, QuoteBid, QuoteAsk, SubmitQuote, QuoteSubmitted,
           Main, Returned
  <2>4. ask' \in {ask, last_md_ + 1}
    BY DEF vars, Next, Broadcast, MarketMaker, NextRow, LastRow, Mark, Marked, Submitted, Buy,
           Sell, Match, ReportFill, QuoteBid, QuoteAsk, SubmitQuote, QuoteSubmitted,
           Main, Returned
  <2> QED BY <2>1, <2>2, <2>3, <2>4 DEF NumbersInv
<1>2. CASE UNCHANGED <<bookVars, call>>
  <2>1. BookNumbers'
    BY <1>2 DEF NumbersInv, BookNumbers, bookVars
  <2> QED BY <1>1, <1>2, <2>1 DEF NumbersInv
<1>3. UNCHANGED vars \/ QuietStep => UNCHANGED <<bookVars, call>>
  BY DEF vars, QuietStep, NextRow, LastRow, Mark, Marked, Submitted, QuoteBid, QuoteAsk,
         QuoteSubmitted, Main, Returned, callVars
<1>4. CASE Buy \/ Sell
  <2>1. ~Submitting("md") /\ "md" \in Threads
    BY <1>4 DEF Buy, Sell, Submitting, Threads
  <2>2. ASSUME NEW o \in LiveOrders, Submit("md", o) PROVE NumbersInv'
    BY <1>1, <2>1, <2>2, SubmitNumbers DEF NumbersInv
  <2> QED BY <1>2, <1>4, <2>2, OrderShape DEF callVars
<1>5. CASE SubmitQuote
  <2>1. ~Submitting("mm") /\ "mm" \in Threads
    BY <1>5 DEF SubmitQuote, Submitting, Threads
  <2>2. PICK o \in LiveOrders : Submit("mm", o)
    BY <1>5, QuoteShape
  <2> QED BY <1>1, <2>1, <2>2, SubmitNumbers DEF NumbersInv
<1>6. CASE Match
  <2>1. BookNumbers'
    BY <1>6, MatchShape, RunningNumbers DEF NumbersInv
  <2>2. fills \in Seq(Fills)
    BY DEF NumbersInv, BookNumbers, Fills
  <2>3. \A u \in Threads : call'[u].fills \in Seq(Fills)
    BY <1>6, <2>2, MatchShape DEF NumbersInv, Threads
  <2> QED BY <1>1, <2>1, <2>3 DEF NumbersInv
<1>7. ASSUME NEW t \in Threads, ReportFill(t) PROVE NumbersInv'
  <2>1. BookNumbers'
    BY <1>7 DEF ReportFill, bookVars, NumbersInv, BookNumbers
  <2>2. call[t].fills \in Seq(Fills) /\ Tail(call[t].fills) \in Seq(Fills)
    BY <1>7, TailIsQueue, ReportShape DEF NumbersInv
  <2>3. ASSUME NEW u \in Threads PROVE call'[u].fills \in Seq(Fills)
    <3>1. CASE u = t
      BY <1>7, <2>2, <3>1, ReportLeaves
    <3>2. CASE u # t
      BY <1>7, <3>2, ReportShape DEF NumbersInv
    <3> QED BY <3>1, <3>2
  <2> QED BY <1>1, <2>1, <2>3 DEF NumbersInv
<1> QED BY <1>2, <1>3, <1>4, <1>5, <1>6, <1>7
       DEF Next, Broadcast, MarketMaker, QuietStep, Threads

-----------------------------------------------------------------------------
(***************************************************************************)
(* The money: ProfitIsCash and FinalPnlIsEquity                            *)
(***************************************************************************)
AccountNumbers ==
    /\ position_ \in [Names -> Int] /\ cash_ \in [Names -> Int]
    /\ trade_count_ \in [Names -> Int] /\ marked \in [Names -> Int]
    /\ avg_cost_ \in [Names -> Fraction] /\ realized_pnl_ \in [Names -> Fraction]
    /\ unrealized_pnl_ \in [Names -> Fraction]
    /\ position_read \in Int

\* Thread t has moved the position of s for a fill, and not yet the rest.
HalfTold(t, s) == call[t].half /\ s = Strategies[call[t].k]
Settled(s) == \A t \in Threads : ~HalfTold(t, s)

\* ProfitIsCash at any moment: the position that counts is the one before a fill
\* that is half booked.
ProfitInv == \A s \in Names \ covered :
    /\ Settled(s) => realized_pnl_[s] = Earned(cash_[s], avg_cost_[s], position_[s])
    /\ \A t \in Threads : HalfTold(t, s) =>
          realized_pnl_[s] = Earned(cash_[s], avg_cost_[s],
                                    position_[s] - Flow(Head(call[t].fills)))

\* The on_market_data of this row has marked the i-th strategy.
Done(i) == \/ at \in {"idle", "over"}
           \/ i < turn
           \/ i = turn /\ at \notin {"mark", "marking"}

\* A strategy that has seen no fill since its on_market_data began is marked with
\* the account it has, or is about to be.
MarkInv == \A i \in 1 .. 3 :
    /\ marked[Strategies[i]] <= trade_count_[Strategies[i]]
    /\ marked[Strategies[i]] = trade_count_[Strategies[i]] /\ Settled(Strategies[i]) =>
          /\ Done(i) => unrealized_pnl_[Strategies[i]] =
                           MarkToMarket(md.last, avg_cost_[Strategies[i]], position_[Strategies[i]])
          /\ i = turn /\ at = "marking" => position_read = position_[Strategies[i]]

MoneyInv == NumbersInv /\ AccountNumbers /\ ProfitInv /\ MarkInv

LEMMA MarkIsFraction ==
    ASSUME NEW last \in Int, NEW avg \in Fraction, NEW p \in Int
    PROVE  MarkToMarket(last, avg, p) \in Fraction
<1>1. 0 \in Int /\ Whole(0) \in Fraction /\ Whole(last) \in Fraction
  BY FractionOperations
<1>2. Minus(Whole(last), avg) \in Fraction
  BY <1>1, FractionOperations
<1> QED BY <1>1, <1>2, FractionOperations DEF MarkToMarket

\* The two halves of on_order_filled, on the account of one strategy.
LEMMA FillEarns ==
    ASSUME NEW f \in Fills, NEW c \in Int, NEW avg \in Fraction, NEW p \in Int,
           ~(f.is_buy /\ p = 0),
           NEW after \in Fraction, NEW realized \in Fraction,
           realized = Earned(c, avg, p - Flow(f)),
           after = CASE p = 0 -> Whole(0)
                     [] p # 0 /\ f.is_buy ->
                          Over(Plus(Times(avg, p - f.quantity), Whole(f.price * f.quantity)), p)
                     [] OTHER -> avg
    PROVE  IF f.is_buy
           THEN realized = Earned(c - Flow(f) * f.price, after, p)
           ELSE Plus(realized, Times(Minus(Whole(f.price), avg), f.quantity))
                   = Earned(c - Flow(f) * f.price, after, p)
<1>1. f.price \in Int /\ f.quantity \in Int /\ f.is_buy \in BOOLEAN
  BY DEF Fills, LiveOrders, BookOrders
<1>2. PICK price \in Int, q \in Int : price = f.price /\ q = f.quantity
  BY <1>1
<1>3. CASE f.is_buy
  <2>1. Flow(f) = q /\ p # 0
    BY <1>2, <1>3 DEF Flow
  <2>2. after = Over(Plus(Times(avg, p - q), Whole(price * q)), p)
    BY <1>2, <1>3, <2>1
  <2> QED BY <1>2, <1>3, <2>1, <2>2, PurchaseKeeps
<1>4. CASE ~f.is_buy
  <2>1. Flow(f) = -q /\ p - (-q) = p + q /\ c - (-q) * price = c + q * price
    BY <1>2, <1>4 DEF Flow
  <2>2. Earned(c + q * price, after, p) = Earned(c + q * price, avg, p)
    <3>1. CASE p = 0
      <4>1. after = Whole(0) /\ Whole(0) \in Fraction
        BY <3>1, FractionOperations
      <4>2. Times(after, p) = Whole(0) /\ Times(avg, p) = Whole(0)
        BY <3>1, <4>1, Zeros
      <4> QED BY <4>2 DEF Earned
    <3>2. CASE p # 0
      BY <1>4, <3>2
    <3> QED BY <3>1, <3>2
  <2>3. Plus(Earned(c, avg, p + q), Times(Minus(Whole(price), avg), q))
           = Earned(c + q * price, avg, p)
    BY SaleEarns
  <2> QED BY <1>2, <1>4, <2>1, <2>2, <2>3
<1> QED BY <1>1, <1>3, <1>4

LEMMA AverageIsFraction ==
    ASSUME NEW f \in Fills, NEW avg \in Fraction, NEW p \in Int
    PROVE  (CASE p = 0 -> Whole(0)
              [] p # 0 /\ f.is_buy ->
                   Over(Plus(Times(avg, p - f.quantity), Whole(f.price * f.quantity)), p)
              [] OTHER -> avg) \in Fraction
<1>1. f.price \in Int /\ f.quantity \in Int
  BY DEF Fills, LiveOrders, BookOrders
<1>2. p - f.quantity \in Int /\ f.price * f.quantity \in Int /\ 0 \in Int
  BY <1>1
<1>3. /\ Times(avg, p - f.quantity) \in Fraction /\ Whole(f.price * f.quantity) \in Fraction
      /\ Whole(0) \in Fraction
  BY <1>2, FractionOperations
<1>4. Plus(Times(avg, p - f.quantity), Whole(f.price * f.quantity)) \in Fraction
  BY <1>3, <1>2, FractionOperations
<1>5. p # 0 => Over(Plus(Times(avg, p - f.quantity), Whole(f.price * f.quantity)), p) \in Fraction
  BY <1>4, FractionOperations
<1> QED BY <1>3, <1>5

LEMMA ProfitIsFraction ==
    ASSUME NEW f \in Fills, NEW avg \in Fraction, NEW realized \in Fraction
    PROVE  (IF f.is_buy THEN realized
            ELSE Plus(realized, Times(Minus(Whole(f.price), avg), f.quantity))) \in Fraction
<1>1. f.price \in Int /\ f.quantity \in Int
  BY DEF Fills, LiveOrders, BookOrders
<1>2. Whole(f.price) \in Fraction
  BY <1>1, FractionOperations
<1>3. Minus(Whole(f.price), avg) \in Fraction
  BY <1>1, <1>2, FractionOperations
<1>4. Times(Minus(Whole(f.price), avg), f.quantity) \in Fraction
  BY <1>1, <1>3, FractionOperations
<1>5. Plus(realized, Times(Minus(Whole(f.price), avg), f.quantity)) \in Fraction
  BY <1>1, <1>4, FractionOperations
<1> QED BY <1>5

LEMMA MoneyInit == Init => AccountNumbers /\ ProfitInv /\ MarkInv
<1> SUFFICES ASSUME Init PROVE AccountNumbers /\ ProfitInv /\ MarkInv
  OBVIOUS
<1>0. 0 \in Int
  OBVIOUS
<1>1. 0 \in Int /\ Whole(0) \in Fraction
  <2>1. \A x \in Fraction : Whole(0) \in Fraction
    BY <1>0, FractionOperations
  <2>2. Frac(0, 1) \in Fraction
    BY FracIsFraction DEF Nonzero
  <2> QED BY <1>0, <2>1, <2>2
<1>2. /\ Times(Whole(0), 0) = Whole(0)
      /\ Plus(Whole(0), Whole(0)) = Whole(0)
  BY <1>1, Zeros
<1>3. AccountNumbers
  BY <1>1 DEF Init, AccountsInit, AccountNumbers
<1>4. \A s \in Names : /\ realized_pnl_[s] = Whole(0) /\ avg_cost_[s] = Whole(0)
                       /\ unrealized_pnl_[s] = Whole(0) /\ cash_[s] = 0 /\ position_[s] = 0
                       /\ marked[s] = 0 /\ trade_count_[s] = 0
  BY DEF Init, AccountsInit
<1>5. \A t \in Threads : ~call[t].half
  BY DEF Init, NoCall, Threads
<1>6. ProfitInv
  BY <1>2, <1>4, <1>5 DEF ProfitInv, HalfTold, Earned
<1>7. MarkInv
  <2>1. \A last : MarkToMarket(last, Whole(0), 0) = Whole(0)
    BY DEF MarkToMarket
  <2>2. at = "idle"
    BY DEF Init
  <2> QED BY <1>4, <2>1, <2>2, StrategiesShape DEF MarkInv
<1> QED BY <1>3, <1>6, <1>7

\* A step that books nothing.
LEMMA ProfitFrame ==
    ASSUME ProfitInv, UNCHANGED accountVars,
           \A t \in Threads : \/ call'[t] = call[t]
                              \/ ~call[t].half /\ ~call'[t].half
    PROVE  /\ ProfitInv'
           /\ \A s : Settled(s)' = Settled(s)
<1>1. \A t \in Threads : \A s : /\ HalfTold(t, s)' <=> HalfTold(t, s)
                                /\ HalfTold(t, s) => call'[t] = call[t]
  BY DEF HalfTold
<1>2. \A s : Settled(s)' = Settled(s)
  BY <1>1 DEF Settled
<1> QED BY <1>1, <1>2 DEF ProfitInv, accountVars, costVars

\* A step that neither books nor marks, after which no more is done than before.
LEMMA MarkFrame ==
    ASSUME MarkInv, UNCHANGED <<md, accountVars, markVars>>,
           \A s : Settled(s)' = Settled(s),
           \A i \in 1 .. 3 : Done(i)' => Done(i),
           at' = "marking" => at = "marking" /\ turn' = turn /\ position_read' = position_read
    PROVE  MarkInv'
  BY DEF MarkInv, accountVars, costVars, markVars

LEMMA NumbersFrame ==
    ASSUME AccountNumbers, UNCHANGED <<accountVars, markVars>>, position_read' \in Int
    PROVE  AccountNumbers'
  BY DEF AccountNumbers, accountVars, costVars, markVars

\* A step of the report: half a fill of one strategy.
LEMMA ReportMoney ==
    ASSUME AccountsInv, MoneyInv, NEW t \in Threads, ReportFill(t)
    PROVE  AccountNumbers' /\ ProfitInv' /\ MarkInv'
<1>1. PICK f \in Fills, k \in 1 .. 3, half \in BOOLEAN :
         f = Head(call[t].fills) /\ k = call[t].k /\ half = call[t].half
  BY ReportShape, TailIsQueue DEF MoneyInv, NumbersInv
<1>2. PICK s \in Names : s = Strategies[k]
  BY StrategiesShape
<1>3. /\ f.price \in Int /\ f.quantity \in Int /\ f.is_buy \in BOOLEAN /\ Flow(f) \in Int
  BY DEF Fills, LiveOrders, BookOrders, Flow
<1>4. /\ IF half THEN BookFill(s, f) ELSE MovePosition(s, f)
      /\ \A u \in Threads : u # t => ~call[u].half /\ ~call'[u].half
      /\ ~half => call'[t].half /\ call'[t].k = k /\ Head(call'[t].fills) = f
      /\ half => ~call'[t].half
  <2>1. IF half THEN BookFill(s, f) ELSE MovePosition(s, f)
    BY <1>1, <1>2, ReportShape
  <2>2. \A u \in Threads : u # t => ~call[u].half /\ ~call'[u].half
    <3>1. ~NoCall.half
      BY DEF NoCall
    <3>2. \A u \in Threads : u # t => call[u] = NoCall /\ call'[u] = call[u]
      BY ReportShape
    <3> QED BY <3>1, <3>2
  <2>3. ~half => call'[t] = [fills |-> call[t].fills, k |-> call[t].k, half |-> TRUE]
    BY <1>1, ReportShape
  <2>4. half => ~call'[t].half
    BY <1>1, ReportLeaves
  <2> QED BY <1>1, <2>1, <2>2, <2>3, <2>4
<1>5. /\ UNCHANGED <<md, turn, at, position_read, unrealized_pnl_, marked>>
      /\ \A i : Done(i)' <=> Done(i)
  BY DEF ReportFill, mdVars, broadcastVars, markVars, Done
<1>6. \A r \in Names : r # s => /\ \A u \in Threads : ~HalfTold(u, r) /\ ~HalfTold(u, r)'
                                /\ Settled(r) /\ Settled(r)'
  BY <1>1, <1>2, <1>4 DEF HalfTold, Settled
<1>7. NumbersInv /\ AccountNumbers /\ ProfitInv /\ MarkInv
  BY DEF MoneyInv
<1>8. /\ \A r \in Names : r # s => /\ position_'[r] = position_[r] /\ cash_'[r] = cash_[r]
                                   /\ trade_count_'[r] = trade_count_[r]
                                   /\ avg_cost_'[r] = avg_cost_[r]
                                   /\ realized_pnl_'[r] = realized_pnl_[r]
      /\ covered \subseteq covered'
  BY <1>4, <1>7 DEF MovePosition, BookFill, costVars, AccountNumbers
<1>9. CASE ~half
  <2>1. /\ position_' = [position_ EXCEPT ![s] = @ + Flow(f)]
        /\ UNCHANGED <<cash_, trade_count_, avg_cost_, realized_pnl_, covered>>
    BY <1>4, <1>9 DEF MovePosition, costVars
  <2>2. /\ HalfTold(t, s)' /\ ~Settled(s)' /\ Settled(s)
    BY <1>1, <1>2, <1>4, <1>9 DEF HalfTold, Settled
  <2>3. AccountNumbers'
    BY <1>3, <1>5, <1>7, <2>1 DEF AccountNumbers
  <2>4. /\ position_'[s] = position_[s] + Flow(f)
        /\ position_[s] \in Int /\ position_'[s] - Flow(f) = position_[s]
    BY <1>3, <1>7, <2>1 DEF AccountNumbers
  <2>5. ProfitInv'
    <3> SUFFICES ASSUME NEW r \in Names \ covered'
                 PROVE  /\ Settled(r)' =>
                              realized_pnl_'[r] = Earned(cash_'[r], avg_cost_'[r], position_'[r])
                        /\ \A u \in Threads : HalfTold(u, r)' =>
                              realized_pnl_'[r] = Earned(cash_'[r], avg_cost_'[r],
                                                   position_'[r] - Flow(Head(call'[u].fills)))
      BY DEF ProfitInv
    <3>1. CASE r # s
      BY <1>6, <1>7, <1>8, <3>1 DEF ProfitInv
    <3>2. CASE r = s
      <4>1. realized_pnl_[s] = Earned(cash_[s], avg_cost_[s], position_[s])
        BY <1>7, <2>1, <2>2, <3>2 DEF ProfitInv
      <4>2. \A u \in Threads : HalfTold(u, s)' => u = t
        BY <1>4 DEF HalfTold
      <4> QED BY <1>4, <1>9, <2>1, <2>2, <2>4, <3>2, <4>1, <4>2
    <3> QED BY <3>1, <3>2
  <2>6. MarkInv'
    <3> SUFFICES ASSUME NEW i \in 1 .. 3, NEW r \in Names, r = Strategies[i]
                 PROVE  /\ marked'[r] <= trade_count_'[r]
                        /\ marked'[r] = trade_count_'[r] /\ Settled(r)' =>
                              /\ Done(i)' => unrealized_pnl_'[r] =
                                    MarkToMarket(md'.last, avg_cost_'[r], position_'[r])
                              /\ i = turn' /\ at' = "marking" => position_read' = position_'[r]
      BY StrategiesShape DEF MarkInv
    <3>1. CASE r # s
      BY <1>5, <1>6, <1>7, <1>8, <3>1 DEF MarkInv
    <3>2. CASE r = s
      BY <1>5, <1>7, <2>1, <2>2, <3>2 DEF MarkInv
    <3> QED BY <3>1, <3>2
  <2> QED BY <2>3, <2>5, <2>6
<1>10. CASE half
  <2>1. /\ cash_' = [cash_ EXCEPT ![s] = @ - Flow(f) * f.price]
        /\ trade_count_' = [trade_count_ EXCEPT ![s] = @ + 1]
        /\ avg_cost_' = [avg_cost_ EXCEPT ![s] = AverageCost(s, f)]
        /\ realized_pnl_' = [realized_pnl_ EXCEPT ![s] = Realized(s, f)]
        /\ covered' = covered \cup (IF f.is_buy /\ position_[s] = 0 THEN {s} ELSE {})
        /\ UNCHANGED position_
    BY <1>4, <1>10 DEF BookFill
  <2>2. /\ HalfTold(t, s) /\ Settled(s)'
        /\ \A u \in Threads : ~HalfTold(u, s)'
    BY <1>1, <1>2, <1>4, <1>10 DEF HalfTold, Settled
  <2>3. /\ position_[s] \in Int /\ cash_[s] \in Int /\ trade_count_[s] \in Int
        /\ avg_cost_[s] \in Fraction /\ realized_pnl_[s] \in Fraction /\ marked[s] \in Int
    BY <1>7 DEF AccountNumbers
  <2>4. AverageCost(s, f) \in Fraction /\ Realized(s, f) \in Fraction
    BY <2>3, AverageIsFraction, ProfitIsFraction DEF AverageCost, Realized
  <2>5. Flow(f) * f.price \in Int
    BY <1>3
  <2>6. AccountNumbers'
    BY <1>5, <1>7, <2>1, <2>4, <2>5 DEF AccountNumbers
  <2>7. /\ cash_'[s] = cash_[s] - Flow(f) * f.price /\ trade_count_'[s] = trade_count_[s] + 1
        /\ avg_cost_'[s] = AverageCost(s, f) /\ realized_pnl_'[s] = Realized(s, f)
        /\ position_'[s] = position_[s]
    BY <1>7, <2>1 DEF AccountNumbers
  <2>8. ASSUME s \notin covered'
        PROVE  realized_pnl_'[s] = Earned(cash_'[s], avg_cost_'[s], position_'[s])
    <3>1. s \notin covered /\ ~(f.is_buy /\ position_[s] = 0)
      BY <2>1, <2>8
    <3>2. realized_pnl_[s] = Earned(cash_[s], avg_cost_[s], position_[s] - Flow(f))
      BY <1>1, <1>7, <2>2, <3>1 DEF ProfitInv
    <3>3. IF f.is_buy
          THEN realized_pnl_[s]
                  = Earned(cash_[s] - Flow(f) * f.price, AverageCost(s, f), position_[s])
          ELSE Plus(realized_pnl_[s], Times(Minus(Whole(f.price), avg_cost_[s]), f.quantity))
                  = Earned(cash_[s] - Flow(f) * f.price, AverageCost(s, f), position_[s])
      <4>1. PICK after \in Fraction : after = AverageCost(s, f)
        BY <2>4
      <4>2. after = CASE position_[s] = 0 -> Whole(0)
                      [] position_[s] # 0 /\ f.is_buy ->
                           Over(Plus(Times(avg_cost_[s], position_[s] - f.quantity),
                                     Whole(f.price * f.quantity)), position_[s])
                      [] OTHER -> avg_cost_[s]
        BY <4>1 DEF AverageCost
      <4> QED BY <2>3, <3>1, <3>2, <4>1, <4>2, FillEarns
    <3> QED BY <2>7, <3>3 DEF Realized
  <2>9. ProfitInv'
    <3> SUFFICES ASSUME NEW r \in Names \ covered'
                 PROVE  /\ Settled(r)' =>
                              realized_pnl_'[r] = Earned(cash_'[r], avg_cost_'[r], position_'[r])
                        /\ \A u \in Threads : HalfTold(u, r)' =>
                              realized_pnl_'[r] = Earned(cash_'[r], avg_cost_'[r],
                                                   position_'[r] - Flow(Head(call'[u].fills)))
      BY DEF ProfitInv
    <3>1. CASE r # s
      BY <1>6, <1>7, <1>8, <3>1 DEF ProfitInv
    <3>2. CASE r = s
      BY <2>2, <2>8, <3>2
    <3> QED BY <3>1, <3>2
  <2>10. MarkInv'
    <3> SUFFICES ASSUME NEW i \in 1 .. 3, NEW r \in Names, r = Strategies[i]
                 PROVE  /\ marked'[r] <= trade_count_'[r]
                        /\ marked'[r] = trade_count_'[r] /\ Settled(r)' =>
                              /\ Done(i)' => unrealized_pnl_'[r] =
                                    MarkToMarket(md'.last, avg_cost_'[r], position_'[r])
                              /\ i = turn' /\ at' = "marking" => position_read' = position_'[r]
      BY StrategiesShape DEF MarkInv
    <3>1. CASE r # s
      BY <1>5, <1>6, <1>7, <1>8, <3>1 DEF MarkInv
    <3>2. CASE r = s
      <4>1. marked[s] <= trade_count_[s]
        BY <1>7, <3>2 DEF MarkInv
      <4>2. marked'[s] <= trade_count_'[s] /\ marked'[s] # trade_count_'[s]
        BY <1>5, <2>3, <2>7, <4>1
      <4> QED BY <3>2, <4>2
    <3> QED BY <3>1, <3>2
  <2> QED BY <2>6, <2>9, <2>10
<1> QED BY <1>9, <1>10

\* on_market_data begins for a strategy, or marks it.
LEMMA MarkMoney ==
    ASSUME AccountsInv, SidesInv, MoneyInv, Mark \/ Marked
    PROVE  AccountNumbers' /\ ProfitInv' /\ MarkInv'
<1>1. /\ UNCHANGED <<md, call, accountVars>>
      /\ turn \in 1 .. 3
  BY DEF SidesInv, Mark, Marked, mdVars, callVars
<1>2. PICK s \in Names : s = Strategies[turn]
  BY <1>1, StrategiesShape
<1>3. NumbersInv /\ AccountNumbers /\ ProfitInv /\ MarkInv
  BY DEF MoneyInv
<1>4. ProfitInv' /\ \A r : Settled(r)' = Settled(r)
  BY <1>1, <1>3, ProfitFrame
<1>5. UNCHANGED <<position_, cash_, trade_count_, avg_cost_, realized_pnl_>>
  BY <1>1 DEF accountVars, costVars
<1>6. \A i \in 1 .. 3 : Strategies[i] = s => i = turn
  BY <1>1, <1>2, StrategiesShape
<1>7. CASE Mark
  <2>1. /\ at = "mark" /\ at' = "marking" /\ turn' = turn
        /\ position_read' = position_[s]
        /\ marked' = [marked EXCEPT ![s] = trade_count_[s]]
        /\ UNCHANGED unrealized_pnl_
    BY <1>2, <1>7 DEF Mark
  <2>2. AccountNumbers'
    BY <1>3, <1>5, <2>1 DEF AccountNumbers
  <2>3. /\ marked'[s] = trade_count_[s] /\ trade_count_[s] \in Int
        /\ \A r \in Names : r # s => marked'[r] = marked[r]
    BY <1>3, <2>1 DEF AccountNumbers
  <2>4. MarkInv'
    <3> SUFFICES ASSUME NEW i \in 1 .. 3, NEW r \in Names, r = Strategies[i]
                 PROVE  /\ marked'[r] <= trade_count_'[r]
                        /\ marked'[r] = trade_count_'[r] /\ Settled(r)' =>
                              /\ Done(i)' => unrealized_pnl_'[r] =
                                    MarkToMarket(md'.last, avg_cost_'[r], position_'[r])
                              /\ i = turn' /\ at' = "marking" => position_read' = position_'[r]
      BY StrategiesShape DEF MarkInv
    <3>1. CASE r = s
      <4>1. i = turn /\ ~Done(i)'
        <5>1. i = turn /\ turn \in 1 .. 3
          BY <1>1, <1>6, <3>1
        <5> QED BY <2>1, <5>1 DEF Done
      <4> QED BY <1>5, <2>1, <2>3, <3>1, <4>1
    <3>2. CASE r # s
      <4>1. i # turn /\ (Done(i)' => Done(i))
        BY <1>2, <2>1, <3>2 DEF Done
      <4> QED BY <1>1, <1>3, <1>4, <1>5, <2>1, <2>3, <3>2, <4>1 DEF MarkInv
    <3> QED BY <3>1, <3>2
  <2> QED BY <1>4, <2>2, <2>4
<1>8. CASE Marked
  <2>1. /\ at = "marking" /\ at' # "marking" /\ position_read' = 0
        /\ \/ turn' = turn /\ at' = "buy"
           \/ turn < 3 /\ turn' = turn + 1 /\ at' = "mark"
           \/ turn = 3 /\ at' = "idle"
        /\ UNCHANGED marked
    BY <1>1, <1>8, StrategiesShape DEF Marked, NextStrategy
  <2>0. PICK factor \in {position_read, position_[s]} :
           unrealized_pnl_' = [unrealized_pnl_ EXCEPT ![s] =
              MarkToMarket(md.last, avg_cost_[s],
                           IF position_read = 0 THEN 0 ELSE factor)]
    BY <1>2, <1>8 DEF Marked
  <2> DEFINE read == IF position_read = 0 THEN 0 ELSE factor
  <2>2. unrealized_pnl_' = [unrealized_pnl_ EXCEPT ![s] =
                              MarkToMarket(md.last, avg_cost_[s], read)]
    BY <2>0
  <2>9. read \in Int /\ (position_read = position_[s] => read = position_[s])
    BY <1>3 DEF AccountNumbers
  <2> HIDE DEF read
  <2>3. MarkToMarket(md.last, avg_cost_[s], read) \in Fraction
    BY <1>3, <2>9, MarkIsFraction DEF NumbersInv, AccountNumbers
  <2>4. AccountNumbers'
    BY <1>3, <1>5, <2>1, <2>2, <2>3 DEF AccountNumbers
  <2>5. /\ unrealized_pnl_'[s] = MarkToMarket(md.last, avg_cost_[s], read)
        /\ \A r \in Names : r # s => unrealized_pnl_'[r] = unrealized_pnl_[r]
    BY <1>3, <2>2 DEF AccountNumbers
  <2>6. MarkInv'
    <3> SUFFICES ASSUME NEW i \in 1 .. 3, NEW r \in Names, r = Strategies[i]
                 PROVE  /\ marked'[r] <= trade_count_'[r]
                        /\ marked'[r] = trade_count_'[r] /\ Settled(r)' =>
                              /\ Done(i)' => unrealized_pnl_'[r] =
                                    MarkToMarket(md'.last, avg_cost_'[r], position_'[r])
                              /\ i = turn' /\ at' = "marking" => position_read' = position_'[r]
      BY StrategiesShape DEF MarkInv
    <3>1. CASE r = s
      <4>1. i = turn
        BY <1>6, <3>1
      <4> QED BY <1>1, <1>3, <1>4, <1>5, <2>1, <2>5, <2>9, <3>1, <4>1 DEF MarkInv
    <3>2. CASE r # s
      <4>1. i # turn
        BY <1>2, <3>2
      <4>2. Done(i)' => Done(i)
        BY <1>1, <2>1, <4>1 DEF Done
      <4> QED BY <1>1, <1>3, <1>4, <1>5, <2>1, <2>5, <3>2, <4>2 DEF MarkInv
    <3> QED BY <3>1, <3>2
  <2> QED BY <1>4, <2>4, <2>6
<1> QED BY <1>7, <1>8

\* The next row: nobody is marked with it yet.
LEMMA RowMoney ==
    ASSUME MoneyInv, NextRow
    PROVE  AccountNumbers' /\ ProfitInv' /\ MarkInv'
<1>1. /\ UNCHANGED <<call, accountVars, markVars, position_read>>
      /\ turn' = 1 /\ at' = "mark"
  BY DEF NextRow, callVars
<1>2. ProfitInv' /\ \A r : Settled(r)' = Settled(r)
  BY <1>1, ProfitFrame DEF MoneyInv
<1>3. \A i \in 1 .. 3 : ~Done(i)'
  BY <1>1 DEF Done
<1>4. MarkInv'
  BY <1>1, <1>2, <1>3 DEF MoneyInv, MarkInv, accountVars, costVars, markVars
<1> QED BY <1>1, <1>2, <1>4, NumbersFrame DEF MoneyInv, AccountNumbers

\* The other steps leave the accounts and the marks alone.
LEMMA MoneyFrame ==
    ASSUME AccountsInv, SidesInv, MoneyInv, UNCHANGED <<md, accountVars, markVars, position_read>>,
           \A t \in Threads : \/ call'[t] = call[t]
                              \/ ~call[t].half /\ ~call'[t].half,
           \A i \in 1 .. 3 : Done(i)' => Done(i),
           at' = "marking" => at = "marking" /\ turn' = turn
    PROVE  AccountNumbers' /\ ProfitInv' /\ MarkInv'
<1>1. ProfitInv' /\ \A r : Settled(r)' = Settled(r)
  BY ProfitFrame DEF MoneyInv
<1>2. MarkInv'
  BY <1>1, MarkFrame DEF MoneyInv
<1> QED BY <1>1, <1>2, NumbersFrame DEF MoneyInv, AccountNumbers

LEMMA MoneyNext == AccountsInv /\ SidesInv /\ MoneyInv /\ [Next]_vars => MoneyInv'
<1> SUFFICES ASSUME AccountsInv, SidesInv, MoneyInv, [Next]_vars PROVE MoneyInv'
  OBVIOUS
<1>1. NumbersInv'
  BY NumbersNext DEF MoneyInv
<1> SUFFICES AccountNumbers' /\ ProfitInv' /\ MarkInv'
  BY <1>1 DEF MoneyInv
<1> USE DEF mdVars, broadcastVars
<1>2. CASE NextRow
  BY <1>2, RowMoney
<1>3. CASE Mark \/ Marked
  BY <1>3, MarkMoney
<1>4. ASSUME NEW t \in Threads, ReportFill(t) PROVE AccountNumbers' /\ ProfitInv' /\ MarkInv'
  BY <1>4, ReportMoney
<1>5. CASE Match
  <2>1. UNCHANGED <<md, accountVars, markVars, position_read, at, turn>>
    BY <1>5 DEF Match
  <2>2. \A t \in Threads : \/ call'[t] = call[t]
                           \/ ~call[t].half /\ ~call'[t].half
    BY <1>5, MatchShape
  <2> QED BY <2>1, <2>2, MoneyFrame DEF Done
<1>6. CASE UNCHANGED vars \/ Main \/ QuoteBid \/ QuoteAsk \/ QuoteSubmitted \/ LastRow
  <2>1. /\ UNCHANGED <<md, accountVars, markVars, position_read, call, turn>>
        /\ at' = at \/ (at' = "over" /\ at = "idle")
    <3>1. CASE UNCHANGED vars
      BY <3>1 DEF vars, callVars
    <3>2. CASE Main \/ QuoteBid \/ QuoteAsk \/ LastRow
      BY <3>2 DEF Main, QuoteBid, QuoteAsk, LastRow, callVars
    <3>3. CASE QuoteSubmitted
      BY <3>3 DEF QuoteSubmitted, Returned
    <3> QED BY <1>6, <3>1, <3>2, <3>3
  <2> QED BY <2>1, MoneyFrame DEF Done
<1>7. CASE SubmitQuote
  <2>1. UNCHANGED <<md, accountVars, markVars, position_read, at, turn>>
    BY <1>7 DEF SubmitQuote
  <2>2. ~Submitting("mm") /\ "mm" \in Threads
    BY <1>7 DEF SubmitQuote, Submitting, Threads
  <2>3. PICK o \in LiveOrders : Submit("mm", o)
    BY <1>7, QuoteShape DEF MoneyInv
  <2>4. \A t \in Threads : \/ call'[t] = call[t]
                           \/ ~call[t].half /\ ~call'[t].half
    BY <2>2, <2>3, SubmitShape
  <2> QED BY <2>1, <2>4, MoneyFrame DEF Done
<1>8. CASE Buy \/ Sell \/ Submitted
  <2>1. /\ turn \in 1 .. 3 /\ at \in {"buy", "sell", "buying", "selling"}
        /\ \/ turn' = turn /\ at' \in {"buying", "sell", "selling"}
           \/ turn < 3 /\ turn' = turn + 1 /\ at' = "mark"
           \/ turn = 3 /\ at' = "idle"
    <3>1. /\ turn \in 1 .. 3 /\ at \in {"buy", "sell", "buying", "selling"}
      BY <1>8 DEF SidesInv, Buy, Sell, Submitted, Returned, Submitting
    <3> QED BY <1>8, <3>1, StrategiesShape DEF Buy, Sell, Submitted, NextStrategy
  <2>2. \A i \in 1 .. 3 : Done(i)' => Done(i)
    BY <2>1 DEF Done
  <2>3. UNCHANGED <<md, accountVars, markVars, position_read>>
    BY <1>8 DEF Buy, Sell, Submitted, Returned
  <2>4. CASE call' = call
    BY <2>1, <2>2, <2>3, <2>4, MoneyFrame
  <2>5. ASSUME NEW o \in LiveOrders, Submit("md", o), Buy \/ Sell
        PROVE  AccountNumbers' /\ ProfitInv' /\ MarkInv'
    <3>1. ~Submitting("md") /\ "md" \in Threads
      BY <2>5 DEF Buy, Sell, Submitting, Threads
    <3>2. \A t \in Threads : \/ call'[t] = call[t]
                             \/ ~call[t].half /\ ~call'[t].half
      BY <2>5, <3>1, SubmitShape
    <3> QED BY <2>1, <2>2, <2>3, <3>2, MoneyFrame
  <2>6. CASE Submitted
    BY <2>4, <2>6 DEF Submitted, Returned
  <2>7. CASE Buy \/ Sell
    BY <2>4, <2>5, <2>7, OrderShape DEF MoneyInv, callVars
  <2> QED BY <1>8, <2>6, <2>7
<1> QED BY <1>2, <1>3, <1>4, <1>5, <1>6, <1>7, <1>8
       DEF Next, Broadcast, MarketMaker, Threads

LEMMA MoneyCorrect == Spec => [](AccountsInv /\ MoneyInv)
<1>1. Init => MoneyInv
  BY MoneyInit, NumbersInit DEF MoneyInv
<1> QED BY <1>1, InvInit, AccountsInvNext, SidesInvNext, MoneyNext, PTL DEF Spec

-----------------------------------------------------------------------------
\* As long as no purchase has closed a short, the realized profit is the cash
\* and the cost of what is held, for every price, quantity and number of rows
\* (momentum_strategy.hpp, mean_reversion_strategy.hpp and
\* market_maker_strategy.hpp, on_order_filled).
THEOREM ProfitIsMoney == Spec => []ProfitIsCash
<1>1. ASSUME AccountsInv, MoneyInv PROVE ProfitIsCash
  <2>1. ASSUME Quiet PROVE \A s : Settled(s)
    <3>1. \A t \in Threads : call[t] = NoCall
      BY <1>1, <2>1 DEF AccountsInv, OneSubmits, Quiet, Threads
    <3> QED BY <3>1 DEF Settled, HalfTold, NoCall
  <2> QED BY <1>1, <2>1 DEF MoneyInv, ProfitInv, ProfitIsCash, Earned
<1> QED BY <1>1, MoneyCorrect, PTL

\* The profit the summary reports is the account's worth at the latest price, for
\* every strategy that has seen no fill since it was marked (backtest main.cpp and
\* the strategies' on_market_data and get_pnl).
THEOREM FinalPnlIsWorth == Spec => []FinalPnlIsEquity
<1>1. ASSUME AccountsInv, MoneyInv PROVE FinalPnlIsEquity
  <2> SUFFICES ASSUME Quiet, NEW s \in Names \ covered, marked[s] = trade_count_[s]
               PROVE  get_pnl(s) = Whole(cash_[s] + position_[s] * md.last)
    BY DEF FinalPnlIsEquity
  <2>1. Settled(s)
    <3>1. \A t \in Threads : call[t] = NoCall
      BY <1>1 DEF AccountsInv, OneSubmits, Quiet, Threads
    <3> QED BY <3>1 DEF Settled, HalfTold, NoCall
  <2>2. PICK i \in 1 .. 3 : s = Strategies[i]
    BY StrategiesShape
  <2>3. unrealized_pnl_[s] = MarkToMarket(md.last, avg_cost_[s], position_[s])
    BY <1>1, <2>1, <2>2 DEF MoneyInv, MarkInv, Done, Quiet
  <2>4. realized_pnl_[s] = Earned(cash_[s], avg_cost_[s], position_[s])
    BY <1>1, <2>1 DEF MoneyInv, ProfitInv
  <2>5. /\ cash_[s] \in Int /\ avg_cost_[s] \in Fraction /\ position_[s] \in Int
        /\ md.last \in Int
    BY <1>1 DEF MoneyInv, AccountNumbers, NumbersInv
  <2> QED BY <2>3, <2>4, <2>5, WorthOfMarked DEF get_pnl
<1> QED BY <1>1, MoneyCorrect, PTL

================================================================================
