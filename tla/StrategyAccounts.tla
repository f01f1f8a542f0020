---------------------------- MODULE StrategyAccounts ----------------------------
(***************************************************************************)
(* What the strategies of weeks 8 and 10 do with rows of market data and   *)
(* with fills; their source is the same in both weeks.  A row is           *)
(* abstracted to its last price and to the outcome of the comparisons a    *)
(* strategy makes with high, low and avg.  avg_cost_ and the profits are   *)
(* exact fractions here, so rounding is left out.                          *)
(***************************************************************************)
EXTENDS Integers, Sequences, FiniteSetsExt

Strategies == <<"MM", "MOM", "MR">>   \* in the order of registration
Names == {"MM", "MOM", "MR"}
OrderQty == [MOM |-> 2, MR |-> 1]

VARIABLES has_position_,   \* of MOM and MR
          position_, cash_, trade_count_, avg_cost_, realized_pnl_,
          unrealized_pnl_, \* per strategy
          marked,  \* history: trade_count_ when the latest on_market_data began
          covered  \* history: strategies a buy has closed a short for

costVars == <<cash_, trade_count_, avg_cost_, realized_pnl_, covered>>
accountVars == <<position_, costVars>>
markVars == <<unrealized_pnl_, marked>>

(***************************************************************************)
(* Fractions <<n, d>> with d > 0 in lowest terms, whose denominator is the *)
(* smallest k such that k times the fraction is a whole number.  The sets  *)
(* of one member stand for LET: their member is evaluated once.            *)
(***************************************************************************)
Denominator(n, d) == Min({k \in 1 .. d : (n * k) % d = 0})
Reduce(n, d) ==
    CHOOSE r \in {<<(n * k) \div d, k>> : k \in {Denominator(n, d)}} : TRUE
Frac(n, d) ==
    CHOOSE r \in {IF x[2] < 0 THEN Reduce(-x[1], -x[2]) ELSE Reduce(x[1], x[2]) :
                    x \in {<<n, d>>}} : TRUE
Whole(n) == <<n, 1>>
Plus(x, y) == Frac(x[1] * y[2] + y[1] * x[2], x[2] * y[2])
Times(x, k) == Frac(x[1] * k, x[2])
Over(x, k) == Frac(x[1], x[2] * k)
Minus(x, y) == Plus(x, Times(y, -1))

AccountsInit ==
    /\ has_position_ = [s \in {"MOM", "MR"} |-> FALSE]
    /\ position_ = [s \in Names |-> 0]
    /\ cash_ = [s \in Names |-> 0]
    /\ trade_count_ = [s \in Names |-> 0]
    /\ avg_cost_ = [s \in Names |-> Whole(0)]
    /\ realized_pnl_ = [s \in Names |-> Whole(0)]
    /\ unrealized_pnl_ = [s \in Names |-> Whole(0)]
    /\ marked = [s \in Names |-> 0]
    /\ covered = {}

(***************************************************************************)
(* An operator named X_..Slip is X with a slip one could make in the code; *)
(* the specifications do not use it.                                       *)
(***************************************************************************)

\* Only a strategy that holds shares is marked.
MarkToMarket_LongOnlySlip(last, avg, position) ==
    IF position <= 0 THEN Whole(0) ELSE Times(Minus(Whole(last), avg), position)

\* unrealized_pnl_ = (position_ == 0) ? 0.0 : (md.last_price - avg_cost_) * position_;
MarkToMarket(last, avg, position) ==
    IF position = 0 THEN Whole(0) ELSE Times(Minus(Whole(last), avg), position)

\* The signals of MOM and MR: buy when flat, sell when not, as the row says.
Signal(s, row, side) == side \in (IF s = "MOM" THEN row.mom ELSE row.mr)

\* Buys again although an earlier buy has not been sold.
BuySignal_AgainSlip(s, row) == Signal(s, row, "buy")
BuySignal(s, row) == ~has_position_[s] /\ Signal(s, row, "buy")
SellSignal(s, row) == has_position_[s] /\ Signal(s, row, "sell")

Flow(f) == IF f.is_buy THEN f.quantity ELSE -f.quantity

\* on_order_filled, up to position_: another thread may mark the account now.
MovePosition(s, f) ==
    /\ position_' = [position_ EXCEPT ![s] = @ + Flow(f)]
    /\ UNCHANGED costVars

\* The profit is taken from the whole price.
Realized_GrossSlip(s, f) ==
    IF f.is_buy THEN realized_pnl_[s]
    ELSE Plus(realized_pnl_[s], Whole(f.price * f.quantity))

Realized(s, f) ==
    IF f.is_buy THEN realized_pnl_[s]
    ELSE Plus(realized_pnl_[s], Times(Minus(Whole(f.price), avg_cost_[s]), f.quantity))

\* total_cost / position_ after a buy; a sale leaves the average as it is.
AverageCost(s, f) ==
    CASE position_[s] = 0 -> Whole(0)
      [] position_[s] # 0 /\ f.is_buy ->
            Over(Plus(Times(avg_cost_[s], position_[s] - f.quantity),
                      Whole(f.price * f.quantity)),
                 position_[s])
      [] OTHER -> avg_cost_[s]

\* The rest of on_order_filled.
BookFill(s, f) ==
    /\ cash_' = [cash_ EXCEPT ![s] = @ - Flow(f) * f.price]
    /\ trade_count_' = [trade_count_ EXCEPT ![s] = @ + 1]
    /\ avg_cost_' = [avg_cost_ EXCEPT ![s] = AverageCost(s, f)]
    /\ realized_pnl_' = [realized_pnl_ EXCEPT ![s] = Realized(s, f)]
    /\ covered' = covered \cup (IF f.is_buy /\ position_[s] = 0 THEN {s} ELSE {})
    /\ UNCHANGED position_

get_pnl(s) == Plus(realized_pnl_[s], unrealized_pnl_[s])
=============================================================================
