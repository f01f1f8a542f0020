# A verification project for the exchange programs of this repository

The repository is a twelve-week course project in C++: each week is a program of
its own, from a queue shared by two threads to the system of week 12 with a
ZeroMQ gateway, market feeds, a lock-free queue, one order book per symbol and a
portfolio. This directory holds TLA+ models of those programs, TLC
configurations that check them on small instances, and TLAPS proofs of every
invariant those configurations check, for every instance.

`PROJECT.json` is the index: which module models which part, the source lines
behind every definition, what each run checks, the hazards the properties aim
at, the theorems. Commands (in this directory):

    tlc -workers 2 -config book.cfg OrderBookOptimized
    tlapm RingBuffers_proofs.tla

## 1. The system

### Week 12, `week12_PortfolioInfra` (the product of the course)

| part | state | operations | with whom |
|---|---|---|---|
| `LockFreeRingBuffer` | `head`, `tail`, `buffer[SIZE]` | `push`, `pop` | pushed to by 4 gateway workers and the feeds, popped from by the matcher |
| `Gateway` | ROUTER and DEALER sockets, `running` | `frontend_loop` (proxy), `worker_loop`, `parse_order`, `stop` | clients over ZeroMQ; the order queue |
| `MarketFeed` | bars of a CSV file | `load_csv`, `generate_ticks`, `stop` | the order queue; the global flag `running` |
| `EngineManager` | `books` by symbol | `add_symbol`, `submit_order`, `match_all` | called by the matcher; calls books and portfolio |
| `OrderBookOptimized` | `buy_levels`, `sell_levels`: price to queue | `add_order`, `match` | the engine |
| `PortfolioManager`, `TradeLogger` | `pnl_map`; the lines of trades.csv | `record_trade`, `log_trade`, exports | engine, matcher |
| `LatencyMonitor` | samples | `record`, `average`, export | engine, main |
| `main` | `running`, the queue | start, matcher loop, wait, shutdown, export | all of them |

Orders flow from clients and feeds through the one queue to the matcher thread,
which submits all it finds, matches every book, and begins again until `running`
falls. Hard: several threads in a queue without a lock, a book that erases levels
while two iterators walk it, a retry on a full queue, a shutdown in which
detached threads, blocked calls and a flag race.

### Earlier weeks

| week | what it adds | hard |
|---|---|---|
| 1 | a listener for the external liquibook library | - |
| 2 | `ThreadSafeQueue` with mutex and condition variable, several producers and consumers | lost and spurious wake-ups, unequal shares |
| 3, 4, 5 | an order book on two priority queues; cancel and modify; one book per symbol | canceled orders stay in the queues; one id, several objects |
| 6, 7 | producers, one queue and one worker per symbol; stress test with a completeness check | shutdown by flag, sleep and dummy order |
| 8 | strategies fed by a market data thread, a market maker in a thread of its own, fills broadcast under a mutex | accounts that two threads use, one of them without the mutex; callbacks that submit orders |
| 9 | limit order book with `id_map_`: limit orders rest, market orders sweep, any resting order can be canceled | an index that must agree with both maps; levels erased under a forward or a reverse iterator |
| 10 | backtest: book with limit and market orders, nested callbacks, PnL | orders submitted from callbacks, accounts by cases |
| 11 | ring buffer, book on a sorted vector, memory-mapped log, profiler; one thread | a queue whose refusals are ignored, levels that are never removed |

For each part `PROJECT.json` says whether it is modelled, and the properties that
make it correct are those its run lists below.

## 2. The modules

| module | models | state and actions |
|---|---|---|
| `FifoChannel` | nothing in the code: the promise of a bounded FIFO channel | `sent`, `received`, `dropped`; send, refuse, receive |
| `LockFreeRingBuffer` | `lockfree_ringbuffer.hpp` | the three fields; every access of an atomic and both ends of every copy is a step of push (`PushReadHead` ... `PushPublish`, `PushFull`) or of `Pop`; the history `raced` remembers that a push has begun while another was running |
| `OrderBookOps` | the pure part of `orderbook_optimized.hpp` | levels as functions, iterators as prices, one whole `match()` as a recursive function |
| `OrderBookOptimized` | the same header, one loop iteration per step | `Submit`; `MatchBegin`, `EnterLevels`, `Fill`, `NextLevels`, `MatchEnd` |
| `EngineManager` | engine, portfolio, trade log, matcher loop | one book of `match_all` per step, in any order (the map is unordered) |
| `Gateway` | `gateway.cpp` and its clients | EXTENDS `LockFreeRingBuffer`; the actions `Send` (client and proxy), `Loop`, `Receive`, `PushOrder`, `Ack` of a worker, where `PushOrder` is one step of push, and what they promise in any system; no next-state relation of its own |
| `PortfolioSystem` | `main.cpp`, `market_feed.cpp`, `Gateway::stop` | EXTENDS `Gateway`; the gateway's actions as long as their sockets are open, feeds (steps of push too), the matcher (steps of pop), Ctrl-C, every step of the shutdown, failing socket calls |
| `ThreadSafeQueue` | week 2 queue in `multi_thread_order.cpp` | mutex, sleepers, notification; the steps inside the critical sections |
| `PriorityBook` | the books of weeks 3, 4, 5 (`week` says which) | `AddOrder`, `CancelOrder`, `ModifyOrder`; one iteration of `match_orders` per step |
| `MatchingThreads` | programs of weeks 6 and 7 (`week`) | producers, workers, main |
| `SweepBook` | week 10 `orderbook.hpp` | `AddOrder`, which sets the iterator `it` to the first level of a sweep; `TakeFront`, a pass of the inner loop at the level of `it`, after which erase or ++ may move it (`Advanced`); `Finish` |
| `LimitBook` | week 9 `orderbook.hpp`, and week 10's again (`week`) | EXTENDS `SweepBook`, whose sweep is that of both weeks; `AddLimit`, `AddMarket`, `Sweep`, `CancelOrder`, `id_map_` |
| `StrategyAccounts` | what the strategies of weeks 8 and 10 do (their sources agree) | signals, marks, `on_order_filled` in the two halves another thread can tell apart |
| `StrategyExchange` | exchanges and mains of weeks 8 and 10 (`week`) | EXTENDS `SweepBook` and `StrategyAccounts`; `Broadcast` (market data thread or main), `MarketMaker`, `Main`; `submit_order` under the mutex (8) or through the book (10) |
| `LowLatency` | week 11 | EXTENDS `LockFreeRingBuffer`, the class of both weeks; one thread: `PushTest` and `PopNext` (steps of push and pop), `AddOrder`, `Match`, `Log`; or producers and a consumer in threads of their own, the use of week 12 (`ThreadsRun`) |
| `..._proofs` | - | the theorems, in modules that extend what they are about: `RingBuffers_proofs` has both programs with a ring buffer (`LockFreeRingBuffer`, `LowLatency`), `MatchingEngine_proofs` has `OrderBookOptimized` and `EngineManager`, `ThreadQueues_proofs` has `ThreadSafeQueue` and `MatchingThreads`, `SweepBook_proofs` has `LimitBook` too |
| `Recursion` | - | lemmas on what recursively defined functions and sums compute, for those proofs |

Composition: `PortfolioSystem` is `Gateway` plus everything around it, with
`order_queue` as it is in `LockFreeRingBuffer`: workers, feeds and the matcher go through
push and pop step by step beside each other, several producers included, and nothing
is assumed of the queue. The engine is seen from outside;
`EngineManager` is the engine from inside, over `OrderBookOps`;
`StrategyExchange` runs `SweepBook` under the strategies. `MatchingThreads` uses
queues as channels, which is what `ThreadSafeQueue` implements.

Common abstractions. Prices are small integers: books only compare them, and
where money is computed (`EngineManager`, `StrategyAccounts`) they are exact, so floating
point rounding is left out. Payloads are records, formatting and logs are left
out unless a property reads them. Variables called history in a module are not
in the code. An operator called `X_...Slip` is `X` with a programming slip; no
specification uses it, it only documents which mistake a property notices.

## 3. The runs

| run | question | bounds and why they are enough |
|---|---|---|
| `ring` | is the queue right for one producer, and what becomes of the orders of week 11? | 5 slots, 11 orders: head and tail wrap twice, full and empty occur at every offset; callers retry (workers) or drop (feeds). Week 11: 11 orders at 3 prices, of which the queue takes 4, a log of three lines |
| `ring_two` | ... and for two, as deployed? (violated) | one order each suffices |
| `book` | does `match()` keep the ledger, its iterators, and does repetition uncross the book? | 4 orders, 3 prices: two level pairs that differ in size |
| `book_priority` | does every trade follow price-time priority, as README.md:51 says? (violated) | the same |
| `engine` | do PnL, log and books agree after any rounds? | 3 orders over a registered and an unregistered symbol, shared ids |
| `system` | does an order that was answered survive in the queue, are orders queued in their client's order, matched once the engine has them, and always answered, through a run and any shutdown? | a client that waits for each ACK, two workers that could overtake each other, a feed of at most one bar (three orders) or none, two requests of any kind (a bar costs one of them), at most two pushing threads (two workers, or a worker and a feed with a bar), whose pushes may overlap; a queue of one order: workers and feed find it full, also after the matcher has left |
| `queue` | no lost wake-up, FIFO, and every thread ends? | 2 producers, 2 consumers, 2 orders each, a spurious wake-up |
| `priority` | cancel and modify against matching | 3 orders and a replacement, or 2 and two, at 2 prices, quantities 1 and 2, each version |
| `threads` | order through the pipeline, and a clean end | 2 producers, 2 symbols: one queue empty and one not when the flags fall |
| `threads_lost` | is every order processed exactly once, as week 7 README.md:3 says? (violated) | the same; one order suffices |
| `limit` | do `id_map_`, shares, priority and sweeps agree in the books of weeks 9 and 10? | 4 orders, 3 prices, 2 quantities: a sweep over two levels that leaves a third, and cancels of whatever rests |
| `strategies` | are accounts, profits and signals consistent under nested callbacks (10) and under two threads (8), and do the programs end? | 3 rows: purchase, short sale and its cover; week 8: two prices far enough apart for every signal, one round of quotes that falls anywhere between the rows |

Deadlock is not checked where the program ends or may wait for input
(`CHECK_DEADLOCK FALSE`); each of the passing runs except `limit`, where one thread
makes a bounded number of calls, has a liveness property that says what must happen
instead.

What the violated runs show. `ring_two`: two producers pass the check at
`lockfree_ringbuffer.hpp:13` with the same `head`, write the same slot and store
the same index; both calls return true and one order is gone. README.md:110
calls the queue "thread-safe order passing", and `main.cpp` gives it up to seven
producers. `book_priority`: when one queue of a level pair runs empty, `match()`
advances both iterators (`orderbook_optimized.hpp:49-50`) and trades the next
pair while an order with a better price rests. `threads_lost`: main of week 7 sleeps
after it has joined the producers and then clears the flags of the workers
(`stress_test.cpp:99-103`) without looking at the queues; a worker that sees its flag
down does not pop any more, and an order stays behind. README.md:3 says that "all
orders are processed exactly once without any loss or duplication", README.md:55 the same
of every pushed id; week 6 stops its workers in the same way
(`exchange_runner.cpp:61-66`) and rules out lost orders in README.md:10 and :63.

What the passing ones say beside their properties. A book that is left crossed
by one call is uncrossed by the following ones (`EventuallyUncrossed`), so the
error of `book_priority` is one of order and price, not of lost quantity.
In `PortfolioSystem` a worker that meets a full queue after the matcher has left
stays in its retry loop (`gateway.cpp:81` does not read the flag);
`ShutdownSettles` says that this is the only way for the shutdown to get stuck.
`AckedOrdersSurvive` says where an order is that a client has an ACK for: handed to the
engine at its place, or in its slot, inside what the next pops will return, unless two
pushes have overlapped by then. With several producers the code gives no more than
that (`ring_two`), and what still waits when the matcher leaves (`main.cpp:68`) is
never matched. In week 7 the stress test notices every loss: `VerdictIsRight`
says that it prints its success exactly if no order was left behind. In weeks 8
and 10 a purchase that brings a short position to exactly zero forgets its cost
(week 10 `momentum_strategy.hpp:40` and its siblings), and a fill after a strategy's
last row leaves its unrealized profit stale: `ProfitIsCash` and `FinalPnlIsEquity`
name both exceptions, and hold otherwise. In week 8 the mutex of `submit_order`
covers the broadcast of the fills (`exchange.hpp:46-51`), and `AccountsAgree` needs
that; `on_market_data` does not take it, so a mark may be computed from a
position and an average of different moments. Such a mark is one of the stale
ones, since the fill that came between is counted after the mark has begun. In
week 11 (`RestingNeverTrades`) an order trades only if no order before it was
cheaper, and only with orders of its own price, itself included; the level it
empties stays in front and hides all others for good.

Facts met in the code that no run states, because nothing in the repository
promises otherwise or a run would only repeat the line: PnL is kept by order id
(README.md:58 says per symbol); the feed that ends first ends the whole run; a
request that does not parse is answered ACK; quantities of zero or less are
accepted; week 6 prints a match for the dummy order; all strategies of weeks 8
and 10 receive the fills of all, so their accounts are equal (week 8 README.md:103
says each manages its own PnL; its sample output shows three equal ones); the bid
and the ask of one round of week 8 may come from different rows
(`market_making_strategy.hpp:55-56`); limit orders of week 9 are not matched with each
other, and its book may be crossed; week 11's queue takes the first 4095 of its
10000 orders.

## 4. Fairness

Weak fairness of each thread's steps (`Producer(p)`, `Pop`, `Worker(w)`, `Matcher`,
`Main`, ...) and nothing stronger: the operating system runs every thread that
can run. In `StrategyExchange` the three threads are `Broadcast`, `MarketMaker` and
`Main`. Fairness is never assumed of a client, of a feed, of Ctrl-C or of a spurious
wake-up: a feed may stay in the middle of a push for ever, and workers and matcher
still go on.
Weak fairness of a mutex or of a blocked pop suffices because the number of
orders is bounded: competitors run out of work. This matters in three places.
`RetryLoopEnds` and `EveryOrderAnswered` would need a queue that is fair to its
producers under an endless stream of orders, which the code does not give;
`ShutdownSettles` and `EverythingSettles` need the matcher's inner loop to end,
and with an endless stream it need not (`main.cpp:69`); they hold for every
finite burst.

## 5. The proofs

Every theorem is about the specification a run checks and holds for all values of
its constants: any numbers of threads, clients, orders, prices. Each rests on an
inductive invariant, since none of the properties is inductive by itself; the
modules state it before the lemmas, one lemma per kind of step.

`RingBuffers_proofs`, the queue of week 12 (`LockFreeRingBuffer`):

- `TypeCorrect`: `Spec => []TypeOK`, for any set of producers. `TypeOK` is not
  inductive; `TypeInv` adds that a thread inside push still has an order.
- `FifoWhileSerial`, for any number of producers: as long as no push has begun while
  another was running (`raced` is false), the slots from tail to head hold the accepted
  orders not yet popped (`WindowHoldsPending`) and the popped ones are a prefix
  (`FifoOrder`). The invariant, `RaceInv`, is that: at most one push is going on, and
  `QueueInv`, which adds to those two what producer and consumer know in the middle of
  a call: the room or the order seen by the check is still there, since only the
  other side can add to it; the slot being written is at `head`, the one being
  read at `tail`, and these differ while anything is pending. Modular arithmetic
  is confined to `SlotWalk` and the two lemmas before it.
- `QueueIsFifo`, `NoDataRace`, `QueueImplementsChannel` assume `SingleProducer`
  (at most one thread pushes), which `ring_two` shows to be necessary; then nothing ever
  races (`SingleNeverRaces`). The refinement maps the store of head to a send and the
  store of tail to a receive; every other step stutters.

and the program of week 11 (`LowLatency`), for any prices, any number of orders and
any size of the queue and of the log:

- `DemoIsRing`: whatever its main does, the queue is used as `LockFreeRingBuffer` says,
  by one producer at a time, so the theorems above hold for it.
- `RestingStays`: `RestingNeverTrades`, which is about the end of the program. On the
  way there (`DemoInv`) the queue is the tail of what it took, in the order of the ids
  (`QueueTail`); the levels are sorted and have the prices of the orders added,
  behind the first one rest exactly the orders that were not as cheap as those before
  them, and the first one is empty except between the `AddOrder` and the `Match` of
  an order as cheap as any (`DemoBook`); the log has the first trades, as many as fit
  (`DemoTrades`, with a lemma on integer division for the lines that fit). The step
  that matters is `AddOrderKeeps`: lower_bound returns the front exactly for such an
  order, and inserting a level keeps the rest.

`MatchingEngine_proofs`, the book of week 12:

- `LedgerIsBalanced`, `IteratorsStayValid`, `FirstTradeServesPriority`. The
  invariant, `BookInv`, describes each side once and for both (`SideOK`, `Settled`):
  every entry is an order submitted for that side and price with what has not been
  filled of it, the entries of a level are in the order of their ids, and an order
  that is nowhere has been filled. Iterators of both sides are valid inside a
  level pair, and until the first trade of a call they are at the best levels
  (`AtBestLevels`), for which prices need extremes (`ExtremesExist`). After the first
  trade that part no longer holds, which is what `book_priority` shows.

and its engine, with the portfolio and the trade log:

- `PnlIsExact`, `LogIsComplete`. A book calls match() as a whole, which
  `OrderBookOps` computes with a recursive function over the passes of the loop:
  `MatchStays` shows that it returns a book and trades, because every pass leads from
  such a state to another (`MatchStates`, `IterationExists`); it assumes nothing of the
  ids, which gateway and feeds may repeat. `RecordTradesAdds`: recording trades one
  after the other adds to the PnL of each id its cash flow in them, a purchase and a
  sale by the same id in one trade included. Hence after each book of a round, in
  whatever order the books come, PnL is the cash flow of the trades logged and to be
  logged (`Ledger`).
- `MatchEnds`. The recursion of `Match` is bounded by `Fuel` steps, and the theorem says
  that the bound never cuts a call short: on every book `match_all` can come to, with
  orders for no shares or fewer too, the loops of match() are done by then. Each
  pass erases a level or an order, so that the levels and orders of a book
  (`EffortOf`) become fewer (`LevelStepEffort`); a submitted order adds two at most
  (`EngineEffort`). It is an ending inside one step of the model, hence no liveness.
- `StepsAreMatch`. `OrderBookOptimized` takes a step for each pass of match(), the engine
  the whole call at once: each pass (`Fill`, `NextLevels`) is one step of the run that `Match`
  computes (`LevelStep`), and a call ends only where that run ends. The properties
  of the book are therefore about the matching that the engine does.

`PortfolioSystem_proofs`, for any clients, workers, feeds and capacity, in a run and
in every shutdown:

- `SystemIsRing`: every step of the program is a step of `LockFreeRingBuffer` or leaves
  the queue alone, so all that is proved of the queue for any number of producers
  holds in the program.
- `AckedSurvives`: `AckedOrdersSurvive`. What a worker is about to acknowledge is among the
  accepted orders (`PushedBeforeAck`), which requests and items number alike
  (`SameLength`); `FifoWhileSerial`, through `SystemIsRing`, then gives each of them its
  place among those handed over or its slot (`DeliveredOrWaits`).
- `MatcherLeavesNothing` needs little more than types.
- `SerialClientsAreSerial`: a client with a window of one has one request on its way,
  in one inbox or in one worker's hands, it is its last one, and nothing queued is
  later (`OneAtATime`). Without the uniqueness across workers the order could be
  lost in the proxy.

`ThreadQueues_proofs`, the queue of week 2, for all finite sets of producers and
consumers:

- `WakeUpsSuffice`: while a consumer sleeps no more orders are queued than producers
  are about to notify and consumers awake inside pop (`OnTheWay`). The invariant has
  the sleepers in `wait`, and in the middle of push the mutex with its producer.
- `QueueIsChannel`: the queue implements `FifoChannel`. The invariant says who holds
  the mutex in each step, that the copied front is still the front when it is
  removed, and that no order is pushed twice (`PushedOnce`), from which a
  pigeonhole argument gives that a push always finds room in the channel
  (`RoomBeforePush`): this is where the sets must be finite.

and the programs of weeks 6 and 7, for any finite set of symbols:

- `OrdersKeepTheirPlace`: matched, in hand, queued, in the order of the pushes. The
  strengthening is that no worker of week 7 goes on with a dummy.
- `VerdictIsTrue`: `VerdictIsRight`. The stress test compares two numbers; that equal
  numbers mean equal sets takes three steps. Ids are counted: `global_order_id` is one
  more than the orders begun, a sum over the producers (`IdsCounted`). Each id is in one
  place: in the hands of one producer, or pushed once and for one symbol (`IdsPlaced`,
  `IdsOnce`), hence matched by one worker. So when the workers are joined
  (`WorkersJoined`) what they matched are disjoint sets of orders, the sum of their
  sizes is the size of their union (`SumOfSizes`), and it equals the number of orders
  only if no order is missing (`CountIsRight`).

`SweepBook_proofs`, the books of weeks 9 and 10:

- The iterator of a sweep is a variable, moved by erase and ++ only. `AtBest` is the
  invariant that makes it right: while a sweep goes on, `it` is at the best level there
  is, or at the end when there is none. It holds at the start because begin() and rbegin() are
  at the extremes (`BeginsBest`), and after an erase or ++ because the level that follows
  the best one is the best of the rest (`FollowingIs`, `AtIsBest`, `BestIsAt`).
- `BookTypeCorrect`: every level holds a nonempty queue of its own price.
- `BookNeverCrosses` (week 10): bids stay below asks, in the middle of a sweep too.
  What the sweep knows (`Inv`): the order being added has not yet entered its side,
  fills only take levels away (`TakeFrontTypes`), and it rests only when no level of
  the other side is within its limit (`BeyondLimit`), for which the proof needs that
  a nonempty set of levels has a best one (`BestExists`).
- `BookHasPriority`, `LimitBookHasPriority`: `PriceTimePriority`, with the cancels of
  week 9 in the second. The strengthening (`AgeInv`) is that every queue is sorted
  by submission and that what comes to rest is younger than everything that rests:
  then the front of the best level, which is all a fill touches (`FrontTouched`), is
  the oldest of its price. Erasing an order from the middle keeps the queue sorted
  (`ErasedSorted`).
- `IndexFollowsBook`: `IdMapAgrees`. The invariant (`IdMapInv`) is an equivalence: the
  map leads from an id to a side and a price exactly if an order of that id rests
  there. Since a map gives each id one place (`OnePlace`), and ids differ inside a
  sorted level, a cancel or a fill that erases one order and one id keeps it
  (`EraseBoth`).
- `MarketSweepsSide`: `MarketTakesAll`. A sweep ends when its iterator is at the end or
  nothing is left to match; that then no level is left rests on `AtBest`, that is, on
  the iterator never having passed one over.
- `NoShareIsLost`: `SharesConserved`. Its sums run over the set of what rests on a
  side. A sum gains what an order brings (`SharesWith`) and loses what an order takes
  away (`SharesWithout`). That each step of the code adds or removes one order of
  that set needs that orders of a side differ: levels have their own price, and in a
  level numbers ascend (`RestingDiffer`, from `AgeInv`).

`PriorityBook_proofs`, weeks 3 to 5 with cancel, modify and lazy removal:

- `OneOpenOrder`, `OpenOrdersStayQueued`, `UncrossedWhenReturned`, `CanceledStaysOut`. They hold each other up in one
  invariant, `ClassInv`: cancel_order reaches only the object `order_map` leads to,
  and `CanceledNeverTrades` needs that every other object of the id is canceled
  already; that the book is uncrossed needs that the tops of the queues are the
  best of all open orders, hence that these are still queued.
- `TradesAreBest`, from the same invariant: each trade of a call, not only the first as
  in week 12, is between the best open orders of the two sides (`BestOfItsSide`).
- `SharesNeverLost`: `SharesAccountedFor`. What an object has left and the parts of the
  trades that are its own make what it was entered with (`Balanced`). A trade adds one
  part for each of two objects, which are of different sides, and none for any other
  (`PartsGrow`, `PartsOfOthers`); a cancellation and a modification change no
  object's quantity (`SharesStay`).

`StrategyExchange_proofs`, weeks 8 and 10:

- `AccountsStayEqual`: `AccountsAgree` is about the moments in which no fill is being
  reported. In between (`InStep`) there is one account all strategies had before the
  fill: those already told have booked it, the one being told may have moved its
  position only, the others still have it. That one fill at a time is reported is
  `OneSubmits`: the mutex in week 8, the single thread in week 10.
- `SidesStayAlternate`: what MOM and MR have bought is what their flags say, apart
  from the order that is being submitted (`SidesInv`).
- `ProfitIsMoney` and `FinalPnlIsWorth`: `ProfitIsCash`, `FinalPnlIsEquity`. Averages
  are fractions, and the first half of this part gives them the laws of arithmetic:
  a fraction with the least denominator depends on the quotient only (`SameFrac`), so
  sums and products may be rearranged (`PlusAssociates`, `TimesOfPlus`, `TimesOver`,
  ...). With these a sale at any price earns what the profit gains (`SaleEarns`), and
  a purchase costs what the holding gains (`PurchaseKeeps`), long and short; what
  reaches zero from below is the named exception. The invariants: everything
  submitted, resting and filled is a number (`NumbersInv`); profit is cash plus the
  cost of what is held, where the cost is that of the position before a fill that is
  half booked (`ProfitInv`); and after a mark no fill has followed, what was marked is
  the account as it is (`MarkInv`), which a mark of week 8 that is torn by a fill
  satisfies because that fill is counted after the mark began.

`Recursion` holds what those proofs need of induction. The library's induction
theorems take an operator as a parameter, which the provers cannot instantiate; here
a least number or a smallest finite set for which a fact would fail stands in for
it. A function defined by steps exists and stays in its set of states
(`IterationExists`); a sum over a finite set exists (`AdderExists`), does not depend
on the order of its terms (`AnyFirst`), and changes with one term or one member as
one expects (`SumChanges`, `SumWith`, `SumWithout`, `SumOfSizes`, ...).

Assumptions: only the named ASSUMEs of the modules, which TLC evaluates on every
run. They say that prices, quantities and bounds are numbers, that ranges of prices
are not empty where an order must name a price, that placeholders (`End`, `NoOrder`,
`Free`) are nothing else, that sets of threads are disjoint and (`ThreadSafeQueue`,
`MatchingThreads`) finite, and that the quotas of the consumers do not exceed what is
pushed.

Only model-checked: everything under liveness, `RetryLoopEnds`, `EventuallyUncrossed`,
`EverythingSettles`, `ShutdownSettles`, `EveryOrderAnswered`, `AllThreadsEnd`,
`ShutdownEnds`, `ProgramEnds`, `CallsReturn`. They follow from fairness, and no
ENABLED is proved here. Every other property of a passing run is a theorem.

## 6. Not modelled

- Latency monitor, profiler and latency statistics: time stamps nothing depends on.
- Loading and generating CSV files, exports, plots, downloads, the Python
  programs except as clients of the gateway: I/O.
- Random ticks of the feed (`market_feed.cpp:91-120`), which main never enables.
- Lifetimes of C++ objects: the detached feed threads use objects main destroys.
- The maps from symbols to books of weeks 5, 9 and 10: a look-up before the call;
  the books share nothing. (The map of week 12 is in `EngineManager`.)
- Week 1, calls of the external liquibook library with a listener that prints;
  `main.cpp` of weeks 3 and 4, fixed scripts for the book; the copies of week 2's
  queue, unused or used with one producer and one consumer.
- Rounding of floating point numbers, and torn reads of a double: week 8 reads
  fields another thread assigns, and the model reads the old or the new value.

ZeroMQ is external and modelled from its use: per client and worker
order, routing by identity, calls that throw or return when their socket or
context ends. A request is the two frames, identity and payload, that the DEALER of
`multi_client_demo.py`, the client of this port, makes of a send, and that the two recv
calls of a worker take (`gateway.cpp:67-68`); clients of other socket types, which add
an empty frame, are left out.

## 7. What could follow

`MatchingThreads` as the third implementation of `FifoChannel`, whose queue per
symbol needs a capacity to be stated: no more than all orders.
