---------------------------- MODULE MatchingThreads ----------------------------
(***************************************************************************)
(* week7_hft_stress_test/stress_test.cpp: producers push orders to the     *)
(* queues of random symbols, one worker per symbol matches them, main      *)
(* waits a while, stops the workers with a flag and a dummy order each,    *)
(* joins them and compares what was matched with what was pushed.          *)
(* week6_hft_threads/exchange_runner.cpp is the same program without the   *)
(* comparison, with main as its only producer, and its workers do not tell *)
(* the dummy from an order; `week' is the program that runs.               *)
(*                                                                         *)
(* A queue is used as the channel ThreadSafeQueue implements: pop is one   *)
(* step, possible while the queue is not empty.  The sleep of main before  *)
(* it stops the workers guarantees nothing, so it is no step at all: what  *)
(* is still queued when the flags fall is left behind.                     *)
(***************************************************************************)
EXTENDS Integers, Sequences, FiniteSets, Functions

CONSTANTS Symbols, Producers,
          OrdersPerThread

ASSUME OrdersAssumption == OrdersPerThread \in Nat
ASSUME FiniteAssumption == /\ Producers # {} /\ IsFiniteSet(Producers)
                           /\ IsFiniteSet(Symbols)

VARIABLES week,            \* which program runs, 6 or 7
          global_order_id, pushed_orders, \* the atomic counter; symbol of each id
          queues, running,     \* per symbol: its queue, its flag
          ppc, order, made,    \* a producer: where it is, its order, orders made
          wpc, hand,           \* a worker: where it is, the order it popped
          matched,             \* per symbol, history: what was matched, in order
          main,                \* main: where it is
          pushes               \* per symbol, history: every order pushed

producerVars == <<global_order_id, pushed_orders, ppc, order, made>>
workerVars == <<wpc, hand, matched>>
vars == <<week, producerVars, queues, running, workerVars, main, pushes>>

Total == Cardinality(Producers) * OrdersPerThread
Ids == 1 .. Total
Dummy == -1

\* The threads that push orders: main is the only one in week 6.
Active == IF week = 7 THEN Producers ELSE {CHOOSE p \in Producers : TRUE}

(***************************************************************************)
(* An operator named X_..Slip is X with a slip one could make in the code; *)
(* the specifications do not use it.                                       *)
(***************************************************************************)

\* An order goes to the front of the queue.
Enqueue_FrontSlip(s, o) == /\ queues' = [queues EXCEPT ![s] = <<o>> \o @]
                           /\ pushes' = [pushes EXCEPT ![s] = Append(@, o)]
\* ThreadSafeQueue::push, and pop when it gets an order.
Enqueue(s, o) == /\ queues' = [queues EXCEPT ![s] = Append(@, o)]
                 /\ pushes' = [pushes EXCEPT ![s] = Append(@, o)]
Dequeue(s) == /\ queues[s] # <<>>
              /\ hand' = [hand EXCEPT ![s] = Head(queues[s])]
              /\ queues' = [queues EXCEPT ![s] = Tail(@)]

Init ==
    /\ week \in {6, 7}
    /\ global_order_id = 1
    /\ pushed_orders = [n \in {} |-> 0]
    /\ queues = [s \in Symbols |-> <<>>]
    /\ running = [s \in Symbols |-> TRUE]
    /\ ppc = [p \in Producers |-> "make"]
    /\ order = [p \in Producers |-> 0]
    /\ made = [p \in Producers |-> 0]
    /\ wpc = [s \in Symbols |-> "loop"]
    /\ hand = [s \in Symbols |-> 0]
    /\ matched = [s \in Symbols |-> <<>>]
    /\ main = "flags"
    /\ pushes = [s \in Symbols |-> <<>>]

(***************************************************************************)
(* producer_func                                                           *)
(***************************************************************************)
ProducerAt(p, at) == ppc' = [ppc EXCEPT ![p] = at]

\* int id = global_order_id++;
TakeId(p) ==
    /\ ppc[p] = "make" /\ made[p] < OrdersPerThread
    /\ order' = [order EXCEPT ![p] = global_order_id]
    /\ global_order_id' = global_order_id + 1
    /\ ProducerAt(p, "record")
    /\ UNCHANGED <<week, pushed_orders, made, queues, running, workerVars,
                   main, pushes>>

\* pushed_orders[id] = order; the symbol was drawn at random.
RecordOrder(p) ==
    /\ ppc[p] = "record"
    /\ \E s \in Symbols :
          pushed_orders' = [n \in DOMAIN pushed_orders \cup {order[p]} |->
                               IF n = order[p] THEN s ELSE pushed_orders[n]]
    /\ ProducerAt(p, "push")
    /\ UNCHANGED <<week, global_order_id, order, made, queues, running, workerVars,
                   main, pushes>>

\* queues[symbol].push(order);
PushOrder(p) ==
    /\ ppc[p] = "push"
    /\ Enqueue(pushed_orders[order[p]], order[p])
    /\ made' = [made EXCEPT ![p] = @ + 1]
    /\ ProducerAt(p, "make")
    /\ UNCHANGED <<week, global_order_id, pushed_orders, order, running,
                   workerVars, main>>

Producer(p) == TakeId(p) \/ RecordOrder(p) \/ PushOrder(p)

(***************************************************************************)
(* orderbook_worker                                                        *)
(***************************************************************************)
WorkerAt(s, at) == wpc' = [wpc EXCEPT ![s] = at]

\* while (running)
WorkerLoop(s) ==
    /\ wpc[s] = "loop"
    /\ WorkerAt(s, IF running[s] THEN "pop" ELSE "done")
    /\ UNCHANGED <<week, producerVars, queues, running, hand, matched, main,
                   pushes>>

\* if (queue.pop(order)): blocks until there is one.
WorkerPop(s) ==
    /\ wpc[s] = "pop"
    /\ Dequeue(s)
    /\ WorkerAt(s, "match")
    /\ UNCHANGED <<week, producerVars, running, matched, main, pushes>>

\* if (order.id < 0) break;
WorkerBreak(s) ==
    /\ wpc[s] = "match"
    /\ week = 7 /\ hand[s] = Dummy
    /\ WorkerAt(s, "done")
    /\ UNCHANGED <<week, producerVars, queues, running, hand, matched, main,
                   pushes>>

\* Looks at the flag once more before it matches the order it has taken.
Matched_LateCheckSlip(s) == IF running[s] THEN Append(matched[s], hand[s]) ELSE matched[s]
\* matched_orders.insert(order.id) and the [MATCH] line.
Matched(s) == Append(matched[s], hand[s])

WorkerMatch(s) ==
    /\ wpc[s] = "match"
    /\ ~(week = 7 /\ hand[s] = Dummy)
    /\ matched' = [matched EXCEPT ![s] = Matched(s)]
    /\ WorkerAt(s, "loop")
    /\ UNCHANGED <<week, producerVars, queues, running, hand, main, pushes>>

Worker(s) == WorkerLoop(s) \/ WorkerPop(s) \/ WorkerBreak(s) \/ WorkerMatch(s)

(***************************************************************************)
(* main, from the join of the producers on                                 *)
(***************************************************************************)

\* for (auto& [symbol, flag] : running_flags) flag = false;
ClearFlags ==
    /\ main = "flags"
    /\ \A p \in Active : made[p] = OrdersPerThread
    /\ \E s \in Symbols :
          /\ running[s]
          /\ running' = [running EXCEPT ![s] = FALSE]
    /\ main' = IF \E s \in Symbols : running'[s] THEN "flags" ELSE "dummies"
    /\ UNCHANGED <<week, producerVars, queues, workerVars, pushes>>

HasDummy(s) == \E i \in DOMAIN pushes[s] : pushes[s][i] = Dummy

\* One dummy for all workers.
Remaining_OneSlip(s) == {}
\* The queues still to get a dummy after that of s.
Remaining(s) == {r \in Symbols \ {s} : ~HasDummy(r)}

\* for (auto& q : queues) q.second.push(dummy);
PushDummy ==
    /\ main = "dummies"
    /\ \E s \in Symbols :
          /\ ~HasDummy(s)
          /\ Enqueue(s, Dummy)
          /\ main' = IF Remaining(s) = {} THEN "join" ELSE "dummies"
    /\ UNCHANGED <<week, producerVars, running, workerVars>>

\* for (auto& t : workers) t.join(); and the comparison.
\* matched_total: the sum of the sizes of the sets.
MatchedIds(s) == {matched[s][i] : i \in DOMAIN matched[s]}
MatchedTotal == SumFunction([s \in Symbols |-> Cardinality(MatchedIds(s))])
Report ==
    /\ main = "join"
    /\ \A s \in Symbols : wpc[s] = "done"
    /\ main' = CASE week = 6 -> "stopped"
                 [] week = 7 /\ MatchedTotal = Total -> "all matched"
                 [] OTHER -> "lost or duplicated"
    /\ UNCHANGED <<week, producerVars, queues, running, workerVars, pushes>>

Main == ClearFlags \/ PushDummy \/ Report

-----------------------------------------------------------------------------
Next == \/ \E p \in Active : Producer(p)
        \/ \E s \in Symbols : Worker(s)
        \/ Main

Spec == Init /\ [][Next]_vars

\* Every thread is scheduled.
FairSpec == /\ Spec
            /\ \A p \in Producers : WF_vars(p \in Active /\ Producer(p))
            /\ \A s \in Symbols : WF_vars(Worker(s))
            /\ WF_vars(Main)

-----------------------------------------------------------------------------
(***************************************************************************)
(* Properties                                                              *)
(***************************************************************************)

Ends == {"stopped", "all matched", "lost or duplicated"}

\* What a worker has matched, the order in its hand and its queue are, in this
\* order, what was pushed for its symbol, at any moment of a run and of its
\* end: no order is lost, repeated or overtaken on the way, and what a worker
\* leaves behind is the end of its queue.
Popped(s) == \/ wpc[s] = "match"
             \/ week = 7 /\ wpc[s] = "done" /\ hand[s] = Dummy
InHand(s) == IF Popped(s) THEN <<hand[s]>> ELSE <<>>
PipelineInOrder ==
    \A s \in Symbols : pushes[s] = matched[s] \o InHand(s) \o queues[s]

\* The verdict main prints is right: "All orders matched" is printed exactly
\* when no worker has left an order in its queue.
NothingLeft == \A s \in Symbols : queues[s] \in {<<>>, <<Dummy>>}
VerdictIsRight == /\ main = "all matched" => NothingLeft
                  /\ main = "lost or duplicated" => ~NothingLeft

\* Every worker ends and main gets past its joins, whatever is in the queues
\* when the flags are cleared, and whether or not workers recognise the dummy.
ShutdownEnds == <>(main \in Ends)

\* "All orders are processed exactly once without any loss or duplication"
\* (README of week 7; that of week 6 promises the same of its program): when the
\* stress test prints its verdict, each order has been matched by one worker, once.
ProcessedExactlyOnce ==
    week = 7 /\ main \in Ends => \A n \in DOMAIN pushed_orders :
        Cardinality({e \in Symbols \X (1 .. Total + 1) :
                        e[2] \in DOMAIN matched[e[1]] /\ matched[e[1]][e[2]] = n}) = 1
=============================================================================
