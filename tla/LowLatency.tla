------------------------------- MODULE LowLatency -------------------------------
(***************************************************************************)
(* week11_low_latency, around the ring buffer that it shares with week 12: *)
(* main pushes all test orders, whether they fit or not, and then pops,    *)
(* adds to the book, matches and logs one order after the other.  There is *)
(* one thread.  A match ignores sides and quantities: it takes all orders  *)
(* of the front level, the one of the lowest price, newest first, and      *)
(* leaves the empty level there.  The prices of main are one of the        *)
(* sequences here; the latency samples are left out.                       *)
(*                                                                         *)
(* The class is the same in both weeks, so the specification has both uses *)
(* of it: by the one thread of week 11, and by producers and a consumer    *)
(* with threads of their own, as in week 12.                               *)
(***************************************************************************)
EXTENDS LockFreeRingBuffer, SequencesExt

CONSTANTS Prices,
          MessageLength,  \* of a line of the log, the same for all prices of main
          LogSize         \* bytes of the mapped file (2 MiB)

ASSUME DemoAssumption == /\ Prices \subseteq Int
                         /\ Producers # {} /\ MaxPush # 0
                         /\ MessageLength \in Nat /\ LogSize \in Nat \ {0}

VARIABLES at, o,     \* where main is, and the order it has popped
          levels,    \* the book: [price, orders], by price
          fills,     \* the result of match still to be logged
          cursor, log,   \* bytes written, and whose lines they are
          entered, traded \* history: the accepted orders, the orders match returned

logVars == <<cursor, log>>
bookVars == <<levels, fills, traded>>
demoVars == <<ringVars, at, o, bookVars, logVars, entered>>

\* The thread of week 11 pushes as one of the producers.
DemoThread == CHOOSE p \in Producers : TRUE

NoOrder == [id |-> 0, price |-> 0]

\* Producers and consumer have threads of their own, or main is both.
DemoInit ==
    /\ Init
    /\ at \in {"threads", "push"}
    /\ o = NoOrder
    /\ levels = <<>> /\ fills = <<>> /\ traded = <<>>
    /\ cursor = 0 /\ log = <<>>
    /\ entered = <<>>

ThreadsRun == at = "threads" /\ Next /\ UNCHANGED <<at, o, bookVars, logVars, entered>>

\* queue.push(Order(i, ...)): refused, and lost, when all slots but one are full.
PushTest ==
    /\ at = "push"
    /\ \/ /\ PushGoesOn(DemoThread) \/ PushFull(DemoThread, FALSE)
          /\ UNCHANGED entered
       \/ /\ PushPublish(DemoThread)
          /\ \E p \in Prices :
                entered' = Append(entered, [id |-> offer[DemoThread], price |-> p])
    /\ at' = IF offer'[DemoThread] > MaxPush THEN "pop" ELSE at
    /\ UNCHANGED <<o, bookVars, logVars>>

\* What main has pushed under the number of a popped item.
Named(item) == CHOOSE e \in ToSet(entered) : e.id = item[2]

\* while (auto o = queue.pop())
PopNext ==
    /\ at = "pop" \/ (at = "log" /\ fills = <<>>)
    /\ \/ /\ PopHasItem \/ PopCopyBegin \/ PopCopyEnd
          /\ at' = "pop"
          /\ UNCHANGED o
       \/ /\ PopAdvance
          /\ at' = "add"
          /\ o' = Named(taken)
       \/ /\ cpc = "idle" /\ tail = head
          /\ at' = "done"
          /\ UNCHANGED <<ringVars, o>>
    /\ UNCHANGED <<bookVars, logVars, entered>>

\* std::lower_bound: the first level whose price is not lower, or the end.
LowerBound(p) == CHOOSE i \in 1 .. Len(levels) + 1 :
    /\ \A j \in 1 .. i - 1 : levels[j].price < p
    /\ i <= Len(levels) => levels[i].price >= p

\* book.add_order(*o)
AddOrder ==
    /\ at = "add"
    /\ LET i == LowerBound(o.price)
       IN  levels' = IF i <= Len(levels) /\ levels[i].price = o.price
                       THEN [levels EXCEPT ![i].orders = Append(@, o)]
                       ELSE InsertAt(levels, i, [price |-> o.price, orders |-> <<o>>])
    /\ at' = "match"
    /\ UNCHANGED <<ringVars, o, fills, traded, logVars, entered>>

(***************************************************************************)
(* An operator named X_..Slip is X with a slip one could make in the code; *)
(* the specifications do not use it.                                       *)
(***************************************************************************)

\* The level goes when nothing is left in it.
Emptied_EraseSlip == Tail(levels)
\* while (!lvl.orders.empty() && incoming.quantity > 0) ... pop_back();
Emptied == [levels EXCEPT ![1].orders = <<>>]

\* book.match(*o); every order has a quantity, and none is ever reduced.
Match ==
    /\ at = "match"
    /\ fills' = Reverse(levels[1].orders)
    /\ traded' = traded \o fills'
    /\ levels' = Emptied
    /\ at' = "log"
    /\ UNCHANGED <<ringVars, o, logVars, entered>>

\* logger.log(...): a line that does not fit is dropped.
Log ==
    /\ at = "log" /\ fills # <<>>
    /\ fills' = Tail(fills)
    /\ IF cursor + MessageLength + 1 >= LogSize THEN UNCHANGED logVars
       ELSE /\ log' = Append(log, Head(fills).id)
            /\ cursor' = cursor + MessageLength + 1
    /\ UNCHANGED <<ringVars, at, o, levels, traded, entered>>

DemoStep == PushTest \/ PopNext \/ AddOrder \/ Match \/ Log
DemoNext == ThreadsRun \/ DemoStep

DemoSpec == DemoInit /\ [][DemoNext]_demoVars

\* Every thread is scheduled whenever it can run.
FairDemoSpec ==
    /\ DemoSpec
    /\ \A p \in Producers : WF_demoVars(ThreadsRun /\ Producer(p))
    /\ WF_demoVars(ThreadsRun /\ Pop)
    /\ WF_demoVars(DemoStep)

-----------------------------------------------------------------------------
(***************************************************************************)
(* Properties                                                              *)
(***************************************************************************)

\* The loop `while (!order_queue.push(order)) sleep' of a gateway worker ends
\* for each of its orders, however small the buffer.
RetryLoopEnds == \A p \in Producers : <>(offer[p] > MaxPush)

\* What the program does with the first n orders its queue took: those that are
\* as cheap as every order before them trade, with themselves and at once; all
\* others rest for ever, because an empty level is in front of theirs.  The log
\* has the lines of the first trades, as many as fit into the file.
IsCheapest(i) == \A j \in 1 .. i - 1 : entered[j].price >= entered[i].price
Rested == UNION {ToSet(levels[i].orders) : i \in DOMAIN levels}
Fitting(k) == LET room == (LogSize - 1) \div (MessageLength + 1)
              IN  IF k <= room THEN k ELSE room
RestingNeverTrades ==
    at = "done" \/ (at = "log" /\ fills = <<>>) =>
        LET n == Len(delivered)
        IN  /\ ToSet(traded) = {entered[i] : i \in {k \in 1 .. n : IsCheapest(k)}}
            /\ \A i, j \in DOMAIN traded : i < j => traded[i].id < traded[j].id
            /\ Rested = {entered[i] : i \in {k \in 1 .. n : ~IsCheapest(k)}}
            /\ log = [i \in 1 .. Fitting(Len(traded)) |-> traded[i].id]
=============================================================================
