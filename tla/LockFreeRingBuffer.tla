-------------------------- MODULE LockFreeRingBuffer --------------------------
(***************************************************************************)
(* week12_PortfolioInfra/include/lockfree_ringbuffer.hpp                   *)
(*                                                                         *)
(* The queue between the threads that accept orders (gateway workers,      *)
(* market feeds) and the matcher thread.  push and pop take no lock: every *)
(* read and write of `head' and `tail', and the beginning and the end of   *)
(* every copy of an order, is a step of its own.  All four accesses of the *)
(* atomics are sequentially consistent or acquire loads of seq_cst stores, *)
(* so steps interleave.                                                    *)
(*                                                                         *)
(* The module is parameterised by the set of producers.  The algorithm is  *)
(* one for a single producer; main.cpp gives it seven.  PortfolioSystem    *)
(* puts these steps under the gateway, the feeds and the matcher, and      *)
(* LowLatency under the program of week 11, which has the same class.      *)
(***************************************************************************)
EXTENDS Integers, Sequences, FiniteSets

CONSTANTS SIZE,       \* slots of the buffer (the template parameter)
          Producers,  \* threads that call push
          MaxPush,    \* bound: orders each producer pushes
          Blank,      \* a default-constructed Order
          Torn        \* a copy that mixes two orders

ASSUME SizeAssumption == SIZE \in Nat \ {0, 1}
ASSUME BoundAssumption == MaxPush \in Nat
ASSUME GarbageAssumption == /\ Blank \notin Producers \X Nat
                            /\ Torn \notin Producers \X Nat
                            /\ Blank # Torn

VARIABLES head, tail, buffer,   \* the object's fields
          pc, offer, next, slot,  \* a producer: where it is in push, the number
                                  \* of its order, its local `next', and the
                                  \* index it copies to
          cpc, taken,             \* the consumer: where it is in pop, and its
                                  \* local copy `item'
          accepted, dropped, delivered, \* history: pushes that returned true,
                                        \* false pushes nobody retries, pops
          raced  \* history: a push has begun while another was running

prodVars == <<pc, offer, next, slot>>
consVars == <<cpc, taken>>
ringVars == <<head, tail, buffer, prodVars, consVars, accepted, dropped, delivered,
              raced>>

Slots == 0 .. SIZE - 1
Orders == Producers \X (1 .. MaxPush)

\* An order mid-assignment: some members are the new order's, some the old's.
Partial(p) == <<p, 0>>
Item(p) == <<p, offer[p]>>
Contents == Orders \cup {Partial(p) : p \in Producers} \cup {Blank, Torn}

Init ==
    /\ head = 0
    /\ tail = 0
    /\ buffer = [s \in Slots |-> Blank]
    /\ pc = [p \in Producers |-> "idle"]
    /\ offer = [p \in Producers |-> 1]
    /\ next = [p \in Producers |-> 0]
    /\ slot = [p \in Producers |-> 0]
    /\ cpc = "idle"
    /\ taken = Blank
    /\ accepted = <<>>
    /\ dropped = <<>>
    /\ delivered = <<>>
    /\ raced = FALSE

(***************************************************************************)
(* push(item).  A local that is out of scope has the value it began with.  *)
(***************************************************************************)

(***************************************************************************)
(* Each operator named X_..Slip is X with a slip one could make in the     *)
(* code; it is used only to confirm that a property below notices it.      *)
(***************************************************************************)

\* size_t next = (head + 1) % SIZE;
PushReadHead(p) ==
    /\ pc[p] = "idle"
    /\ offer[p] <= MaxPush
    /\ next' = [next EXCEPT ![p] = (head + 1) % SIZE]
    /\ pc' = [pc EXCEPT ![p] = "check"]
    /\ raced' = (raced \/ \E q \in Producers \ {p} : pc[q] # "idle")
    /\ UNCHANGED <<head, tail, buffer, offer, slot, consVars,
                   accepted, dropped, delivered>>

\* if (next == tail.load()) return false;  A caller like the gateway worker
\* sleeps and calls push again with the same order, one like the market feed
\* ignores the result.
PushFull(p, again) ==
    /\ pc[p] = "check"
    /\ next[p] = tail
    /\ pc' = [pc EXCEPT ![p] = "idle"]
    /\ next' = [next EXCEPT ![p] = 0]
    /\ IF again
         THEN UNCHANGED <<offer, dropped>>
         ELSE /\ offer' = [offer EXCEPT ![p] = @ + 1]
              /\ dropped' = Append(dropped, Item(p))
    /\ UNCHANGED <<head, tail, buffer, slot, consVars, accepted, delivered, raced>>

\* The check for a full buffer is missing.
PushHasRoom_UncheckedSlip(p) ==
    /\ pc[p] = "check"
    /\ pc' = [pc EXCEPT ![p] = "index"]
    /\ UNCHANGED <<head, tail, buffer, offer, next, slot, consVars,
                   accepted, dropped, delivered, raced>>

PushHasRoom(p) ==
    /\ pc[p] = "check"
    /\ next[p] # tail
    /\ pc' = [pc EXCEPT ![p] = "index"]
    /\ UNCHANGED <<head, tail, buffer, offer, next, slot, consVars,
                   accepted, dropped, delivered, raced>>

\* buffer[head] = item;  reads head again and starts to copy.
PushCopyBegin(p) ==
    /\ pc[p] = "index"
    /\ slot' = [slot EXCEPT ![p] = head]
    /\ buffer' = [buffer EXCEPT ![head] = Partial(p)]
    /\ pc' = [pc EXCEPT ![p] = "copy"]
    /\ UNCHANGED <<head, tail, offer, next, consVars,
                   accepted, dropped, delivered, raced>>

\* The copy ends.  If another producer wrote to the slot meanwhile, which
\* members survive is undefined.
PushCopyEnd(p) ==
    /\ pc[p] = "copy"
    /\ \E v \in {Item(p)} \cup (IF buffer[slot[p]] = Partial(p) THEN {} ELSE {Torn}) :
          buffer' = [buffer EXCEPT ![slot[p]] = v]
    /\ slot' = [slot EXCEPT ![p] = 0]
    /\ pc' = [pc EXCEPT ![p] = "publish"]
    /\ UNCHANGED <<head, tail, offer, next, consVars,
                   accepted, dropped, delivered, raced>>

\* head = next; return true;
PushPublish(p) ==
    /\ pc[p] = "publish"
    /\ head' = next[p]
    /\ accepted' = Append(accepted, Item(p))
    /\ offer' = [offer EXCEPT ![p] = @ + 1]
    /\ pc' = [pc EXCEPT ![p] = "idle"]
    /\ next' = [next EXCEPT ![p] = 0]
    /\ UNCHANGED <<tail, buffer, slot, consVars, dropped, delivered, raced>>

(***************************************************************************)
(* pop(): one thread, the matcher.  A pop that finds tail == head returns  *)
(* nullopt and changes nothing.                                            *)
(***************************************************************************)

\* Compares the indices as if head never wrapped around.
PopHasItem_NoWrapSlip ==
    /\ cpc = "idle"
    /\ tail < head
    /\ cpc' = "read"
    /\ UNCHANGED <<head, tail, buffer, prodVars, taken,
                   accepted, dropped, delivered, raced>>

PopHasItem ==
    /\ cpc = "idle"
    /\ tail # head
    /\ cpc' = "read"
    /\ UNCHANGED <<head, tail, buffer, prodVars, taken,
                   accepted, dropped, delivered, raced>>

\* T item = buffer[tail];
PopCopyBegin ==
    /\ cpc = "read"
    /\ taken' = buffer[tail]
    /\ cpc' = "copy"
    /\ UNCHANGED <<head, tail, buffer, prodVars, accepted, dropped, delivered, raced>>

\* The copy ends; it is torn if the slot changed under it.
PopCopyEnd ==
    /\ cpc = "copy"
    /\ taken' = IF buffer[tail] = taken THEN taken ELSE Torn
    /\ cpc' = "advance"
    /\ UNCHANGED <<head, tail, buffer, prodVars, accepted, dropped, delivered, raced>>

\* tail = (tail + 1) % SIZE; return item;
PopAdvance ==
    /\ cpc = "advance"
    /\ tail' = (tail + 1) % SIZE
    /\ delivered' = Append(delivered, taken)
    /\ taken' = Blank
    /\ cpc' = "idle"
    /\ UNCHANGED <<head, buffer, prodVars, accepted, dropped, raced>>

-----------------------------------------------------------------------------
\* The steps inside push, and all of it for a caller that will or will not call
\* it again.
PushGoesOn(p) == \/ PushReadHead(p)
                 \/ PushHasRoom(p)
                 \/ PushCopyBegin(p)
                 \/ PushCopyEnd(p)
Push(p, again) == PushGoesOn(p) \/ PushFull(p, again) \/ PushPublish(p)

Pop == PopHasItem \/ PopCopyBegin \/ PopCopyEnd \/ PopAdvance

Producer(p) == \E again \in BOOLEAN : Push(p, again)

Next == (\E p \in Producers : Producer(p)) \/ Pop

Spec == Init /\ [][Next]_ringVars

-----------------------------------------------------------------------------
(***************************************************************************)
(* Properties                                                              *)
(***************************************************************************)

\* The types of the queue's fields and of the threads' locals.
TypeOK ==
    /\ head \in Slots
    /\ tail \in Slots
    /\ buffer \in [Slots -> Contents]
    /\ pc \in [Producers -> {"idle", "check", "index", "copy", "publish"}]
    /\ offer \in [Producers -> 1 .. MaxPush + 1]
    /\ next \in [Producers -> Slots]
    /\ slot \in [Producers -> Slots]
    /\ cpc \in {"idle", "read", "copy", "advance"}
    /\ taken \in Contents
    /\ accepted \in Seq(Orders)
    /\ dropped \in Seq(Orders)
    /\ delivered \in Seq(Contents)
    /\ raced \in BOOLEAN

\* No slot is accessed by two threads at once while one of them writes it: the
\* copy `buffer[head] = item' of push never overlaps the copy of pop or of
\* another push.
NoSlotRace ==
    \A p \in Producers : pc[p] = "copy" =>
        /\ cpc = "copy" => slot[p] # tail
        /\ \A q \in Producers \ {p} : pc[q] = "copy" => slot[q] # slot[p]

\* What pop returns is what push accepted, in the same order: no order is lost,
\* repeated, reordered, blank or torn on its way through the buffer.
FifoOrder ==
    /\ Len(delivered) <= Len(accepted)
    /\ \A i \in 1 .. Len(delivered) : delivered[i] = accepted[i]

\* The slots from tail up to head hold exactly the orders accepted and not yet
\* popped, also after head and tail wrapped around, and at most SIZE - 1 of them.
Pending == Len(accepted) - Len(delivered)
WindowHoldsPending ==
    /\ Pending \in 0 .. SIZE - 1
    /\ head = (tail + Pending) % SIZE
    /\ \A i \in 1 .. Pending :
          buffer[(tail + i - 1) % SIZE] = accepted[Len(delivered) + i]

\* Whenever nobody is inside push or pop and the queue looks empty to the
\* matcher, every order whose push returned true has been handed over.
EmptyMeansAllDelivered ==
    (/\ head = tail
     /\ cpc = "idle"
     /\ \A p \in Producers : pc[p] = "idle")
    => \A i \in 1 .. Len(accepted) :
          \E j \in 1 .. Len(delivered) : delivered[j] = accepted[i]

\* The buffer implements the abstract channel of capacity SIZE - 1: each push
\* that returns true appends one order while there is room, a push is refused
\* only when the channel is full, each pop takes the oldest order.
Chan == INSTANCE FifoChannel WITH Values <- Orders, Capacity <- SIZE - 1,
            sent <- accepted, received <- delivered, dropped <- dropped
ImplementsChannel == Chan!Spec
=============================================================================
