---------------------------- MODULE ThreadSafeQueue ----------------------------
(***************************************************************************)
(* week2_threaded_queue_demo/thread_safe_queue.hpp, a queue with a mutex   *)
(* and a condition variable, in the program that stresses it most:         *)
(* multi_thread_order.cpp, where every producer pushes its share of the    *)
(* orders and every consumer pops its share.  Weeks 3 to 8 use copies of   *)
(* this queue.                                                             *)
(*                                                                         *)
(* What a thread does while it holds the mutex is several steps, so that   *)
(* it is the mutex that keeps them together.  wait releases the mutex and  *)
(* falls asleep in one step; it may wake up without a notification.        *)
(***************************************************************************)
EXTENDS Integers, Sequences, FiniteSets

CONSTANTS Pushers,      \* the producer threads
          Consumers,
          Batch,        \* orders a producer pushes
          Expected,     \* orders a consumer pops: their number divided by the
                        \* number of consumers, rounded down
          MaxSpurious,  \* bound: wake-ups without a notification
          Free          \* the mutex is not held

ASSUME BatchAssumption == Batch \in Nat /\ Expected \in Nat /\ MaxSpurious \in Nat
ASSUME ShareAssumption ==
    Expected * Cardinality(Consumers) <= Batch * Cardinality(Pushers)
ASSUME ThreadsAssumption == /\ IsFiniteSet(Pushers) /\ IsFiniteSet(Consumers)
                            /\ Pushers \cap Consumers = {}
                            /\ Free \notin Pushers \cup Consumers

VARIABLES q_, m_,       \* the queue and the mutex: its holder, or Free
          asleep,       \* the threads blocked in cv_.wait
          push_pc, next, \* a producer: where it is, the number of its next order
          cpc, item, got, \* a consumer: where it is, its copy of the front, how
                        \* many orders it has popped
          spurious,     \* wake-ups without a notification so far
          pushed, popped  \* history: orders in the order of push and of pop

queueVars == <<q_, m_, asleep>>
pusherVars == <<push_pc, next>>
consumerVars == <<cpc, item, got>>
historyVars == <<pushed, popped>>
threadVars == <<queueVars, pusherVars, consumerVars, spurious, historyVars>>

Orders == Pushers \X (1 .. Batch)
NoOrder == <<>>

QueueInit ==
    /\ q_ = <<>>
    /\ m_ = Free
    /\ asleep = {}
    /\ push_pc = [p \in Pushers |-> "loop"]
    /\ next = [p \in Pushers |-> 1]
    /\ cpc = [c \in Consumers |-> "loop"]
    /\ item = [c \in Consumers |-> NoOrder]
    /\ got = [c \in Consumers |-> 0]
    /\ spurious = 0
    /\ pushed = <<>>
    /\ popped = <<>>

PusherAt(p, at) == push_pc' = [push_pc EXCEPT ![p] = at]
ConsumerAt(c, at) == cpc' = [cpc EXCEPT ![c] = at]

(***************************************************************************)
(* An operator named X_..Slip is X with a slip one could make in the code; *)
(* the specifications do not use it.                                       *)
(***************************************************************************)

(***************************************************************************)
(* producer_batch and push                                                 *)
(***************************************************************************)

\* lock_guard lock(m_);
PushLock(p) ==
    /\ push_pc[p] = "loop" /\ next[p] <= Batch
    /\ m_ = Free
    /\ m_' = p
    /\ PusherAt(p, "push")
    /\ UNCHANGED <<q_, asleep, next, consumerVars, spurious, historyVars>>

\* q_.push(item);
PushItem(p) ==
    /\ push_pc[p] = "push"
    /\ q_' = Append(q_, <<p, next[p]>>)
    /\ pushed' = Append(pushed, <<p, next[p]>>)
    /\ PusherAt(p, "notify")
    /\ UNCHANGED <<m_, asleep, next, consumerVars, spurious, popped>>

\* Notifies only when the queue was empty.
Notified_FirstOnlySlip == IF Len(q_) = 1 THEN asleep ELSE {}
\* One of these wakes up.
Notified == asleep

\* cv_.notify_one(); without a sleeper it does nothing.
PushNotify(p) ==
    /\ push_pc[p] = "notify"
    /\ \/ Notified = {} /\ UNCHANGED <<asleep, cpc>>
       \/ \E c \in Notified : asleep' = asleep \ {c} /\ ConsumerAt(c, "relock")
    /\ PusherAt(p, "unlock")
    /\ UNCHANGED <<q_, m_, next, item, got, spurious, historyVars>>

PushUnlock(p) ==
    /\ push_pc[p] = "unlock"
    /\ m_' = Free
    /\ next' = [next EXCEPT ![p] = @ + 1]
    /\ PusherAt(p, "loop")
    /\ UNCHANGED <<q_, asleep, consumerVars, spurious, historyVars>>

Pusher(p) == PushLock(p) \/ PushItem(p) \/ PushNotify(p) \/ PushUnlock(p)

(***************************************************************************)
(* consumer_loop and pop                                                   *)
(***************************************************************************)

\* unique_lock lock(m_);
PopLock(c) ==
    /\ cpc[c] = "loop" /\ got[c] < Expected
    /\ m_ = Free
    /\ m_' = c
    /\ ConsumerAt(c, "test")
    /\ UNCHANGED <<q_, asleep, pusherVars, item, got, spurious, historyVars>>

\* Gives up the mutex before it falls asleep.
PopWait_UnlockFirstSlip(c) ==
    /\ \/ /\ cpc[c] = "test" /\ q_ = <<>>
          /\ m_' = Free
          /\ ConsumerAt(c, "doze")
          /\ UNCHANGED asleep
       \/ /\ cpc[c] = "doze"
          /\ asleep' = asleep \cup {c}
          /\ ConsumerAt(c, "wait")
          /\ UNCHANGED m_
    /\ UNCHANGED <<q_, pusherVars, item, got, spurious, historyVars>>

\* cv_.wait with nothing in the queue
PopWait(c) ==
    /\ cpc[c] = "test" /\ q_ = <<>>
    /\ m_' = Free
    /\ asleep' = asleep \cup {c}
    /\ ConsumerAt(c, "wait")
    /\ UNCHANGED <<q_, pusherVars, item, got, spurious, historyVars>>

WakeSpuriously(c) ==
    /\ c \in asleep
    /\ spurious < MaxSpurious
    /\ spurious' = spurious + 1
    /\ asleep' = asleep \ {c}
    /\ ConsumerAt(c, "relock")
    /\ UNCHANGED <<q_, m_, pusherVars, item, got, historyVars>>

\* Does not take the mutex again.
Relocked_NoMutexSlip(c) == UNCHANGED m_
Relocked(c) == m_ = Free /\ m_' = c

PopRelock(c) ==
    /\ cpc[c] = "relock"
    /\ Relocked(c)
    /\ ConsumerAt(c, "test")
    /\ UNCHANGED <<q_, asleep, pusherVars, item, got, spurious, historyVars>>

\* The predicate holds; T item = q_.front();
PopFront(c) ==
    /\ cpc[c] = "test" /\ q_ # <<>>
    /\ item' = [item EXCEPT ![c] = Head(q_)]
    /\ ConsumerAt(c, "pop")
    /\ UNCHANGED <<queueVars, pusherVars, got, spurious, historyVars>>

\* q_.pop(); return item;
PopItem(c) ==
    /\ cpc[c] = "pop"
    /\ q_' = IF q_ = <<>> THEN q_ ELSE Tail(q_)
    /\ popped' = Append(popped, item[c])
    /\ m_' = Free
    /\ got' = [got EXCEPT ![c] = @ + 1]
    /\ ConsumerAt(c, "loop")
    /\ UNCHANGED <<asleep, pusherVars, item, spurious, pushed>>

Consumer(c) == PopLock(c) \/ PopWait(c) \/ PopRelock(c) \/ PopFront(c) \/ PopItem(c)

-----------------------------------------------------------------------------
QueueNext == \/ \E p \in Pushers : Pusher(p)
             \/ \E c \in Consumers : Consumer(c) \/ WakeSpuriously(c)

QueueSpec == QueueInit /\ [][QueueNext]_threadVars

\* Every thread that can run is scheduled.  Nothing makes the mutex fair: that
\* suffices, because the work is finite.
FairQueueSpec == /\ QueueSpec
                 /\ \A p \in Pushers : WF_threadVars(Pusher(p))
                 /\ \A c \in Consumers : WF_threadVars(Consumer(c))

-----------------------------------------------------------------------------
(***************************************************************************)
(* Properties                                                              *)
(***************************************************************************)

\* No wake-up is lost: while some consumer sleeps, every order in the queue has
\* a thread on its way to it, a producer about to notify or a consumer awake
\* inside pop.
OnTheWay == {p \in Pushers : push_pc[p] = "notify"}
            \cup {c \in Consumers : cpc[c] \in {"test", "relock", "pop"}}
NoWakeUpLost == asleep # {} => Len(q_) <= Cardinality(OnTheWay)

\* The queue implements an unbounded channel: orders are popped in the order of
\* their pushes, each by one consumer, none twice and none invented.
Chan == INSTANCE FifoChannel WITH Values <- Orders,
            Capacity <- Batch * Cardinality(Pushers),
            sent <- pushed, received <- popped, dropped <- <<>>
ImplementsChannel == Chan!Spec

\* main joins every thread: no consumer waits for ever for its share, whoever
\* is notified and whoever takes the order first.
AllThreadsEnd ==
    <>(/\ \A p \in Pushers : next[p] > Batch
       /\ \A c \in Consumers : got[c] = Expected)
=============================================================================
