--------------------------- MODULE ThreadQueues_proofs ---------------------------
(***************************************************************************)
(* Proofs about the queue of mutex and condition variable                  *)
(* (ThreadSafeQueue) and about the program that gives one such queue to    *)
(* every worker (MatchingThreads), for any number of threads, symbols,     *)
(* orders and spurious wake-ups.                                           *)
(***************************************************************************)
EXTENDS ThreadSafeQueue, MatchingThreads, Recursion, FiniteSetTheorems, SequenceTheorems,
        TLAPS

-----------------------------------------------------------------------------
(***************************************************************************)
(* The queue                                                               *)
(***************************************************************************)

QueueTypeInv ==
    /\ q_ \in Seq(Orders) /\ pushed \in Seq(Orders) /\ popped \in Seq(Orders)
    /\ m_ \in Pushers \cup Consumers \cup {Free}
    /\ push_pc \in [Pushers -> {"loop", "push", "notify", "unlock"}]
    /\ next \in [Pushers -> Nat \ {0}]
    /\ cpc \in [Consumers -> {"loop", "test", "wait", "relock", "pop"}]
    /\ item \in [Consumers -> Orders \cup {NoOrder}]
    /\ got \in [Consumers -> Nat]
    /\ spurious \in Nat

\* The threads in cv_.wait are the sleeping ones.
SleepersWait == asleep = {c \in Consumers : cpc[c] = "wait"}

\* A thread that is inside push, or in pop with the mutex, is its holder.
Mutex == /\ \A p \in Pushers : push_pc[p] # "loop" => m_ = p
         /\ \A c \in Consumers : cpc[c] \in {"test", "pop"} => m_ = c

\* A producer inside push has an order left to push.
OrdersLeft == \A p \in Pushers : /\ next[p] <= Batch + 1
                                 /\ push_pc[p] # "loop" => next[p] <= Batch

\* The copy of the front is still the front when q_.pop() removes it.
FrontIsCopied == \A c \in Consumers :
                    cpc[c] = "pop" => q_ # <<>> /\ item[c] = Head(q_)

\* What has been pushed and not been popped is in the queue.
NothingLost == pushed = popped \o q_

\* No order is pushed twice: producer p has pushed those before next[p], and
\* next[p] itself while it is about to notify or to unlock.
IsPushed(p, n) == n < next[p] \/ (n = next[p] /\ push_pc[p] \in {"notify", "unlock"})
PushedOnce ==
    /\ \A i \in DOMAIN pushed : IsPushed(pushed[i][1], pushed[i][2])
    /\ \A i, j \in DOMAIN pushed : pushed[i] = pushed[j] => i = j

QueueInv == /\ QueueTypeInv /\ SleepersWait /\ Mutex /\ OrdersLeft
            /\ FrontIsCopied /\ NothingLost /\ PushedOnce

LEMMA QueueInvInit == QueueInit => QueueInv
  BY BatchAssumption DEF QueueInit, QueueInv, QueueTypeInv, SleepersWait, Mutex, OrdersLeft,
       FrontIsCopied, NothingLost, PushedOnce

\* The steps that take an order into the queue or out of it ...
LEMMA PushItemKeeps ==
    ASSUME QueueInv, NEW p \in Pushers, PushItem(p)
    PROVE  /\ <<p, next[p]>> \in Orders
           /\ \A i \in DOMAIN pushed : pushed[i] # <<p, next[p]>>
           /\ QueueInv'
<1> USE DEF consumerVars
<1>1. /\ q_ \in Seq(Orders) /\ pushed \in Seq(Orders) /\ popped \in Seq(Orders)
      /\ next \in [Pushers -> Nat \ {0}]
      /\ push_pc \in [Pushers -> {"loop", "push", "notify", "unlock"}]
  BY DEF QueueInv, QueueTypeInv
<1>2. push_pc[p] = "push" /\ push_pc' = [push_pc EXCEPT ![p] = "notify"]
  BY DEF PushItem, PusherAt
<1>3. UNCHANGED <<m_, asleep, next, cpc, item, got, spurious, popped>>
  BY DEF PushItem
<1>4. PICK o \in Orders : o = <<p, next[p]>>
  <2>1. <<p, next[p]>> \in Orders
    BY <1>1, <1>2, BatchAssumption DEF Orders, QueueInv, OrdersLeft
  <2> QED BY ONLY <2>1
<1>5. q_' = Append(q_, o) /\ pushed' = Append(pushed, o)
  BY <1>4 DEF PushItem
<1>6. o[1] = p /\ o[2] = next[p]
  BY <1>4
<1>7. \A i \in DOMAIN pushed : pushed[i] # o
  <2> SUFFICES ASSUME NEW i \in DOMAIN pushed, pushed[i] = o PROVE FALSE
    OBVIOUS
  <2>1. IsPushed(p, next[p])
    BY <1>6 DEF QueueInv, PushedOnce
  <2> QED BY <1>1, <1>2, <2>1 DEF IsPushed
<1>8. \A i \in DOMAIN pushed' : \/ i \in DOMAIN pushed /\ pushed'[i] = pushed[i]
                                \/ i = Len(pushed) + 1 /\ pushed'[i] = o
  BY <1>1, <1>5
<1>9. QueueTypeInv'
  BY <1>1, <1>2, <1>3, <1>5 DEF QueueInv, QueueTypeInv
<1>10. SleepersWait' /\ Mutex' /\ OrdersLeft'
  BY <1>1, <1>2, <1>3 DEF QueueInv, SleepersWait, Mutex, OrdersLeft
<1>11. FrontIsCopied'
  <2>1. \A c \in Consumers : cpc[c] # "pop"
    BY <1>2, ThreadsAssumption DEF QueueInv, Mutex
  <2> QED BY <1>3, <2>1 DEF FrontIsCopied
<1>12. NothingLost'
  <2>1. popped \o Append(q_, o) = Append(popped \o q_, o)
    BY <1>1
  <2> QED BY <1>3, <1>5, <2>1 DEF QueueInv, NothingLost
<1>13. PushedOnce'
  <2>1. \A r, n : IsPushed(r, n) /\ r \in Pushers => IsPushed(r, n)'
    BY <1>1, <1>2, <1>3 DEF IsPushed
  <2>2. IsPushed(o[1], o[2])'
    BY <1>1, <1>2, <1>3, <1>6 DEF IsPushed
  <2>3. \A i \in DOMAIN pushed : pushed[i][1] \in Pushers
    BY <1>1 DEF Orders
  <2>4. (\A i \in DOMAIN pushed : IsPushed(pushed[i][1], pushed[i][2]))'
    <3> SUFFICES ASSUME NEW i \in DOMAIN pushed'
                 PROVE  IsPushed(pushed[i][1], pushed[i][2])'
      OBVIOUS
    <3>1. CASE i \in DOMAIN pushed /\ pushed'[i] = pushed[i]
      BY <2>1, <2>3, <3>1 DEF QueueInv, PushedOnce
    <3>2. CASE pushed'[i] = o
      BY <2>2, <3>2
    <3> QED BY <1>8, <3>1, <3>2
  <2>5. (\A i, j \in DOMAIN pushed : pushed[i] = pushed[j] => i = j)'
    BY <1>7, <1>8 DEF QueueInv, PushedOnce
  <2> QED BY <2>4, <2>5 DEF PushedOnce
<1> QED BY <1>4, <1>7, <1>9, <1>10, <1>11, <1>12, <1>13 DEF QueueInv

\* Moving the front of one sequence to the end of another keeps their
\* concatenation.
LEMMA FrontMovesOver ==
    ASSUME NEW S, NEW s \in Seq(S), NEW t \in Seq(S), t # <<>>
    PROVE  Append(s, Head(t)) \o Tail(t) = s \o t
<1> DEFINE a == Append(s, Head(t)) \o Tail(t)
           b == s \o t
<1>1. Len(t) \in Nat \ {0} /\ Len(s) \in Nat
  OBVIOUS
<1>2. Head(t) = t[1] /\ Head(t) \in S /\ Tail(t) \in Seq(S) /\ Len(Tail(t)) = Len(t) - 1
      /\ \A i \in 1 .. Len(t) - 1 : Tail(t)[i] = t[i + 1]
  BY <1>1
<1>3. /\ Append(s, Head(t)) \in Seq(S) /\ Len(Append(s, Head(t))) = Len(s) + 1
      /\ Append(s, Head(t))[Len(s) + 1] = t[1]
      /\ \A i \in 1 .. Len(s) : Append(s, Head(t))[i] = s[i]
  BY <1>2
<1>4. /\ a \in Seq(S) /\ Len(a) = Len(s) + Len(t)
      /\ \A i \in 1 .. Len(s) + Len(t) :
            a[i] = IF i <= Len(s) + 1 THEN Append(s, Head(t))[i]
                                      ELSE Tail(t)[i - (Len(s) + 1)]
  <2>1. Len(Append(s, Head(t))) + Len(Tail(t)) = Len(s) + Len(t)
    BY <1>1, <1>2, <1>3
  <2>2. /\ a \in Seq(S) /\ Len(a) = Len(Append(s, Head(t))) + Len(Tail(t))
        /\ \A i \in 1 .. Len(Append(s, Head(t))) + Len(Tail(t)) :
              a[i] = IF i <= Len(Append(s, Head(t))) THEN Append(s, Head(t))[i]
                     ELSE Tail(t)[i - Len(Append(s, Head(t)))]
    BY <1>2, <1>3, ConcatProperties
  <2> HIDE DEF a
  <2> QED BY <1>3, <2>1, <2>2
<1>5. /\ b \in Seq(S) /\ Len(b) = Len(s) + Len(t)
      /\ \A i \in 1 .. Len(s) + Len(t) :
            b[i] = IF i <= Len(s) THEN s[i] ELSE t[i - Len(s)]
  BY ConcatProperties
<1> HIDE DEF a, b
<1>6. ASSUME NEW i \in 1 .. Len(s) + Len(t) PROVE a[i] = b[i]
  <2>1. CASE i <= Len(s)
    BY <1>1, <1>3, <1>4, <1>5, <2>1
  <2>2. CASE i = Len(s) + 1
    BY <1>1, <1>3, <1>4, <1>5, <2>2
  <2>3. CASE i > Len(s) + 1
    <3>1. i - (Len(s) + 1) \in 1 .. Len(t) - 1 /\ i - (Len(s) + 1) + 1 = i - Len(s)
      BY <1>1, <2>3
    <3> QED BY <1>1, <1>2, <1>4, <1>5, <2>3, <3>1
  <2> QED BY <1>1, <2>1, <2>2, <2>3
<1>7. a = b
  BY <1>4, <1>5, <1>6, SeqEqual
<1> QED BY <1>7 DEF a, b

LEMMA PopItemKeeps ==
    ASSUME QueueInv, NEW c \in Consumers, PopItem(c)
    PROVE  /\ Len(popped) < Len(pushed)
           /\ popped' = Append(popped, pushed[Len(popped) + 1])
           /\ QueueInv'
<1> USE DEF pusherVars
<1>1. /\ q_ \in Seq(Orders) /\ pushed \in Seq(Orders) /\ popped \in Seq(Orders)
      /\ cpc \in [Consumers -> {"loop", "test", "wait", "relock", "pop"}]
      /\ got \in [Consumers -> Nat]
  BY DEF QueueInv, QueueTypeInv
<1>2. cpc[c] = "pop" /\ cpc' = [cpc EXCEPT ![c] = "loop"]
  BY DEF PopItem, ConsumerAt
<1>3. UNCHANGED <<asleep, push_pc, next, item, spurious, pushed>> /\ m_' = Free
  BY DEF PopItem
<1>4. q_ # <<>> /\ item[c] = Head(q_)
  BY <1>2 DEF QueueInv, FrontIsCopied
<1>5. q_' = Tail(q_) /\ popped' = Append(popped, Head(q_))
  BY <1>4 DEF PopItem
<1>6. got' \in [Consumers -> Nat]
  BY <1>1 DEF PopItem
<1>7. Len(popped) < Len(pushed) /\ Head(q_) = pushed[Len(popped) + 1]
  BY <1>1, <1>4 DEF QueueInv, NothingLost
<1>8. QueueTypeInv'
  <2>1. q_' \in Seq(Orders) /\ popped' \in Seq(Orders)
    BY <1>1, <1>4, <1>5
  <2> QED BY <1>1, <1>2, <1>3, <1>6, <2>1 DEF QueueInv, QueueTypeInv
<1>9. SleepersWait' /\ OrdersLeft'
  BY <1>1, <1>2, <1>3 DEF QueueInv, SleepersWait, OrdersLeft
<1>10. m_ = c
  BY <1>2 DEF QueueInv, Mutex
<1>11. \A d \in Consumers : cpc'[d] \notin {"test", "pop"}
  BY <1>1, <1>2, <1>10 DEF QueueInv, Mutex
<1>12. \A p \in Pushers : push_pc[p] = "loop"
  BY <1>10, ThreadsAssumption DEF QueueInv, Mutex
<1>13. Mutex' /\ FrontIsCopied'
  BY <1>3, <1>11, <1>12 DEF Mutex, FrontIsCopied
<1>14. NothingLost'
  <2>1. Append(popped, Head(q_)) \o Tail(q_) = popped \o q_
    BY <1>1, <1>4, FrontMovesOver
  <2> QED BY <1>3, <1>5, <2>1 DEF QueueInv, NothingLost
<1>15. PushedOnce'
  BY <1>3 DEF QueueInv, PushedOnce, IsPushed
<1> QED BY <1>5, <1>7, <1>8, <1>9, <1>13, <1>14, <1>15 DEF QueueInv

\* ... and the others, which leave the three sequences alone.
LEMMA PusherKeeps ==
    ASSUME QueueInv, NEW p \in Pushers, PushLock(p) \/ PushNotify(p) \/ PushUnlock(p)
    PROVE  QueueInv' /\ UNCHANGED <<pushed, popped>>
<1> USE DEF queueVars, pusherVars, consumerVars, historyVars
<1>0. /\ next \in [Pushers -> Nat \ {0}]
      /\ push_pc \in [Pushers -> {"loop", "push", "notify", "unlock"}]
      /\ cpc \in [Consumers -> {"loop", "test", "wait", "relock", "pop"}]
  BY DEF QueueInv, QueueTypeInv
<1>1. CASE PushLock(p)
  <2>1. /\ push_pc[p] = "loop" /\ next[p] <= Batch /\ m_ = Free /\ m_' = p
        /\ push_pc' = [push_pc EXCEPT ![p] = "push"]
        /\ UNCHANGED <<q_, asleep, next, cpc, item, got, spurious, pushed, popped>>
    BY <1>1 DEF PushLock, PusherAt
  <2>2. QueueTypeInv' /\ SleepersWait' /\ FrontIsCopied' /\ NothingLost'
    BY <1>0, <2>1 DEF QueueInv, QueueTypeInv, SleepersWait, FrontIsCopied, NothingLost
  <2>3. Mutex' /\ OrdersLeft'
    BY <1>0, <2>1, ThreadsAssumption DEF QueueInv, Mutex, OrdersLeft
  <2>4. PushedOnce'
    BY <1>0, <2>1 DEF QueueInv, PushedOnce, IsPushed, QueueTypeInv, Orders
  <2> QED BY <2>1, <2>2, <2>3, <2>4 DEF QueueInv
<1>2. CASE PushNotify(p)
  <2>1. push_pc[p] = "notify" /\ push_pc' = [push_pc EXCEPT ![p] = "unlock"]
        /\ UNCHANGED <<q_, m_, next, item, got, spurious, pushed, popped>>
    BY <1>2 DEF PushNotify, PusherAt
  <2>2. PushedOnce'
    BY <1>0, <2>1 DEF QueueInv, PushedOnce, IsPushed, QueueTypeInv, Orders
  <2>3. CASE UNCHANGED <<asleep, cpc>>
    BY <1>0, <2>1, <2>2, <2>3 DEF QueueInv, QueueTypeInv, SleepersWait, Mutex,
         OrdersLeft, FrontIsCopied, NothingLost
  <2>4. ASSUME NEW c \in asleep, asleep' = asleep \ {c}, ConsumerAt(c, "relock")
        PROVE  QueueInv'
    <3>1. c \in Consumers /\ cpc' = [cpc EXCEPT ![c] = "relock"]
      BY <2>4 DEF ConsumerAt, QueueInv, SleepersWait
    <3> QED BY <1>0, <2>1, <2>2, <2>4, <3>1 DEF QueueInv, QueueTypeInv, SleepersWait,
              Mutex, OrdersLeft, FrontIsCopied, NothingLost
  <2> QED BY <1>2, <2>1, <2>3, <2>4 DEF PushNotify, Notified
<1>3. CASE PushUnlock(p)
  <2>1. /\ push_pc[p] = "unlock" /\ push_pc' = [push_pc EXCEPT ![p] = "loop"] /\ m_' = Free
        /\ next' = [next EXCEPT ![p] = @ + 1]
        /\ UNCHANGED <<q_, asleep, cpc, item, got, spurious, pushed, popped>>
    BY <1>3 DEF PushUnlock, PusherAt
  <2>2. PushedOnce'
    BY <1>0, <2>1 DEF QueueInv, PushedOnce, IsPushed, QueueTypeInv, Orders
  <2>3. \A r \in Pushers : push_pc'[r] = "loop"
    BY <1>0, <2>1 DEF QueueInv, Mutex
  <2>4. \A c \in Consumers : cpc[c] \notin {"test", "pop"}
    BY <2>1, ThreadsAssumption DEF QueueInv, Mutex
  <2>5. OrdersLeft'
    BY <1>0, <2>1, <2>3, BatchAssumption DEF QueueInv, OrdersLeft
  <2> QED BY <1>0, <2>1, <2>2, <2>3, <2>4, <2>5 DEF QueueInv, QueueTypeInv, SleepersWait,
            Mutex, FrontIsCopied, NothingLost
<1> QED BY <1>1, <1>2, <1>3

LEMMA ConsumerKeeps ==
    ASSUME QueueInv, NEW c \in Consumers,
           PopLock(c) \/ PopWait(c) \/ PopRelock(c) \/ PopFront(c) \/ WakeSpuriously(c)
    PROVE  QueueInv' /\ UNCHANGED <<pushed, popped>>
<1> USE DEF queueVars, pusherVars, historyVars, ConsumerAt
<1>0. /\ cpc \in [Consumers -> {"loop", "test", "wait", "relock", "pop"}]
      /\ item \in [Consumers -> Orders \cup {NoOrder}]
      /\ q_ \in Seq(Orders)
  BY DEF QueueInv, QueueTypeInv
<1>1. CASE PopLock(c) \/ PopRelock(c)
  <2>1. cpc' = [cpc EXCEPT ![c] = "test"] /\ cpc[c] # "wait" /\ m_ = Free /\ m_' = c
    BY <1>1 DEF PopLock, PopRelock, Relocked
  <2>2. UNCHANGED <<q_, asleep, push_pc, next, item, got, spurious, pushed, popped>>
    BY <1>1 DEF PopLock, PopRelock
  <2>3. QueueTypeInv' /\ SleepersWait'
    BY <1>0, <2>1, <2>2 DEF QueueInv, QueueTypeInv, SleepersWait
  <2>4. Mutex'
    BY <1>0, <2>1, <2>2, ThreadsAssumption DEF QueueInv, Mutex
  <2>5. OrdersLeft' /\ FrontIsCopied'
    BY <1>0, <2>1, <2>2 DEF QueueInv, OrdersLeft, FrontIsCopied
  <2>6. NothingLost' /\ PushedOnce'
    BY <2>2 DEF QueueInv, NothingLost, PushedOnce, IsPushed
  <2> QED BY <2>2, <2>3, <2>4, <2>5, <2>6 DEF QueueInv
<1>2. CASE PopWait(c)
  <2>1. cpc' = [cpc EXCEPT ![c] = "wait"] /\ cpc[c] = "test" /\ m_' = Free
    BY <1>2 DEF PopWait
  <2>2. /\ asleep' = asleep \cup {c}
        /\ UNCHANGED <<q_, push_pc, next, item, got, spurious, pushed, popped>>
    BY <1>2 DEF PopWait
  <2>3. QueueTypeInv' /\ SleepersWait'
    BY <1>0, <2>1, <2>2 DEF QueueInv, QueueTypeInv, SleepersWait
  <2>4. Mutex'
    BY <1>0, <2>1, <2>2, ThreadsAssumption DEF QueueInv, Mutex
  <2>5. OrdersLeft' /\ FrontIsCopied'
    BY <1>0, <2>1, <2>2 DEF QueueInv, OrdersLeft, FrontIsCopied
  <2>6. NothingLost' /\ PushedOnce'
    BY <2>2 DEF QueueInv, NothingLost, PushedOnce, IsPushed
  <2> QED BY <2>2, <2>3, <2>4, <2>5, <2>6 DEF QueueInv
<1>3. CASE PopFront(c)
  <2>1. Head(q_) \in Orders
    BY <1>0, <1>3 DEF PopFront
  <2>2. QueueTypeInv' /\ SleepersWait' /\ Mutex' /\ OrdersLeft' /\ NothingLost'
        /\ PushedOnce'
    BY <1>0, <1>3, <2>1
       DEF PopFront, QueueInv, QueueTypeInv, SleepersWait, Mutex, OrdersLeft, NothingLost,
           PushedOnce, IsPushed
  <2>3. FrontIsCopied'
    BY <1>0, <1>3 DEF PopFront, QueueInv, FrontIsCopied
  <2> QED BY <1>3, <2>2, <2>3 DEF QueueInv, PopFront
<1>4. CASE WakeSpuriously(c)
  <2>1. /\ c \in asleep /\ asleep' = asleep \ {c} /\ spurious' = spurious + 1
        /\ cpc' = [cpc EXCEPT ![c] = "relock"]
        /\ UNCHANGED <<q_, m_, push_pc, next, item, got, pushed, popped>>
    BY <1>4 DEF WakeSpuriously
  <2>2. QueueTypeInv' /\ SleepersWait'
    BY <1>0, <2>1 DEF QueueInv, QueueTypeInv, SleepersWait
  <2>3. Mutex' /\ OrdersLeft' /\ FrontIsCopied' /\ NothingLost' /\ PushedOnce'
    BY <1>0, <2>1 DEF QueueInv, Mutex, OrdersLeft, FrontIsCopied, NothingLost,
                      PushedOnce, IsPushed
  <2> QED BY <2>1, <2>2, <2>3 DEF QueueInv
<1> QED BY <1>1, <1>2, <1>3, <1>4

LEMMA QueueInvNext == QueueInv /\ [QueueNext]_threadVars => QueueInv'
<1> SUFFICES ASSUME QueueInv, [QueueNext]_threadVars PROVE QueueInv'
  OBVIOUS
<1>1. CASE UNCHANGED threadVars
  BY <1>1 DEF threadVars, queueVars, pusherVars, consumerVars, historyVars, QueueInv,
       QueueTypeInv, SleepersWait, Mutex, OrdersLeft, FrontIsCopied, NothingLost,
       PushedOnce, IsPushed
<1> QED BY <1>1, PushItemKeeps, PopItemKeeps, PusherKeeps, ConsumerKeeps
        DEF QueueNext, Pusher, Consumer

LEMMA QueueCorrect == QueueSpec => []QueueInv
  BY QueueInvInit, QueueInvNext, PTL DEF QueueSpec

-----------------------------------------------------------------------------
(***************************************************************************)
(* No wake-up is lost                                                      *)
(***************************************************************************)
LEMMA OnTheWayFinite ==
    ASSUME NEW at, NEW cat
    PROVE  LET S == {p \in Pushers : at[p] = "notify"}
                    \cup {c \in Consumers : cat[c] \in {"test", "relock", "pop"}}
           IN  IsFiniteSet(S) /\ Cardinality(S) \in Nat
<1>1. IsFiniteSet({p \in Pushers : at[p] = "notify"})
  BY FS_Subset, ThreadsAssumption
<1>2. IsFiniteSet({c \in Consumers : cat[c] \in {"test", "relock", "pop"}})
  BY FS_Subset, ThreadsAssumption
<1> QED BY <1>1, <1>2, FS_Union, FS_CardinalityType

\* Every step that adds an order, or takes a thread off its way, has a step of
\* the other kind in it, or finds nobody asleep or nothing in the queue.
LEMMA NoWakeUpLostNext ==
    QueueInv /\ NoWakeUpLost /\ [QueueNext]_threadVars => NoWakeUpLost'
<1> SUFFICES ASSUME QueueInv, NoWakeUpLost, [QueueNext]_threadVars, asleep' # {}
             PROVE  Len(q_') <= Cardinality(OnTheWay')
  BY DEF NoWakeUpLost
<1> USE DEF PusherAt, ConsumerAt, queueVars, pusherVars, consumerVars, historyVars
<1>0. /\ q_ \in Seq(Orders) /\ Len(q_) \in Nat
      /\ push_pc \in [Pushers -> {"loop", "push", "notify", "unlock"}]
      /\ cpc \in [Consumers -> {"loop", "test", "wait", "relock", "pop"}]
      /\ Pushers \cap Consumers = {}
      /\ asleep = {c \in Consumers : cpc[c] = "wait"}
      /\ IsFiniteSet(OnTheWay) /\ Cardinality(OnTheWay) \in Nat
      /\ IsFiniteSet(OnTheWay') /\ Cardinality(OnTheWay') \in Nat
  <2>1. IsFiniteSet(OnTheWay) /\ Cardinality(OnTheWay) \in Nat
        /\ IsFiniteSet(OnTheWay') /\ Cardinality(OnTheWay') \in Nat
    BY OnTheWayFinite DEF OnTheWay
  <2> QED BY <2>1, ThreadsAssumption DEF QueueInv, QueueTypeInv, SleepersWait
<1>1. ASSUME asleep # {}, Len(q_') <= Len(q_), OnTheWay \subseteq OnTheWay'
      PROVE  Len(q_') <= Cardinality(OnTheWay')
  <2>1. Cardinality(OnTheWay) <= Cardinality(OnTheWay')
    BY <1>0, <1>1, FS_Subset
  <2>2. Len(q_') \in Nat
    BY QueueInvNext DEF QueueInv, QueueTypeInv
  <2> QED BY <1>0, <1>1, <2>1, <2>2 DEF NoWakeUpLost
<1>2. ASSUME NEW p \in Pushers, PushLock(p) \/ PushUnlock(p)
      PROVE  Len(q_') <= Cardinality(OnTheWay')
  <2>1. asleep' = asleep /\ q_' = q_ /\ cpc' = cpc
    BY <1>2 DEF PushLock, PushUnlock
  <2>2. \A r \in Pushers : push_pc[r] = "notify" => push_pc'[r] = "notify"
    BY <1>0, <1>2 DEF PushLock, PushUnlock
  <2> QED BY <1>0, <1>1, <2>1, <2>2 DEF OnTheWay
<1>3. ASSUME NEW p \in Pushers, PushItem(p)
      PROVE  Len(q_') <= Cardinality(OnTheWay')
  <2>1. push_pc[p] = "push" /\ asleep' = asleep /\ cpc' = cpc
        /\ push_pc' = [push_pc EXCEPT ![p] = "notify"]
    BY <1>3 DEF PushItem
  <2>2. Len(q_') = Len(q_) + 1
    BY <1>0, <1>3, PushItemKeeps DEF PushItem
  <2>3. OnTheWay' = OnTheWay \cup {p} /\ p \notin OnTheWay
    BY <1>0, <2>1 DEF OnTheWay
  <2>4. Cardinality(OnTheWay') = Cardinality(OnTheWay) + 1
    BY <1>0, <2>3, FS_AddElement
  <2> QED BY <1>0, <2>1, <2>2, <2>4 DEF NoWakeUpLost
<1>4. ASSUME NEW p \in Pushers, PushNotify(p)
      PROVE  Len(q_') <= Cardinality(OnTheWay')
  <2>1. PICK c \in asleep : asleep' = asleep \ {c} /\ cpc' = [cpc EXCEPT ![c] = "relock"]
    BY <1>4 DEF PushNotify, Notified
  <2>2. push_pc[p] = "notify" /\ push_pc' = [push_pc EXCEPT ![p] = "unlock"] /\ q_' = q_
    BY <1>4 DEF PushNotify
  <2>3. c \in Consumers /\ cpc[c] = "wait"
    BY <1>0
  <2>4. OnTheWay' = (OnTheWay \cup {c}) \ {p} /\ c \notin OnTheWay /\ p \in OnTheWay
    BY <1>0, <2>1, <2>2, <2>3 DEF OnTheWay
  <2>5. Cardinality(OnTheWay') = Cardinality(OnTheWay)
    <3>1. IsFiniteSet(OnTheWay \cup {c})
          /\ Cardinality(OnTheWay \cup {c}) = Cardinality(OnTheWay) + 1
      BY <1>0, <2>4, FS_AddElement
    <3>2. Cardinality((OnTheWay \cup {c}) \ {p}) = Cardinality(OnTheWay \cup {c}) - 1
      BY <2>4, <3>1, FS_RemoveElement
    <3> QED BY <1>0, <2>4, <3>1, <3>2
  <2> QED BY <2>2, <2>5 DEF NoWakeUpLost
<1>5. ASSUME NEW c \in Consumers, PopLock(c) \/ PopRelock(c) \/ WakeSpuriously(c) \/ PopFront(c)
      PROVE  Len(q_') <= Cardinality(OnTheWay')
  <2>1. asleep' \subseteq asleep /\ q_' = q_ /\ push_pc' = push_pc
    BY <1>5 DEF PopLock, PopRelock, WakeSpuriously, PopFront
  <2>2. \A d \in Consumers : cpc[d] \in {"test", "relock", "pop"} =>
                                cpc'[d] \in {"test", "relock", "pop"}
    BY <1>0, <1>5 DEF PopLock, PopRelock, WakeSpuriously, PopFront
  <2> QED BY <1>0, <1>1, <2>1, <2>2 DEF OnTheWay
<1>6. ASSUME NEW c \in Consumers, PopWait(c)
      PROVE  Len(q_') <= Cardinality(OnTheWay')
  BY <1>0, <1>6 DEF PopWait
<1>7. ASSUME NEW c \in Consumers, PopItem(c)
      PROVE  Len(q_') <= Cardinality(OnTheWay')
  <2>1. cpc[c] = "pop" /\ cpc' = [cpc EXCEPT ![c] = "loop"]
        /\ push_pc' = push_pc /\ asleep' = asleep
    BY <1>7 DEF PopItem
  <2>2. Len(q_') = Len(q_) - 1
    BY <1>0, <1>7, <2>1 DEF PopItem, QueueInv, FrontIsCopied
  <2>3. OnTheWay' = OnTheWay \ {c} /\ c \in OnTheWay
    BY <1>0, <2>1 DEF OnTheWay
  <2>4. Cardinality(OnTheWay') = Cardinality(OnTheWay) - 1
    BY <1>0, <2>3, FS_RemoveElement
  <2> QED BY <1>0, <2>1, <2>2, <2>4 DEF NoWakeUpLost
<1>8. CASE UNCHANGED threadVars
  BY <1>0, <1>1, <1>8 DEF threadVars, OnTheWay
<1> QED BY <1>2, <1>3, <1>4, <1>5, <1>6, <1>7, <1>8 DEF QueueNext, Pusher, Consumer

\* While a consumer sleeps in cv_.wait, every order in the queue has a producer
\* about to notify or a consumer awake inside pop on its way to it, though
\* notify_one wakes one thread only, a newcomer may take the order first and
\* wait may return without a notification (thread_safe_queue.hpp:11-33).
THEOREM WakeUpsSuffice == QueueSpec => []NoWakeUpLost
<1>1. QueueInit => NoWakeUpLost
  BY DEF QueueInit, NoWakeUpLost
<1> QED BY <1>1, NoWakeUpLostNext, QueueCorrect, PTL DEF QueueSpec

-----------------------------------------------------------------------------
(***************************************************************************)
(* The queue is a first-in first-out channel                               *)
(***************************************************************************)

\* Before a push fewer orders have been pushed than there are.
LEMMA RoomBeforePush ==
    ASSUME QueueInv, NEW o \in Orders, \A i \in DOMAIN pushed : pushed[i] # o
    PROVE  Len(pushed) < Batch * Cardinality(Pushers)
<1>1. pushed \in Seq(Orders) /\ Len(pushed) \in Nat
  BY DEF QueueInv, QueueTypeInv
<1>2. IsFiniteSet(1 .. Batch) /\ Cardinality(1 .. Batch) = Batch
  BY BatchAssumption, FS_Interval
<1>3. IsFiniteSet(Orders) /\ Cardinality(Orders) = Cardinality(Pushers) * Batch
  BY <1>2, ThreadsAssumption, FS_Product DEF Orders
<1>4. IsFiniteSet(Orders \ {o}) /\ Cardinality(Orders \ {o}) = Cardinality(Orders) - 1
  BY <1>3, FS_RemoveElement
<1>5. IsFiniteSet(1 .. Len(pushed)) /\ Cardinality(1 .. Len(pushed)) = Len(pushed)
  <2>1. 1 \in Int /\ Len(pushed) \in Int
    BY <1>1
  <2>2. Cardinality(1 .. Len(pushed)) =
           IF 1 > Len(pushed) THEN 0 ELSE Len(pushed) - 1 + 1
    BY <2>1, FS_Interval
  <2>3. IsFiniteSet(1 .. Len(pushed))
    BY <2>1, FS_Interval
  <2> QED BY <1>1, <2>2, <2>3
<1>6. pushed \in [1 .. Len(pushed) -> Orders \ {o}]
  <2>1. DOMAIN pushed = 1 .. Len(pushed) /\ pushed \in [1 .. Len(pushed) -> Orders]
    BY <1>1
  <2>2. \A i \in 1 .. Len(pushed) : pushed[i] \in Orders \ {o}
    BY <2>1
  <2> QED BY <2>1, <2>2
<1>7. ~(Cardinality(Orders \ {o}) < Cardinality(1 .. Len(pushed)))
  <2> SUFFICES ASSUME Cardinality(Orders \ {o}) < Cardinality(1 .. Len(pushed))
               PROVE  FALSE
    OBVIOUS
  <2>1. \E x, y \in 1 .. Len(pushed) : x # y /\ pushed[x] = pushed[y]
    BY <1>4, <1>5, <1>6, FS_PigeonHole
  <2> QED BY <1>1, <2>1 DEF QueueInv, PushedOnce
<1>8. Cardinality(Pushers) \in Nat
  BY ThreadsAssumption, FS_CardinalityType
<1>9. Cardinality(Orders) = Batch * Cardinality(Pushers) /\ Cardinality(Orders) \in Nat
  BY <1>3, <1>8, BatchAssumption
<1> QED BY <1>1, <1>4, <1>5, <1>7, <1>9

LEMMA ChannelStep == QueueInv /\ [QueueNext]_threadVars => [Chan!Next]_(Chan!chanVars)
<1> SUFFICES ASSUME QueueInv, [QueueNext]_threadVars PROVE [Chan!Next]_(Chan!chanVars)
  OBVIOUS
<1> USE DEF Chan!chanVars
<1>0. Len(pushed) \in Nat /\ Len(popped) \in Nat
  BY DEF QueueInv, QueueTypeInv
<1>1. ASSUME NEW p \in Pushers, PushItem(p) PROVE Chan!Next
  <2>1. Len(pushed) < Batch * Cardinality(Pushers)
    BY <1>1, PushItemKeeps, RoomBeforePush
  <2>2. Cardinality(Pushers) \in Nat
    BY ThreadsAssumption, FS_CardinalityType
  <2>3. Batch * Cardinality(Pushers) \in Nat
    BY <2>2, BatchAssumption
  <2>4. Chan!InTransit < Batch * Cardinality(Pushers)
    BY <1>0, <2>1, <2>3 DEF Chan!InTransit
  <2>5. Chan!Put(<<p, next[p]>>)
    BY <1>1, <2>4 DEF PushItem, Chan!Put
  <2> QED BY <1>1, <2>5, PushItemKeeps DEF Chan!Next
<1>2. ASSUME NEW c \in Consumers, PopItem(c) PROVE Chan!Next
  <2>1. Chan!Get
    BY <1>2, PopItemKeeps DEF Chan!Get, PopItem
  <2> QED BY <2>1 DEF Chan!Next
<1>3. CASE UNCHANGED threadVars
  BY <1>3 DEF threadVars, historyVars
<1> QED BY <1>1, <1>2, <1>3, PusherKeeps, ConsumerKeeps DEF QueueNext, Pusher, Consumer

\* The queue of mutex and condition variable is a first-in first-out channel:
\* pop returns every order once, in the order of the pushes, whatever the
\* threads do between their steps under the mutex (thread_safe_queue.hpp:11-33).
THEOREM QueueIsChannel == QueueSpec => ImplementsChannel
<1>1. QueueInit => Chan!Init
  BY DEF QueueInit, Chan!Init
<1> QED BY <1>1, ChannelStep, QueueCorrect, PTL DEF QueueSpec, ImplementsChannel, Chan!Spec

-----------------------------------------------------------------------------
(***************************************************************************)
(* Workers, producers and main: the pipeline of every symbol               *)
(***************************************************************************)

ProducerTypes ==
    /\ week \in {6, 7}
    /\ global_order_id \in Nat
    /\ ppc \in [Producers -> {"make", "record", "push"}]
    /\ order \in [Producers -> Nat]
    /\ made \in [Producers -> Nat]
    /\ \A p \in Producers : ppc[p] = "push" =>
          order[p] \in DOMAIN pushed_orders /\ pushed_orders[order[p]] \in Symbols
QueueTypes ==
    /\ queues \in [Symbols -> Seq(Int)] /\ pushes \in [Symbols -> Seq(Int)]
    /\ running \in [Symbols -> BOOLEAN]
WorkerTypes ==
    /\ wpc \in [Symbols -> {"loop", "pop", "match", "done"}]
    /\ hand \in [Symbols -> Int]
    /\ matched \in [Symbols -> Seq(Int)]
MainTypes == main \in {"flags", "dummies", "join"} \cup Ends
TypeInv == ProducerTypes /\ QueueTypes /\ WorkerTypes /\ MainTypes

\* A worker of week 7 ends with the first dummy it takes.
NoDummyMatched == \A s \in Symbols :
    week = 7 /\ wpc[s] \in {"loop", "pop"} => hand[s] # Dummy

\* An order is in the making only as long as its producer is not through.
OrderInMaking == \A p \in Producers : ppc[p] # "make" => made[p] < OrdersPerThread

\* main stops the workers after it has joined the producers.
Joined == \A p \in Active : made[p] = OrdersPerThread
StopsAfterJoin == main # "flags" \/ (\E s \in Symbols : ~running[s]) => Joined

NoDummy(q) == \A i \in DOMAIN q : q[i] # Dummy

PipelineInv == TypeInv /\ NoDummyMatched /\ PipelineInOrder
StopInv == OrderInMaking /\ StopsAfterJoin

LEMMA ActiveAreProducers == Active \subseteq Producers
  BY FiniteAssumption DEF Active

-----------------------------------------------------------------------------
(***************************************************************************)
(* The way of an order                                                     *)
(***************************************************************************)

\* What holds of a pipeline moves with an order from one stage to the next.
LEMMA PushMoves ==
    ASSUME NEW m \in Seq(Int), NEW h \in Seq(Int), NEW q \in Seq(Int), NEW o \in Int
    PROVE  m \o h \o Append(q, o) = Append(m \o h \o q, o)
<1>1. m \o h \in Seq(Int)
  OBVIOUS
<1>2. ASSUME NEW u \in Seq(Int) PROVE u \o Append(q, o) = Append(u \o q, o)
  OBVIOUS
<1> QED BY <1>1, <1>2

LEMMA PopMoves ==
    ASSUME NEW m \in Seq(Int), NEW q \in Seq(Int), q # <<>>
    PROVE  m \o <<>> \o q = m \o <<Head(q)>> \o Tail(q)
<1>1. Head(q) \in Int /\ Tail(q) \in Seq(Int) /\ <<Head(q)>> \in Seq(Int)
  OBVIOUS
<1>2. <<Head(q)>> \o Tail(q) = q
  OBVIOUS
<1>3. m \o <<>> = m
  OBVIOUS
<1>4. (m \o <<Head(q)>>) \o Tail(q) = m \o (<<Head(q)>> \o Tail(q))
  BY <1>1, ConcatAssociative, SMTT(40)
<1> QED BY ONLY <1>2, <1>3, <1>4

LEMMA MatchMoves ==
    ASSUME NEW m \in Seq(Int), NEW q \in Seq(Int), NEW o \in Int
    PROVE  m \o <<o>> \o q = Append(m, o) \o <<>> \o q
<1>1. m \o <<o>> = Append(m, o) /\ Append(m, o) \in Seq(Int)
  OBVIOUS
<1>2. \A u \in Seq(Int) : u \o <<>> = u
  OBVIOUS
<1> QED BY <1>1, <1>2

LEMMA ProducerKeepsPipeline ==
    ASSUME PipelineInv, NEW p \in Active, Producer(p)
    PROVE  PipelineInv'
<1> USE DEF producerVars, workerVars
<1>0. p \in Producers
  BY ActiveAreProducers
<1>1. CASE TakeId(p)
  <2>1. TypeInv'
    BY <1>0, <1>1 DEF TakeId, ProducerAt, PipelineInv, TypeInv, ProducerTypes, QueueTypes,
                      WorkerTypes, MainTypes
  <2> QED BY <1>1, <2>1 DEF TakeId, PipelineInv, NoDummyMatched, PipelineInOrder, Popped,
                            InHand
<1>2. CASE RecordOrder(p)
  <2>1. /\ ppc' = [ppc EXCEPT ![p] = "push"]
        /\ UNCHANGED <<week, global_order_id, order, made, queues, running, wpc, hand,
                       matched, main, pushes>>
    BY <1>2 DEF RecordOrder, ProducerAt
  <2>2. PICK s \in Symbols :
           pushed_orders' = [n \in DOMAIN pushed_orders \cup {order[p]} |->
                                IF n = order[p] THEN s ELSE pushed_orders[n]]
    BY <1>2 DEF RecordOrder
  <2>3. ppc \in [Producers -> {"make", "record", "push"}]
    BY DEF PipelineInv, TypeInv, ProducerTypes
  <2>4. ASSUME NEW r \in Producers, ppc'[r] = "push"
        PROVE  order[r] \in DOMAIN pushed_orders' /\ pushed_orders'[order[r]] \in Symbols
    <3>1. r = p \/ ppc[r] = "push"
      BY <1>0, <2>1, <2>3, <2>4
    <3> QED BY <2>2, <3>1 DEF PipelineInv, TypeInv, ProducerTypes
  <2>5. ppc' \in [Producers -> {"make", "record", "push"}]
    BY <1>0, <2>1, <2>3
  <2>6. TypeInv'
    BY <2>1, <2>4, <2>5 DEF PipelineInv, TypeInv, ProducerTypes, QueueTypes, WorkerTypes,
                            MainTypes
  <2> QED BY <2>1, <2>6 DEF PipelineInv, NoDummyMatched, PipelineInOrder, Popped, InHand
<1>3. CASE PushOrder(p)
  <2> DEFINE s == pushed_orders[order[p]]
             o == order[p]
  <2>1. s \in Symbols /\ o \in Int
    BY <1>0, <1>3 DEF PushOrder, PipelineInv, TypeInv, ProducerTypes
  <2>2. /\ queues' = [queues EXCEPT ![s] = Append(@, o)]
        /\ pushes' = [pushes EXCEPT ![s] = Append(@, o)]
        /\ made' = [made EXCEPT ![p] = @ + 1]
        /\ ppc' = [ppc EXCEPT ![p] = "make"]
        /\ UNCHANGED <<week, global_order_id, pushed_orders, order, running, wpc, hand,
                       matched, main>>
    BY <1>3 DEF PushOrder, Enqueue, ProducerAt
  <2> HIDE DEF s, o
  <2>3. queues \in [Symbols -> Seq(Int)] /\ pushes \in [Symbols -> Seq(Int)]
        /\ ppc \in [Producers -> {"make", "record", "push"}]
        /\ made \in [Producers -> Nat]
    BY DEF PipelineInv, TypeInv, QueueTypes, ProducerTypes
  <2>4. ppc' \in [Producers -> {"make", "record", "push"}]
        /\ \A r \in Producers : ppc'[r] = "push" => ppc[r] = "push"
    BY <1>0, <2>2, <2>3
  <2>5. made' \in [Producers -> Nat]
    BY <1>0, <2>2, <2>3
  <2>6. queues' \in [Symbols -> Seq(Int)] /\ pushes' \in [Symbols -> Seq(Int)]
    BY <2>1, <2>2, <2>3
  <2>7. TypeInv'
    BY <2>2, <2>4, <2>5, <2>6 DEF PipelineInv, TypeInv, ProducerTypes, QueueTypes,
                                  WorkerTypes, MainTypes
  <2>8. PipelineInOrder'
    <3> SUFFICES ASSUME NEW t \in Symbols
                 PROVE  pushes'[t] = matched[t] \o InHand(t) \o queues'[t]
      BY <2>2 DEF PipelineInOrder, InHand, Popped
    <3>1. matched[t] \in Seq(Int) /\ InHand(t) \in Seq(Int)
      BY DEF InHand, PipelineInv, TypeInv, WorkerTypes
    <3>2. pushes[t] = matched[t] \o InHand(t) \o queues[t]
      BY DEF PipelineInv, PipelineInOrder
    <3>3. CASE t = s
      <4>1. queues'[t] = Append(queues[t], o) /\ pushes'[t] = Append(pushes[t], o)
        BY <2>1, <2>2, <2>3, <3>3
      <4>2. queues[t] \in Seq(Int)
        BY <2>3
      <4>3. matched[t] \o InHand(t) \o Append(queues[t], o)
               = Append(matched[t] \o InHand(t) \o queues[t], o)
        BY <2>1, <3>1, <4>2, PushMoves
      <4> QED BY ONLY <3>2, <4>1, <4>3
    <3>4. CASE t # s
      BY <2>2, <2>3, <3>2, <3>4
    <3> QED BY <3>3, <3>4
  <2> QED BY <2>2, <2>7, <2>8 DEF PipelineInv, NoDummyMatched
<1> QED BY <1>1, <1>2, <1>3 DEF Producer

LEMMA WorkerKeepsPipeline ==
    ASSUME PipelineInv, NEW s \in Symbols, Worker(s)
    PROVE  PipelineInv'
<1> USE DEF producerVars, WorkerAt
<1>0. /\ queues \in [Symbols -> Seq(Int)] /\ matched \in [Symbols -> Seq(Int)]
      /\ hand \in [Symbols -> Int]
      /\ wpc \in [Symbols -> {"loop", "pop", "match", "done"}]
  BY DEF PipelineInv, TypeInv, QueueTypes, WorkerTypes
<1>1. pushes[s] = matched[s] \o InHand(s) \o queues[s]
  BY DEF PipelineInv, PipelineInOrder
<1>2. UNCHANGED <<week, producerVars, running, main, pushes>>
  BY DEF Worker, WorkerLoop, WorkerPop, WorkerBreak, WorkerMatch
<1>3. \A t \in Symbols : t # s => /\ wpc'[t] = wpc[t] /\ hand'[t] = hand[t]
                                  /\ queues'[t] = queues[t] /\ matched'[t] = matched[t]
  BY <1>0 DEF Worker, WorkerLoop, WorkerPop, Dequeue, WorkerBreak, WorkerMatch
<1>4. ASSUME WorkerTypes', queues' \in [Symbols -> Seq(Int)],
             (week = 7 /\ wpc[s] \in {"loop", "pop"} => hand[s] # Dummy)',
             pushes[s] = matched'[s] \o InHand(s)' \o queues'[s]
      PROVE  PipelineInv'
  <2>1. TypeInv'
    BY <1>2, <1>4 DEF PipelineInv, TypeInv, ProducerTypes, QueueTypes, MainTypes
  <2>2. NoDummyMatched'
    BY <1>2, <1>3, <1>4 DEF PipelineInv, NoDummyMatched
  <2>3. PipelineInOrder'
    BY <1>2, <1>3, <1>4 DEF PipelineInv, PipelineInOrder, InHand, Popped
  <2> QED BY <2>1, <2>2, <2>3 DEF PipelineInv
<1>5. CASE WorkerLoop(s)
  <2>1. wpc[s] = "loop" /\ wpc'[s] \in {"pop", "done"}
        /\ wpc' \in [Symbols -> {"loop", "pop", "match", "done"}]
        /\ UNCHANGED <<queues, hand, matched>>
    BY <1>0, <1>5 DEF WorkerLoop
  <2>2. week = 7 => hand[s] # Dummy
    BY <2>1 DEF PipelineInv, NoDummyMatched
  <2>3. InHand(s)' = InHand(s)
    BY <1>2, <2>1, <2>2 DEF InHand, Popped
  <2> QED BY <1>0, <1>1, <1>2, <1>4, <2>1, <2>2, <2>3 DEF WorkerTypes
<1>6. CASE WorkerPop(s)
  <2>1. /\ wpc[s] = "pop" /\ queues[s] # <<>>
        /\ wpc' = [wpc EXCEPT ![s] = "match"]
        /\ hand' = [hand EXCEPT ![s] = Head(queues[s])]
        /\ queues' = [queues EXCEPT ![s] = Tail(@)]
        /\ UNCHANGED matched
    BY <1>6 DEF WorkerPop, Dequeue
  <2>2. Head(queues[s]) \in Int /\ Tail(queues[s]) \in Seq(Int)
    BY <1>0, <2>1
  <2>3. InHand(s) = <<>> /\ InHand(s)' = <<Head(queues[s])>>
    BY <1>0, <2>1 DEF InHand, Popped
  <2>4. matched[s] \o <<>> \o queues[s]
           = matched[s] \o <<Head(queues[s])>> \o Tail(queues[s])
    BY <1>0, <2>1, PopMoves
  <2>5. pushes[s] = matched'[s] \o InHand(s)' \o queues'[s]
    BY <1>0, <1>1, <2>1, <2>3, <2>4
  <2>6. WorkerTypes' /\ queues' \in [Symbols -> Seq(Int)] /\ wpc'[s] = "match"
    BY <1>0, <2>1, <2>2 DEF WorkerTypes
  <2> QED BY <1>4, <2>5, <2>6
<1>7. CASE WorkerBreak(s)
  <2>1. /\ wpc[s] = "match" /\ week = 7 /\ hand[s] = Dummy
        /\ wpc' = [wpc EXCEPT ![s] = "done"]
        /\ UNCHANGED <<queues, hand, matched>>
    BY <1>7 DEF WorkerBreak
  <2>2. InHand(s)' = InHand(s)
    BY <1>0, <1>2, <2>1 DEF InHand, Popped
  <2> QED BY <1>0, <1>1, <1>4, <2>1, <2>2 DEF WorkerTypes
<1>8. CASE WorkerMatch(s)
  <2>1. /\ wpc[s] = "match" /\ ~(week = 7 /\ hand[s] = Dummy)
        /\ wpc' = [wpc EXCEPT ![s] = "loop"]
        /\ matched' = [matched EXCEPT ![s] = Append(@, hand[s])]
        /\ UNCHANGED <<queues, hand>>
    BY <1>8 DEF WorkerMatch, Matched
  <2>2. InHand(s) = <<hand[s]>> /\ InHand(s)' = <<>>
    BY <1>0, <1>2, <2>1 DEF InHand, Popped
  <2>3. matched[s] \o <<hand[s]>> \o queues[s]
           = Append(matched[s], hand[s]) \o <<>> \o queues[s]
    BY <1>0, MatchMoves
  <2>4. pushes[s] = matched'[s] \o InHand(s)' \o queues'[s]
    BY <1>0, <1>1, <2>1, <2>2, <2>3
  <2>5. WorkerTypes'
    BY <1>0, <2>1 DEF WorkerTypes
  <2>6. (week = 7 /\ wpc[s] \in {"loop", "pop"} => hand[s] # Dummy)'
    BY <1>2, <2>1
  <2> QED BY <1>0, <1>4, <2>1, <2>4, <2>5, <2>6
<1> QED BY <1>5, <1>6, <1>7, <1>8 DEF Worker

LEMMA MainKeepsPipeline ==
    ASSUME PipelineInv, Main
    PROVE  PipelineInv'
<1> USE DEF producerVars, workerVars
<1>1. CASE ClearFlags \/ Report
  <2>1. running' \in [Symbols -> BOOLEAN]
    BY <1>1 DEF ClearFlags, Report, PipelineInv, TypeInv, QueueTypes
  <2>2. MainTypes'
    BY <1>1 DEF ClearFlags, Report, MainTypes, Ends
  <2>3. UNCHANGED <<week, producerVars, queues, workerVars, pushes>>
    BY <1>1 DEF ClearFlags, Report
  <2> QED BY <2>1, <2>2, <2>3 DEF PipelineInv, TypeInv, ProducerTypes, QueueTypes,
             WorkerTypes, NoDummyMatched, PipelineInOrder, InHand, Popped
<1>2. CASE PushDummy
  <2>1. PICK s \in Symbols : Enqueue(s, Dummy)
    BY <1>2 DEF PushDummy
  <2>2. MainTypes' /\ UNCHANGED <<week, producerVars, running, workerVars>>
    BY <1>2 DEF PushDummy, MainTypes
  <2>3. queues \in [Symbols -> Seq(Int)] /\ pushes \in [Symbols -> Seq(Int)]
    BY DEF PipelineInv, TypeInv, QueueTypes
  <2>4. /\ queues' = [queues EXCEPT ![s] = Append(@, Dummy)]
        /\ pushes' = [pushes EXCEPT ![s] = Append(@, Dummy)]
        /\ Dummy \in Int
    BY <2>1 DEF Enqueue, Dummy
  <2>5. queues' \in [Symbols -> Seq(Int)] /\ pushes' \in [Symbols -> Seq(Int)]
    BY <2>3, <2>4
  <2>6. PipelineInOrder'
    <3> SUFFICES ASSUME NEW t \in Symbols
                 PROVE  pushes'[t] = matched[t] \o InHand(t) \o queues'[t]
      BY <2>2 DEF PipelineInOrder, InHand, Popped
    <3>1. matched[t] \in Seq(Int) /\ InHand(t) \in Seq(Int)
      BY DEF InHand, PipelineInv, TypeInv, WorkerTypes
    <3>2. pushes[t] = matched[t] \o InHand(t) \o queues[t]
      BY DEF PipelineInv, PipelineInOrder
    <3>3. CASE t = s
      <4>1. /\ queues'[t] = Append(queues[t], Dummy)
            /\ pushes'[t] = Append(pushes[t], Dummy)
        BY <2>3, <2>4, <3>3
      <4>2. queues[t] \in Seq(Int)
        BY <2>3
      <4>3. matched[t] \o InHand(t) \o Append(queues[t], Dummy)
               = Append(matched[t] \o InHand(t) \o queues[t], Dummy)
        BY <2>4, <3>1, <4>2, PushMoves
      <4> QED BY ONLY <3>2, <4>1, <4>3
    <3>4. CASE t # s
      BY <2>3, <2>4, <3>2, <3>4
    <3> QED BY <3>3, <3>4
  <2> QED BY <2>2, <2>5, <2>6 DEF PipelineInv, TypeInv, ProducerTypes, QueueTypes,
             WorkerTypes, NoDummyMatched
<1> QED BY <1>1, <1>2 DEF Main

LEMMA PipelineInvInit == Init => PipelineInv
  BY DEF Init, PipelineInv, TypeInv, ProducerTypes, QueueTypes, WorkerTypes, MainTypes,
         NoDummyMatched, PipelineInOrder, InHand, Popped, Dummy

LEMMA PipelineInvNext == PipelineInv /\ [Next]_vars => PipelineInv'
<1> SUFFICES ASSUME PipelineInv, [Next]_vars PROVE PipelineInv'
  OBVIOUS
<1>1. CASE UNCHANGED vars
  BY <1>1 DEF vars, producerVars, workerVars, PipelineInv, TypeInv, ProducerTypes,
       QueueTypes, WorkerTypes, MainTypes, NoDummyMatched, PipelineInOrder, InHand, Popped
<1> QED BY <1>1, ProducerKeepsPipeline, WorkerKeepsPipeline, MainKeepsPipeline DEF Next

LEMMA PipelineCorrect == Spec => []PipelineInv
  BY PipelineInvInit, PipelineInvNext, PTL DEF Spec

\* What a worker has matched, what it has in its hand and what is in its queue
\* are what was pushed for its symbol, in the order of the pushes, in a run of
\* week 6 as well as of week 7 (stress_test.cpp, exchange_runner.cpp).
THEOREM OrdersKeepTheirPlace == Spec => []PipelineInOrder
<1>1. PipelineInv => PipelineInOrder
  BY DEF PipelineInv
<1> QED BY <1>1, PipelineCorrect, PTL

-----------------------------------------------------------------------------
(***************************************************************************)
(* The shutdown                                                            *)
(***************************************************************************)
LEMMA ProducerKeepsStop ==
    ASSUME PipelineInv, StopInv, NEW p \in Active, Producer(p)
    PROVE  StopInv'
<1> USE DEF workerVars, ProducerAt
<1>0. /\ p \in Producers
      /\ ppc \in [Producers -> {"make", "record", "push"}]
      /\ order \in [Producers -> Nat] /\ made \in [Producers -> Nat]
      /\ queues \in [Symbols -> Seq(Int)]
  BY ActiveAreProducers DEF PipelineInv, TypeInv, ProducerTypes, QueueTypes
<1>1. UNCHANGED <<week, running, main, wpc, hand>>
  BY DEF Producer, TakeId, RecordOrder, PushOrder
<1>2. made[p] < OrdersPerThread
  BY <1>0 DEF Producer, TakeId, RecordOrder, PushOrder, StopInv, OrderInMaking
<1>3. main = "flags" /\ \A s \in Symbols : running[s]
  BY <1>0, <1>2, OrdersAssumption DEF StopInv, StopsAfterJoin, Joined
<1>4. OrderInMaking'
  <2>1. CASE TakeId(p)
    BY <1>0, <1>2, <2>1 DEF TakeId, StopInv, OrderInMaking
  <2>2. CASE RecordOrder(p)
    BY <1>0, <1>2, <2>2 DEF RecordOrder, StopInv, OrderInMaking
  <2>3. CASE PushOrder(p)
    BY <1>0, <2>3 DEF PushOrder, StopInv, OrderInMaking
  <2> QED BY <2>1, <2>2, <2>3 DEF Producer
<1>5. StopsAfterJoin'
  BY <1>1, <1>3 DEF StopsAfterJoin, StopInv
<1> QED BY <1>4, <1>5 DEF StopInv

LEMMA WorkerKeepsStop ==
    ASSUME StopInv, NEW s \in Symbols, Worker(s)
    PROVE  StopInv'
<1>1. UNCHANGED <<week, ppc, made, running, main>>
  BY DEF Worker, WorkerLoop, WorkerPop, WorkerBreak, WorkerMatch, producerVars
<1> QED BY <1>1 DEF StopInv, OrderInMaking, StopsAfterJoin, Joined, Active

LEMMA MainKeepsStop ==
    ASSUME StopInv, Main
    PROVE  StopInv'
<1>1. UNCHANGED <<week, ppc, made>>
  BY DEF Main, ClearFlags, PushDummy, Report, producerVars
<1>2. Joined
  BY DEF Main, ClearFlags, PushDummy, Report, StopInv, StopsAfterJoin, Joined
<1> QED BY <1>1, <1>2 DEF StopInv, OrderInMaking, StopsAfterJoin, Joined, Active

LEMMA StopInvInit == Init => StopInv
  BY DEF Init, StopInv, OrderInMaking, StopsAfterJoin

LEMMA StopInvNext == PipelineInv /\ StopInv /\ [Next]_vars => StopInv'
<1> SUFFICES ASSUME PipelineInv, StopInv, [Next]_vars PROVE StopInv'
  OBVIOUS
<1>1. CASE UNCHANGED vars
  BY <1>1 DEF vars, producerVars, workerVars, StopInv, OrderInMaking, StopsAfterJoin,
       Joined, Active
<1> QED BY <1>1, ProducerKeepsStop, WorkerKeepsStop, MainKeepsStop DEF Next

-----------------------------------------------------------------------------
(***************************************************************************)
(* The verdict.  Main compares the number of ids that workers have matched *)
(* with the number of orders it has asked for.  The two are equal only if  *)
(* no order is left, because every id is given out once, pushed once and   *)
(* matched by the worker of one symbol.                                    *)
(***************************************************************************)

\* Every id is taken once: as many as producers have begun to make.
InMaking(p) == ppc[p] # "make"
Begun == [p \in Producers |-> made[p] + (IF InMaking(p) THEN 1 ELSE 0)]
IdsCounted == global_order_id = 1 + SumFunctionOnSet(Begun, Producers)

\* An id that has been taken is in the making by one producer, or has been pushed.
WasPushed(ps, n) == \E s \in Symbols : \E i \in DOMAIN ps[s] : ps[s][i] = n
IdsTaken == 1 .. global_order_id - 1
IdsPlaced ==
    /\ \A p \in Producers : InMaking(p) => order[p] \in IdsTaken /\ ~WasPushed(pushes, order[p])
    /\ \A p, r \in Producers : InMaking(p) /\ InMaking(r) /\ order[p] = order[r] => p = r
    /\ \A n \in IdsTaken : WasPushed(pushes, n) \/ \E p \in Producers : InMaking(p) /\ order[p] = n
    /\ \A s \in Symbols : \A i \in DOMAIN pushes[s] :
          pushes[s][i] = Dummy \/ pushes[s][i] \in IdsTaken

\* Nothing is pushed twice, but a dummy for each symbol.
IdsOnce ==
    \A s, t \in Symbols : \A i \in DOMAIN pushes[s], j \in DOMAIN pushes[t] :
       pushes[s][i] = pushes[t][j] => IF s = t THEN i = j ELSE pushes[s][i] = Dummy
IdInv == IdsCounted /\ IdsPlaced /\ IdsOnce

\* main has joined the workers when it gives its verdict.
WorkersJoined == main \in Ends => \A s \in Symbols : wpc[s] = "done"

\* The stress test tells the dummy from an order.
DummyNotMatched == \A s \in Symbols : week = 7 => NoDummy(matched[s])
EndInv == WorkersJoined /\ DummyNotMatched /\ VerdictIsRight

LEMMA BegunAdds ==
    ASSUME PipelineInv
    PROVE  Summable(Begun, Producers) /\ DOMAIN Begun = Producers
<1>1. \A p \in Producers : Begun[p] \in Int
  BY DEF PipelineInv, TypeInv, ProducerTypes, Begun
<1> QED BY <1>1, FiniteAssumption DEF Summable, Begun

LEMMA IdInvInit == Init => IdInv
<1> SUFFICES ASSUME Init PROVE IdInv
  OBVIOUS
<1>1. \A p \in Producers : Begun[p] = 0
  BY DEF Init, Begun, InMaking
<1>2. SumFunctionOnSet(Begun, Producers) = 0
  BY <1>1, FiniteAssumption, SumOfZeros
<1>3. IdsTaken = {} /\ \A s \in Symbols : pushes[s] = <<>>
  BY DEF Init, IdsTaken
<1> QED BY <1>2, <1>3 DEF Init, IdInv, IdsCounted, IdsPlaced, IdsOnce, InMaking

LEMMA TakeIdKeepsIds ==
    ASSUME PipelineInv, IdInv, NEW p \in Producers, TakeId(p)
    PROVE  IdInv'
<1>1. /\ ppc \in [Producers -> {"make", "record", "push"}] /\ made \in [Producers -> Nat]
      /\ order \in [Producers -> Nat] /\ global_order_id \in Nat
  BY DEF PipelineInv, TypeInv, ProducerTypes
<1>2. /\ ppc[p] = "make" /\ ppc' = [ppc EXCEPT ![p] = "record"]
      /\ order' = [order EXCEPT ![p] = global_order_id]
      /\ global_order_id' = global_order_id + 1 /\ pushes' = pushes /\ made' = made
  BY DEF TakeId, ProducerAt
<1>3. Summable(Begun, Producers)
  BY BegunAdds
<1>4. /\ Begun'[p] = Begun[p] + 1 /\ \A r \in Producers \ {p} : Begun'[r] = Begun[r]
      /\ Begun[p] \in Int
  BY <1>1, <1>2 DEF Begun, InMaking
<1>5. IdsCounted'
  <2>1. SumFunctionOnSet(Begun', Producers)
          = SumFunctionOnSet(Begun, Producers) - Begun[p] + Begun'[p]
    <3>1. PICK f : f = Begun
      OBVIOUS
    <3>2. PICK g : g = Begun'
      OBVIOUS
    <3>3. Summable(f, Producers) /\ g[p] \in Int /\ \A r \in Producers : r # p => f[r] = g[r]
      BY <1>3, <1>4, <3>1, <3>2
    <3>4. SumFunctionOnSet(g, Producers) = SumFunctionOnSet(f, Producers) - f[p] + g[p]
      BY <3>3, SumChanges, Zenon
    <3> QED BY <3>1, <3>2, <3>4
  <2>2. SumFunctionOnSet(Begun, Producers) \in Int
    BY <1>3, SumIsNumber
  <2> QED BY <1>2, <1>4, <2>1, <2>2 DEF IdInv, IdsCounted
<1>6. /\ IdsTaken' = IdsTaken \cup {global_order_id} /\ global_order_id \notin IdsTaken
      /\ global_order_id # Dummy
  <2>1. global_order_id # 0
    <3>1. \A r \in Producers : 0 <= Begun[r]
      BY <1>1 DEF Begun
    <3>2. 0 <= SumFunctionOnSet(Begun, Producers)
      BY <1>3, <3>1, SumNotNegative
    <3>3. SumFunctionOnSet(Begun, Producers) \in Int
      BY <1>3, SumIsNumber
    <3> QED BY <3>2, <3>3 DEF IdInv, IdsCounted
  <2> QED BY <1>1, <1>2, <2>1 DEF IdsTaken, Dummy
<1>7. \A n : WasPushed(pushes', n) <=> WasPushed(pushes, n)
  BY <1>2 DEF WasPushed
<1>8. ~WasPushed(pushes, global_order_id)
  BY <1>6 DEF WasPushed, IdInv, IdsPlaced
<1>9. \A r \in Producers : r # p => /\ InMaking(r)' <=> InMaking(r)
                                    /\ order'[r] = order[r]
  BY <1>1, <1>2 DEF InMaking
<1>10. order'[p] = global_order_id /\ InMaking(p)' /\ ~InMaking(p)
  BY <1>1, <1>2 DEF InMaking
<1>11. \A r \in Producers :
          InMaking(r)' => order'[r] \in IdsTaken' /\ ~WasPushed(pushes', order'[r])
  BY <1>6, <1>7, <1>8, <1>9, <1>10 DEF IdInv, IdsPlaced
<1>12. \A r, u \in Producers : InMaking(r)' /\ InMaking(u)' /\ order'[r] = order'[u] => r = u
  BY <1>6, <1>9, <1>10 DEF IdInv, IdsPlaced
<1>13. \A n \in IdsTaken' :
          WasPushed(pushes', n) \/ \E r \in Producers : InMaking(r)' /\ order'[r] = n
  BY <1>6, <1>7, <1>9, <1>10 DEF IdInv, IdsPlaced
<1>14. IdsPlaced'
  BY <1>2, <1>6, <1>11, <1>12, <1>13 DEF IdInv, IdsPlaced
<1>15. IdsOnce'
  BY <1>2 DEF IdInv, IdsOnce
<1> QED BY <1>5, <1>14, <1>15 DEF IdInv

\* What is pushed after an order o has been pushed for s.
LEMMA OneMorePush ==
    ASSUME PipelineInv, NEW s \in Symbols, NEW o \in Int,
           pushes' = [pushes EXCEPT ![s] = Append(@, o)]
    PROVE  \E k :
              /\ k \notin DOMAIN pushes[s] /\ k \in DOMAIN pushes'[s] /\ pushes'[s][k] = o
              /\ \A t \in Symbols : \A i \in DOMAIN pushes[t] :
                    i \in DOMAIN pushes'[t] /\ pushes'[t][i] = pushes[t][i]
              /\ \A t \in Symbols : \A i \in DOMAIN pushes'[t] :
                    i \in DOMAIN pushes[t] \/ (t = s /\ i = k)
<1>1. pushes \in [Symbols -> Seq(Int)]
  BY DEF PipelineInv, TypeInv, QueueTypes
<1> DEFINE k == Len(pushes[s]) + 1
           new == Append(pushes[s], o)
<1>2. pushes[s] \in Seq(Int)
  BY <1>1
<1>3. /\ k \notin DOMAIN pushes[s] /\ DOMAIN new = DOMAIN pushes[s] \cup {k} /\ new[k] = o
      /\ \A i \in DOMAIN pushes[s] : new[i] = pushes[s][i]
  BY <1>2
<1>4. pushes'[s] = new /\ \A t \in Symbols : t # s => pushes'[t] = pushes[t]
  BY <1>1
<1> HIDE DEF k, new
<1> QED BY <1>3, <1>4

\* An id, or the dummy, that has not been pushed is pushed.
LEMMA PushKeepsOnce ==
    ASSUME PipelineInv, IdInv, NEW s \in Symbols, NEW o \in Int,
           pushes' = [pushes EXCEPT ![s] = Append(@, o)],
           IF o = Dummy THEN ~HasDummy(s) ELSE ~WasPushed(pushes, o)
    PROVE  IdsOnce' /\ \A n : WasPushed(pushes', n) <=> WasPushed(pushes, n) \/ n = o
<1>1. PICK k :
         /\ k \notin DOMAIN pushes[s] /\ k \in DOMAIN pushes'[s] /\ pushes'[s][k] = o
         /\ \A t \in Symbols : \A i \in DOMAIN pushes[t] :
               i \in DOMAIN pushes'[t] /\ pushes'[t][i] = pushes[t][i]
         /\ \A t \in Symbols : \A i \in DOMAIN pushes'[t] :
               i \in DOMAIN pushes[t] \/ (t = s /\ i = k)
  BY OneMorePush
<1>2. \A n : WasPushed(pushes', n) <=> WasPushed(pushes, n) \/ n = o
  BY <1>1 DEF WasPushed
<1>3. \A t \in Symbols : \A i \in DOMAIN pushes[t] : pushes[t][i] = o => t # s /\ o = Dummy
  BY DEF WasPushed, HasDummy
<1>4. ASSUME NEW t \in Symbols, NEW u \in Symbols, NEW i \in DOMAIN pushes'[t],
             NEW j \in DOMAIN pushes'[u], pushes'[t][i] = pushes'[u][j]
      PROVE  IF t = u THEN i = j ELSE pushes'[t][i] = Dummy
  <2>1. CASE i \in DOMAIN pushes[t] /\ j \in DOMAIN pushes[u]
    BY <1>1, <1>4, <2>1 DEF IdInv, IdsOnce
  <2>2. CASE i \in DOMAIN pushes[t] /\ u = s /\ j = k
    BY <1>1, <1>3, <1>4, <2>2
  <2>3. CASE t = s /\ i = k /\ j \in DOMAIN pushes[u]
    BY <1>1, <1>3, <1>4, <2>3
  <2>4. CASE t = s /\ i = k /\ u = s /\ j = k
    BY <2>4
  <2> QED BY <1>1, <2>1, <2>2, <2>3, <2>4
<1>5. IdsOnce'
  BY <1>4 DEF IdsOnce
<1> QED BY <1>2, <1>5

LEMMA PushOrderKeepsIds ==
    ASSUME PipelineInv, IdInv, NEW p \in Producers, PushOrder(p)
    PROVE  IdInv'
<1>1. /\ ppc \in [Producers -> {"make", "record", "push"}] /\ made \in [Producers -> Nat]
      /\ order \in [Producers -> Nat]
  BY DEF PipelineInv, TypeInv, ProducerTypes
<1>2. /\ ppc[p] = "push" /\ ppc' = [ppc EXCEPT ![p] = "make"]
      /\ made' = [made EXCEPT ![p] = @ + 1]
      /\ order' = order /\ global_order_id' = global_order_id
  BY DEF PushOrder, ProducerAt
<1>3. PICK s \in Symbols : pushes' = [pushes EXCEPT ![s] = Append(@, order[p])]
  BY <1>1 DEF PushOrder, Enqueue, PipelineInv, TypeInv, ProducerTypes
<1>4. InMaking(p) /\ order[p] \in IdsTaken /\ ~WasPushed(pushes, order[p]) /\ order[p] # Dummy
  BY <1>1, <1>2 DEF InMaking, IdInv, IdsPlaced, Dummy
<1>5. IdsOnce' /\ \A n : WasPushed(pushes', n) <=> WasPushed(pushes, n) \/ n = order[p]
  <2> DEFINE o == order[p]
  <2>1. o \in Int /\ o # Dummy /\ ~WasPushed(pushes, o)
    BY <1>1, <1>4
  <2> HIDE DEF o
  <2>2. pushes' = [pushes EXCEPT ![s] = Append(@, o)]
    BY <1>3 DEF o
  <2>3. IdsOnce' /\ \A n : WasPushed(pushes', n) <=> WasPushed(pushes, n) \/ n = o
    BY <2>1, <2>2, PushKeepsOnce
  <2> QED BY <2>3 DEF o
<1>6. Begun' = Begun
  <2>1. \A r \in Producers : made'[r] + (IF InMaking(r)' THEN 1 ELSE 0)
                                 = made[r] + (IF InMaking(r) THEN 1 ELSE 0)
    BY <1>1, <1>2 DEF InMaking
  <2> QED BY <2>1 DEF Begun
<1>7. IdsTaken' = IdsTaken
  BY <1>2 DEF IdsTaken
<1>8. ~InMaking(p)' /\ \A r \in Producers : r # p => (InMaking(r)' <=> InMaking(r))
  BY <1>1, <1>2 DEF InMaking
<1>9. \A r \in Producers :
          InMaking(r)' => order'[r] \in IdsTaken' /\ ~WasPushed(pushes', order'[r])
  BY <1>2, <1>4, <1>5, <1>7, <1>8 DEF IdInv, IdsPlaced
<1>10. \A r, u \in Producers : InMaking(r)' /\ InMaking(u)' /\ order'[r] = order'[u] => r = u
  BY <1>2, <1>8 DEF IdInv, IdsPlaced
<1>11. \A n \in IdsTaken' :
          WasPushed(pushes', n) \/ \E r \in Producers : InMaking(r)' /\ order'[r] = n
  BY <1>2, <1>5, <1>7, <1>8 DEF IdInv, IdsPlaced
<1>12. \A t \in Symbols : \A i \in DOMAIN pushes'[t] :
          pushes'[t][i] = Dummy \/ pushes'[t][i] \in IdsTaken'
  <2> SUFFICES ASSUME NEW t \in Symbols, NEW i \in DOMAIN pushes'[t]
               PROVE  pushes'[t][i] = Dummy \/ pushes'[t][i] \in IdsTaken
    BY <1>7
  <2>1. WasPushed(pushes', pushes'[t][i])
    BY DEF WasPushed
  <2>2. WasPushed(pushes, pushes'[t][i]) \/ pushes'[t][i] = order[p]
    BY <1>5, <2>1
  <2> QED BY <1>4, <2>2 DEF WasPushed, IdInv, IdsPlaced
<1>13. IdsPlaced'
  BY <1>9, <1>10, <1>11, <1>12 DEF IdsPlaced
<1> QED BY <1>2, <1>5, <1>6, <1>13 DEF IdInv, IdsCounted

LEMMA PushDummyKeepsIds ==
    ASSUME PipelineInv, IdInv, PushDummy
    PROVE  IdInv'
<1>1. PICK s \in Symbols : ~HasDummy(s) /\ pushes' = [pushes EXCEPT ![s] = Append(@, Dummy)]
  BY DEF PushDummy, Enqueue
<1>2. UNCHANGED <<ppc, made, order, global_order_id>>
  BY DEF PushDummy, producerVars
<1>3. Dummy \in Int /\ \A n \in IdsTaken : n # Dummy
  BY DEF Dummy, IdsTaken
<1>4. IdsOnce' /\ \A n : WasPushed(pushes', n) <=> WasPushed(pushes, n) \/ n = Dummy
  BY <1>1, <1>3, PushKeepsOnce
<1>5. /\ Begun' = Begun /\ IdsTaken' = IdsTaken
      /\ \A p \in Producers : InMaking(p)' <=> InMaking(p)
  BY <1>2 DEF Begun, IdsTaken, InMaking
<1>6. \A t \in Symbols : \A i \in DOMAIN pushes'[t] :
          pushes'[t][i] = Dummy \/ pushes'[t][i] \in IdsTaken'
  <2> SUFFICES ASSUME NEW t \in Symbols, NEW i \in DOMAIN pushes'[t]
               PROVE  pushes'[t][i] = Dummy \/ pushes'[t][i] \in IdsTaken
    BY <1>5
  <2>1. WasPushed(pushes', pushes'[t][i])
    BY DEF WasPushed
  <2>2. WasPushed(pushes, pushes'[t][i]) \/ pushes'[t][i] = Dummy
    BY <1>4, <2>1
  <2> QED BY <2>2 DEF WasPushed, IdInv, IdsPlaced
<1>7. \A p \in Producers : InMaking(p) => order[p] \in IdsTaken /\ ~WasPushed(pushes', order[p])
  BY <1>3, <1>4 DEF IdInv, IdsPlaced
<1>8. IdsPlaced'
  BY <1>2, <1>4, <1>5, <1>6, <1>7 DEF IdInv, IdsPlaced
<1> QED BY <1>2, <1>4, <1>5, <1>8 DEF IdInv, IdsCounted

LEMMA IdInvNext == PipelineInv /\ IdInv /\ [Next]_vars => IdInv'
<1> SUFFICES ASSUME PipelineInv, IdInv, [Next]_vars PROVE IdInv'
  OBVIOUS
<1>1. ASSUME NEW p \in Active, Producer(p) PROVE IdInv'
  <2>1. p \in Producers
    BY ActiveAreProducers
  <2>2. CASE RecordOrder(p)
    <3>1. /\ UNCHANGED <<made, order, global_order_id, pushes>>
          /\ \A r \in Producers : InMaking(r)' <=> InMaking(r)
      BY <2>1, <2>2 DEF RecordOrder, ProducerAt, InMaking, PipelineInv, TypeInv, ProducerTypes
    <3>2. /\ Begun' = Begun /\ IdsTaken' = IdsTaken
          /\ \A n : WasPushed(pushes', n) <=> WasPushed(pushes, n)
      BY <3>1 DEF Begun, IdsTaken, WasPushed
    <3> QED BY <3>1, <3>2 DEF IdInv, IdsCounted, IdsPlaced, IdsOnce
  <2> QED BY <1>1, <2>1, <2>2, TakeIdKeepsIds, PushOrderKeepsIds DEF Producer
<1>2. CASE PushDummy
  BY <1>2, PushDummyKeepsIds
<1>3. CASE \/ \E s \in Symbols : Worker(s)
           \/ ClearFlags \/ Report \/ UNCHANGED vars
  <2>1. UNCHANGED <<ppc, made, order, global_order_id, pushes>>
    BY <1>3 DEF Worker, WorkerLoop, WorkerPop, WorkerBreak, WorkerMatch, ClearFlags, Report,
                vars, producerVars
  <2>2. /\ Begun' = Begun /\ IdsTaken' = IdsTaken
        /\ \A n : WasPushed(pushes', n) <=> WasPushed(pushes, n)
        /\ \A r \in Producers : InMaking(r)' <=> InMaking(r)
    BY <2>1 DEF Begun, IdsTaken, WasPushed, InMaking
  <2> QED BY <2>1, <2>2 DEF IdInv, IdsCounted, IdsPlaced, IdsOnce
<1> QED BY <1>1, <1>2, <1>3 DEF Next, Main

\* Where the members of a pipeline m, h, q are in u.
Members(m, h, q, u) ==
    /\ \A i \in DOMAIN m : i \in DOMAIN u /\ u[i] = m[i] /\ i <= Len(m)
    /\ \A j \in DOMAIN q : /\ Len(m) + Len(h) + j \in DOMAIN u
                           /\ u[Len(m) + Len(h) + j] = q[j]
    /\ \A i \in DOMAIN u : \/ \E j \in DOMAIN m : u[i] = m[j]
                           \/ \E j \in DOMAIN h : u[i] = h[j]
                           \/ \E j \in DOMAIN q : u[i] = q[j]

LEMMA PipelineMembers ==
    ASSUME NEW m \in Seq(Int), NEW h \in Seq(Int), NEW q \in Seq(Int), NEW u, u = m \o h \o q
    PROVE  Members(m, h, q, u)
<1>1. /\ Len(m) \in Nat /\ Len(h) \in Nat /\ Len(q) \in Nat
      /\ DOMAIN m = 1 .. Len(m) /\ DOMAIN h = 1 .. Len(h) /\ DOMAIN q = 1 .. Len(q)
  OBVIOUS
<1>2. /\ m \o h \in Seq(Int) /\ Len(m \o h) = Len(m) + Len(h)
      /\ \A i \in 1 .. Len(m) + Len(h) :
            (m \o h)[i] = IF i <= Len(m) THEN m[i] ELSE h[i - Len(m)]
  BY ConcatProperties
<1> DEFINE mh == m \o h
<1>3. mh \in Seq(Int) /\ Len(mh) = Len(m) + Len(h) /\ u = mh \o q
  BY <1>2
<1>9. mh \in Seq(Int)
  BY <1>2
<1> HIDE DEF mh
<1>4. /\ u \in Seq(Int) /\ Len(u) = Len(mh) + Len(q)
      /\ \A i \in 1 .. Len(mh) + Len(q) : u[i] = IF i <= Len(mh) THEN mh[i] ELSE q[i - Len(mh)]
  <2>1. /\ (mh \o q) \in Seq(Int) /\ Len(mh \o q) = Len(mh) + Len(q)
        /\ \A i \in 1 .. Len(mh) + Len(q) :
              (mh \o q)[i] = IF i <= Len(mh) THEN mh[i] ELSE q[i - Len(mh)]
    BY <1>9, ConcatProperties
  <2> QED BY <1>3, <2>1
<1>5. DOMAIN u = 1 .. Len(m) + Len(h) + Len(q)
  BY <1>3, <1>4
<1>6. \A i \in DOMAIN m : i \in DOMAIN u /\ u[i] = m[i] /\ i <= Len(m)
  BY <1>1, <1>2, <1>3, <1>4, <1>5 DEF mh
<1>7. ASSUME NEW j \in DOMAIN q
      PROVE  Len(m) + Len(h) + j \in DOMAIN u /\ u[Len(m) + Len(h) + j] = q[j]
  <2>1. /\ Len(mh) + j \in 1 .. Len(mh) + Len(q) /\ ~(Len(mh) + j <= Len(mh))
        /\ (Len(mh) + j) - Len(mh) = j
    BY <1>1, <1>3
  <2>2. u[Len(mh) + j] = q[j]
    BY <1>4, <2>1
  <2> QED BY <1>3, <1>4, <2>1, <2>2
<1>8. ASSUME NEW i \in DOMAIN u
      PROVE  \/ \E j \in DOMAIN m : u[i] = m[j]
             \/ \E j \in DOMAIN h : u[i] = h[j]
             \/ \E j \in DOMAIN q : u[i] = q[j]
  <2>1. i \in Nat /\ i >= 1 /\ i <= Len(m) + Len(h) + Len(q)
    BY <1>1, <1>5
  <2>2. CASE i <= Len(m)
    <3>1. i \in DOMAIN m
      BY <1>1, <2>1, <2>2
    <3> QED BY <1>6, <3>1
  <2>3. CASE ~(i <= Len(m)) /\ i <= Len(m) + Len(h)
    <3>1. i - Len(m) \in DOMAIN h /\ i \in 1 .. Len(m) + Len(h) /\ i \in 1 .. Len(mh) + Len(q)
      BY <1>1, <1>3, <2>1, <2>3
    <3>2. u[i] = mh[i]
      BY <1>3, <1>4, <2>3, <3>1
    <3>3. mh[i] = h[i - Len(m)]
      BY <1>2, <2>3, <3>1 DEF mh
    <3> QED BY <3>1, <3>2, <3>3
  <2>4. CASE ~(i <= Len(m) + Len(h))
    <3>1. i - Len(mh) \in DOMAIN q /\ i \in 1 .. Len(mh) + Len(q) /\ ~(i <= Len(mh))
      BY <1>1, <1>3, <2>1, <2>4
    <3>2. u[i] = q[i - Len(mh)]
      BY <1>4, <3>1
    <3> QED BY <3>1, <3>2
  <2> QED BY <2>2, <2>3, <2>4
<1> QED BY <1>6, <1>7, <1>8 DEF Members

\* All workers have ended: what has been pushed was matched, or is in a queue, or
\* is the dummy.
AllDone == /\ week = 7 /\ Joined /\ DummyNotMatched
           /\ \A s \in Symbols : wpc[s] = "done"

LEMMA PushedWhenDone ==
    ASSUME PipelineInv, AllDone, NEW s \in Symbols
    PROVE  /\ matched[s] \in Seq(Int) /\ queues[s] \in Seq(Int)
           /\ \A i \in DOMAIN matched[s] : /\ i \in DOMAIN pushes[s]
                                           /\ pushes[s][i] = matched[s][i]
                                           /\ matched[s][i] # Dummy
           /\ \A i \in DOMAIN pushes[s] :
                 \/ pushes[s][i] = Dummy \/ pushes[s][i] \in MatchedIds(s)
                 \/ \E j \in DOMAIN queues[s] : pushes[s][i] = queues[s][j]
           /\ \E k \in Nat : \A j \in DOMAIN queues[s] :
                 /\ k + j \in DOMAIN pushes[s] /\ pushes[s][k + j] = queues[s][j]
                 /\ k + j \notin DOMAIN matched[s]
<1> DEFINE m == matched[s]
           h == InHand(s)
           q == queues[s]
           u == pushes[s]
           k == Len(m) + Len(h)
<1>1. m \in Seq(Int) /\ h \in Seq(Int) /\ q \in Seq(Int) /\ u = m \o h \o q
  BY DEF PipelineInv, PipelineInOrder, TypeInv, QueueTypes, WorkerTypes, InHand
<1>2. \A j \in DOMAIN h : h[j] = Dummy
  BY DEF AllDone, InHand, Popped
<1>3. NoDummy(m) /\ MatchedIds(s) = {m[i] : i \in DOMAIN m}
  BY DEF AllDone, DummyNotMatched, MatchedIds
<1> HIDE DEF m, h, q, u
<1>4. /\ \A i \in DOMAIN m : i \in DOMAIN u /\ u[i] = m[i] /\ i <= Len(m)
      /\ \A j \in DOMAIN q : k + j \in DOMAIN u /\ u[k + j] = q[j]
      /\ \A i \in DOMAIN u : \/ \E j \in DOMAIN m : u[i] = m[j]
                             \/ \E j \in DOMAIN h : u[i] = h[j]
                             \/ \E j \in DOMAIN q : u[i] = q[j]
  <2> HIDE DEF k
  <2>1. Members(m, h, q, u)
    BY <1>1, PipelineMembers
  <2> QED BY <2>1 DEF k, Members
<1>5. k \in Nat /\ \A j \in DOMAIN q : ~(k + j <= Len(m))
  <2>1. Len(m) \in Nat /\ Len(h) \in Nat /\ DOMAIN q = 1 .. Len(q) /\ Len(q) \in Nat
    BY <1>1
  <2> QED BY <2>1
<1> HIDE DEF k
<1>6. \A j \in DOMAIN q : k + j \notin DOMAIN m
  BY <1>4, <1>5
<1>7. \A i \in DOMAIN u : \/ u[i] = Dummy \/ u[i] \in MatchedIds(s)
                          \/ \E j \in DOMAIN q : u[i] = q[j]
  BY <1>2, <1>3, <1>4
<1> QED BY <1>1, <1>3, <1>4, <1>5, <1>6, <1>7 DEF m, q, u, NoDummy

\* The ids that some worker has matched.
AllMatched == UNION {MatchedIds(s) : s \in Symbols}

LEMMA MatchedIsCounted ==
    ASSUME PipelineInv, StopInv, IdInv, AllDone
    PROVE  /\ IdsTaken = Ids /\ Total \in Nat
           /\ \A n \in Ids : WasPushed(pushes, n)
           /\ AllMatched \subseteq Ids
           /\ MatchedTotal = Cardinality(AllMatched)
<1>1. \A p \in Producers : ~InMaking(p) /\ Begun[p] = OrdersPerThread
  <2>1. \A p \in Producers : made[p] = OrdersPerThread
    BY DEF AllDone, Joined, Active
  <2>2. \A p \in Producers : ~InMaking(p)
    BY <2>1, OrdersAssumption DEF StopInv, OrderInMaking, InMaking
  <2> QED BY <2>1, <2>2, OrdersAssumption DEF Begun
<1>2. SumFunctionOnSet(Begun, Producers) = Total
  BY <1>1, OrdersAssumption, FiniteAssumption, SumOfSame DEF Total
<1>3. Total \in Nat
  <2>1. Cardinality(Producers) \in Nat
    BY FiniteAssumption, FS_CardinalityType
  <2> QED BY <2>1, OrdersAssumption DEF Total
<1>4. IdsTaken = Ids
  BY <1>2, <1>3 DEF IdInv, IdsCounted, IdsTaken, Ids
<1>5. \A n \in Ids : WasPushed(pushes, n)
  BY <1>1, <1>4 DEF IdInv, IdsPlaced
<1>6. ASSUME NEW s \in Symbols PROVE MatchedIds(s) \subseteq Ids /\ IsFiniteSet(MatchedIds(s))
  <2>1. \A i \in DOMAIN matched[s] : /\ i \in DOMAIN pushes[s]
                                     /\ pushes[s][i] = matched[s][i]
                                     /\ matched[s][i] # Dummy
    BY PushedWhenDone
  <2>2. \A i \in DOMAIN matched[s] : matched[s][i] \in Ids
    BY <1>4, <2>1 DEF IdInv, IdsPlaced
  <2>3. MatchedIds(s) \subseteq Ids
    BY <2>2 DEF MatchedIds
  <2>4. IsFiniteSet(Ids)
    BY <1>3, FS_Interval DEF Ids
  <2> QED BY <2>3, <2>4, FS_Subset
<1>7. ASSUME NEW s \in Symbols, NEW t \in Symbols, s # t
      PROVE  MatchedIds(s) \cap MatchedIds(t) = {}
  <2> SUFFICES ASSUME NEW i \in DOMAIN matched[s], NEW j \in DOMAIN matched[t],
                      matched[s][i] = matched[t][j]
               PROVE  FALSE
    BY DEF MatchedIds
  <2>1. /\ i \in DOMAIN pushes[s] /\ pushes[s][i] = matched[s][i] /\ matched[s][i] # Dummy
        /\ j \in DOMAIN pushes[t] /\ pushes[t][j] = matched[t][j]
    BY PushedWhenDone
  <2> QED BY <1>7, <2>1 DEF IdInv, IdsOnce
<1>8. MatchedTotal = Cardinality(AllMatched)
  <2> DEFINE F == [s \in Symbols |-> MatchedIds(s)]
             f == [s \in Symbols |-> Cardinality(MatchedIds(s))]
  <2>1. /\ \A s \in Symbols : IsFiniteSet(F[s]) /\ f[s] = Cardinality(F[s])
        /\ \A s, t \in Symbols : s # t => F[s] \cap F[t] = {}
    BY <1>6, <1>7
  <2>2. UNION {F[s] : s \in Symbols} = AllMatched
    BY DEF AllMatched
  <2>3. MatchedTotal = SumFunctionOnSet(f, Symbols)
    BY DEF MatchedTotal, SumFunction
  <2> HIDE DEF F, f
  <2>4. SumFunctionOnSet(f, Symbols) = Cardinality(UNION {F[s] : s \in Symbols})
    BY <2>1, FiniteAssumption, SumOfSizes
  <2> QED BY <2>2, <2>3, <2>4
<1>9. AllMatched \subseteq Ids
  BY <1>6 DEF AllMatched
<1> QED BY <1>3, <1>4, <1>5, <1>8, <1>9

LEMMA CountIsRight ==
    ASSUME PipelineInv, StopInv, IdInv, AllDone
    PROVE  MatchedTotal = Total <=> NothingLeft
<1>1. /\ IdsTaken = Ids /\ Total \in Nat
      /\ \A n \in Ids : WasPushed(pushes, n)
      /\ AllMatched \subseteq Ids /\ MatchedTotal = Cardinality(AllMatched)
  BY MatchedIsCounted
<1>2. IsFiniteSet(Ids) /\ Cardinality(Ids) = Total /\ \A n \in Ids : n # Dummy
  BY <1>1, FS_Interval DEF Ids, Dummy
<1>3. ASSUME NothingLeft PROVE MatchedTotal = Total
  <2>1. ASSUME NEW n \in Ids PROVE n \in AllMatched
    <3>0. PICK s \in Symbols : \E i \in DOMAIN pushes[s] : pushes[s][i] = n
      BY <1>1 DEF WasPushed
    <3>1. PICK i \in DOMAIN pushes[s] : pushes[s][i] = n
      BY <3>0
    <3>2. \/ n = Dummy \/ n \in MatchedIds(s)
          \/ \E j \in DOMAIN queues[s] : n = queues[s][j]
      BY <3>1, PushedWhenDone
    <3>3. \A j \in DOMAIN queues[s] : queues[s][j] = Dummy
      BY <1>3 DEF NothingLeft
    <3> QED BY <1>2, <3>2, <3>3 DEF AllMatched
  <2> QED BY <1>1, <1>2, <2>1
<1>4. ASSUME MatchedTotal = Total PROVE NothingLeft
  <2>1. AllMatched = Ids
    BY <1>1, <1>2, <1>4, FS_Subset
  <2> SUFFICES ASSUME NEW s \in Symbols PROVE queues[s] \in {<<>>, <<Dummy>>}
    BY DEF NothingLeft
  <2>2. PICK k \in Nat : \A j \in DOMAIN queues[s] :
           /\ k + j \in DOMAIN pushes[s] /\ pushes[s][k + j] = queues[s][j]
           /\ k + j \notin DOMAIN matched[s]
    BY PushedWhenDone
  <2>3. ASSUME NEW j \in DOMAIN queues[s], queues[s][j] # Dummy PROVE FALSE
    <3>1. pushes[s][k + j] \in AllMatched
      BY <1>1, <2>1, <2>2, <2>3 DEF IdInv, IdsPlaced
    <3>2. PICK t \in Symbols : pushes[s][k + j] \in MatchedIds(t)
      BY <3>1 DEF AllMatched
    <3>5. PICK i \in DOMAIN matched[t] : pushes[s][k + j] = matched[t][i]
      BY <3>2 DEF MatchedIds
    <3>3. i \in DOMAIN pushes[t] /\ pushes[t][i] = matched[t][i]
      BY PushedWhenDone
    <3>4. s = t /\ k + j = i
      BY <2>2, <2>3, <3>5, <3>3 DEF IdInv, IdsOnce
    <3> QED BY <2>2, <3>5, <3>4
  <2>4. queues[s] \in Seq(Int) /\ DOMAIN queues[s] = 1 .. Len(queues[s]) /\ Len(queues[s]) \in Nat
    BY DEF PipelineInv, TypeInv, QueueTypes
  <2>5. \A i, j \in DOMAIN queues[s] : i = j
    <3> SUFFICES ASSUME NEW i \in DOMAIN queues[s], NEW j \in DOMAIN queues[s] PROVE i = j
      OBVIOUS
    <3>1. pushes[s][k + i] = pushes[s][k + j]
      BY <2>2, <2>3
    <3>2. k + i = k + j
      BY <2>2, <3>1 DEF IdInv, IdsOnce
    <3> QED BY <2>4, <3>2
  <2>6. Len(queues[s]) <= 1
    <3> SUFFICES ASSUME ~(Len(queues[s]) <= 1) PROVE FALSE
      OBVIOUS
    <3>1. 1 \in DOMAIN queues[s] /\ 2 \in DOMAIN queues[s]
      BY <2>4
    <3> QED BY <2>5, <3>1
  <2>7. CASE Len(queues[s]) = 0
    BY <2>4, <2>7
  <2>8. CASE Len(queues[s]) = 1
    <3>1. queues[s][1] = Dummy
      BY <2>3, <2>4, <2>8
    <3> QED BY <2>4, <2>8, <3>1
  <2>9. Len(queues[s]) = 0 \/ Len(queues[s]) = 1
    <3>1. \A n \in Nat : n <= 1 => n = 0 \/ n = 1
      OBVIOUS
    <3>2. Len(queues[s]) \in Nat
      BY <2>4
    <3> QED BY <2>6, <3>1, <3>2, Zenon
  <2> QED BY <2>7, <2>8, <2>9
<1> QED BY <1>3, <1>4

-----------------------------------------------------------------------------
LEMMA EndInvInit == Init => EndInv
  BY DEF Init, EndInv, WorkersJoined, DummyNotMatched, VerdictIsRight, NoDummy, Ends

LEMMA EndInvNext == PipelineInv /\ StopInv /\ IdInv /\ EndInv /\ [Next]_vars => EndInv'
<1> SUFFICES ASSUME PipelineInv, StopInv, IdInv, EndInv, [Next]_vars PROVE EndInv'
  OBVIOUS
<1> USE DEF producerVars, workerVars
\* Once main has given its verdict nobody has anything to do.
<1>1. ASSUME NEW p \in Active, Producer(p) PROVE EndInv'
  <2>1. p \in Producers /\ made[p] < OrdersPerThread
    BY <1>1, ActiveAreProducers
       DEF Producer, TakeId, RecordOrder, PushOrder, StopInv, OrderInMaking
  <2>2. main = "flags"
    BY <2>1, OrdersAssumption DEF StopInv, StopsAfterJoin, Joined
  <2>3. UNCHANGED <<week, wpc, matched, main>>
    BY <1>1 DEF Producer, TakeId, RecordOrder, PushOrder
  <2> QED BY <2>2, <2>3 DEF EndInv, WorkersJoined, DummyNotMatched, VerdictIsRight, Ends
<1>2. ASSUME NEW s \in Symbols, Worker(s) PROVE EndInv'
  <2>1. wpc[s] # "done" /\ UNCHANGED <<week, main>>
    BY <1>2 DEF Worker, WorkerLoop, WorkerPop, WorkerBreak, WorkerMatch
  <2>2. main \notin Ends
    BY <2>1 DEF EndInv, WorkersJoined
  <2>3. DummyNotMatched'
    <3>1. CASE WorkerMatch(s)
      <4>1. /\ matched' = [matched EXCEPT ![s] = Append(@, hand[s])]
            /\ week = 7 => hand[s] # Dummy
        BY <3>1 DEF WorkerMatch, Matched
      <4>2. matched \in [Symbols -> Seq(Int)] /\ hand[s] \in Int
        BY DEF PipelineInv, TypeInv, WorkerTypes
      <4>3. \A q \in Seq(Int) : \A o \in Int : NoDummy(q) /\ o # Dummy => NoDummy(Append(q, o))
        BY DEF NoDummy
      <4> QED BY <2>1, <4>1, <4>2, <4>3 DEF EndInv, DummyNotMatched
    <3>2. CASE matched' = matched
      BY <2>1, <3>2 DEF EndInv, DummyNotMatched
    <3> QED BY <1>2, <3>1, <3>2 DEF Worker, WorkerLoop, WorkerPop, WorkerBreak
  <2> QED BY <2>1, <2>2, <2>3 DEF EndInv, WorkersJoined, VerdictIsRight, Ends
<1>3. CASE ClearFlags \/ PushDummy
  BY <1>3 DEF ClearFlags, PushDummy, EndInv, WorkersJoined, DummyNotMatched, VerdictIsRight,
              Ends
<1>4. CASE Report
  <2>1. UNCHANGED <<week, queues, wpc, matched>> /\ \A s \in Symbols : wpc[s] = "done"
    BY <1>4 DEF Report
  <2>2. DummyNotMatched' /\ WorkersJoined'
    BY <2>1 DEF EndInv, WorkersJoined, DummyNotMatched
  <2>3. CASE week = 7
    <3>1. AllDone
      BY <1>4, <2>1, <2>3 DEF Report, AllDone, StopInv, StopsAfterJoin, EndInv
    <3>2. MatchedTotal = Total <=> NothingLeft
      BY <3>1, CountIsRight
    <3>3. /\ main' = "all matched" => MatchedTotal = Total
          /\ main' = "lost or duplicated" => MatchedTotal # Total
      BY <1>4, <2>3 DEF Report
    <3> QED BY <2>1, <2>2, <3>2, <3>3 DEF EndInv, VerdictIsRight, NothingLeft
  <2>4. CASE week = 6
    <3>1. main' = "stopped"
      BY <1>4, <2>4 DEF Report
    <3> QED BY <2>2, <3>1 DEF EndInv, VerdictIsRight
  <2>5. week \in {6, 7}
    BY DEF PipelineInv, TypeInv, ProducerTypes
  <2> QED BY <2>3, <2>4, <2>5
<1>5. CASE UNCHANGED vars
  BY <1>5 DEF vars, EndInv, WorkersJoined, DummyNotMatched, VerdictIsRight, NothingLeft
<1> QED BY <1>1, <1>2, <1>3, <1>4, <1>5 DEF Next, Main

\* stress_test.cpp:112-128 prints "All orders matched" exactly when no worker has
\* left an order in its queue: comparing two totals is enough, because no id is
\* matched twice and none by two workers.
THEOREM VerdictIsTrue == Spec => []VerdictIsRight
<1>1. Init => PipelineInv /\ StopInv /\ IdInv /\ EndInv
  BY PipelineInvInit, StopInvInit, IdInvInit, EndInvInit
<1>2. (PipelineInv /\ StopInv /\ IdInv /\ EndInv) /\ [Next]_vars
         => (PipelineInv /\ StopInv /\ IdInv /\ EndInv)'
  BY PipelineInvNext, StopInvNext, IdInvNext, EndInvNext
<1>3. PipelineInv /\ StopInv /\ IdInv /\ EndInv => VerdictIsRight
  BY DEF EndInv
<1> QED BY <1>1, <1>2, <1>3, PTL DEF Spec
=============================================================================
