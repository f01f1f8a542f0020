---------------------------- MODULE RingBuffers_proofs ----------------------------
(***************************************************************************)
(* Proofs about the two programs with a lock-free ring buffer.             *)
(*                                                                         *)
(* LockFreeRingBuffer, for every SIZE > 1 and every number of orders.      *)
(* Type correctness holds for any set of producers; everything else holds  *)
(* until two of them are inside push together, which a single producer     *)
(* never is.                                                               *)
(*                                                                         *)
(* LowLatency (week 11), whose one thread pushes everything and then pops: *)
(* for any set of prices, number of orders, size of the buffer and of the  *)
(* log.                                                                    *)
(***************************************************************************)
EXTENDS LowLatency, Recursion, SequenceTheorems, TLAPS

\* At most one thread calls push.
SingleProducer == \A p, q \in Producers : p = q

(***************************************************************************)
(* Arithmetic: indices never exceed 2 * SIZE - 1 before they are reduced.  *)
(***************************************************************************)

\* What % SIZE does to an index that left the buffer by less than one turn.
LEMMA ModOneTurn ==
    ASSUME NEW S \in Nat \ {0}, NEW x \in 0 .. 2 * S - 1
    PROVE  x % S = IF x < S THEN x ELSE x - S
  OBVIOUS

\* A full turn leads back to the same slot.
LEMMA ModFullTurn ==
    ASSUME NEW S \in Nat \ {0}, NEW x \in 0 .. S - 1
    PROVE  (x + S) % S = x
<1>1. x + S \in 0 .. 2 * S - 1 /\ ~(x + S < S) /\ x + S - S = x
  OBVIOUS
<1> QED BY <1>1, ModOneTurn

\* The slots met when walking from slot t: one step more can be taken at
\* either end of the walk, the walk stays in the buffer, and it meets SIZE
\* different slots.
LEMMA SlotWalk ==
    ASSUME NEW t \in Slots, NEW j \in 0 .. SIZE - 1, NEW k \in 0 .. SIZE - 1
    PROVE  /\ (t + k) % SIZE \in Slots
           /\ (t + 0) % SIZE = t
           /\ (((t + 1) % SIZE) + k) % SIZE = (t + k + 1) % SIZE
           /\ (((t + k) % SIZE) + 1) % SIZE = (t + k + 1) % SIZE
           /\ (t + j) % SIZE = (t + k) % SIZE => j = k
<1> USE SizeAssumption DEF Slots
<1>1. \A x \in 0 .. 2 * SIZE - 1 : x % SIZE = IF x < SIZE THEN x ELSE x - SIZE
  BY ModOneTurn
<1>2. (t + k) % SIZE = IF t + k < SIZE THEN t + k ELSE t + k - SIZE
  BY <1>1
<1>3. (t + j) % SIZE = IF t + j < SIZE THEN t + j ELSE t + j - SIZE
  BY <1>1
<1>4. (t + 0) % SIZE = t
  BY <1>1
<1>5. (t + k + 1) % SIZE = IF t + k + 1 < SIZE THEN t + k + 1 ELSE t + k + 1 - SIZE
  BY <1>1
<1>6. (((t + k) % SIZE) + 1) % SIZE = (t + k + 1) % SIZE
  <2>1. CASE t + k < SIZE
    BY <1>2, <2>1
  <2>2. CASE t + k >= SIZE
    <3>1. ((t + k) % SIZE) + 1 = t + k + 1 - SIZE
      BY <1>2, <2>2
    <3>2. (t + k + 1 - SIZE) % SIZE = t + k + 1 - SIZE
      BY <1>1, <2>2
    <3> QED BY <3>1, <3>2, <1>5, <2>2
  <2> QED BY <2>1, <2>2
<1>7. (((t + 1) % SIZE) + k) % SIZE = (t + k + 1) % SIZE
  <2>1. CASE t + 1 < SIZE
    <3>1. (t + 1) % SIZE = t + 1
      BY <1>1, <2>1
    <3> QED BY <3>1
  <2>2. CASE t + 1 = SIZE
    <3>1. (t + 1) % SIZE = 0
      BY <1>1, <2>2
    <3>2. k % SIZE = k
      BY <1>1
    <3> QED BY <3>1, <3>2, <1>5, <2>2
  <2> QED BY <2>1, <2>2
<1> QED BY <1>2, <1>3, <1>4, <1>6, <1>7

-----------------------------------------------------------------------------
(***************************************************************************)
(* Type correctness, for any number of producers.                          *)
(***************************************************************************)

\* TypeOK is not inductive: that `offer' stays in range needs that a thread
\* inside push still has an order to push.
TypeInv == /\ TypeOK
           /\ \A p \in Producers : pc[p] # "idle" => offer[p] <= MaxPush

LEMMA OfferInRange ==
    ASSUME TypeInv, NEW p \in Producers, pc[p] # "idle"
    PROVE  /\ offer[p] + 1 \in 1 .. MaxPush + 1
           /\ Item(p) \in Orders
<1>1. offer[p] \in 1 .. MaxPush + 1 /\ offer[p] <= MaxPush
  BY DEF TypeInv, TypeOK
<1> QED BY <1>1, BoundAssumption DEF Item, Orders

LEMMA TypeInvInductive == TypeInv /\ [Next]_ringVars => TypeInv'
<1> USE SizeAssumption, BoundAssumption
<1> SUFFICES ASSUME TypeInv, [Next]_ringVars PROVE TypeInv'
  OBVIOUS
<1> USE DEF TypeInv, TypeOK, Slots
<1>1. ASSUME NEW p \in Producers, PushReadHead(p) PROVE TypeInv'
  BY <1>1 DEF PushReadHead, consVars
<1>2. ASSUME NEW p \in Producers, NEW again \in BOOLEAN, PushFull(p, again) PROVE TypeInv'
  <2>1. CASE again
    BY <1>2, <2>1 DEF PushFull, consVars
  <2>2. CASE ~again
    <3>1. Item(p) \in Orders /\ offer[p] + 1 \in 1 .. MaxPush + 1
      BY <1>2, OfferInRange DEF PushFull
    <3>2. /\ pc[p] = "check"
          /\ offer' = [offer EXCEPT ![p] = @ + 1]
          /\ dropped' = Append(dropped, Item(p))
      BY <1>2, <2>2 DEF PushFull
    <3>3. dropped' \in Seq(Orders)
      BY <3>1, <3>2
    <3>4. offer' \in [Producers -> 1 .. MaxPush + 1]
      BY <3>1, <3>2
    <3>5. next' \in [Producers -> Slots] /\ pc'[p] = "idle"
      BY <1>2 DEF PushFull
    <3>6. \A q \in Producers : pc'[q] # "idle" => offer'[q] <= MaxPush
      <4> TAKE q \in Producers
      <4>1. CASE q = p
        BY <3>5, <4>1
      <4>2. CASE q # p
        BY <1>2, <3>2, <4>2 DEF PushFull
      <4> QED BY <4>1, <4>2
    <3>7. pc' \in [Producers -> {"idle", "check", "index", "copy", "publish"}]
      BY <1>2 DEF PushFull
    <3> QED BY <1>2, <3>3, <3>4, <3>5, <3>6, <3>7 DEF PushFull, consVars
  <2> QED BY <2>1, <2>2
<1>3. ASSUME NEW p \in Producers, PushHasRoom(p) PROVE TypeInv'
  BY <1>3 DEF PushHasRoom, consVars
<1>4. ASSUME NEW p \in Producers, PushCopyBegin(p) PROVE TypeInv'
  <2>1. Partial(p) \in Contents
    BY DEF Contents
  <2> QED BY <1>4, <2>1 DEF PushCopyBegin, consVars
<1>5. ASSUME NEW p \in Producers, PushCopyEnd(p) PROVE TypeInv'
  <2>1. Item(p) \in Contents /\ Torn \in Contents
    BY <1>5, OfferInRange DEF PushCopyEnd, Contents
  <2>2. PICK v \in Contents : buffer' = [buffer EXCEPT ![slot[p]] = v]
    BY <1>5, <2>1 DEF PushCopyEnd
  <2> QED BY <1>5, <2>2 DEF PushCopyEnd, consVars
<1>6. ASSUME NEW p \in Producers, PushPublish(p) PROVE TypeInv'
  <2>1. Item(p) \in Orders /\ offer[p] + 1 \in 1 .. MaxPush + 1
    BY <1>6, OfferInRange DEF PushPublish
  <2>2. accepted' \in Seq(Orders)
    BY <1>6, <2>1 DEF PushPublish
  <2>3. offer' \in [Producers -> 1 .. MaxPush + 1]
    BY <1>6, <2>1 DEF PushPublish
  <2> QED BY <1>6, <2>2, <2>3 DEF PushPublish, consVars
<1>7. CASE PopHasItem
  BY <1>7 DEF PopHasItem, prodVars
<1>8. CASE PopCopyBegin
  BY <1>8 DEF PopCopyBegin, prodVars
<1>9. CASE PopCopyEnd
  <2>1. taken' \in Contents
    BY <1>9 DEF PopCopyEnd, Contents
  <2> QED BY <1>9, <2>1 DEF PopCopyEnd, prodVars
<1>10. CASE PopAdvance
  <2>1. tail' \in Slots
    BY <1>10 DEF PopAdvance
  <2>2. delivered' \in Seq(Contents) /\ taken' \in Contents /\ cpc' = "idle"
    BY <1>10 DEF PopAdvance, Contents
  <2> QED BY <1>10, <2>1, <2>2 DEF PopAdvance, prodVars
<1>11. CASE UNCHANGED ringVars
  BY <1>11 DEF ringVars, prodVars, consVars
<1> QED
  BY <1>1, <1>2, <1>3, <1>4, <1>5, <1>6, <1>7, <1>8, <1>9, <1>10, <1>11
     DEF Next, Producer, Push, PushGoesOn, Pop

LEMMA InitTypes == Init => TypeInv
<1> SUFFICES ASSUME Init PROVE TypeInv
  OBVIOUS
<1>1. 0 \in Slots /\ Blank \in Contents /\ 1 \in 1 .. MaxPush + 1
  BY SizeAssumption, BoundAssumption DEF Slots, Contents
<1>2. /\ buffer \in [Slots -> Contents] /\ offer \in [Producers -> 1 .. MaxPush + 1]
      /\ next \in [Producers -> Slots] /\ slot \in [Producers -> Slots]
      /\ pc \in [Producers -> {"idle", "check", "index", "copy", "publish"}]
      /\ \A p \in Producers : pc[p] = "idle"
  BY <1>1 DEF Init
<1>3. raced \in BOOLEAN
  BY DEF Init
<1> QED BY <1>1, <1>2, <1>3 DEF Init, TypeInv, TypeOK

\* Every field and local of the queue keeps its type, whatever the number of
\* threads that push.
THEOREM TypeCorrect == Spec => []TypeOK
<1>1. Init => TypeInv
  BY InitTypes
<1>2. TypeInv => TypeOK
  BY DEF TypeInv
<1> QED BY <1>1, <1>2, TypeInvInductive, PTL DEF Spec

-----------------------------------------------------------------------------
(***************************************************************************)
(* The inductive invariant of the queue while no two pushes overlap.       *)
(***************************************************************************)

\* What the producer knows in the middle of push: head has not moved since it
\* read it, the room it saw is still there, and the slot at head is its own.
ProducerInv(p) ==
    /\ pc[p] # "idle" => next[p] = (head + 1) % SIZE
    /\ pc[p] \in {"index", "copy", "publish"} => Pending < SIZE - 1
    /\ pc[p] = "copy" => slot[p] = head /\ buffer[head] = Partial(p)
    /\ pc[p] = "publish" => buffer[head] = Item(p)

\* What the consumer knows in the middle of pop: the order it saw is still
\* there, and its copy is that order.
ConsumerInv ==
    /\ cpc # "idle" => Pending > 0
    /\ cpc \in {"copy", "advance"} => taken = buffer[tail]

OneAtATime == \A p, q \in Producers : pc[p] # "idle" /\ pc[q] # "idle" => p = q

QueueInv == /\ TypeInv
            /\ OneAtATime
            /\ WindowHoldsPending
            /\ FifoOrder
            /\ \A p \in Producers : ProducerInv(p)
            /\ ConsumerInv

\* Two pushes that overlapped once may leave the queue in any state.
RaceInv == TypeInv /\ (~raced => QueueInv)

\* The queue's fields and histories, on which Pending, WindowHoldsPending and
\* FifoOrder depend.
ringFields == <<head, tail, buffer, accepted, delivered>>

LEMMA QueueUnchanged ==
    ASSUME UNCHANGED ringFields, WindowHoldsPending, FifoOrder
    PROVE  WindowHoldsPending' /\ FifoOrder' /\ Pending' = Pending
BY DEF ringFields, WindowHoldsPending, FifoOrder, Pending

\* A write to the slot at head leaves the pending orders alone.
LEMMA WriteAtHead ==
    ASSUME QueueInv, Pending < SIZE - 1, NEW v,
           buffer' = [buffer EXCEPT ![head] = v],
           UNCHANGED <<head, tail, accepted, delivered>>
    PROVE  /\ WindowHoldsPending' /\ FifoOrder'
           /\ Pending' = Pending
           /\ buffer'[head] = v
           /\ Pending > 0 => buffer'[tail] = buffer[tail]
<1>1. /\ Pending \in 0 .. SIZE - 1 /\ tail \in Slots /\ head \in Slots
      /\ head = (tail + Pending) % SIZE
      /\ buffer \in [Slots -> Contents]
  BY DEF QueueInv, TypeInv, TypeOK, WindowHoldsPending
<1>2. Pending' = Pending /\ FifoOrder'
  BY DEF QueueInv, FifoOrder, Pending
<1>3. ASSUME NEW j \in 0 .. SIZE - 1, j < Pending
      PROVE  buffer'[(tail + j) % SIZE] = buffer[(tail + j) % SIZE]
  <2>1. (tail + j) % SIZE \in Slots /\ (tail + j) % SIZE # head
    <3>1. /\ (tail + j) % SIZE \in Slots
          /\ (tail + j) % SIZE = (tail + Pending) % SIZE => j = Pending
      BY <1>1, SlotWalk
    <3>2. j # Pending
      BY <1>1, <1>3
    <3> QED BY <1>1, <3>1, <3>2
  <2> QED BY <1>1, <2>1
<1>4. ASSUME NEW i \in 1 .. Pending
      PROVE  buffer'[(tail + i - 1) % SIZE] = accepted[Len(delivered) + i]
  <2>1. /\ i - 1 \in 0 .. SIZE - 1 /\ i - 1 < Pending
        /\ tail + (i - 1) = tail + i - 1
    BY <1>1, SizeAssumption DEF Slots
  <2>2. buffer'[(tail + i - 1) % SIZE] = buffer[(tail + i - 1) % SIZE]
    BY <1>3, <2>1
  <2> QED BY <2>2 DEF QueueInv, WindowHoldsPending
<1>5. WindowHoldsPending'
  BY <1>1, <1>2, <1>4 DEF WindowHoldsPending
<1>6. Pending > 0 => buffer'[tail] = buffer[tail]
  <2>1. (tail + 0) % SIZE = tail
    BY <1>1, SlotWalk, SizeAssumption
  <2>2. 0 \in 0 .. SIZE - 1
    BY SizeAssumption
  <2> QED BY <1>3, <2>1, <2>2
<1> QED BY <1>1, <1>2, <1>5, <1>6

LEMMA PushPreserves ==
    ASSUME QueueInv, TypeInv', NEW p \in Producers, Producer(p), ~raced'
    PROVE  QueueInv'
<1>1. /\ Pending \in 0 .. SIZE - 1 /\ tail \in Slots /\ head \in Slots
      /\ head = (tail + Pending) % SIZE
      /\ Len(accepted) \in Nat /\ Len(delivered) \in Nat
  BY DEF QueueInv, TypeInv, TypeOK, WindowHoldsPending
<1>3. ProducerInv(p) /\ ConsumerInv /\ WindowHoldsPending /\ FifoOrder
  BY DEF QueueInv
<1>4. /\ pc \in [Producers -> {"idle", "check", "index", "copy", "publish"}]
      /\ offer \in [Producers -> 1 .. MaxPush + 1]
      /\ next \in [Producers -> Slots] /\ slot \in [Producers -> Slots]
  BY DEF QueueInv, TypeInv, TypeOK
<1>0. PICK again \in BOOLEAN : Push(p, again)
  BY DEF Producer
<1>2. \A q \in Producers \ {p} : pc[q] = "idle" /\ pc'[q] = "idle"
  <2>1. \A q \in Producers \ {p} : pc[q] = "idle"
    <3>1. CASE PushReadHead(p)
      BY <3>1 DEF PushReadHead
    <3>2. CASE ~PushReadHead(p)
      <4>1. pc[p] # "idle"
        BY <1>0, <3>2 DEF Push, PushGoesOn, PushFull, PushHasRoom, PushCopyBegin,
                          PushCopyEnd, PushPublish
      <4> QED BY <4>1 DEF QueueInv, OneAtATime
    <3> QED BY <3>1, <3>2
  <2>2. \E x : pc' = [pc EXCEPT ![p] = x]
    BY <1>0 DEF Push, PushGoesOn, PushReadHead, PushFull, PushHasRoom, PushCopyBegin,
                PushCopyEnd, PushPublish
  <2> QED BY <1>4, <2>1, <2>2
<1>5. SUFFICES WindowHoldsPending' /\ FifoOrder' /\ ProducerInv(p)' /\ ConsumerInv'
  <2>1. OneAtATime'
    BY <1>2 DEF OneAtATime
  <2>2. \A q \in Producers \ {p} : ProducerInv(q)'
    BY <1>2 DEF ProducerInv
  <2> QED BY <2>1, <2>2 DEF QueueInv
<1>6. CASE PushReadHead(p)
  <2>1. UNCHANGED ringFields /\ UNCHANGED consVars
    BY <1>6 DEF PushReadHead, ringFields
  <2>2. WindowHoldsPending' /\ FifoOrder' /\ Pending' = Pending
    BY <1>3, <2>1, QueueUnchanged
  <2>3. pc'[p] = "check" /\ next'[p] = (head + 1) % SIZE
    BY <1>4, <1>6 DEF PushReadHead
  <2> QED BY <1>3, <2>1, <2>2, <2>3 DEF ProducerInv, ConsumerInv, ringFields, consVars
<1>7. CASE PushFull(p, again)
  <2>1. UNCHANGED ringFields /\ UNCHANGED consVars
    BY <1>7 DEF PushFull, ringFields
  <2>2. WindowHoldsPending' /\ FifoOrder' /\ Pending' = Pending
    BY <1>3, <2>1, QueueUnchanged
  <2>3. pc'[p] = "idle"
    BY <1>4, <1>7 DEF PushFull
  <2> QED BY <1>3, <2>1, <2>2, <2>3 DEF ProducerInv, ConsumerInv, ringFields, consVars
<1>8. CASE PushHasRoom(p)
  <2>1. UNCHANGED ringFields /\ UNCHANGED consVars
    BY <1>8 DEF PushHasRoom, ringFields
  <2>2. WindowHoldsPending' /\ FifoOrder' /\ Pending' = Pending
    BY <1>3, <2>1, QueueUnchanged
  <2>3. pc'[p] = "index" /\ next'[p] = next[p] /\ next[p] = (head + 1) % SIZE
    BY <1>3, <1>4, <1>8 DEF PushHasRoom, ProducerInv
  <2>4. Pending < SIZE - 1
    <3>1. next[p] # tail
      BY <1>8 DEF PushHasRoom
    <3>2. next[p] = (tail + Pending + 1) % SIZE
      BY <1>1, <2>3, SlotWalk
    <3>3. Pending = SIZE - 1 => (tail + Pending + 1) % SIZE = tail
      <4>1. Pending = SIZE - 1 => tail + Pending + 1 = tail + SIZE
        BY <1>1, SizeAssumption DEF Slots
      <4> QED BY <1>1, <4>1, ModFullTurn, SizeAssumption DEF Slots
    <3> QED BY <1>1, <3>1, <3>2, <3>3, SizeAssumption
  <2> QED BY <1>3, <2>1, <2>2, <2>3, <2>4 DEF ProducerInv, ConsumerInv, ringFields, consVars
<1>9. CASE PushCopyBegin(p)
  <2>1. /\ Pending < SIZE - 1
        /\ next[p] = (head + 1) % SIZE
    BY <1>3, <1>9 DEF PushCopyBegin, ProducerInv
  <2>2. /\ WindowHoldsPending' /\ FifoOrder' /\ Pending' = Pending
        /\ buffer'[head] = Partial(p)
        /\ Pending > 0 => buffer'[tail] = buffer[tail]
    BY <1>9, <2>1, WriteAtHead DEF PushCopyBegin
  <2>3. /\ pc'[p] = "copy" /\ slot'[p] = head /\ next' = next /\ head' = head
        /\ tail' = tail /\ cpc' = cpc /\ taken' = taken
    BY <1>4, <1>9 DEF PushCopyBegin, consVars
  <2>4. ProducerInv(p)'
    BY <2>1, <2>2, <2>3 DEF ProducerInv, Partial
  <2>5. ConsumerInv'
    BY <1>3, <2>2, <2>3 DEF ConsumerInv
  <2> QED BY <2>2, <2>4, <2>5
<1>10. CASE PushCopyEnd(p)
  <2>1. /\ Pending < SIZE - 1
        /\ next[p] = (head + 1) % SIZE
        /\ slot[p] = head /\ buffer[head] = Partial(p)
    BY <1>3, <1>10 DEF PushCopyEnd, ProducerInv
  <2>2. buffer' = [buffer EXCEPT ![head] = Item(p)]
    BY <1>10, <2>1 DEF PushCopyEnd
  <2>3. /\ WindowHoldsPending' /\ FifoOrder' /\ Pending' = Pending
        /\ buffer'[head] = Item(p)
        /\ Pending > 0 => buffer'[tail] = buffer[tail]
    BY <1>10, <2>1, <2>2, WriteAtHead DEF PushCopyEnd
  <2>4. /\ pc'[p] = "publish" /\ next' = next /\ head' = head
        /\ offer' = offer /\ tail' = tail /\ cpc' = cpc /\ taken' = taken
    BY <1>4, <1>10 DEF PushCopyEnd, consVars
  <2>5. ProducerInv(p)'
    BY <2>1, <2>3, <2>4 DEF ProducerInv, Item
  <2>6. ConsumerInv'
    BY <1>3, <2>3, <2>4 DEF ConsumerInv
  <2> QED BY <2>3, <2>5, <2>6
<1>11. CASE PushPublish(p)
  <2>1. /\ Pending < SIZE - 1
        /\ next[p] = (head + 1) % SIZE
        /\ buffer[head] = Item(p)
    BY <1>3, <1>11 DEF PushPublish, ProducerInv
  <2>2. /\ accepted' = Append(accepted, Item(p)) /\ head' = next[p]
        /\ pc'[p] = "idle" /\ UNCHANGED <<tail, buffer, delivered, cpc, taken>>
    BY <1>4, <1>11 DEF PushPublish, consVars
  <2>3. /\ Len(accepted') = Len(accepted) + 1
        /\ accepted'[Len(accepted) + 1] = Item(p)
        /\ \A i \in 1 .. Len(accepted) : accepted'[i] = accepted[i]
    <3>1. accepted \in Seq(Orders)
      BY DEF QueueInv, TypeInv, TypeOK
    <3> QED BY <2>2, <3>1
  <2>4. Pending' = Pending + 1
    BY <1>1, <2>2, <2>3 DEF Pending
  <2>5. FifoOrder'
    BY <1>1, <1>3, <2>2, <2>3 DEF FifoOrder
  <2>6. head' = (tail + Pending + 1) % SIZE
    BY <1>1, <2>1, <2>2, SlotWalk
  <2>7. WindowHoldsPending'
    <3>1. ASSUME NEW i \in 1 .. Pending + 1
          PROVE  buffer[(tail + i - 1) % SIZE] = accepted'[Len(delivered) + i]
      <4>1. CASE i = Pending + 1
        <5>1. /\ tail + i - 1 = tail + Pending
              /\ Len(delivered) + i = Len(accepted) + 1
          BY <1>1, <4>1 DEF Pending, Slots
        <5> QED BY <1>1, <2>1, <2>3, <5>1
      <4>2. CASE i \in 1 .. Pending
        <5>1. Len(delivered) + i \in 1 .. Len(accepted)
          BY <1>1, <4>2 DEF Pending
        <5> QED BY <1>3, <2>3, <4>2, <5>1 DEF WindowHoldsPending
      <4> QED BY <1>1, <4>1, <4>2
    <3>2. (tail + (Pending + 1)) % SIZE = (tail + Pending + 1) % SIZE
      <4>1. tail + (Pending + 1) = tail + Pending + 1
        BY <1>1 DEF Slots
      <4> QED BY <4>1
    <3>3. Pending' \in 0 .. SIZE - 1
      BY <1>1, <2>1, <2>4, SizeAssumption
    <3> QED BY <2>2, <2>4, <2>6, <3>1, <3>2, <3>3 DEF WindowHoldsPending
  <2>8. ProducerInv(p)'
    BY <2>2 DEF ProducerInv
  <2>9. ConsumerInv'
    BY <1>1, <1>3, <2>2, <2>4 DEF ConsumerInv
  <2> QED BY <2>5, <2>7, <2>8, <2>9
<1> QED BY <1>0, <1>6, <1>7, <1>8, <1>9, <1>10, <1>11 DEF Push, PushGoesOn

LEMMA PopPreserves ==
    ASSUME QueueInv, TypeInv', Pop
    PROVE  QueueInv'
<1>1. /\ Pending \in 0 .. SIZE - 1 /\ tail \in Slots /\ head \in Slots
      /\ head = (tail + Pending) % SIZE
      /\ Len(accepted) \in Nat /\ Len(delivered) \in Nat
  BY DEF QueueInv, TypeInv, TypeOK, WindowHoldsPending
<1>2. OneAtATime'
  <2>1. pc' = pc
    BY DEF Pop, PopHasItem, PopCopyBegin, PopCopyEnd, PopAdvance, prodVars
  <2> QED BY <2>1 DEF QueueInv, OneAtATime
<1>3. /\ \A p \in Producers : ProducerInv(p)
      /\ ConsumerInv /\ WindowHoldsPending /\ FifoOrder
  BY DEF QueueInv
<1>4. UNCHANGED <<head, buffer, accepted, pc, offer, next, slot>>
  BY DEF Pop, PopHasItem, PopCopyBegin, PopCopyEnd, PopAdvance, prodVars
<1>5. CASE PopHasItem \/ PopCopyBegin \/ PopCopyEnd
  <2>1. UNCHANGED ringFields
    BY <1>5 DEF PopHasItem, PopCopyBegin, PopCopyEnd, ringFields
  <2>2. WindowHoldsPending' /\ FifoOrder' /\ Pending' = Pending
    BY <1>3, <2>1, QueueUnchanged
  <2>3. \A p \in Producers : ProducerInv(p)'
    BY <1>3, <1>4, <2>2 DEF ProducerInv, Item
  <2>4. ConsumerInv'
    <3>1. CASE PopHasItem
      <4>1. Pending # 0
        BY <1>1, <3>1, SlotWalk, SizeAssumption DEF PopHasItem
      <4> QED BY <1>1, <2>2, <3>1, <4>1 DEF PopHasItem, ConsumerInv
    <3>2. CASE PopCopyBegin
      BY <1>3, <2>2, <3>2 DEF PopCopyBegin, ConsumerInv
    <3>3. CASE PopCopyEnd
      BY <1>3, <2>2, <3>3 DEF PopCopyEnd, ConsumerInv
    <3> QED BY <1>5, <3>1, <3>2, <3>3
  <2> QED BY <1>2, <2>2, <2>3, <2>4 DEF QueueInv
<1>6. CASE PopAdvance
  <2>1. /\ Pending > 0 /\ taken = buffer[tail] /\ cpc' = "idle"
        /\ tail' = (tail + 1) % SIZE /\ delivered' = Append(delivered, taken)
    BY <1>3, <1>6 DEF PopAdvance, ConsumerInv
  <2>2. /\ Len(delivered') = Len(delivered) + 1
        /\ delivered'[Len(delivered) + 1] = taken
        /\ \A i \in 1 .. Len(delivered) : delivered'[i] = delivered[i]
    <3>1. delivered \in Seq(Contents) /\ taken \in Contents
      BY DEF QueueInv, TypeInv, TypeOK
    <3> QED BY <2>1, <3>1
  <2>3. Pending' = Pending - 1
    BY <1>1, <1>4, <2>2 DEF Pending
  <2>4. ASSUME NEW i \in 1 .. Pending
        PROVE  buffer[(tail + i - 1) % SIZE] = accepted[Len(delivered) + i]
    BY <1>3 DEF WindowHoldsPending
  <2>5. taken = accepted[Len(delivered) + 1]
    <3>1. 1 \in 1 .. Pending /\ tail + 1 - 1 = tail + 0
      BY <1>1, <2>1, SizeAssumption DEF Slots
    <3>2. (tail + 0) % SIZE = tail
      BY <1>1, SlotWalk
    <3> QED BY <2>1, <2>4, <3>1, <3>2
  <2>6. FifoOrder'
    <3>1. Len(delivered') <= Len(accepted')
      BY <1>1, <1>4, <2>1, <2>2 DEF Pending
    <3>2. ASSUME NEW i \in 1 .. Len(delivered') PROVE delivered'[i] = accepted'[i]
      BY <1>1, <1>3, <1>4, <2>2, <2>5, <3>2 DEF FifoOrder
    <3> QED BY <3>1, <3>2 DEF FifoOrder
  <2>7. ASSUME NEW j \in 0 .. SIZE - 1
        PROVE  (tail' + j) % SIZE = (tail + j + 1) % SIZE
    BY <1>1, <2>1, SlotWalk
  <2>8. WindowHoldsPending'
    <3>1. Pending' \in 0 .. SIZE - 1
      BY <1>1, <2>1, <2>3, SizeAssumption
    <3>2. head' = (tail' + Pending') % SIZE
      <4>1. tail + Pending' + 1 = tail + Pending
        BY <1>1, <2>3, SizeAssumption DEF Slots
      <4> QED BY <1>1, <1>4, <2>7, <3>1, <4>1
    <3>3. ASSUME NEW i \in 1 .. Pending'
          PROVE  buffer'[(tail' + i - 1) % SIZE] = accepted'[Len(delivered') + i]
      <4>1. /\ i - 1 \in 0 .. SIZE - 1 /\ i + 1 \in 1 .. Pending
            /\ Len(delivered') + i = Len(delivered) + (i + 1)
        BY <1>1, <2>2, <2>3, SizeAssumption
      <4>2. tail' \in Int /\ tail \in Int
        BY <1>1, <2>1, SizeAssumption DEF Slots
      <4>3. /\ tail' + i - 1 = tail' + (i - 1)
            /\ tail + (i - 1) + 1 = tail + (i + 1) - 1
        BY <4>2
      <4> QED BY <1>4, <2>4, <2>7, <4>1, <4>3
    <3> QED BY <3>1, <3>2, <3>3 DEF WindowHoldsPending
  <2>9. \A p \in Producers : ProducerInv(p)'
    BY <1>1, <1>3, <1>4, <2>3, SizeAssumption DEF ProducerInv, Item
  <2>10. ConsumerInv'
    BY <2>1 DEF ConsumerInv
  <2> QED BY <1>2, <2>6, <2>8, <2>9, <2>10 DEF QueueInv
<1> QED BY <1>5, <1>6 DEF Pop

LEMMA RaceInvInductive == RaceInv /\ [Next]_ringVars => RaceInv'
<1> SUFFICES ASSUME RaceInv, [Next]_ringVars PROVE RaceInv'
  OBVIOUS
<1>1. TypeInv'
  BY TypeInvInductive DEF RaceInv
<1> SUFFICES ASSUME ~raced' PROVE QueueInv'
  BY <1>1 DEF RaceInv
<1>2. ~raced
  <2>1. raced \in BOOLEAN
    BY DEF RaceInv, TypeInv, TypeOK
  <2> QED BY <2>1 DEF Next, Producer, Push, PushGoesOn, PushReadHead, PushFull, PushHasRoom,
                 PushCopyBegin, PushCopyEnd, PushPublish, Pop, PopHasItem, PopCopyBegin,
                 PopCopyEnd, PopAdvance, ringVars
<1>3. QueueInv
  BY <1>2 DEF RaceInv
<1>4. CASE \E p \in Producers : Producer(p)
  BY <1>1, <1>3, <1>4, PushPreserves
<1>5. CASE Pop
  BY <1>1, <1>3, <1>5, PopPreserves
<1>6. CASE UNCHANGED ringVars
  <2>1. UNCHANGED ringFields /\ UNCHANGED prodVars /\ UNCHANGED consVars
    BY <1>6 DEF ringVars, ringFields
  <2>2. WindowHoldsPending' /\ FifoOrder' /\ Pending' = Pending
    BY <1>3, <2>1, QueueUnchanged DEF QueueInv
  <2>3. (\A p \in Producers : ProducerInv(p)') /\ ConsumerInv'
    BY <1>3, <2>1, <2>2
       DEF QueueInv, ProducerInv, ConsumerInv, Item, ringFields, prodVars, consVars
  <2>4. OneAtATime'
    BY <1>3, <2>1 DEF QueueInv, OneAtATime, prodVars
  <2> QED BY <1>1, <2>2, <2>3, <2>4 DEF QueueInv
<1> QED BY <1>4, <1>5, <1>6 DEF Next

LEMMA RaceInvInit == Init => RaceInv
<1> SUFFICES ASSUME Init PROVE TypeInv /\ QueueInv
  BY DEF RaceInv
<1>1. TypeInv
  BY InitTypes
<1>2. Pending = 0 /\ head = 0 /\ tail = 0 /\ Len(delivered) = 0
  BY DEF Init, Pending
<1>3. WindowHoldsPending
  <2>1. (0 + 0) % SIZE = 0
    BY SlotWalk, SizeAssumption DEF Slots
  <2> QED BY <1>2, <2>1, SizeAssumption DEF WindowHoldsPending
<1>4. FifoOrder
  BY DEF Init, FifoOrder
<1>5. (\A p \in Producers : ProducerInv(p)) /\ ConsumerInv /\ OneAtATime
  BY DEF Init, ProducerInv, ConsumerInv, OneAtATime
<1> QED BY <1>1, <1>3, <1>4, <1>5 DEF QueueInv

-----------------------------------------------------------------------------
(***************************************************************************)
(* What the queue guarantees.                                              *)
(***************************************************************************)

LEMMA RaceInvAlways == Spec => []RaceInv
  BY RaceInvInit, RaceInvInductive, PTL DEF Spec

\* However many producers there are: until two of them have been inside push
\* together, orders are popped in the order in which their pushes returned true,
\* each once, none blank or torn, and the slots from tail to head are exactly
\* the accepted orders still waiting.
THEOREM FifoWhileSerial == Spec => [](~raced => FifoOrder /\ WindowHoldsPending)
<1>1. RaceInv => (~raced => FifoOrder /\ WindowHoldsPending)
  BY DEF RaceInv, QueueInv
<1> QED BY <1>1, RaceInvAlways, PTL

\* One producer never overlaps with itself.
LEMMA SingleNeverRaces == SingleProducer /\ Spec => []~raced
<1> DEFINE Alone == SingleProducer /\ ~raced
<1>1. SingleProducer /\ Init => Alone
  BY DEF Init
<1>2. Alone /\ [Next]_ringVars => Alone'
  <2> SUFFICES ASSUME SingleProducer, ~raced, [Next]_ringVars PROVE ~raced'
    BY DEF SingleProducer
  <2>1. ASSUME NEW p \in Producers, PushReadHead(p) PROVE ~raced'
    <3>1. Producers \ {p} = {}
      BY DEF SingleProducer
    <3> QED BY <2>1, <3>1 DEF PushReadHead
  <2> QED BY <2>1 DEF Next, Producer, Push, PushGoesOn, PushFull, PushHasRoom,
                 PushCopyBegin, PushCopyEnd, PushPublish, Pop, PopHasItem, PopCopyBegin,
                 PopCopyEnd, PopAdvance, ringVars
<1>3. Alone => ~raced
  OBVIOUS
<1> QED BY <1>1, <1>2, <1>3, PTL DEF Spec

LEMMA SingleIsSerial == SingleProducer /\ Spec => []QueueInv
<1>1. RaceInv /\ ~raced => QueueInv
  BY DEF RaceInv
<1> QED BY <1>1, RaceInvAlways, SingleNeverRaces, PTL

\* With one producer that is always.
THEOREM QueueIsFifo ==
    SingleProducer /\ Spec => [](FifoOrder /\ WindowHoldsPending)
<1>1. QueueInv => FifoOrder /\ WindowHoldsPending
  BY DEF QueueInv
<1> QED BY <1>1, SingleIsSerial, PTL

\* With one producer the copy of push and the copy of pop never touch the same
\* slot.
THEOREM NoDataRace == SingleProducer /\ Spec => []NoSlotRace
<1>1. QueueInv => NoSlotRace
  <2> SUFFICES ASSUME QueueInv, NEW p \in Producers, pc[p] = "copy",
                      cpc = "copy"
               PROVE  slot[p] # tail
    BY DEF NoSlotRace, QueueInv, OneAtATime
  <2>1. /\ slot[p] = (tail + Pending) % SIZE /\ Pending > 0
        /\ Pending \in 0 .. SIZE - 1 /\ tail \in Slots
    BY DEF QueueInv, ProducerInv, ConsumerInv, WindowHoldsPending, TypeInv, TypeOK
  <2>2. 0 \in 0 .. SIZE - 1
    BY SizeAssumption
  <2>3. (tail + 0) % SIZE = tail
    BY <2>1, SlotWalk
  <2>4. (tail + 0) % SIZE = (tail + Pending) % SIZE => 0 = Pending
    BY <2>1, <2>2, SlotWalk
  <2> QED BY <2>1, <2>3, <2>4
<1> QED BY <1>1, SingleIsSerial, PTL

\* pop returns the oldest order that was accepted and not yet popped.
LEMMA PopTakesNext ==
    ASSUME QueueInv, PopAdvance
    PROVE  taken = accepted[Len(delivered) + 1] /\ Len(delivered) < Len(accepted)
<1>1. /\ Pending \in 0 .. SIZE - 1 /\ tail \in Slots
      /\ Len(accepted) \in Nat /\ Len(delivered) \in Nat
  BY DEF QueueInv, TypeInv, TypeOK, WindowHoldsPending
<1>2. Pending > 0 /\ taken = buffer[tail]
  BY DEF PopAdvance, QueueInv, ConsumerInv
<1>3. buffer[(tail + 1 - 1) % SIZE] = accepted[Len(delivered) + 1]
  BY <1>1, <1>2 DEF QueueInv, WindowHoldsPending
<1>4. (tail + 1 - 1) % SIZE = tail
  <2>1. tail + 1 - 1 = tail + 0
    BY <1>1, SizeAssumption DEF Slots
  <2> QED BY <1>1, <2>1, SlotWalk
<1> QED BY <1>1, <1>2, <1>3, <1>4 DEF Pending

\* Every step of the queue is a step of the abstract channel or invisible to
\* its users.
LEMMA StepRefines ==
    QueueInv /\ [Next]_ringVars => [Chan!Next]_(Chan!chanVars)
<1> SUFFICES ASSUME QueueInv, [Next]_ringVars
             PROVE  Chan!Next \/ UNCHANGED <<accepted, delivered, dropped>>
  BY DEF Chan!chanVars
<1>1. /\ Pending \in 0 .. SIZE - 1 /\ tail \in Slots
      /\ head = (tail + Pending) % SIZE
      /\ Len(accepted) \in Nat /\ Len(delivered) \in Nat
  BY DEF QueueInv, TypeInv, TypeOK, WindowHoldsPending
<1>2. Chan!InTransit = Pending
  BY DEF Chan!InTransit, Pending
<1>3. ASSUME NEW p \in Producers, PushFull(p, FALSE)
      PROVE  Chan!Refuse(Item(p))
  <2>1. next[p] = (head + 1) % SIZE /\ next[p] = tail
    BY <1>3 DEF PushFull, QueueInv, ProducerInv
  <2>2. Pending >= SIZE - 1
    <3>1. tail = (tail + Pending + 1) % SIZE
      BY <1>1, <2>1, SlotWalk
    <3>2. CASE Pending < SIZE - 1
      <4>1. /\ Pending + 1 \in 0 .. SIZE - 1 /\ 0 \in 0 .. SIZE - 1
            /\ tail + Pending + 1 = tail + (Pending + 1)
        BY <1>1, <3>2, SizeAssumption DEF Slots
      <4>2. /\ (tail + 0) % SIZE = tail
            /\ (tail + 0) % SIZE = (tail + (Pending + 1)) % SIZE => 0 = Pending + 1
        BY <1>1, <4>1, SlotWalk
      <4> QED BY <1>1, <3>1, <4>1, <4>2
    <3> QED BY <1>1, <3>2, SizeAssumption
  <2> QED BY <1>2, <1>3, <2>2 DEF PushFull, Chan!Refuse
<1>4. ASSUME NEW p \in Producers, PushPublish(p)
      PROVE  Chan!Put(Item(p))
  <2>1. Pending < SIZE - 1
    BY <1>4 DEF PushPublish, QueueInv, ProducerInv
  <2> QED BY <1>2, <1>4, <2>1 DEF PushPublish, Chan!Put
<1>5. ASSUME PopAdvance
      PROVE  Chan!Get
  BY <1>5, PopTakesNext DEF PopAdvance, Chan!Get
<1>6. ASSUME NEW p \in Producers, PushFull(p, FALSE) \/ PushPublish(p)
      PROVE  Item(p) \in Orders
  <2>1. pc[p] # "idle"
    BY <1>6 DEF PushFull, PushPublish
  <2> QED BY <2>1, OfferInRange DEF QueueInv
<1>7. ASSUME NEW p \in Producers, PushFull(p, TRUE)
      PROVE  UNCHANGED <<accepted, delivered, dropped>>
  BY <1>7 DEF PushFull
<1>8. ASSUME NEW p \in Producers,
             \/ PushReadHead(p) \/ PushHasRoom(p)
             \/ PushCopyBegin(p) \/ PushCopyEnd(p)
      PROVE  UNCHANGED <<accepted, delivered, dropped>>
  BY <1>8 DEF PushReadHead, PushHasRoom, PushCopyBegin, PushCopyEnd
<1>9. ASSUME PopHasItem \/ PopCopyBegin \/ PopCopyEnd
      PROVE  UNCHANGED <<accepted, delivered, dropped>>
  BY <1>9 DEF PopHasItem, PopCopyBegin, PopCopyEnd
<1>10. CASE UNCHANGED ringVars
  BY <1>10 DEF ringVars
<1> QED
  BY <1>3, <1>4, <1>5, <1>6, <1>7, <1>8, <1>9, <1>10
     DEF Next, Producer, Push, PushGoesOn, Pop, Chan!Next

\* With one producer the ring buffer implements a FIFO channel of SIZE - 1
\* orders: what a caller of push and pop sees is a behaviour of FifoChannel.
THEOREM QueueImplementsChannel == SingleProducer /\ Spec => ImplementsChannel
<1>1. Init => Chan!Init
  BY DEF Init, Chan!Init
<1> QED
  BY <1>1, SingleIsSerial, StepRefines, PTL
     DEF Spec, ImplementsChannel, Chan!Spec

-----------------------------------------------------------------------------
(***************************************************************************)
(* The demo of week 11: LowLatency                                         *)
(***************************************************************************)
Entries == [id : Nat, price : Int]
PriceLevels == [price : Int, orders : Seq(Entries)]

\* How many orders main has popped, and how many of these are in the book and
\* how many have been matched.
Popped == Len(delivered)
Booked == IF at = "add" THEN Popped - 1 ELSE Popped
Settled == IF at \in {"add", "match"} THEN Popped - 1 ELSE Popped

DemoTypes ==
    /\ entered \in Seq(Entries)
    /\ levels \in Seq(PriceLevels)
    /\ at \in {"push", "pop", "add", "match", "log", "done"}
    /\ o \in Entries
    /\ fills \in Seq(Entries) /\ traded \in Seq(Entries)
    /\ cursor \in Nat /\ log \in Seq(Nat)

\* main is alone with the queue, whose orders it has numbered upwards.
Numbered ==
    /\ ~raced /\ \A p \in Producers : pc[p] # "idle" => p = DemoThread
    /\ Len(entered) = Len(accepted)
    /\ \A i \in 1 .. Len(entered) : accepted[i] = <<DemoThread, entered[i].id>>
    /\ \A i, j \in 1 .. Len(entered) : i < j => entered[i].id < entered[j].id
    /\ \A i \in 1 .. Len(entered) : entered[i].id < offer[DemoThread]
    /\ at \in {"add", "match"} => Popped > 0 /\ o = entered[Popped]
    /\ at = "push" => Popped = 0

\* The orders of all levels but the first.
Behind == UNION {ToSet(levels[i].orders) : i \in 2 .. Len(levels)}
Sorted(s) == \A i, j \in 1 .. Len(s) : i < j => s[i].price < s[j].price
PricesOf(s) == {s[i].price : i \in 1 .. Len(s)}
Dear(m) == {entered[i] : i \in {k \in 1 .. m : ~IsCheapest(k)}}
Cheap(m) == {entered[i] : i \in {k \in 1 .. m : IsCheapest(k)}}

\* Behind the level of the lowest price rest all orders that were not as cheap as
\* those before them; that level is empty, except before a match.
DemoBook ==
    /\ Sorted(levels)
    /\ PricesOf(levels) = {entered[i].price : i \in 1 .. Booked}
    /\ Behind = Dear(Booked)
    /\ levels # <<>> =>
          levels[1].orders = IF at = "match" /\ IsCheapest(Popped) THEN <<o>> ELSE <<>>

Increasing(s) == \A i, j \in DOMAIN s : i < j => s[i].id < s[j].id

\* One order at most is still to be logged, the last that traded.
DemoTrades ==
    /\ ToSet(traded) = Cheap(Settled)
    /\ Increasing(traded)
    /\ at # "log" => fills = <<>>
    /\ fills # <<>> => traded # <<>> /\ fills = <<traded[Len(traded)]>>
    /\ log = [i \in 1 .. Fitting(Len(traded) - Len(fills)) |-> traded[i].id]
    /\ cursor = Len(log) * (MessageLength + 1)

DemoInv == RaceInv /\ DemoTypes /\ Numbered /\ DemoBook /\ DemoTrades

LEMMA DemoThreadIs == DemoThread \in Producers
  BY DemoAssumption DEF DemoThread

LEMMA PoppedIs ==
    ASSUME DemoInv
    PROVE  /\ QueueInv /\ Popped \in 0 .. Len(entered)
           /\ accepted \in Seq(Orders) /\ delivered \in Seq(Contents)
           /\ offer \in [Producers -> 1 .. MaxPush + 1]
<1>1. QueueInv
  BY DEF DemoInv, RaceInv, Numbered
<1> QED BY <1>1 DEF QueueInv, FifoOrder, TypeInv, TypeOK, DemoInv, Numbered, Popped

\* To the ring buffer every step of main is one of its own or none.
LEMMA DemoUsesRing == [DemoNext]_demoVars => [Next]_ringVars
<1> SUFFICES ASSUME [DemoNext]_demoVars PROVE [Next]_ringVars
  OBVIOUS
<1>1. CASE ThreadsRun
  BY <1>1 DEF ThreadsRun
<1>2. CASE PushTest
  <2>1. Producer(DemoThread)
    BY <1>2 DEF PushTest, Producer, Push
  <2> QED BY <2>1, DemoThreadIs DEF Next
<1>3. CASE PopNext
  BY <1>3 DEF PopNext, Next, Pop
<1>4. CASE AddOrder \/ Match \/ Log \/ UNCHANGED demoVars
  BY <1>4 DEF AddOrder, Match, Log, demoVars
<1> QED BY <1>1, <1>2, <1>3, <1>4 DEF DemoNext, DemoStep

\* A step that leaves the ring buffer and the prices alone.
LEMMA NumberedKept ==
    ASSUME DemoInv, UNCHANGED <<ringVars, entered>>,
           at' \in {"add", "match"} => at \in {"add", "match"} /\ o' = o,
           at' = "push" => at = "push"
    PROVE  RaceInv' /\ Numbered' /\ Popped' = Popped
<1>1. RaceInv'
  BY RaceInvInductive DEF DemoInv
<1>2. UNCHANGED <<raced, pc, accepted, offer, delivered>>
  BY DEF ringVars, prodVars
<1> QED BY <1>1, <1>2 DEF DemoInv, Numbered, Popped


(***************************************************************************)
(* The log: k lines fit if k times the length of a line does.              *)
(***************************************************************************)
LEMMA Rooms ==
    ASSUME NEW L \in Nat, L > 0, NEW a \in Nat
    PROVE  a \div L \in Nat /\ \A k \in Nat : k <= a \div L <=> k * L <= a
<1>1. a \div L \in Int /\ L * (a \div L) <= a /\ a < L * (a \div L) + L
  OBVIOUS
<1>2. PICK r \in Int : r = a \div L
  BY <1>1
<1>3. r >= 0
  <2>1. SUFFICES ASSUME r <= -1 PROVE FALSE
    OBVIOUS
  <2>2. L * r <= L * (-1)
    BY <2>1
  <2> QED BY <1>1, <1>2, <2>2
<1>4. ASSUME NEW k \in Nat PROVE k <= r <=> k * L <= a
  <2>1. ASSUME k <= r PROVE k * L <= a
    <3>1. L * k <= L * r
      BY <2>1
    <3> QED BY <1>1, <1>2, <3>1
  <2>2. ASSUME ~(k <= r) PROVE ~(k * L <= a)
    <3>1. r + 1 <= k
      BY <2>2
    <3>2. L * (r + 1) <= L * k
      BY <3>1
    <3> QED BY <1>1, <1>2, <3>2
  <2> QED BY <2>1, <2>2
<1> QED BY <1>2, <1>3, <1>4

Line == MessageLength + 1
LEMMA FittingIs ==
    ASSUME NEW k \in Nat
    PROVE  /\ Fitting(k) \in 0 .. k /\ Fitting(0) = 0
           /\ Fitting(k) * Line <= LogSize - 1
           /\ Fitting(k + 1) = IF (Fitting(k) + 1) * Line <= LogSize - 1 THEN k + 1
                                                                        ELSE Fitting(k)
           /\ (Fitting(k) + 1) * Line <= LogSize - 1 => Fitting(k) = k
<1>1. PICK L \in Nat, a \in Nat : L = Line /\ a = LogSize - 1 /\ L > 0
  BY DemoAssumption DEF Line
<1>2. PICK room \in Nat : room = a \div L /\ \A j \in Nat : j <= room <=> j * L <= a
  BY <1>1, Rooms
<1>3. \A j \in Nat : Fitting(j) = IF j <= room THEN j ELSE room
  BY <1>1, <1>2 DEF Fitting, Line
<1>4. Fitting(k) \in 0 .. k /\ Fitting(0) = 0 /\ Fitting(k) <= room
  BY <1>3
<1>5. (Fitting(k) + 1) * L <= a <=> Fitting(k) + 1 <= room
  BY <1>2, <1>4
<1>6. Fitting(k) * L <= a
  BY <1>2, <1>4
<1> QED BY <1>1, <1>3, <1>4, <1>5, <1>6

(***************************************************************************)
(* Sequences                                                               *)
(***************************************************************************)
LEMMA InsertIs ==
    ASSUME NEW S, NEW s \in Seq(S), NEW i \in 1 .. Len(s) + 1, NEW e \in S
    PROVE  /\ InsertAt(s, i, e) \in Seq(S) /\ Len(InsertAt(s, i, e)) = Len(s) + 1
           /\ \A k \in 1 .. Len(s) + 1 :
                 InsertAt(s, i, e)[k] = IF k < i THEN s[k] ELSE IF k = i THEN e ELSE s[k - 1]
<1>0. Len(s) \in Nat /\ i \in Nat
  OBVIOUS
<1> DEFINE a == SubSeq(s, 1, i - 1)
           b == SubSeq(s, i, Len(s))
<1>1. /\ a \in Seq(S) /\ Len(a) = i - 1 /\ \A k \in 1 .. i - 1 : a[k] = s[k]
      /\ b \in Seq(S) /\ Len(b) = Len(s) - i + 1
      /\ \A k \in 1 .. Len(s) - i + 1 : b[k] = s[i + k - 1]
  OBVIOUS
<1>2. InsertAt(s, i, e) = a \o <<e>> \o b
  BY DEF InsertAt
<1> HIDE DEF a, b
<1>3. a \o <<e>> \in Seq(S) /\ Len(a \o <<e>>) = i
      /\ \A k \in 1 .. i : (a \o <<e>>)[k] = IF k < i THEN s[k] ELSE e
  BY <1>1
<1> DEFINE c == a \o <<e>>
<1> HIDE DEF c
<1>4. c \in Seq(S) /\ Len(c) = i /\ \A k \in 1 .. i : c[k] = IF k < i THEN s[k] ELSE e
  BY <1>3 DEF c
<1>5. c \o b \in Seq(S) /\ Len(c \o b) = Len(s) + 1
  <2>1. c \o b \in Seq(S) /\ Len(c \o b) = Len(c) + Len(b)
    BY <1>1, <1>4, ConcatProperties
  <2> QED BY <1>0, <1>1, <1>4, <2>1
<1>6. ASSUME NEW k \in 1 .. Len(s) + 1
      PROVE  (c \o b)[k] = IF k < i THEN s[k] ELSE IF k = i THEN e ELSE s[k - 1]
  <2>1. CASE k <= i
    BY <1>1, <1>4, <2>1
  <2>2. CASE k > i
    <3>1. (c \o b)[k] = b[k - i] /\ k - i \in 1 .. Len(s) - i + 1
      BY <1>1, <1>4, <2>2
    <3> QED BY <1>1, <2>2, <3>1
  <2>3. k <= i \/ k > i
    BY <1>0
  <2> QED BY <2>1, <2>2, <2>3
<1> QED BY <1>2, <1>5, <1>6 DEF c

LEMMA ToSetAppend ==
    ASSUME NEW s \in Seq(Entries), NEW e \in Entries
    PROVE  ToSet(Append(s, e)) = ToSet(s) \cup {e}
<1>1. /\ DOMAIN s = 1 .. Len(s) /\ DOMAIN Append(s, e) = 1 .. Len(s) + 1 /\ Len(s) \in Nat
      /\ \A k \in 1 .. Len(s) + 1 : Append(s, e)[k] = IF k <= Len(s) THEN s[k] ELSE e
  OBVIOUS
<1>2. \A k : k \in 1 .. Len(s) + 1 <=> (k \in 1 .. Len(s) \/ k = Len(s) + 1)
  BY <1>1
<1>3. \A k \in 1 .. Len(s) : Append(s, e)[k] = s[k]
  BY <1>1
<1>4. Append(s, e)[Len(s) + 1] = e
  BY <1>1
<1>5. \A x : x \in ToSet(Append(s, e)) <=> \E k \in 1 .. Len(s) + 1 : x = Append(s, e)[k]
  BY <1>1 DEF ToSet
<1>6. \A x : x \in ToSet(s) <=> \E k \in 1 .. Len(s) : x = s[k]
  BY <1>1 DEF ToSet
<1> QED BY <1>2, <1>3, <1>4, <1>5, <1>6

LEMMA ToSetShort == ToSet(<<>>) = {} /\ \A e : ToSet(<<e>>) = {e}
  BY DEF ToSet

(***************************************************************************)
(* add_order                                                               *)
(***************************************************************************)
LEMMA LowerBoundIs ==
    ASSUME levels \in Seq(PriceLevels), NEW p \in Int
    PROVE  /\ LowerBound(p) \in 1 .. Len(levels) + 1
           /\ \A j \in 1 .. LowerBound(p) - 1 : levels[j].price < p
           /\ LowerBound(p) <= Len(levels) => levels[LowerBound(p)].price >= p
<1> DEFINE D == {i \in 1 .. Len(levels) : levels[i].price >= p} \cup {Len(levels) + 1}
<1>0. \A i \in 1 .. Len(levels) : levels[i] \in PriceLevels
  OBVIOUS
<1>1. D \in SUBSET Nat /\ D # {} /\ \A i \in 1 .. Len(levels) : levels[i].price \in Int
  <2>1. \A l \in PriceLevels : l.price \in Int
    BY DEF PriceLevels
  <2>2. Len(levels) + 1 \in Nat /\ 1 .. Len(levels) \in SUBSET Nat
    OBVIOUS
  <2> QED BY <1>0, <2>1, <2>2
<1>2. PICK m \in D : \A d \in D : m <= d
  <2> HIDE DEF D
  <2> QED BY <1>1, LeastExists
<1>3. m \in 1 .. Len(levels) + 1 /\ (m <= Len(levels) => levels[m].price >= p)
  BY <1>1
<1>4. ASSUME NEW j \in 1 .. m - 1 PROVE levels[j].price < p
  <2>1. j \in 1 .. Len(levels) /\ j < m
    BY <1>3
  <2>2. j \notin D
    BY <1>2, <1>3, <2>1
  <2> QED BY <1>1, <2>1, <2>2
<1>5. \E i \in 1 .. Len(levels) + 1 :
         /\ \A j \in 1 .. i - 1 : levels[j].price < p
         /\ i <= Len(levels) => levels[i].price >= p
  BY <1>3, <1>4
<1> QED BY <1>5 DEF LowerBound

LEMMA DearAndCheap ==
    ASSUME NEW m \in Nat, m > 0
    PROVE  /\ Dear(m) = IF IsCheapest(m) THEN Dear(m - 1) ELSE Dear(m - 1) \cup {entered[m]}
           /\ Cheap(m) = IF IsCheapest(m) THEN Cheap(m - 1) \cup {entered[m]} ELSE Cheap(m - 1)
           /\ \A f : {entered[i].price : i \in 1 .. m}
                        = {entered[i].price : i \in 1 .. m - 1} \cup {entered[m].price}
<1>1. \A k : k \in 1 .. m <=> k \in 1 .. m - 1 \/ k = m
  OBVIOUS
<1> QED BY <1>1 DEF Dear, Cheap

\* What add_order makes of the levels: the order's level is the first exactly
\* when the order is as cheap as all before it.
LEMMA AddOrderKeeps ==
    ASSUME DemoInv, AddOrder
    PROVE  levels' \in Seq(PriceLevels) /\ DemoBook'
<1> PICK m \in Nat : m = Popped
  BY PoppedIs
<1>0. levels \in Seq(PriceLevels) /\ Len(levels) \in Nat /\ o \in Entries /\ o.price \in Int
  BY DEF DemoInv, DemoTypes, Entries
<1> PICK i \in Int, p \in Int, L \in Nat : i = LowerBound(o.price) /\ p = o.price /\ L = Len(levels)
  <2>1. LowerBound(o.price) \in 1 .. Len(levels) + 1
    BY <1>0, LowerBoundIs
  <2> QED BY <1>0, <2>1
<1>1. /\ at = "add" /\ at' = "match" /\ o' = o /\ o \in Entries
      /\ m > 0 /\ o = entered[m] /\ Popped' = m /\ Booked = m - 1 /\ Booked' = m
      /\ UNCHANGED <<entered, delivered>>
  BY DEF AddOrder, ringVars, DemoInv, Numbered, DemoTypes, Popped, Booked
<1>2. /\ levels \in Seq(PriceLevels) /\ \A k \in 1 .. L : levels[k] \in PriceLevels
      /\ i \in 1 .. L + 1 /\ \A k \in 1 .. i - 1 : levels[k].price < p
      /\ i <= L => levels[i].price >= p
      /\ \A k \in 1 .. L : levels[k].price \in Int /\ levels[k].orders \in Seq(Entries)
  <2>1. \A l \in PriceLevels : l.price \in Int /\ l.orders \in Seq(Entries)
    BY DEF PriceLevels
  <2>2. \A k \in 1 .. L : levels[k] \in PriceLevels
    BY <1>0
  <2>3. /\ i \in 1 .. L + 1 /\ \A k \in 1 .. i - 1 : levels[k].price < p
        /\ i <= L => levels[i].price >= p
    BY <1>0, LowerBoundIs
  <2> QED BY <1>0, <2>1, <2>2, <2>3
<1>3. /\ Sorted(levels) /\ PricesOf(levels) = {entered[k].price : k \in 1 .. m - 1}
      /\ Behind = Dear(m - 1) /\ (L # 0 => levels[1].orders = <<>>)
  <2>1. L # 0 => levels # <<>>
    BY <1>2
  <2> QED BY <1>1, <2>1 DEF DemoInv, DemoBook
<1>4. \A k \in i .. L : levels[k].price >= p
  <2> TAKE k \in i .. L
  <2>1. k = i \/ i < k
    BY <1>2
  <2>2. i \in 1 .. L /\ k \in 1 .. L
    BY <1>2
  <2>3. i < k => levels[i].price < levels[k].price
    BY <1>3, <2>2 DEF Sorted
  <2> QED BY <1>2, <2>1, <2>2, <2>3
<1>5. IsCheapest(m) <=> i = 1
  <2>1. ASSUME i = 1, NEW j \in 1 .. m - 1 PROVE entered[j].price >= entered[m].price
    <3>1. PICK k \in 1 .. L : entered[j].price = levels[k].price
      BY <1>3 DEF PricesOf
    <3>2. k \in i .. L
      BY <2>1
    <3> QED BY <1>1, <1>4, <3>1, <3>2
  <2>2. ASSUME i # 1 PROVE ~IsCheapest(m)
    <3>1. 1 \in 1 .. i - 1 /\ 1 \in 1 .. L
      BY <1>2, <2>2
    <3>2. levels[1].price < p
      BY <1>2, <3>1
    <3>3. PICK j \in 1 .. m - 1 : entered[j].price = levels[1].price
      BY <1>3, <3>1 DEF PricesOf
    <3>4. ~(entered[j].price >= p)
      BY <1>2, <3>1, <3>2, <3>3
    <3> QED BY <1>1, <3>4 DEF IsCheapest
  <2> QED BY <2>1, <2>2 DEF IsCheapest
<1>6. /\ \A k : IsCheapest(k)' <=> IsCheapest(k)
      /\ \A k : Dear(k)' = Dear(k)
  BY <1>1 DEF IsCheapest, Dear
<1>7. Dear(m) = IF i = 1 THEN Dear(m - 1) ELSE Dear(m - 1) \cup {o}
  BY <1>1, <1>5, DearAndCheap
<1>8. {entered[k].price : k \in 1 .. m} = {entered[k].price : k \in 1 .. m - 1} \cup {p}
  BY <1>1, DearAndCheap
<1>9. SUFFICES /\ levels' \in Seq(PriceLevels) /\ Sorted(levels')
               /\ PricesOf(levels') = PricesOf(levels) \cup {p}
               /\ \A x : x \in Behind' <=> (x \in Behind \/ (x = o /\ i # 1))
               /\ levels'[1].orders = IF i = 1 THEN <<o>> ELSE <<>>
  <2> SUFFICES ASSUME /\ levels' \in Seq(PriceLevels) /\ Sorted(levels')
                      /\ PricesOf(levels') = PricesOf(levels) \cup {p}
                      /\ \A x : x \in Behind' <=> (x \in Behind \/ (x = o /\ i # 1))
                      /\ levels'[1].orders = IF i = 1 THEN <<o>> ELSE <<>>
               PROVE  levels' \in Seq(PriceLevels) /\ DemoBook'
    OBVIOUS
  <2>1. PricesOf(levels') = {entered[k].price : k \in 1 .. m}
    BY <1>3, <1>8
  <2>2. Behind' = Dear(m)
    BY <1>3, <1>7
  <2>3. levels'[1].orders = IF IsCheapest(m) THEN <<o>> ELSE <<>>
    BY <1>5
  <2> QED BY <1>1, <1>6, <2>1, <2>2, <2>3 DEF DemoBook, Sorted, PricesOf
<1>10. CASE i <= L /\ levels[i].price = p
  <2>1. /\ i \in 1 .. L
        /\ levels' = [levels EXCEPT ![i].orders = Append(@, o)]
    BY <1>2, <1>10 DEF AddOrder
  <2>2. PICK l \in PriceLevels : /\ l.price = p /\ l.orders = Append(levels[i].orders, o)
                                 /\ levels' = [levels EXCEPT ![i] = l]
    <3>1. Append(levels[i].orders, o) \in Seq(Entries)
      BY <1>1, <1>2, <2>1
    <3>2. [levels[i] EXCEPT !.orders = Append(levels[i].orders, o)] \in PriceLevels
      BY <1>2, <2>1, <3>1 DEF PriceLevels
    <3>3. levels' = [levels EXCEPT ![i] = [levels[i] EXCEPT !.orders = Append(levels[i].orders, o)]]
      BY <2>1
    <3>4. \A q : [levels[i] EXCEPT !.orders = q].price = levels[i].price
      BY <1>2, <2>1 DEF PriceLevels
    <3>5. \A q : [levels[i] EXCEPT !.orders = q].orders = q
      BY <1>2, <2>1 DEF PriceLevels
    <3> QED BY <1>10, <3>2, <3>3, <3>4, <3>5
  <2>3. /\ levels' \in Seq(PriceLevels) /\ Len(levels') = L
        /\ \A k \in 1 .. L : levels'[k] = IF k = i THEN l ELSE levels[k]
    <3>1. levels \in Seq(PriceLevels) /\ i \in 1 .. Len(levels) /\ l \in PriceLevels
      BY <1>2, <2>1
    <3> DEFINE s == [levels EXCEPT ![i] = l]
    <3>2. /\ s \in Seq(PriceLevels) /\ Len(s) = Len(levels)
          /\ \A k \in 1 .. Len(levels) : s[k] = IF k = i THEN l ELSE levels[k]
      BY ONLY <3>1, ExceptSeq
    <3> QED BY <2>2, <3>2
  <2>4. \A k \in 1 .. L : levels'[k].price = levels[k].price
    <3> TAKE k \in 1 .. L
    <3> QED BY <1>10, <2>2, <2>3
  <2>5. Sorted(levels') /\ PricesOf(levels') = PricesOf(levels) \cup {p}
    <3>1. PricesOf(levels') = PricesOf(levels)
      BY <2>3, <2>4 DEF PricesOf
    <3>2. p \in PricesOf(levels)
      BY <1>10, <2>1 DEF PricesOf
    <3> QED BY <1>3, <2>3, <2>4, <3>1, <3>2 DEF Sorted
  <2>6. ToSet(l.orders) = ToSet(levels[i].orders) \cup {o}
    <3>1. levels[i].orders \in Seq(Entries) /\ o \in Entries
      BY <1>1, <1>2, <2>1
    <3>2. ToSet(Append(levels[i].orders, o)) = ToSet(levels[i].orders) \cup {o}
      BY ONLY <3>1, ToSetAppend
    <3> QED BY <2>2, <3>2
  <2>7. ASSUME NEW x PROVE x \in Behind' <=> (x \in Behind \/ (x = o /\ i # 1))
    <3>1. x \in Behind' <=> \E k \in 2 .. L : x \in ToSet(levels'[k].orders)
      BY <2>3 DEF Behind
    <3>2. x \in Behind <=> \E k \in 2 .. L : x \in ToSet(levels[k].orders)
      BY DEF Behind
    <3>3. \A k \in 2 .. L : x \in ToSet(levels'[k].orders)
                              <=> x \in ToSet(levels[k].orders) \/ (x = o /\ k = i)
      <4> TAKE k \in 2 .. L
      <4>1. k \in 1 .. L
        OBVIOUS
      <4>2. CASE k = i
        BY <2>3, <2>6, <4>1, <4>2
      <4>3. CASE k # i
        BY <2>3, <4>1, <4>3
      <4> QED BY <4>2, <4>3
    <3>4. i # 1 <=> i \in 2 .. L
      BY <2>1
    <3> QED BY <3>1, <3>2, <3>3, <3>4
  <2>8. levels'[1].orders = IF i = 1 THEN <<o>> ELSE <<>>
    <3>1. 1 \in 1 .. L /\ L # 0
      BY <2>1
    <3>2. CASE i = 1
      <4>1. levels[1].orders = <<>> /\ l.orders = Append(levels[1].orders, o) /\ levels'[1] = l
        BY <1>3, <2>2, <2>3, <3>1, <3>2
      <4>2. Append(<<>>, o) = <<o>>
        OBVIOUS
      <4> QED BY <3>2, <4>1, <4>2
    <3>3. CASE i # 1
      BY <1>3, <2>3, <3>1, <3>3
    <3> QED BY <3>2, <3>3
  <2> QED BY <2>3, <2>5, <2>7, <2>8
<1>11. CASE ~(i <= L /\ levels[i].price = p)
  <2>1. PICK e \in PriceLevels : e = [price |-> p, orders |-> <<o>>]
    <3>1. <<o>> \in Seq(Entries)
      BY <1>1
    <3> QED BY <3>1 DEF PriceLevels
  <2>2. levels' = InsertAt(levels, i, e)
    BY <1>11, <2>1 DEF AddOrder
  <2>3. /\ levels' \in Seq(PriceLevels) /\ Len(levels') = L + 1
        /\ \A k \in 1 .. L + 1 :
              levels'[k] = IF k < i THEN levels[k] ELSE IF k = i THEN e ELSE levels[k - 1]
    <3>1. levels \in Seq(PriceLevels) /\ i \in 1 .. Len(levels) + 1 /\ e \in PriceLevels
      BY <1>2
    <3> DEFINE s == InsertAt(levels, i, e)
    <3>2. /\ s \in Seq(PriceLevels) /\ Len(s) = Len(levels) + 1
          /\ \A k \in 1 .. Len(levels) + 1 :
                s[k] = IF k < i THEN levels[k] ELSE IF k = i THEN e ELSE levels[k - 1]
      BY ONLY <3>1, InsertIs
    <3> HIDE DEF s
    <3> QED BY <2>2, <3>2 DEF s
  <2>4. e.price = p /\ e.orders = <<o>> /\ ToSet(e.orders) = {o}
    BY <2>1, ToSetShort
  <2>5. \A k \in i .. L : levels[k].price > p
    <3> TAKE k \in i .. L
    <3>1. i \in 1 .. L /\ k \in 1 .. L /\ levels[i].price # p
      BY <1>2, <1>11
    <3>2. levels[i].price > p
      BY <1>2, <3>1
    <3>3. i < k => levels[i].price < levels[k].price
      BY <1>3, <3>1 DEF Sorted
    <3> QED BY <1>2, <3>1, <3>2, <3>3
  <2>6. Sorted(levels')
    <3> SUFFICES ASSUME NEW j \in 1 .. L + 1, NEW k \in 1 .. L + 1, j < k
                 PROVE  levels'[j].price < levels'[k].price
      BY <2>3 DEF Sorted
    <3>1. \A a, b \in 1 .. L : a < b => levels[a].price < levels[b].price
      BY <1>3 DEF Sorted
    <3>2. CASE k < i
      BY <1>2, <2>3, <3>1, <3>2
    <3>3. CASE k = i
      <4>1. j \in 1 .. i - 1
        BY <3>3
      <4> QED BY <1>2, <2>3, <2>4, <3>3, <4>1
    <3>4. CASE k > i
      <4>1. k - 1 \in i .. L /\ k - 1 \in 1 .. L
        BY <1>2, <3>4
      <4>2. levels'[k] = levels[k - 1]
        BY <2>3, <3>4
      <4>3. CASE j < i
        <5>1. j \in 1 .. L /\ j < k - 1
          BY <1>2, <4>1, <4>3
        <5> QED BY <2>3, <3>1, <4>1, <4>2, <4>3, <5>1
      <4>4. CASE j = i
        <5>1. levels[k - 1].price > p /\ levels[k - 1].price \in Int
          BY <1>2, <2>5, <4>1
        <5>2. levels'[j] = e
          BY <2>3, <4>4
        <5> QED BY <2>4, <4>2, <5>1, <5>2
      <4>5. CASE j > i
        <5>1. j - 1 \in 1 .. L /\ j - 1 < k - 1
          BY <1>2, <4>5
        <5>2. levels'[j] = levels[j - 1]
          BY <2>3, <4>5
        <5>3. levels[j - 1].price < levels[k - 1].price
          BY <3>1, <4>1, <5>1
        <5> QED BY <4>2, <5>2, <5>3
      <4> QED BY <1>2, <4>3, <4>4, <4>5
    <3> QED BY <1>2, <3>2, <3>3, <3>4
  <2>7. \A y : (\E k \in 1 .. L + 1 : y = levels'[k])
                  <=> y = e \/ (\E k \in 1 .. L : y = levels[k])
    <3> TAKE y
    <3>1. \A k \in 1 .. L : \E j \in 1 .. L + 1 : levels'[j] = levels[k]
      <4> TAKE k \in 1 .. L
      <4>1. CASE k < i
        BY <2>3, <4>1
      <4>2. CASE ~(k < i)
        <5>1. k + 1 \in 1 .. L + 1 /\ k + 1 > i /\ (k + 1) - 1 = k
          BY <1>2, <4>2
        <5>2. levels'[k + 1] = levels[k]
          BY <1>2, <2>3, <5>1
        <5> QED BY <5>1, <5>2
      <4> QED BY <4>1, <4>2
    <3>2. \A k \in 1 .. L + 1 : levels'[k] = e \/ \E j \in 1 .. L : levels'[k] = levels[j]
      <4> TAKE k \in 1 .. L + 1
      <4>1. CASE k < i
        <5>1. k \in 1 .. L
          BY <1>2, <4>1
        <5> QED BY <2>3, <4>1, <5>1
      <4>2. CASE k = i
        BY <2>3, <4>2
      <4>3. CASE k > i
        <5>1. k - 1 \in 1 .. L
          BY <1>2, <4>3
        <5> QED BY <2>3, <4>3, <5>1
      <4>4. k < i \/ k = i \/ k > i
        BY <1>2
      <4> QED BY <4>1, <4>2, <4>3, <4>4
    <3>3. levels'[i] = e
      BY <1>2, <2>3
    <3> QED BY <1>2, <3>1, <3>2, <3>3
  <2>8. PricesOf(levels') = PricesOf(levels) \cup {p}
    <3>1. PricesOf(levels') = {levels'[k].price : k \in 1 .. L + 1}
      BY <2>3 DEF PricesOf
    <3>2. PricesOf(levels) = {levels[k].price : k \in 1 .. L}
      BY DEF PricesOf
    <3>3. PricesOf(levels') \subseteq PricesOf(levels) \cup {p}
      <4> SUFFICES ASSUME NEW k \in 1 .. L + 1
                   PROVE  levels'[k].price \in PricesOf(levels) \cup {p}
        BY <3>1
      <4>1. levels'[k] = e \/ \E j \in 1 .. L : levels'[k] = levels[j]
        BY <2>7
      <4> QED BY <2>4, <3>2, <4>1
    <3>4. PricesOf(levels) \subseteq PricesOf(levels')
      <4> SUFFICES ASSUME NEW j \in 1 .. L PROVE levels[j].price \in PricesOf(levels')
        BY <3>2
      <4>1. \E k \in 1 .. L + 1 : levels[j] = levels'[k]
        BY <2>7
      <4> QED BY <3>1, <4>1
    <3>5. p \in PricesOf(levels')
      <4>1. \E k \in 1 .. L + 1 : e = levels'[k]
        BY <2>7
      <4> QED BY <2>4, <3>1, <4>1
    <3> QED BY <3>3, <3>4, <3>5
  <2>9. ASSUME NEW x PROVE x \in Behind' <=> (x \in Behind \/ (x = o /\ i # 1))
    <3>1. x \in Behind' <=> \E k \in 2 .. L + 1 : x \in ToSet(levels'[k].orders)
      BY <2>3 DEF Behind
    <3>2. x \in Behind <=> \E k \in 2 .. L : x \in ToSet(levels[k].orders)
      BY DEF Behind
    <3>3. CASE i = 1
      <4>1. \A k \in 2 .. L + 1 : levels'[k] = levels[k - 1] /\ k - 1 \in 1 .. L
        BY <2>3, <3>3
      <4>2. \A k \in 2 .. L : k + 1 \in 2 .. L + 1 /\ levels'[k + 1] = levels[k]
        <5> TAKE k \in 2 .. L
        <5>1. k + 1 \in 2 .. L + 1 /\ (k + 1) - 1 = k
          OBVIOUS
        <5> QED BY <4>1, <5>1
      <4>3. L # 0 => ToSet(levels[1].orders) = {}
        BY <1>3, ToSetShort
      <4>4. \A k \in 2 .. L + 1 : x \in ToSet(levels'[k].orders) =>
               k - 1 \in 2 .. L /\ x \in ToSet(levels[k - 1].orders)
        <5> TAKE k \in 2 .. L + 1
        <5> HAVE x \in ToSet(levels'[k].orders)
        <5>1. x \in ToSet(levels[k - 1].orders) /\ k - 1 \in 1 .. L
          BY <4>1
        <5>2. k - 1 # 1
          BY <4>3, <5>1
        <5> QED BY <5>1, <5>2
      <4> QED BY <3>1, <3>2, <3>3, <4>2, <4>4
    <3>4. CASE i # 1
      <4>1. ASSUME NEW k \in 2 .. L + 1, x \in ToSet(levels'[k].orders)
            PROVE  x = o \/ \E j \in 2 .. L : x \in ToSet(levels[j].orders)
        <5>1. CASE k < i
          <6>1. k \in 2 .. L /\ levels'[k] = levels[k]
            BY <1>2, <2>3, <5>1
          <6> QED BY <4>1, <6>1
        <5>2. CASE k = i
          <6>1. levels'[k] = e
            BY <2>3, <5>2
          <6> QED BY <2>4, <4>1, <6>1
        <5>3. CASE k > i
          <6>1. k - 1 \in 2 .. L /\ levels'[k] = levels[k - 1]
            BY <1>2, <2>3, <3>4, <5>3
          <6> QED BY <4>1, <6>1
        <5> QED BY <1>2, <5>1, <5>2, <5>3
      <4>2. ASSUME NEW k \in 2 .. L
            PROVE  \E j \in 2 .. L + 1 : levels'[j] = levels[k]
        <5>1. CASE k < i
          BY <2>3, <5>1
        <5>2. CASE ~(k < i)
          <6>1. k + 1 \in 2 .. L + 1 /\ k + 1 > i /\ (k + 1) - 1 = k
            BY <1>2, <5>2
          <6>2. levels'[k + 1] = levels[k]
            BY <1>2, <2>3, <6>1
          <6> QED BY <6>1, <6>2
        <5> QED BY <5>1, <5>2
      <4>3. i \in 2 .. L + 1 /\ levels'[i] = e
        BY <1>2, <2>3, <3>4
      <4> QED BY <2>4, <3>1, <3>2, <3>4, <4>1, <4>2, <4>3
    <3> QED BY <3>3, <3>4
  <2>10. levels'[1].orders = IF i = 1 THEN <<o>> ELSE <<>>
    <3>1. CASE i = 1
      BY <2>3, <2>4, <3>1
    <3>2. CASE i # 1
      <4>1. 1 < i /\ L # 0 /\ 1 \in 1 .. L + 1
        BY <1>2, <3>2
      <4> QED BY <1>3, <2>3, <3>2, <4>1
    <3> QED BY <3>1, <3>2
  <2> QED BY <2>3, <2>6, <2>8, <2>9, <2>10
<1> QED BY <1>10, <1>11


\* A step that takes no order from the caller leaves what was cheap and what was not.
LEMMA SameEntered ==
    ASSUME entered' = entered
    PROVE  \A k : Dear(k)' = Dear(k) /\ Cheap(k)' = Cheap(k) /\ (IsCheapest(k)' <=> IsCheapest(k))
  BY DEF Dear, Cheap, IsCheapest

LEMMA AddOrderStep == DemoInv /\ AddOrder => DemoInv'
<1> SUFFICES ASSUME DemoInv, AddOrder PROVE DemoInv'
  OBVIOUS
<1>1. /\ at = "add" /\ at' = "match"
      /\ UNCHANGED <<ringVars, entered, o, fills, traded, cursor, log>>
  BY DEF AddOrder, logVars
<1>2. levels' \in Seq(PriceLevels) /\ DemoBook'
  BY AddOrderKeeps
<1>3. DemoTypes'
  BY <1>1, <1>2 DEF DemoInv, DemoTypes
<1>4. RaceInv' /\ Numbered' /\ Popped' = Popped
  BY <1>1, NumberedKept
<1>5. DemoTrades'
  <2>1. Settled' = Settled
    BY <1>1, <1>4 DEF Settled
  <2>2. Cheap(Settled)' = Cheap(Settled)
    BY <1>1, <2>1, SameEntered
  <2>3. fills = <<>>
    BY <1>1 DEF DemoInv, DemoTrades
  <2> QED BY <1>1, <2>2, <2>3 DEF DemoInv, DemoTrades, Increasing, Fitting
<1> QED BY <1>2, <1>3, <1>4, <1>5 DEF DemoInv

(***************************************************************************)
(* push and pop                                                            *)
(***************************************************************************)

\* An order that is accepted gets the next entry.
LEMMA PushNumbers ==
    ASSUME DemoInv, PushTest
    PROVE  entered' \in Seq(Entries) /\ Numbered'
<1>1. /\ at = "push" /\ o' = o /\ entered \in Seq(Entries) /\ DemoThread \in Producers
      /\ PushGoesOn(DemoThread) \/ PushFull(DemoThread, FALSE) \/ PushPublish(DemoThread)
  BY DemoThreadIs DEF PushTest, DemoInv, DemoTypes
<1>2. /\ Len(entered) = Len(accepted) /\ Len(entered) \in Nat /\ Popped = 0
      /\ \A i \in 1 .. Len(entered) : accepted[i] = <<DemoThread, entered[i].id>>
      /\ \A i, j \in 1 .. Len(entered) : i < j => entered[i].id < entered[j].id
      /\ \A i \in 1 .. Len(entered) : entered[i].id < offer[DemoThread] /\ entered[i].id \in Nat
      /\ ~raced /\ \A p \in Producers : pc[p] # "idle" => p = DemoThread
  <2>1. \A i \in 1 .. Len(entered) : entered[i].id \in Nat
    <3>1. \A x \in Entries : x.id \in Nat
      BY DEF Entries
    <3> QED BY <1>1, <3>1
  <2> QED BY <1>1, <2>1 DEF DemoInv, Numbered
<1>3. accepted \in Seq(Orders) /\ offer[DemoThread] \in 1 .. MaxPush + 1
      /\ offer \in [Producers -> 1 .. MaxPush + 1] /\ MaxPush \in Nat
  BY <1>1, PoppedIs, BoundAssumption
<1>4. pc \in [Producers -> {"idle", "check", "index", "copy", "publish"}]
  BY DEF DemoInv, RaceInv, TypeInv, TypeOK
<1>5. (\A p \in Producers : pc'[p] # "idle" => p = DemoThread) /\ delivered' = delivered /\ ~raced'
  <2>1. /\ \E x : pc' = [pc EXCEPT ![DemoThread] = x]
        /\ delivered' = delivered
    BY <1>1 DEF PushGoesOn, PushReadHead, PushFull, PushHasRoom, PushCopyBegin,
                PushCopyEnd, PushPublish
  <2>2. \A p \in Producers : p # DemoThread => pc'[p] = pc[p]
    BY <1>4, <2>1
  <2>3. ~raced'
    <3>1. CASE PushReadHead(DemoThread)
      BY <1>2, <3>1 DEF PushReadHead
    <3>2. CASE ~PushReadHead(DemoThread)
      BY <1>1, <1>2, <3>2 DEF PushGoesOn, PushFull, PushHasRoom, PushCopyBegin, PushCopyEnd,
                         PushPublish
    <3> QED BY <3>1, <3>2
  <2> QED BY <1>2, <2>1, <2>2, <2>3
<1>6. at' \in {"push", "pop"} /\ Popped' = 0
  BY <1>1, <1>2, <1>5 DEF PushTest, Popped
<1>7. CASE PushGoesOn(DemoThread) \/ PushFull(DemoThread, FALSE)
  <2>1. UNCHANGED <<entered, accepted>> /\ offer'[DemoThread] >= offer[DemoThread]
        /\ offer'[DemoThread] \in Int
    <3>1. ~PushPublish(DemoThread)
      BY <1>7 DEF PushPublish, PushGoesOn, PushFull, PushReadHead, PushHasRoom,
                  PushCopyBegin, PushCopyEnd
    <3>2. entered' = entered
      BY <3>1 DEF PushTest
    <3>3. CASE PushGoesOn(DemoThread)
      <4>1. accepted' = accepted /\ offer' = offer
        BY <3>3 DEF PushGoesOn, PushReadHead, PushHasRoom, PushCopyBegin, PushCopyEnd
      <4> QED BY <1>3, <3>2, <4>1
    <3>4. CASE PushFull(DemoThread, FALSE)
      BY <1>1, <1>3, <3>4, <3>2 DEF PushFull
    <3> QED BY <1>7, <3>3, <3>4
  <2>2. \A i \in 1 .. Len(entered) : entered[i].id < offer'[DemoThread]
    BY <1>2, <1>3, <2>1
  <2> QED BY <1>1, <1>2, <1>5, <1>6, <2>1, <2>2 DEF Numbered
<1>8. CASE PushPublish(DemoThread)
  <2>1. pc[DemoThread] = "publish"
    BY <1>8 DEF PushPublish
  <2>2. ~(PushGoesOn(DemoThread) \/ PushFull(DemoThread, FALSE))
    BY <2>1 DEF PushGoesOn, PushFull, PushReadHead, PushHasRoom, PushCopyBegin, PushCopyEnd
  <2>3. PICK n \in Nat : n = offer[DemoThread]
    BY <1>3
  <2>4. PICK e \in Entries : e.id = n /\ entered' = Append(entered, e)
    <3>1. PICK p \in Prices : entered' = Append(entered, [id |-> n, price |-> p])
      BY <2>2, <2>3 DEF PushTest
    <3>2. [id |-> n, price |-> p] \in Entries
      BY DemoAssumption DEF Entries
    <3> QED BY <3>1, <3>2
  <2>5. accepted' = Append(accepted, <<DemoThread, n>>) /\ offer'[DemoThread] = n + 1
    BY <1>1, <1>3, <1>8, <2>3 DEF PushPublish, Item
  <2>6. /\ entered' \in Seq(Entries) /\ Len(entered') = Len(entered) + 1
        /\ entered'[Len(entered) + 1] = e
        /\ \A i \in 1 .. Len(entered) : entered'[i] = entered[i]
    BY <1>1, <2>4
  <2>7. /\ Len(accepted') = Len(accepted) + 1 /\ accepted'[Len(accepted) + 1] = <<DemoThread, n>>
        /\ \A i \in 1 .. Len(accepted) : accepted'[i] = accepted[i]
    BY <1>3, <2>5
  <2>8. \A i \in 1 .. Len(entered') : i \in 1 .. Len(entered) \/ i = Len(entered) + 1
    BY <1>2, <2>6
  <2>9. \A i \in 1 .. Len(entered') : accepted'[i] = <<DemoThread, entered'[i].id>>
    BY <1>2, <2>4, <2>6, <2>7, <2>8
  <2>10. \A i \in 1 .. Len(entered') : entered'[i].id < offer'[DemoThread]
    BY <1>2, <2>3, <2>4, <2>5, <2>6, <2>8
  <2>11. \A i, j \in 1 .. Len(entered') : i < j => entered'[i].id < entered'[j].id
    <3> TAKE i, j \in 1 .. Len(entered')
    <3> HAVE i < j
    <3>1. i \in 1 .. Len(entered)
      BY <1>2, <2>6, <2>8
    <3> QED BY <1>2, <2>3, <2>4, <2>6, <2>8, <3>1
  <2> QED BY <1>2, <1>5, <1>6, <2>6, <2>7, <2>9, <2>10, <2>11 DEF Numbered
<1> QED BY <1>1, <1>7, <1>8

LEMMA PushStep == DemoInv /\ PushTest => DemoInv'
<1> SUFFICES ASSUME DemoInv, PushTest PROVE DemoInv'
  OBVIOUS
<1>1. /\ at = "push" /\ at' \in {"push", "pop"}
      /\ UNCHANGED <<levels, o, fills, traded, cursor, log>>
  BY DEF PushTest, bookVars, logVars
<1>2. RaceInv'
  BY DemoUsesRing, RaceInvInductive DEF DemoNext, DemoStep, DemoInv
<1>3. entered' \in Seq(Entries) /\ Numbered'
  BY PushNumbers
<1>4. DemoTypes'
  BY <1>1, <1>3 DEF DemoInv, DemoTypes
<1>5. Popped = 0 /\ Popped' = 0
  <2>1. Popped = 0
    BY <1>1 DEF DemoInv, Numbered
  <2>2. delivered' = delivered
    BY DEF PushTest, PushGoesOn, PushReadHead, PushFull, PushHasRoom, PushCopyBegin,
           PushCopyEnd, PushPublish
  <2> QED BY <2>1, <2>2 DEF Popped
<1>8. Booked' = 0 /\ Booked = 0 /\ Settled' = 0 /\ Settled = 0
  BY <1>1, <1>5 DEF Booked, Settled
<1>10. /\ Dear(0)' = {} /\ Dear(0) = {} /\ Cheap(0)' = {} /\ Cheap(0) = {}
       /\ \A s : {s[i].price : i \in 1 .. 0} = {}
  BY DEF Dear, Cheap
<1>11. DemoBook'
  <2>1. PricesOf(levels) = {} /\ Sorted(levels) /\ Behind = {}
        /\ (levels # <<>> => levels[1].orders = <<>>)
    BY <1>1, <1>8, <1>10 DEF DemoInv, DemoBook
  <2>2. PricesOf(levels') = {} /\ Sorted(levels') /\ Behind' = {}
        /\ (levels' # <<>> => levels'[1].orders = <<>>)
    BY <1>1, <2>1 DEF Behind
  <2>3. {entered'[i].price : i \in 1 .. Booked'} = {} /\ Dear(Booked)' = {}
    BY <1>8, <1>10
  <2>4. at' # "match"
    BY <1>1
  <2> QED BY <2>2, <2>3, <2>4 DEF DemoBook, Sorted, PricesOf
<1>12. DemoTrades'
  BY <1>1, <1>8, <1>10 DEF DemoInv, DemoTrades, Increasing, Fitting
<1> QED BY <1>2, <1>3, <1>4, <1>11, <1>12 DEF DemoInv

\* What main gets from pop is the next of its orders.
LEMMA PopNumbers ==
    ASSUME DemoInv, PopNext
    PROVE  /\ Numbered' /\ o' \in Entries
           /\ Popped' = IF at' = "add" THEN Popped + 1 ELSE Popped
<1>1. /\ at \in {"pop", "log"} /\ at' \in {"pop", "add", "done"} /\ entered' = entered
      /\ entered \in Seq(Entries) /\ o \in Entries
  BY DEF PopNext, DemoInv, DemoTypes
<1>2. /\ QueueInv /\ Popped \in 0 .. Len(entered)
      /\ accepted \in Seq(Orders) /\ delivered \in Seq(Contents)
  BY PoppedIs
<1>3. UNCHANGED <<accepted, pc, offer, raced>>
  BY DEF PopNext, PopHasItem, PopCopyBegin, PopCopyEnd, PopAdvance, prodVars, ringVars
<1>4. CASE at' # "add"
  <2>1. delivered' = delivered /\ o' = o
    BY <1>4 DEF PopNext, PopHasItem, PopCopyBegin, PopCopyEnd, ringVars
  <2> QED BY <1>1, <1>3, <1>4, <2>1 DEF DemoInv, Numbered, Popped
<1>5. CASE at' = "add"
  <2>1. PopAdvance /\ o' = Named(taken)
    BY <1>5 DEF PopNext
  <2>2. taken = accepted[Popped + 1] /\ Popped < Len(accepted)
    BY <1>2, <2>1, PopTakesNext DEF Popped
  <2>3. Popped + 1 \in 1 .. Len(entered) /\ Len(entered) = Len(accepted)
    BY <1>2, <2>2 DEF DemoInv, Numbered
  <2>4. taken[2] = entered[Popped + 1].id
    BY <2>2, <2>3 DEF DemoInv, Numbered
  <2>5. entered[Popped + 1] \in ToSet(entered)
    BY <1>1, <2>3 DEF ToSet
  <2>6. \A e \in ToSet(entered) : e.id = taken[2] => e = entered[Popped + 1]
    <3> SUFFICES ASSUME NEW i \in 1 .. Len(entered), entered[i].id = entered[Popped + 1].id
                 PROVE  i = Popped + 1
      BY <1>1, <2>4 DEF ToSet
    <3>1. \A j, k \in 1 .. Len(entered) : j < k => entered[j].id < entered[k].id
      BY DEF DemoInv, Numbered
    <3>2. \A x \in Entries : x.id \in Nat
      BY DEF Entries
    <3>3. entered[i].id \in Nat /\ entered[i] \in Entries
      BY <1>1, <3>2
    <3>4. ~(i < Popped + 1) /\ ~(Popped + 1 < i)
      BY <2>3, <3>1, <3>3
    <3> QED BY <1>2, <3>4
  <2>7. o' = entered[Popped + 1]
    BY <2>1, <2>4, <2>5, <2>6 DEF Named
  <2>8. Popped' = Popped + 1
    BY <1>2, <2>1 DEF PopAdvance, Popped
  <2> QED BY <1>1, <1>2, <1>3, <1>5, <2>3, <2>7, <2>8 DEF DemoInv, Numbered
<1> QED BY <1>4, <1>5

LEMMA PopStep == DemoInv /\ PopNext => DemoInv'
<1> SUFFICES ASSUME DemoInv, PopNext PROVE DemoInv'
  OBVIOUS
<1>1. /\ at \in {"pop", "log"} /\ fills = <<>> /\ at' \in {"pop", "done", "add"}
      /\ UNCHANGED <<entered, levels, fills, traded, cursor, log>>
  BY DEF PopNext, bookVars, logVars, DemoInv, DemoTrades
<1> PICK m \in Nat : m = Popped
  BY PoppedIs
<1>2. RaceInv'
  BY DemoUsesRing, RaceInvInductive DEF DemoNext, DemoStep, DemoInv
<1>3. Numbered' /\ o' \in Entries /\ Popped' = IF at' = "add" THEN m + 1 ELSE m
  BY PopNumbers
<1>4. Booked = m /\ Settled = m /\ Booked' = m /\ Settled' = m
  <2>1. at \notin {"add", "match"} /\ at' # "match"
    BY <1>1
  <2> QED BY <1>1, <1>3, <2>1 DEF Booked, Settled
<1>5. DemoTypes'
  BY <1>1, <1>3 DEF DemoInv, DemoTypes
<1>7. Dear(m)' = Dear(m) /\ Cheap(m)' = Cheap(m)
  BY <1>1, SameEntered
<1>8. DemoBook'
  <2>1. /\ PricesOf(levels) = {entered[i].price : i \in 1 .. m} /\ Sorted(levels)
        /\ Behind = Dear(m) /\ (levels # <<>> => levels[1].orders = <<>>)
    BY <1>1, <1>4 DEF DemoInv, DemoBook
  <2>2. at' # "match" /\ levels' = levels /\ entered' = entered /\ Behind' = Behind
    BY <1>1 DEF Behind
  <2>3. PricesOf(levels') = {entered'[i].price : i \in 1 .. Booked'} /\ Behind' = Dear(Booked)'
    BY <1>4, <1>7, <2>1, <2>2
  <2>4. Sorted(levels')
    BY <2>1, <2>2
  <2> QED BY <2>1, <2>2, <2>3, <2>4 DEF DemoBook, PricesOf, Sorted
<1>9. DemoTrades'
  BY <1>1, <1>4, <1>7 DEF DemoInv, DemoTrades, Increasing, Fitting
<1> QED BY <1>2, <1>3, <1>5, <1>8, <1>9 DEF DemoInv

(***************************************************************************)
(* match: at most the order just added trades                              *)
(***************************************************************************)
LEMMA ReverseShort == Reverse(<<>>) = <<>> /\ \A e : Reverse(<<e>>) = <<e>>
  BY DEF Reverse

LEMMA ConcatShort ==
    ASSUME NEW s \in Seq(Entries), NEW e \in Entries
    PROVE  s \o <<e>> = Append(s, e) /\ s \o <<>> = s
  OBVIOUS

LEMMA MatchStep == DemoInv /\ Match => DemoInv'
<1> SUFFICES ASSUME DemoInv, Match PROVE DemoInv'
  OBVIOUS
<1> PICK m \in Nat : m = Popped
  BY PoppedIs
<1>1. /\ at = "match" /\ at' = "log" /\ fills' = Reverse(levels[1].orders)
      /\ traded' = traded \o fills' /\ levels' = [levels EXCEPT ![1].orders = <<>>]
      /\ UNCHANGED <<ringVars, entered, o, cursor, log>>
  BY DEF Match, Emptied, logVars
<1>2. /\ levels \in Seq(PriceLevels) /\ entered \in Seq(Entries) /\ traded \in Seq(Entries)
      /\ o \in Entries /\ m > 0 /\ o = entered[m] /\ m <= Len(entered)
      /\ Len(traded) \in Nat /\ Len(levels) \in Nat
  <2>1. m <= Len(entered)
    BY PoppedIs
  <2> QED BY <1>1, <2>1 DEF DemoInv, DemoTypes, Numbered
<1>14. RaceInv' /\ Numbered' /\ Popped' = Popped
  BY <1>1, NumberedKept
<1>3. Booked = m /\ Booked' = m /\ Settled = m - 1 /\ Settled' = m /\ Popped' = m
  BY <1>1, <1>14 DEF Booked, Settled
<1>4. 1 \in 1 .. Len(levels) /\ levels # <<>>
  <2>1. entered[m].price \in PricesOf(levels)
    BY <1>2, <1>3 DEF DemoInv, DemoBook
  <2>2. Len(levels) # 0
    BY <2>1 DEF PricesOf
  <2> QED BY <1>2, <2>2
<1>5. levels[1].orders = IF IsCheapest(m) THEN <<o>> ELSE <<>>
  BY <1>1, <1>4 DEF DemoInv, DemoBook
<1>6. fills' = IF IsCheapest(m) THEN <<o>> ELSE <<>>
  BY <1>1, <1>5, ReverseShort
<1>7. traded' = IF IsCheapest(m) THEN Append(traded, o) ELSE traded
  BY <1>1, <1>2, <1>6, ConcatShort
<1>8. PICK l \in PriceLevels : /\ l.price = levels[1].price /\ l.orders = <<>>
                               /\ levels' = [levels EXCEPT ![1] = l]
  <2>1. levels[1] \in PriceLevels
    BY <1>2, <1>4
  <2>2. <<>> \in Seq(Entries)
    OBVIOUS
  <2>3. /\ [levels[1] EXCEPT !.orders = <<>>] \in PriceLevels
        /\ [levels[1] EXCEPT !.orders = <<>>].price = levels[1].price
        /\ [levels[1] EXCEPT !.orders = <<>>].orders = <<>>
    BY <2>1, <2>2 DEF PriceLevels
  <2>4. levels' = [levels EXCEPT ![1] = [levels[1] EXCEPT !.orders = <<>>]]
    BY <1>1
  <2> QED BY <2>3, <2>4
<1>9. /\ levels' \in Seq(PriceLevels) /\ Len(levels') = Len(levels)
      /\ \A k \in 1 .. Len(levels) : levels'[k] = IF k = 1 THEN l ELSE levels[k]
  <2>1. levels \in Seq(PriceLevels) /\ 1 \in 1 .. Len(levels) /\ l \in PriceLevels
    BY <1>2, <1>4
  <2> DEFINE s == [levels EXCEPT ![1] = l]
  <2>2. /\ s \in Seq(PriceLevels) /\ Len(s) = Len(levels)
        /\ \A k \in 1 .. Len(levels) : s[k] = IF k = 1 THEN l ELSE levels[k]
    BY ONLY <2>1, ExceptSeq
  <2> QED BY <1>8, <2>2
<1>10. \A k \in 1 .. Len(levels) : levels'[k].price = levels[k].price
  <2> TAKE k \in 1 .. Len(levels)
  <2> QED BY <1>8, <1>9
<1>11. /\ fills' \in Seq(Entries) /\ traded' \in Seq(Entries)
       /\ Len(traded') - Len(fills') = Len(traded)
       /\ \A k \in 1 .. Len(traded) : traded'[k] = traded[k]
       /\ fills' # <<>> => /\ traded' # <<>> /\ fills' = <<traded'[Len(traded')]>>
                           /\ IsCheapest(m) /\ Len(traded') = Len(traded) + 1
                           /\ traded'[Len(traded) + 1] = o
       /\ fills' = <<>> => traded' = traded
  <2>1. CASE IsCheapest(m)
    <3>1. fills' = <<o>> /\ traded' = Append(traded, o)
      BY <1>6, <1>7, <2>1
    <3> QED BY <1>2, <2>1, <3>1
  <2>2. CASE ~IsCheapest(m)
    <3>1. fills' = <<>> /\ traded' = traded
      BY <1>6, <1>7, <2>2
    <3> QED BY <1>2, <2>2, <3>1
  <2> QED BY <2>1, <2>2
<1>12. \A k : Dear(k)' = Dear(k) /\ Cheap(k)' = Cheap(k)
  BY <1>1, SameEntered
<1>13. DemoTypes'
  BY <1>1, <1>9, <1>11 DEF DemoInv, DemoTypes
<1>15. DemoBook'
  <2>1. Sorted(levels')
    BY <1>9, <1>10 DEF DemoInv, DemoBook, Sorted
  <2>2. PricesOf(levels') = PricesOf(levels)
    BY <1>9, <1>10 DEF PricesOf
  <2>3. Behind' = Behind
    <3>1. \A k \in 2 .. Len(levels) : levels'[k] = levels[k]
      BY <1>9
    <3> QED BY <1>9, <3>1 DEF Behind
  <2>4. levels'[1].orders = <<>>
    BY <1>4, <1>8, <1>9
  <2>5. PricesOf(levels) = {entered[i].price : i \in 1 .. m} /\ Behind = Dear(m)
    BY <1>3 DEF DemoInv, DemoBook
  <2> QED BY <1>1, <1>3, <1>12, <2>1, <2>2, <2>3, <2>4, <2>5 DEF DemoBook, Sorted, PricesOf
<1>16. DemoTrades'
  <2>1. ToSet(traded) = Cheap(m - 1) /\ Increasing(traded) /\ fills = <<>>
        /\ log = [i \in 1 .. Fitting(Len(traded)) |-> traded[i].id]
        /\ cursor = Len(log) * (MessageLength + 1)
    <3>1. fills = <<>>
      BY <1>1 DEF DemoInv, DemoTrades
    <3>2. Len(traded) - Len(fills) = Len(traded)
      BY <1>2, <3>1
    <3> QED BY <1>3, <3>1, <3>2 DEF DemoInv, DemoTrades
  <2>2. ToSet(traded') = Cheap(m)
    <3>1. Cheap(m) = IF IsCheapest(m) THEN Cheap(m - 1) \cup {o} ELSE Cheap(m - 1)
      BY <1>2, DearAndCheap
    <3>2. ToSet(Append(traded, o)) = ToSet(traded) \cup {o}
      BY <1>2, ToSetAppend
    <3> QED BY <1>7, <2>1, <3>1, <3>2
  <2>3. \A k \in 1 .. Len(traded) : traded[k].id < o.id
    <3> TAKE k \in 1 .. Len(traded)
    <3>1. traded[k] \in Cheap(m - 1)
      BY <1>2, <2>1 DEF ToSet
    <3>2. PICK j \in 1 .. m - 1 : traded[k] = entered[j]
      BY <3>1 DEF Cheap
    <3>3. \A i, j1 \in 1 .. Len(entered) : i < j1 => entered[i].id < entered[j1].id
      BY DEF DemoInv, Numbered
    <3> QED BY <1>2, <3>2, <3>3
  <2>4. Increasing(traded')
    <3>1. CASE fills' = <<>>
      BY <1>11, <2>1, <3>1 DEF Increasing
    <3>2. CASE fills' # <<>>
      <4> SUFFICES ASSUME NEW i \in 1 .. Len(traded) + 1, NEW j \in 1 .. Len(traded) + 1, i < j
                   PROVE  traded'[i].id < traded'[j].id
        BY <1>11, <3>2 DEF Increasing
      <4>1. i \in 1 .. Len(traded) /\ traded'[i] = traded[i]
        BY <1>2, <1>11
      <4>2. CASE j \in 1 .. Len(traded)
        <5>1. DOMAIN traded = 1 .. Len(traded) /\ traded'[j] = traded[j]
          BY <1>2, <1>11, <4>2
        <5> QED BY <2>1, <4>1, <4>2, <5>1 DEF Increasing
      <4>3. CASE j = Len(traded) + 1
        BY <1>11, <2>3, <3>2, <4>1, <4>3
      <4>4. Len(traded) \in Nat
        BY <1>2
      <4>5. j \in 1 .. Len(traded) \/ j = Len(traded) + 1
        BY ONLY <4>4, j \in 1 .. Len(traded) + 1
      <4> QED BY <4>2, <4>3, <4>5
    <3> QED BY <3>1, <3>2
  <2>5. log = [i \in 1 .. Fitting(Len(traded)) |-> traded'[i].id]
    <3>1. Fitting(Len(traded)) \in 0 .. Len(traded)
      BY <1>2, FittingIs
    <3>2. \A i \in 1 .. Fitting(Len(traded)) : traded'[i] = traded[i]
      BY <1>2, <1>11, <3>1
    <3> QED BY <2>1, <3>2
  <2>6. log' = [i \in 1 .. Fitting(Len(traded') - Len(fills')) |-> traded'[i].id]
    BY <1>1, <1>11, <2>5
  <2>7. ToSet(traded') = Cheap(Settled)'
    BY <1>3, <1>12, <2>2
  <2>8. Increasing(traded)'
    BY <2>4 DEF Increasing
  <2> QED BY <1>1, <1>11, <2>1, <2>6, <2>7, <2>8 DEF DemoTrades, Fitting
<1> QED BY <1>13, <1>14, <1>15, <1>16 DEF DemoInv

(***************************************************************************)
(* log                                                                     *)
(***************************************************************************)
LEMMA LogStep == DemoInv /\ Log => DemoInv'
<1> SUFFICES ASSUME DemoInv, Log PROVE DemoInv'
  OBVIOUS
<1>1. /\ at = "log" /\ fills # <<>> /\ fills' = Tail(fills)
      /\ UNCHANGED <<ringVars, entered, levels, at, o, traded>>
  BY DEF Log
<1> PICK n \in Nat : n + 1 = Len(traded)
  <2>1. traded \in Seq(Entries) /\ traded # <<>>
    BY <1>1 DEF DemoInv, DemoTypes, DemoTrades
  <2>2. Len(traded) - 1 \in Nat /\ Len(traded) - 1 + 1 = Len(traded)
    BY <2>1
  <2> QED BY <2>2
<1>2. traded \in Seq(Entries) /\ fills = <<traded[n + 1]>> /\ traded[n + 1] \in Entries
  BY <1>1 DEF DemoInv, DemoTypes, DemoTrades
<1>3. fills' = <<>> /\ Len(fills) = 1 /\ Head(fills) = traded[n + 1] /\ traded[n + 1].id \in Nat
  BY <1>1, <1>2 DEF Entries
<1>4. PICK f \in Nat : f = Fitting(n)
  BY FittingIs
<1>5. log = [i \in 1 .. f |-> traded[i].id] /\ cursor = Len(log) * Line
  <2>1. Len(traded) - Len(fills) = n
    BY <1>3
  <2> QED BY <1>4, <2>1 DEF DemoInv, DemoTrades, Line
<1>6. log \in Seq(Nat) /\ Len(log) = f /\ cursor = f * Line /\ Line \in Nat \ {0} /\ LogSize \in Nat
  BY <1>5, DemoAssumption DEF DemoInv, DemoTypes, Line
<1>7. /\ log' = [i \in 1 .. Fitting(n + 1) |-> traded[i].id] /\ log' \in Seq(Nat)
      /\ cursor' = Len(log') * Line /\ cursor' \in Nat
  <2>1. PICK c \in Nat : c = f * Line /\ (f + 1) * Line = c + Line
    BY <1>6
  <2>2. CASE c + Line <= LogSize - 1
    <3>1. ~(cursor + MessageLength + 1 >= LogSize)
      BY <1>6, <2>1, <2>2, DemoAssumption DEF Line
    <3>2. log' = Append(log, traded[n + 1].id) /\ cursor' = cursor + Line
      BY <1>3, <1>6, <3>1, DemoAssumption DEF Log, Line
    <3>3. f = n /\ Fitting(n + 1) = n + 1
      BY <1>4, <2>1, <2>2, FittingIs
    <3>4. log' \in Seq(Nat) /\ Len(log') = n + 1 /\ \A i \in 1 .. n + 1 : log'[i] = traded[i].id
      <4>1. \A i \in 1 .. n : log[i] = traded[i].id
        BY <1>5, <3>3
      <4> DEFINE e == traded[n + 1].id
      <4>2. log \in Seq(Nat) /\ Len(log) = n /\ e \in Nat /\ log' = Append(log, e)
        BY <1>3, <1>6, <3>2, <3>3
      <4> HIDE DEF e
      <4>3. log' \in Seq(Nat) /\ Len(log') = n + 1
            /\ \A i \in 1 .. n : log'[i] = log[i]
        BY <4>2
      <4>4. \A i \in 1 .. n + 1 : i \in 1 .. n \/ i = n + 1
        OBVIOUS
      <4>5. log'[n + 1] = e
        BY <4>2
      <4>6. \A i \in 1 .. n + 1 : log'[i] = traded[i].id
        <5> TAKE i \in 1 .. n + 1
        <5>1. CASE i \in 1 .. n
          BY <4>1, <4>3, <5>1
        <5>2. CASE i = n + 1
          BY <4>5, <5>2 DEF e
        <5> QED BY <4>4, <5>1, <5>2
      <4> QED BY <4>3, <4>6
    <3>5. log' = [i \in 1 .. n + 1 |-> traded[i].id]
      <4>1. DOMAIN log' = 1 .. n + 1 /\ log' = [i \in DOMAIN log' |-> log'[i]]
        BY <3>4
      <4> QED BY <3>4, <4>1
    <3>6. cursor' = (n + 1) * Line /\ cursor' \in Nat
      BY <1>6, <2>1, <3>2, <3>3
    <3> QED BY <3>3, <3>4, <3>5, <3>6
  <2>3. CASE ~(c + Line <= LogSize - 1)
    <3>1. cursor + MessageLength + 1 >= LogSize
      BY <1>6, <2>1, <2>3, DemoAssumption DEF Line
    <3>2. UNCHANGED <<log, cursor>>
      BY <3>1 DEF Log, logVars
    <3>3. Fitting(n + 1) = f
      BY <1>4, <2>1, <2>3, FittingIs
    <3> QED BY <1>5, <1>6, <2>1, <3>2, <3>3
  <2> QED BY <2>2, <2>3
<1>8. DemoTypes'
  <2>1. fills' \in Seq(Entries)
    BY <1>3
  <2> QED BY <1>1, <1>7, <2>1 DEF DemoInv, DemoTypes
<1>10. RaceInv' /\ Numbered' /\ Popped' = Popped
  BY <1>1, NumberedKept
<1>9. Booked' = Booked /\ Settled' = Settled
  BY <1>1, <1>10 DEF Booked, Settled
<1>11. \A k : Dear(k)' = Dear(k) /\ Cheap(k)' = Cheap(k)
  BY <1>1, SameEntered
<1>12. DemoBook'
  BY <1>1, <1>9, <1>11 DEF DemoInv, DemoBook, Behind, PricesOf, Sorted
<1>13. DemoTrades'
  <2>1. Len(traded') - Len(fills') = n + 1
    <3>1. Len(fills') = 0 /\ Len(traded') = n + 1
      BY <1>1, <1>3
    <3> QED BY <3>1
  <2>2. log' = [i \in 1 .. Fitting(Len(traded') - Len(fills')) |-> traded'[i].id]
    BY <1>1, <1>7, <2>1
  <2>3. ToSet(traded') = Cheap(Settled)'
    BY <1>1, <1>9, <1>11 DEF DemoInv, DemoTrades
  <2>4. Increasing(traded)'
    BY <1>1 DEF DemoInv, DemoTrades, Increasing
  <2> QED BY <1>1, <1>3, <1>7, <2>2, <2>3, <2>4 DEF DemoTrades, Fitting, Line
<1> QED BY <1>8, <1>10, <1>12, <1>13 DEF DemoInv

LEMMA DemoInvInit == DemoInit /\ at # "threads" => DemoInv
<1> SUFFICES ASSUME DemoInit, at # "threads" PROVE DemoInv
  OBVIOUS
<1>1. /\ Init /\ entered = <<>> /\ levels = <<>> /\ at = "push"
      /\ o = NoOrder /\ fills = <<>> /\ traded = <<>> /\ cursor = 0 /\ log = <<>>
  BY DEF DemoInit
<1>2. DemoTypes
  BY <1>1 DEF DemoTypes, NoOrder, Entries
<1>7. RaceInv /\ delivered = <<>> /\ accepted = <<>> /\ ~raced
      /\ \A p \in Producers : pc[p] = "idle"
  BY <1>1, RaceInvInit DEF Init
<1>3. Popped = 0 /\ Booked = 0 /\ Settled = 0
  BY <1>1, <1>7 DEF Popped, Booked, Settled
<1>4. Numbered
  BY <1>1, <1>3, <1>7 DEF Numbered
<1>5. DemoBook
  BY <1>1, <1>3 DEF DemoBook, Sorted, PricesOf, Behind, Dear
<1>6. DemoTrades
  <2>1. ToSet(traded) = {} /\ Cheap(Settled) = {}
    BY <1>1, <1>3, ToSetShort DEF Cheap
  <2>2. Fitting(Len(traded) - Len(fills)) = 0
    BY <1>1, FittingIs
  <2>3. log = [i \in 1 .. Fitting(Len(traded) - Len(fills)) |-> traded[i].id]
    BY <1>1, <2>2
  <2>4. Len(log) * (MessageLength + 1) = 0
    BY <1>1, DemoAssumption
  <2> QED BY <1>1, <2>1, <2>3, <2>4 DEF DemoTrades, Increasing
<1> QED BY <1>2, <1>4, <1>5, <1>6, <1>7 DEF DemoInv

LEMMA DemoInvHolds == DemoSpec => [](at # "threads" => DemoInv)
<1> DEFINE Good == at # "threads" => DemoInv
<1>1. DemoInit => Good
  BY DemoInvInit
<1>2. Good /\ [DemoNext]_demoVars => Good'
  <2> SUFFICES ASSUME Good, [DemoNext]_demoVars, at' # "threads" PROVE DemoInv'
    OBVIOUS
  <2>0. at # "threads" /\ DemoInv
    <3>1. at # "threads"
      BY DEF DemoNext, ThreadsRun, DemoStep, PushTest, PopNext, AddOrder, Match, Log, demoVars
    <3> QED BY <3>1
  <2>1. CASE DemoNext
    <3>1. DemoStep
      BY <2>0, <2>1 DEF DemoNext, ThreadsRun
    <3> QED BY <2>0, <3>1, PushStep, PopStep, AddOrderStep, MatchStep, LogStep DEF DemoStep
  <2>2. CASE UNCHANGED demoVars
    <3>1. UNCHANGED <<ringVars, entered, levels, at, o, fills, cursor, log, traded>>
      BY <2>2 DEF demoVars, bookVars, logVars
    <3>2. DemoTypes'
      BY <2>0, <3>1 DEF DemoInv, DemoTypes
    <3>5. RaceInv' /\ Numbered' /\ Popped' = Popped
      BY <2>0, <3>1, NumberedKept
    <3>3. Booked' = Booked /\ Settled' = Settled
      BY <3>1, <3>5 DEF Booked, Settled
    <3>4. \A k : Dear(k)' = Dear(k) /\ Cheap(k)' = Cheap(k) /\ (IsCheapest(k)' <=> IsCheapest(k))
      BY <3>1, SameEntered
    <3>6. DemoBook'
      <4>1. Behind' = Behind /\ PricesOf(levels') = PricesOf(levels)
            /\ (Sorted(levels') <=> Sorted(levels))
        BY <3>1 DEF Behind
      <4>2. {entered'[i].price : i \in 1 .. Booked'} = {entered[i].price : i \in 1 .. Booked}
        BY <3>1, <3>3
      <4>3. Dear(Booked)' = Dear(Booked) /\ (IsCheapest(Popped)' <=> IsCheapest(Popped))
        BY <3>3, <3>4, <3>5
      <4> QED BY <2>0, <3>1, <4>1, <4>2, <4>3 DEF DemoInv, DemoBook, PricesOf, Sorted
    <3>7. DemoTrades'
      BY <2>0, <3>1, <3>3, <3>4 DEF DemoInv, DemoTrades, Increasing, Fitting
    <3> QED BY <3>2, <3>5, <3>6, <3>7 DEF DemoInv
  <2> QED BY <2>1, <2>2
<1> QED BY <1>1, <1>2, PTL DEF DemoSpec

\* Whatever either program does with the ring buffer is a behaviour of it.
THEOREM DemoIsRing == DemoSpec => Spec
<1>1. DemoInit => Init
  BY DEF DemoInit
<1> QED BY <1>1, DemoUsesRing, PTL DEF DemoSpec, Spec

\* What trades, what rests and what is logged, RestingNeverTrades.
THEOREM RestingStays == DemoSpec => []RestingNeverTrades
<1>1. (at # "threads" => DemoInv) => RestingNeverTrades
  <2> SUFFICES ASSUME DemoInv, at = "done" \/ (at = "log" /\ fills = <<>>)
               PROVE  LET n == Len(delivered)
                      IN  /\ ToSet(traded) = {entered[i] : i \in {k \in 1 .. n : IsCheapest(k)}}
                          /\ \A i, j \in DOMAIN traded : i < j => traded[i].id < traded[j].id
                          /\ Rested = {entered[i] : i \in {k \in 1 .. n : ~IsCheapest(k)}}
                          /\ log = [i \in 1 .. Fitting(Len(traded)) |-> traded[i].id]
    BY DEF RestingNeverTrades
  <2>1. fills = <<>> /\ Booked = Popped /\ Settled = Popped /\ at # "match"
    BY DEF DemoInv, DemoTrades, Booked, Settled
  <2>2. levels \in Seq(PriceLevels) /\ traded \in Seq(Entries)
    BY DEF DemoInv, DemoTypes
  <2>3. ToSet(traded) = Cheap(Popped) /\ Increasing(traded) /\ Behind = Dear(Popped)
    BY <2>1 DEF DemoInv, DemoTrades, DemoBook
  <2>4. log = [i \in 1 .. Fitting(Len(traded)) |-> traded[i].id]
    <3>1. Len(traded) - Len(fills) = Len(traded)
      BY <2>1, <2>2
    <3> QED BY <3>1 DEF DemoInv, DemoTrades
  <2>5. Rested = Behind
    <3>1. levels # <<>> => ToSet(levels[1].orders) = {}
      BY <2>1, ToSetShort DEF DemoInv, DemoBook
    <3>2. /\ DOMAIN levels = 1 .. Len(levels) /\ Len(levels) \in Nat
          /\ Len(levels) # 0 => levels # <<>>
      BY <2>2
    <3>3. \A k : k \in 1 .. Len(levels) => k = 1 \/ k \in 2 .. Len(levels)
      BY <3>2
    <3>4. \A k : k \in 2 .. Len(levels) => k \in 1 .. Len(levels)
      BY <3>2
    <3> QED BY <3>1, <3>2, <3>3, <3>4 DEF Rested, Behind
  <2> QED BY <2>3, <2>4, <2>5 DEF Popped, Cheap, Dear, Increasing
<1> QED BY <1>1, DemoInvHolds, PTL
=============================================================================
