------------------------- MODULE PortfolioSystem_proofs -------------------------
(***************************************************************************)
(* Proofs about PortfolioSystem, and the gateway in it, for any number of  *)
(* clients, workers, feeds and requests and any capacity of the queue.     *)
(*                                                                         *)
(* What the program does to its queue is a behaviour of LockFreeRingBuffer *)
(* (SystemIsRing), so the facts about the ring in RingBuffers_proofs hold  *)
(* of it; that module's other subject, LowLatency, plays no role here.     *)
(***************************************************************************)
EXTENDS PortfolioSystem, RingBuffers_proofs

\* What travels: requests of clients, and what the queue holds.
AnyRequest == [client : Clients, n : Nat, kind : Kinds]
AnyOrder == [client : Clients \cup Feeds, n : Nat,
             kind : Kinds \cup {"buy", "sell", "rand"}]

Places == {"none", "loop", "recv", "push", "ack", "done"}

\* A worker has a request in its hands.
Holds(w) == wpc[w] \in {"push", "ack"}

SystemTypes ==
    /\ sent \in [Clients -> Nat] /\ acks \in [Clients -> Nat]
    /\ inbox \in [Workers -> Seq(AnyRequest)]
    /\ wpc \in [Workers -> Places]
    /\ DOMAIN msg = Workers /\ msg = [w \in Workers |-> msg[w]]
    /\ \A w \in Workers : Holds(w) => msg[w] \in AnyRequest
    /\ queued \in Seq(AnyOrder)
    /\ replayed \in [Feeds -> Nat]

\* The steps of the system other than those of clients, workers, feeds and of
\* the matcher leave the requests, the orders and the workers alone, except that
\* a failing call of the proxy may end the process.
Aside == \/ ProxyThrows \/ Interrupt \/ Main
         \/ MatcherCheck \/ MatcherMatch
         \/ \E f \in Feeds : FeedTick(f) \/ FeedEnd(f)

LEMMA AsideLeavesOrdersAlone ==
    ASSUME Aside
    PROVE  UNCHANGED <<sent, acks, answered, inbox, wpc, msg, ringVars, queued, replayed>>
<1> USE DEF gatewayVars, clientVars, queueVars, matcherVars, feedVars
<1>1. CASE ProxyThrows
  BY <1>1 DEF ProxyThrows, Throws
<1>2. CASE Interrupt
  BY <1>2 DEF Interrupt
<1>3. CASE Main
  BY <1>3 DEF Main, MainStep, CloseFrontend, CloseContext, ContextClosed, Export
<1>4. CASE MatcherCheck
  BY <1>4 DEF MatcherCheck
<1>5. CASE MatcherMatch
  BY <1>5 DEF MatcherMatch
<1>6. ASSUME NEW f \in Feeds, FeedTick(f) \/ FeedEnd(f)
      PROVE  UNCHANGED <<sent, acks, answered, inbox, wpc, msg, ringVars, queued, replayed>>
  BY <1>6 DEF FeedTick, FeedEnd
<1> QED BY <1>1, <1>2, <1>3, <1>4, <1>5, <1>6 DEF Aside

\* The steps of the system, those beside the orders taken together.
LEMMA StepKinds ==
    ASSUME SystemNext
    PROVE  \/ \E c \in Clients, k \in Kinds, w \in Workers :
                 Send(c, k, w) /\ UNCHANGED systemVars
           \/ \E w \in Workers : \/ Loop(w) /\ UNCHANGED systemVars
                                 \/ Receive(w) /\ UNCHANGED systemVars
                                 \/ PushOrder(w) /\ UNCHANGED systemVars
                                 \/ Ack(w) /\ UNCHANGED systemVars
                                 \/ AnswerIsLost(w) \/ WorkerCallFails(w)
           \/ \E f \in Feeds : FeedPush(f)
           \/ MatcherSubmit
           \/ Aside
  BY DEF SystemNext, ClientSends, Worker, WorkerRuns, Feed, Matcher, Aside

\* Two worker steps that only move its position: the answer is lost, or the call
\* fails and the worker goes back to its loop, if the process is still there.
LEMMA WorkerStumbles ==
    ASSUME NEW w \in Workers, AnswerIsLost(w) \/ WorkerCallFails(w)
    PROVE  /\ UNCHANGED <<sent, acks, answered, inbox, msg, ringVars, queued, replayed>>
           /\ wpc' = wpc \/ wpc' = [wpc EXCEPT ![w] = "loop"]
<1> USE DEF gatewayVars, clientVars, queueVars, systemVars, matcherVars, feedVars
<1>1. CASE AnswerIsLost(w)
  <2>1. After("ack", msg[w]) = "loop"
    BY DEF After
  <2> QED BY <1>1, <2>1 DEF AnswerIsLost, Goto
<1>2. CASE WorkerCallFails(w)
  BY <1>2 DEF WorkerCallFails, Throws, Goto
<1> QED BY <1>1, <1>2

\* What a worker inside push does to the rest of the gateway.
LEMMA PushOrderKinds ==
    ASSUME NEW w \in Workers, PushOrder(w)
    PROVE  /\ wpc[w] = "push"
           /\ UNCHANGED <<sent, acks, answered, inbox, msg>>
           /\ \/ /\ PushGoesOn(w) \/ PushFull(w, TRUE)
                 /\ UNCHANGED <<queued, wpc>>
              \/ /\ PushPublish(w)
                 /\ queued' = Append(queued, msg[w])
                 /\ wpc' = [wpc EXCEPT ![w] = "ack"]
  BY DEF PushOrder, clientVars, Goto, After

\* A feed inside push, whose orders are no client's.
LEMMA FeedPushKinds ==
    ASSUME SystemTypes, NEW f \in Feeds, FeedPush(f)
    PROVE  /\ UNCHANGED <<sent, acks, answered, inbox, wpc, msg>>
           /\ replayed' \in [Feeds -> Nat]
           /\ \/ PushGoesOn(f) /\ queued' = queued
              \/ PushFull(f, FALSE) /\ queued' = queued
              \/ /\ PushPublish(f)
                 /\ \E e \in AnyOrder : e.client = f /\ queued' = Append(queued, e)
<1> DEFINE e == [client |-> f, n |-> replayed[f] + 1, kind |-> fpc[f]]
<1>1. e \in AnyOrder /\ e.client = f
  BY DEF FeedPush, AnyOrder, SystemTypes
<1>2. \/ PushGoesOn(f) /\ queued' = queued
      \/ PushFull(f, FALSE) /\ queued' = queued
      \/ PushPublish(f) /\ queued' = Append(queued, e)
  BY DEF FeedPush
<1>3. UNCHANGED <<sent, acks, answered, inbox, wpc, msg>>
  BY DEF FeedPush, clientVars
<1>4. replayed' \in [Feeds -> Nat]
  <2>1. replayed' = replayed \/ NextOrder(f)
    BY DEF FeedPush
  <2>2. replayed' = replayed \/ replayed' = [replayed EXCEPT ![f] = @ + 1]
    BY <2>1 DEF NextOrder
  <2>3. replayed \in [Feeds -> Nat]
    BY DEF SystemTypes
  <2>4. CASE replayed' = [replayed EXCEPT ![f] = @ + 1]
    BY ONLY <2>3, <2>4
  <2> QED BY <2>2, <2>3, <2>4
<1> HIDE DEF e
<1> QED BY <1>1, <1>2, <1>3, <1>4

-----------------------------------------------------------------------------
(***************************************************************************)
(* The queue inside the program                                            *)
(***************************************************************************)
LEMMA SystemUsesRing == [SystemNext]_vars => [Next]_ringVars
<1> SUFFICES ASSUME [SystemNext]_vars PROVE Next \/ UNCHANGED ringVars
  OBVIOUS
<1> USE DEF vars, gatewayVars, queueVars
<1>1. ASSUME NEW c \in Clients, NEW k \in Kinds, NEW w \in Workers, Send(c, k, w)
      PROVE  UNCHANGED ringVars
  BY <1>1 DEF Send
<1>2. ASSUME NEW w \in Workers, Loop(w) \/ Receive(w) \/ Ack(w) PROVE UNCHANGED ringVars
  BY <1>2 DEF Loop, Receive, Ack
<1>3. ASSUME NEW w \in Workers, PushOrder(w) PROVE Next
  <2>1. w \in Producers
    BY WorkersAssumption
  <2>2. Push(w, TRUE)
    BY <1>3, PushOrderKinds DEF Push
  <2> QED BY <2>1, <2>2 DEF Next, Producer
<1>4. ASSUME NEW f \in Feeds, FeedPush(f) PROVE Next
  <2>1. f \in Producers
    BY FeedsAssumption
  <2>2. Push(f, FALSE)
    BY <1>4 DEF FeedPush, Push
  <2> QED BY <2>1, <2>2 DEF Next, Producer
<1>5. CASE MatcherSubmit
  BY <1>5 DEF MatcherSubmit, Next
<1>6. ASSUME NEW w \in Workers, AnswerIsLost(w) \/ WorkerCallFails(w)
      PROVE  UNCHANGED ringVars
  BY <1>6, WorkerStumbles
<1>7. CASE Aside
  BY <1>7, AsideLeavesOrdersAlone
<1> QED BY <1>1, <1>2, <1>3, <1>4, <1>5, <1>6, <1>7, StepKinds

\* What gateway workers, market feeds and the matcher do to order_queue, in
\* whatever order, is a behaviour of the ring buffer with all of them as its
\* producers (gateway.cpp:81, market_feed.cpp:77-85, main.cpp:70): what holds of
\* the class for any number of producers holds in the program.
THEOREM SystemIsRing == SystemSpec => Spec
<1>1. SystemInit => Init
  BY DEF SystemInit, GatewayInit
<1> QED BY <1>1, SystemUsesRing, PTL DEF SystemSpec, Spec

LEMMA SystemRaces == SystemSpec => []RaceInv
  BY SystemIsRing, RaceInvAlways, PTL

-----------------------------------------------------------------------------
(***************************************************************************)
(* Types                                                                   *)
(***************************************************************************)
LEMMA SystemTypesInit == SystemInit => SystemTypes
<1> SUFFICES ASSUME SystemInit PROVE SystemTypes
  OBVIOUS
<1>1. PICK n \in Workers : GatewayInit(n)
  BY DEF SystemInit
<1>2. replayed = [f \in Feeds |-> 0]
  BY DEF SystemInit, FeedsStarted
<1>3. wpc \in [Workers -> Places] /\ \A w \in Workers : ~Holds(w)
  BY <1>1 DEF GatewayInit, Places, Holds
<1> QED BY <1>1, <1>2, <1>3 DEF GatewayInit, SystemTypes

LEMMA SystemTypesNext == SystemTypes /\ [SystemNext]_vars => SystemTypes'
<1> SUFFICES ASSUME SystemTypes, [SystemNext]_vars PROVE SystemTypes'
  OBVIOUS
<1> USE DEF SystemTypes, Holds, Places, systemVars, matcherVars, feedVars, gatewayVars,
            clientVars, queueVars
<1>1. ASSUME NEW c \in Clients, NEW k \in Kinds, NEW w \in Workers,
             Send(c, k, w), UNCHANGED systemVars
      PROVE  SystemTypes'
  <2>1. [client |-> c, n |-> sent[c] + 1, kind |-> k] \in AnyRequest
    BY DEF AnyRequest
  <2>2. inbox' \in [Workers -> Seq(AnyRequest)]
    BY <1>1, <2>1 DEF Send
  <2>3. sent' \in [Clients -> Nat]
    BY <1>1 DEF Send
  <2> QED BY <1>1, <2>2, <2>3 DEF Send
<1>2. ASSUME NEW w \in Workers, Loop(w), UNCHANGED systemVars PROVE SystemTypes'
  BY <1>2 DEF Loop, Goto
<1>3. ASSUME NEW w \in Workers, Receive(w), UNCHANGED systemVars PROVE SystemTypes'
  <2>1. Head(inbox[w]) \in AnyRequest /\ Tail(inbox[w]) \in Seq(AnyRequest)
    BY <1>3 DEF Receive
  <2>2. inbox' \in [Workers -> Seq(AnyRequest)]
    BY <1>3, <2>1 DEF Receive
  <2>3. After("recv", Head(inbox[w])) \in {"push", "ack", "loop"}
    BY <2>1 DEF After, AnyRequest, Kinds
  <2>4. wpc' \in [Workers -> Places] /\ \A v \in Workers : v # w => wpc'[v] = wpc[v]
    BY <1>3, <2>3 DEF Receive, Goto
  <2>5. msg' = [msg EXCEPT ![w] = Head(inbox[w])]
    BY <1>3 DEF Receive
  <2>6. \A v \in Workers : Holds(v)' => msg'[v] \in AnyRequest
    BY <2>1, <2>4, <2>5
  <2> QED BY <1>3, <2>2, <2>4, <2>5, <2>6 DEF Receive
<1>4. ASSUME NEW w \in Workers, PushOrder(w), UNCHANGED systemVars PROVE SystemTypes'
  <2>1. PICK e \in AnyOrder : e = msg[w]
    BY <1>4, PushOrderKinds DEF AnyRequest, AnyOrder
  <2>2. queued' = queued \/ queued' = Append(queued, e)
    BY <1>4, <2>1, PushOrderKinds
  <2>3. queued' \in Seq(AnyOrder)
    <3>1. CASE queued' = Append(queued, e)
      BY <3>1
    <3> QED BY <2>2, <3>1
  <2>4. wpc[w] = "push" /\ (wpc' = wpc \/ wpc' = [wpc EXCEPT ![w] = "ack"])
    BY <1>4, PushOrderKinds
  <2>5. wpc' \in [Workers -> Places] /\ \A v \in Workers : Holds(v)' => Holds(v)
    BY <2>4
  <2>6. UNCHANGED <<sent, acks, inbox, msg>>
    BY <1>4, PushOrderKinds
  <2> QED BY <1>4, <2>3, <2>5, <2>6
<1>5. ASSUME NEW w \in Workers, Ack(w), UNCHANGED systemVars PROVE SystemTypes'
  <2>1. wpc' = [wpc EXCEPT ![w] = "loop"]
    BY <1>5 DEF Ack, Goto, After
  <2>2. acks' \in [Clients -> Nat]
    BY <1>5 DEF Ack, AnyRequest
  <2> QED BY <1>5, <2>1, <2>2 DEF Ack
<1>6. ASSUME NEW w \in Workers, AnswerIsLost(w) \/ WorkerCallFails(w) PROVE SystemTypes'
  <2>1. wpc' \in [Workers -> Places]
    BY <1>6, WorkerStumbles
  <2>2. \A v \in Workers : Holds(v)' => Holds(v)
    <3>1. wpc' = wpc \/ wpc' = [wpc EXCEPT ![w] = "loop"]
      BY <1>6, WorkerStumbles
    <3>2. wpc \in [Workers -> Places]
      OBVIOUS
    <3> QED BY ONLY <3>1, <3>2 DEF Holds
  <2> QED BY <1>6, <2>1, <2>2, WorkerStumbles
<1>7. ASSUME NEW f \in Feeds, FeedPush(f) PROVE SystemTypes'
  <2>1. ASSUME NEW e \in AnyOrder, queued' = Append(queued, e) PROVE queued' \in Seq(AnyOrder)
    BY <2>1
  <2>2. queued' \in Seq(AnyOrder)
    BY <1>7, <2>1, FeedPushKinds
  <2> QED BY <1>7, <2>2, FeedPushKinds
<1>8. CASE MatcherSubmit
  BY <1>8 DEF MatcherSubmit
<1>9. CASE Aside
  BY <1>9, AsideLeavesOrdersAlone
<1>10. CASE UNCHANGED vars
  BY <1>10 DEF vars
<1> QED BY <1>1, <1>2, <1>3, <1>4, <1>5, <1>6, <1>7, <1>8, <1>9, <1>10, StepKinds

LEMMA TypeCorrectInSystem == SystemSpec => []SystemTypes
  BY SystemTypesInit, SystemTypesNext, PTL DEF SystemSpec

-----------------------------------------------------------------------------
(***************************************************************************)
(* What the matcher has matched                                            *)
(***************************************************************************)
LEMMA OnlyMatcherPops == [SystemNext]_vars /\ ~MatcherSubmit => delivered' = delivered
<1> SUFFICES ASSUME [SystemNext]_vars, ~MatcherSubmit PROVE delivered' = delivered
  OBVIOUS
<1> USE DEF vars, gatewayVars, queueVars
<1>1. ASSUME NEW c \in Clients, NEW k \in Kinds, NEW w \in Workers, Send(c, k, w)
      PROVE  delivered' = delivered
  BY <1>1 DEF Send, ringVars
<1>2. ASSUME NEW w \in Workers, Loop(w) \/ Receive(w) \/ Ack(w) PROVE delivered' = delivered
  BY <1>2 DEF Loop, Receive, Ack, ringVars
<1>3. ASSUME NEW p, \/ PushGoesOn(p) \/ PushPublish(p)
                    \/ PushFull(p, TRUE) \/ PushFull(p, FALSE)
      PROVE  delivered' = delivered
  BY <1>3 DEF PushGoesOn, PushReadHead, PushHasRoom, PushCopyBegin, PushCopyEnd, PushFull,
              PushPublish
<1>4. ASSUME NEW w \in Workers, PushOrder(w) PROVE delivered' = delivered
  BY <1>3, <1>4, PushOrderKinds
<1>5. ASSUME NEW f \in Feeds, FeedPush(f) PROVE delivered' = delivered
  BY <1>3, <1>5 DEF FeedPush
<1>6. ASSUME NEW w \in Workers, AnswerIsLost(w) \/ WorkerCallFails(w)
      PROVE  delivered' = delivered
  BY <1>6, WorkerStumbles DEF ringVars
<1>7. CASE Aside
  BY <1>7, AsideLeavesOrdersAlone DEF ringVars
<1>8. CASE UNCHANGED vars
  BY <1>8 DEF ringVars
<1> QED BY <1>1, <1>2, <1>4, <1>5, <1>6, <1>7, <1>8, StepKinds

LEMMA MatchedNext == NoOrderLeftUnmatched /\ [SystemNext]_vars => NoOrderLeftUnmatched'
<1> SUFFICES ASSUME NoOrderLeftUnmatched, [SystemNext]_vars
             PROVE  NoOrderLeftUnmatched'
  OBVIOUS
<1> USE DEF systemVars, matcherVars
<1>1. CASE MatcherSubmit
  BY <1>1 DEF MatcherSubmit, Drains, NoOrderLeftUnmatched
<1> SUFFICES ASSUME delivered' = delivered PROVE NoOrderLeftUnmatched'
  BY <1>1, OnlyMatcherPops
<1>2. CASE UNCHANGED matcherVars
  BY <1>2 DEF NoOrderLeftUnmatched
<1>3. CASE MatcherCheck \/ MatcherMatch
  BY <1>3 DEF MatcherCheck, MatcherMatch, NoOrderLeftUnmatched
<1>4. ASSUME NEW w \in Workers, Worker(w) PROVE UNCHANGED matcherVars
  BY <1>4 DEF Worker, WorkerRuns, AnswerIsLost, WorkerCallFails, Throws
<1>5. ASSUME NEW f \in Feeds, Feed(f) PROVE UNCHANGED matcherVars
  BY <1>5 DEF Feed, FeedTick, FeedPush, FeedEnd
<1>6. CASE ClientSends \/ ProxyThrows \/ Interrupt \/ Main
  BY <1>2, <1>6 DEF ClientSends, ProxyThrows, Throws, Interrupt, Main, MainStep,
                    CloseFrontend, CloseContext, ContextClosed, Export
<1>7. CASE UNCHANGED vars
  BY <1>2, <1>7 DEF vars
<1> QED BY <1>1, <1>2, <1>3, <1>4, <1>5, <1>6, <1>7 DEF SystemNext, Matcher

\* Whenever the matcher is not in its inner loop, in particular when it has ended
\* and main exports the results, match_all has seen every order of the engine.
THEOREM MatcherLeavesNothing == SystemSpec => []NoOrderLeftUnmatched
<1>1. SystemInit => NoOrderLeftUnmatched
  BY DEF SystemInit, GatewayInit, Init, NoOrderLeftUnmatched
<1> QED BY <1>1, MatchedNext, PTL DEF SystemSpec

-----------------------------------------------------------------------------
(***************************************************************************)
(* Requests on their way through the gateway                               *)
(***************************************************************************)
\* Steps that leave requests, answers and pushed orders alone and move a worker
\* at most to where it holds no request.
Quiet == /\ UNCHANGED <<sent, acks, answered, inbox, msg, queued>>
         /\ wpc' \in [Workers -> Places]
         /\ \A w \in Workers : Holds(w)' => wpc'[w] = wpc[w]

LEMMA GatewayStepKinds ==
    ASSUME SystemTypes, [SystemNext]_vars
    PROVE  \/ \E c \in Clients, k \in Kinds, w \in Workers : Send(c, k, w)
           \/ \E w \in Workers : Receive(w) \/ PushOrder(w) \/ Ack(w)
           \/ \E f \in Feeds : FeedPush(f)
           \/ Quiet
<1> USE DEF vars, gatewayVars, clientVars, queueVars
<1>0. wpc \in [Workers -> Places]
  BY DEF SystemTypes
<1>1. ASSUME NEW w \in Workers, Loop(w) PROVE Quiet
  BY <1>0, <1>1 DEF Loop, Goto, Quiet, Holds, Places
<1>2. ASSUME NEW w \in Workers, AnswerIsLost(w) \/ WorkerCallFails(w) PROVE Quiet
  <2>1. wpc' = wpc \/ wpc' = [wpc EXCEPT ![w] = "loop"]
    BY <1>2, WorkerStumbles
  <2>2. wpc' \in [Workers -> Places]
        /\ \A v \in Workers : Holds(v)' => wpc'[v] = wpc[v]
    BY ONLY <1>0, <2>1 DEF Holds, Places
  <2> QED BY <1>2, <2>2, WorkerStumbles DEF Quiet
<1>3. CASE MatcherSubmit
  BY <1>0, <1>3 DEF MatcherSubmit, Quiet
<1>4. CASE Aside
  BY <1>0, <1>4, AsideLeavesOrdersAlone DEF Quiet
<1>5. CASE UNCHANGED vars
  BY <1>0, <1>5 DEF Quiet
<1> QED BY <1>1, <1>2, <1>3, <1>4, <1>5, StepKinds

InQueue(r) == \E i \in DOMAIN queued : queued[i] = r

\* Only orders are pushed, and an order whose answer is due or given has been
\* pushed.
PushedBeforeAck ==
    /\ \A w \in Workers : wpc[w] = "push" => msg[w].kind = "order"
    /\ \A w \in Workers : wpc[w] = "ack" /\ msg[w].kind = "order" => InQueue(msg[w])
    /\ \A r \in answered : r.kind = "order" => InQueue(r)

LEMMA InQueueGrows ==
    ASSUME SystemTypes, NEW e \in AnyOrder, queued' = Append(queued, e)
    PROVE  /\ InQueue(e)'
           /\ \A r : InQueue(r) => InQueue(r)'
<1>1. queued \in Seq(AnyOrder)
  BY DEF SystemTypes
<1>2. queued'[Len(queued) + 1] = e /\ Len(queued) + 1 \in DOMAIN queued'
  BY <1>1
<1>3. \A i \in DOMAIN queued : i \in DOMAIN queued' /\ queued'[i] = queued[i]
  BY <1>1
<1> QED BY <1>2, <1>3 DEF InQueue

LEMMA PushedNext == SystemTypes /\ PushedBeforeAck /\ [SystemNext]_vars => PushedBeforeAck'
<1> SUFFICES ASSUME SystemTypes, PushedBeforeAck, [SystemNext]_vars
             PROVE  PushedBeforeAck'
  OBVIOUS
<1> USE DEF clientVars, queueVars
<1>0. wpc \in [Workers -> Places]
      /\ DOMAIN msg = Workers /\ msg = [w \in Workers |-> msg[w]]
  BY DEF SystemTypes
<1>1. ASSUME NEW c \in Clients, NEW k \in Kinds, NEW w \in Workers, Send(c, k, w)
      PROVE  PushedBeforeAck'
  BY <1>1 DEF Send, PushedBeforeAck, InQueue
<1>2. ASSUME NEW w \in Workers, Receive(w) PROVE PushedBeforeAck'
  <2>1. /\ msg'[w] = Head(inbox[w])
        /\ wpc'[w] = "push" => msg'[w].kind = "order"
        /\ wpc'[w] = "ack" => msg'[w].kind # "order"
    <3>1. Head(inbox[w]) \in AnyRequest
      BY <1>2 DEF Receive, SystemTypes
    <3> QED BY <1>0, <1>2, <3>1 DEF Receive, Goto, After, AnyRequest, Kinds
  <2>2. \A v \in Workers : v # w => msg'[v] = msg[v] /\ wpc'[v] = wpc[v]
    BY <1>0, <1>2 DEF Receive, Goto
  <2>3. UNCHANGED <<queued, answered>>
    BY <1>2 DEF Receive
  <2> QED BY <2>1, <2>2, <2>3 DEF PushedBeforeAck, InQueue
<1>3. ASSUME NEW w \in Workers, PushOrder(w) PROVE PushedBeforeAck'
  <2>1. CASE UNCHANGED <<queued, wpc>>
    <3>1. UNCHANGED <<msg, answered>>
      BY <1>3, PushOrderKinds
    <3> QED BY <2>1, <3>1 DEF PushedBeforeAck, InQueue
  <2>2. CASE queued' = Append(queued, msg[w]) /\ wpc' = [wpc EXCEPT ![w] = "ack"]
    <3>1. msg[w] \in AnyOrder /\ UNCHANGED <<msg, answered>>
      BY <1>3, PushOrderKinds DEF SystemTypes, Holds, AnyRequest, AnyOrder
    <3>2. InQueue(msg[w])' /\ \A r : InQueue(r) => InQueue(r)'
      <4>1. PICK e \in AnyOrder : e = msg[w]
        BY <3>1
      <4>2. InQueue(e)' /\ \A r : InQueue(r) => InQueue(r)'
        BY <2>2, <4>1, InQueueGrows
      <4> QED BY <3>1, <4>1, <4>2 DEF InQueue
    <3>3. (\A v \in Workers : wpc[v] = "push" => msg[v].kind = "order")'
      BY <1>0, <2>2, <3>1 DEF PushedBeforeAck
    <3>4. (\A v \in Workers : wpc[v] = "ack" /\ msg[v].kind = "order"
                                 => InQueue(msg[v]))'
      <4> SUFFICES ASSUME NEW v \in Workers, wpc'[v] = "ack", msg[v].kind = "order"
                   PROVE  InQueue(msg[v])'
        BY <3>1
      <4>1. CASE v = w
        BY <3>2, <4>1
      <4>2. CASE v # w
        <5>1. InQueue(msg[v])
          BY <1>0, <2>2, <4>2 DEF PushedBeforeAck
        <5> QED BY <3>1, <3>2, <5>1 DEF InQueue
      <4> QED BY <4>1, <4>2
    <3> QED BY <3>1, <3>2, <3>3, <3>4 DEF PushedBeforeAck
  <2> QED BY <1>3, <2>1, <2>2, PushOrderKinds
<1>4. ASSUME NEW w \in Workers, Ack(w) PROVE PushedBeforeAck'
  <2>1. wpc' = [wpc EXCEPT ![w] = "loop"]
    BY <1>4 DEF Ack, Goto, After
  <2>2. UNCHANGED <<msg, queued>> /\ answered' = answered \cup {msg[w]} /\ wpc[w] = "ack"
    BY <1>4 DEF Ack
  <2> QED BY <1>0, <2>1, <2>2 DEF PushedBeforeAck, InQueue
<1>5. ASSUME NEW f \in Feeds, FeedPush(f) PROVE PushedBeforeAck'
  <2>1. UNCHANGED <<wpc, msg, answered>>
    BY <1>5, FeedPushKinds
  <2>2. \A r : InQueue(r) => InQueue(r)'
    BY <1>5, FeedPushKinds, InQueueGrows DEF InQueue
  <2> QED BY <2>1, <2>2 DEF PushedBeforeAck
<1>6. CASE Quiet
  BY <1>6 DEF Quiet, Holds, PushedBeforeAck, InQueue
<1> QED BY <1>1, <1>2, <1>3, <1>4, <1>5, <1>6, GatewayStepKinds

\* `queued' names the orders that push has accepted.
SameLength == Len(queued) = Len(accepted)

LEMMA SameLengthNext ==
    TypeOK /\ SystemTypes /\ SameLength /\ [SystemNext]_vars => SameLength'
<1> SUFFICES ASSUME TypeOK, SystemTypes, SameLength, [SystemNext]_vars PROVE SameLength'
  OBVIOUS
<1> USE DEF gatewayVars, queueVars
<1>0. accepted \in Seq(Orders) /\ queued \in Seq(AnyOrder)
  BY DEF TypeOK, SystemTypes
<1>1. CASE UNCHANGED <<queued, accepted>>
  BY <1>1 DEF SameLength
<1>2. ASSUME NEW p \in Producers, PushPublish(p), \E e : queued' = Append(queued, e)
      PROVE  SameLength'
  <2>1. Len(accepted') = Len(accepted) + 1
    BY <1>0, <1>2 DEF PushPublish
  <2>2. Len(queued') = Len(queued) + 1
    BY <1>0, <1>2
  <2> QED BY <2>1, <2>2 DEF SameLength
<1>3. ASSUME NEW p \in Producers, PushGoesOn(p) \/ (\E again \in BOOLEAN : PushFull(p, again))
      PROVE  accepted' = accepted
  BY <1>3 DEF PushGoesOn, PushReadHead, PushHasRoom, PushCopyBegin, PushCopyEnd, PushFull
<1>4. ASSUME NEW w \in Workers, PushOrder(w) PROVE SameLength'
  <2>1. w \in Producers
    BY WorkersAssumption
  <2> QED BY <1>1, <1>2, <1>3, <1>4, <2>1, PushOrderKinds
<1>5. ASSUME NEW f \in Feeds, FeedPush(f) PROVE SameLength'
  <2>1. f \in Producers
    BY FeedsAssumption
  <2> QED BY <1>1, <1>2, <1>3, <1>5, <2>1, FeedPushKinds
<1>6. CASE MatcherSubmit
  BY <1>1, <1>6 DEF MatcherSubmit, Pop, PopHasItem, PopCopyBegin, PopCopyEnd, PopAdvance
<1>7. ASSUME NEW c \in Clients, NEW k \in Kinds, NEW w \in Workers, Send(c, k, w)
      PROVE  SameLength'
  BY <1>1, <1>7 DEF Send, ringVars
<1>8. ASSUME NEW w \in Workers, Loop(w) \/ Receive(w) \/ Ack(w) PROVE SameLength'
  BY <1>1, <1>8 DEF Loop, Receive, Ack, ringVars
<1>9. ASSUME NEW w \in Workers, AnswerIsLost(w) \/ WorkerCallFails(w) PROVE SameLength'
  BY <1>1, <1>9, WorkerStumbles DEF ringVars
<1>10. CASE Aside
  BY <1>1, <1>10, AsideLeavesOrdersAlone DEF ringVars
<1>11. CASE UNCHANGED vars
  BY <1>1, <1>11 DEF vars, ringVars
<1> QED BY <1>4, <1>5, <1>6, <1>7, <1>8, <1>9, <1>10, <1>11, StepKinds

\* Going backwards around the buffer.
LEMMA ModBelow ==
    ASSUME NEW S \in Nat \ {0}, NEW x \in 0 .. S - 1
    PROVE  (x - S) % S = x /\ x % S = x
  OBVIOUS

\* While no two pushes have overlapped, an accepted order is delivered or waits.
LEMMA DeliveredOrWaits ==
    ASSUME QueueInv, NEW i \in 1 .. Len(accepted)
    PROVE  Waits(i) \/ (i \in DOMAIN delivered /\ delivered[i] = accepted[i])
<1>1. /\ Pending \in 0 .. SIZE - 1 /\ tail \in Slots /\ head \in Slots
      /\ head = (tail + Pending) % SIZE
      /\ Len(accepted) \in Nat /\ Len(delivered) \in Nat
      /\ DOMAIN delivered = 1 .. Len(delivered)
  BY DEF QueueInv, TypeInv, TypeOK, WindowHoldsPending
<1>2. CASE i <= Len(delivered)
  BY <1>1, <1>2 DEF QueueInv, FifoOrder
<1>3. CASE i > Len(delivered)
  <2>1. (head - tail) % SIZE = Pending
    <3>1. PICK x \in 0 .. 2 * SIZE - 1 : x = tail + Pending
      BY <1>1, SizeAssumption DEF Slots
    <3>2. head = IF x < SIZE THEN x ELSE x - SIZE
      <4>1. head = x % SIZE
        BY <1>1, <3>1
      <4> QED BY <4>1, ModOneTurn, SizeAssumption
    <3>3. head - tail = Pending \/ head - tail = Pending - SIZE
      BY <1>1, <3>1, <3>2, SizeAssumption DEF Slots
    <3> QED BY <1>1, <3>3, ModBelow, SizeAssumption
  <2>2. PICK k \in 1 .. Pending : k = i - Len(delivered)
    BY <1>1, <1>3 DEF Pending
  <2>3. /\ Len(delivered) + k = i
        /\ tail + i - Len(delivered) - 1 = tail + k - 1
    BY <1>1, <2>2 DEF Slots
  <2>4. buffer[(tail + k - 1) % SIZE] = accepted[Len(delivered) + k]
    BY DEF QueueInv, WindowHoldsPending
  <2> QED BY <2>1, <2>2, <2>3, <2>4 DEF Waits
<1> QED BY <1>1, <1>2, <1>3

\* Every order a client has an answer for has been through push, whichever worker
\* handled it, and until two pushes overlap it is in its slot, inside what the
\* matcher will look at, or has been handed to the engine at its place
\* (gateway.cpp:81-91, lockfree_ringbuffer.hpp:11-25).
THEOREM AckedSurvives == SystemSpec => []AckedOrdersSurvive
<1>1. SystemInit => PushedBeforeAck /\ SameLength
  BY DEF SystemInit, GatewayInit, Init, PushedBeforeAck, SameLength
<1>2. RaceInv => TypeOK
  BY DEF RaceInv, TypeInv
<1>3. RaceInv /\ SystemTypes /\ PushedBeforeAck /\ SameLength => AckedOrdersSurvive
  <2> SUFFICES ASSUME RaceInv, SystemTypes, PushedBeforeAck, SameLength,
                      NEW r \in answered, r.kind = "order"
               PROVE  \E i \in DOMAIN queued :
                         /\ queued[i] = r
                         /\ \/ raced
                            \/ Waits(i)
                            \/ i \in DOMAIN delivered /\ delivered[i] = accepted[i]
    BY DEF AckedOrdersSurvive
  <2>1. PICK i \in DOMAIN queued : queued[i] = r
    BY DEF PushedBeforeAck, InQueue
  <2>2. i \in 1 .. Len(accepted)
    BY DEF SystemTypes, SameLength
  <2>3. ~raced => Waits(i) \/ (i \in DOMAIN delivered /\ delivered[i] = accepted[i])
    BY <2>2, DeliveredOrWaits DEF RaceInv
  <2> QED BY <2>1, <2>3
<1> QED BY <1>1, <1>2, <1>3, PushedNext, SameLengthNext, TypeCorrectInSystem, SystemRaces,
           PTL DEF SystemSpec

\* A request on its way is the last one its client sent and the only one not
\* answered.
Latest(r) == r.n = sent[r.client] /\ sent[r.client] = acks[r.client] + 1
LatestSent ==
    /\ \A c \in Clients : acks[c] <= sent[c]
    /\ \A w \in Workers : \A i \in DOMAIN inbox[w] : Latest(inbox[w][i])
    /\ \A w \in Workers : Holds(w) => Latest(msg[w])

\* A client has at most one request on its way: in one place of one inbox, or in
\* the hands of one worker.
OneOnItsWay ==
    /\ \A v, w \in Workers : \A i \in DOMAIN inbox[v], j \in DOMAIN inbox[w] :
          inbox[v][i].client = inbox[w][j].client => v = w /\ i = j
    /\ \A v, w \in Workers : \A i \in DOMAIN inbox[v] :
          Holds(w) => msg[w].client # inbox[v][i].client
    /\ \A v, w \in Workers :
          Holds(v) /\ Holds(w) /\ msg[v].client = msg[w].client => v = w

\* No queued order of a client is later than its last request, and none is that
\* request until it is pushed.
Older(e, c) == e.client = c => e.n < sent[c]
NotYetQueued ==
    /\ \A i \in DOMAIN queued :
          queued[i].client \in Clients => queued[i].n <= sent[queued[i].client]
    /\ \A w \in Workers : \A j \in DOMAIN inbox[w], i \in DOMAIN queued :
          Older(queued[i], inbox[w][j].client)
    /\ \A w \in Workers : wpc[w] = "push" =>
          \A i \in DOMAIN queued : Older(queued[i], msg[w].client)

OneRequest == Window = 1 => /\ LatestSent /\ OneOnItsWay /\ NotYetQueued
                            /\ SerialClientsKeepOrder

\* What the next three lemmas assume of a state.
Serial == SystemTypes /\ LatestSent /\ OneOnItsWay /\ NotYetQueued /\ SerialClientsKeepOrder

LEMMA RequestTypes ==
    ASSUME SystemTypes
    PROVE  /\ \A w \in Workers : \A i \in DOMAIN inbox[w] : inbox[w][i] \in AnyRequest
           /\ \A w \in Workers : Holds(w) => msg[w] \in AnyRequest
           /\ \A i \in DOMAIN queued : queued[i] \in AnyOrder
  BY DEF SystemTypes

\* A client may send: it has nothing on its way.
LEMMA SendKeepsSerial ==
    ASSUME Window = 1, Serial,
           NEW c \in Clients, NEW k \in Kinds, NEW w \in Workers, Send(c, k, w)
    PROVE  (LatestSent /\ OneOnItsWay /\ NotYetQueued /\ SerialClientsKeepOrder)'
<1>1. /\ sent \in [Clients -> Nat] /\ acks \in [Clients -> Nat]
      /\ inbox \in [Workers -> Seq(AnyRequest)]
  BY DEF Serial, SystemTypes
<1>2. sent[c] = acks[c]
  BY <1>1 DEF Send, Serial, LatestSent
<1>3. sent' = [sent EXCEPT ![c] = @ + 1]
      /\ UNCHANGED <<acks, wpc, msg, queued>>
  BY DEF Send, queueVars
<1>4. PICK r \in AnyRequest : r = [client |-> c, n |-> sent[c] + 1, kind |-> k]
  <2>1. [client |-> c, n |-> sent[c] + 1, kind |-> k] \in AnyRequest
    BY <1>1 DEF AnyRequest
  <2> QED BY ONLY <2>1
<1>5. inbox' = [inbox EXCEPT ![w] = Append(@, r)]
  BY <1>4 DEF Send
<1>6. \A v \in Workers : \A i \in DOMAIN inbox'[v] :
         \/ i \in DOMAIN inbox[v] /\ inbox'[v][i] = inbox[v][i]
         \/ v = w /\ i = Len(inbox[w]) + 1 /\ inbox'[v][i] = r
  BY <1>1, <1>4, <1>5
<1>7. \A v \in Workers : \A i \in DOMAIN inbox[v] :
         inbox[v][i].client \in Clients \ {c} /\ Latest(inbox[v][i])
  BY <1>1, <1>2, RequestTypes DEF Serial, LatestSent, Latest, AnyRequest
<1>8. \A v \in Workers : Holds(v) => msg[v].client \in Clients \ {c} /\ Latest(msg[v])
  BY <1>1, <1>2, RequestTypes DEF Serial, LatestSent, Latest, AnyRequest
<1>9. LatestSent'
  <2>1. \A d \in Clients : d # c => sent'[d] = sent[d] /\ acks'[d] = acks[d]
    BY <1>1, <1>3
  <2>2. sent'[c] = sent[c] + 1 /\ acks'[c] = sent[c]
    BY <1>1, <1>2, <1>3
  <2>3. (\A d \in Clients : acks[d] <= sent[d])'
    BY <1>1, <2>1, <2>2 DEF LatestSent, Serial
  <2>4. Latest(r)'
    BY <1>1, <1>4, <2>2 DEF Latest
  <2>5. \A q : q.client \in Clients \ {c} /\ Latest(q) => Latest(q)'
    BY <2>1 DEF Latest
  <2>6. (\A v \in Workers : \A i \in DOMAIN inbox[v] : Latest(inbox[v][i]))'
    <3> SUFFICES ASSUME NEW v \in Workers, NEW i \in DOMAIN inbox'[v]
                 PROVE  Latest(inbox[v][i])'
      OBVIOUS
    <3>1. CASE i \in DOMAIN inbox[v] /\ inbox'[v][i] = inbox[v][i]
      BY <1>7, <2>5, <3>1
    <3>2. CASE inbox'[v][i] = r
      BY <2>4, <3>2
    <3> QED BY <1>6, <3>1, <3>2
  <2>7. (\A v \in Workers : Holds(v) => Latest(msg[v]))'
    BY <1>3, <1>8, <2>5 DEF Holds
  <2> QED BY <2>3, <2>6, <2>7 DEF LatestSent
<1>10. OneOnItsWay'
  BY <1>3, <1>4, <1>6, <1>7, <1>8 DEF OneOnItsWay, Holds, Serial
<1>11. NotYetQueued'
  <2>1. \A i \in DOMAIN queued : queued[i].n \in Nat
    BY RequestTypes DEF AnyOrder, Serial
  <2>2. \A d \in Clients : sent[d] \in Nat /\ sent[d] <= sent'[d]
    BY <1>1, <1>3
  <2>3. (\A i \in DOMAIN queued :
            queued[i].client \in Clients => queued[i].n <= sent[queued[i].client])'
    BY <1>1, <1>3, <2>1, <2>2 DEF NotYetQueued, Serial
  <2>4. \A d \in Clients : \A i \in DOMAIN queued :
           Older(queued[i], d) => Older(queued[i], d)'
    BY <1>1, <1>3, <2>1, <2>2 DEF Older
  <2>5. \A i \in DOMAIN queued : Older(queued[i], c)'
    BY <1>1, <1>3, <2>1 DEF Older, NotYetQueued, Serial
  <2>6. (\A v \in Workers : \A j \in DOMAIN inbox[v], i \in DOMAIN queued :
            Older(queued[i], inbox[v][j].client))'
    <3> SUFFICES ASSUME NEW v \in Workers, NEW j \in DOMAIN inbox'[v],
                        NEW i \in DOMAIN queued
                 PROVE  Older(queued[i], inbox[v][j].client)'
      BY <1>3
    <3>1. CASE j \in DOMAIN inbox[v] /\ inbox'[v][j] = inbox[v][j]
      BY <1>3, <1>7, <2>4, <3>1 DEF NotYetQueued, Serial
    <3>2. CASE inbox'[v][j] = r
      BY <1>3, <1>4, <2>5, <3>2
    <3> QED BY <1>6, <3>1, <3>2
  <2>7. (\A v \in Workers : wpc[v] = "push" =>
            \A i \in DOMAIN queued : Older(queued[i], msg[v].client))'
    BY <1>3, <1>8, <2>4 DEF NotYetQueued, Holds, Serial
  <2> QED BY <2>3, <2>6, <2>7 DEF NotYetQueued
<1>12. SerialClientsKeepOrder'
  BY <1>3 DEF SerialClientsKeepOrder, Serial
<1> QED BY <1>9, <1>10, <1>11, <1>12

\* A worker that takes a request had none.
LEMMA ReceiveKeepsSerial ==
    ASSUME Serial, NEW w \in Workers, Receive(w)
    PROVE  (LatestSent /\ OneOnItsWay /\ NotYetQueued /\ SerialClientsKeepOrder)'
<1>1. /\ inbox \in [Workers -> Seq(AnyRequest)]
      /\ wpc \in [Workers -> Places]
      /\ DOMAIN msg = Workers /\ msg = [v \in Workers |-> msg[v]]
  BY DEF Serial, SystemTypes
<1>2. /\ wpc[w] = "recv" /\ inbox[w] # <<>>
      /\ UNCHANGED <<sent, acks, queued>>
  BY DEF Receive, clientVars, queueVars
<1>3. 1 \in DOMAIN inbox[w] /\ msg' = [msg EXCEPT ![w] = inbox[w][1]]
  BY <1>1, <1>2 DEF Receive
<1>4. \A v \in Workers : v # w => msg'[v] = msg[v] /\ wpc'[v] = wpc[v]
  BY <1>1, <1>3 DEF Receive, Goto
<1>5. msg'[w] = inbox[w][1] /\ ~Holds(w)
  BY <1>1, <1>2, <1>3 DEF Receive, Goto, After, Holds
<1>6. /\ \A v \in Workers : v # w => inbox'[v] = inbox[v]
      /\ \A i \in DOMAIN inbox'[w] : i + 1 \in DOMAIN inbox[w] /\ i # 0 /\ i \in Nat
                                     /\ inbox'[w][i] = inbox[w][i + 1]
  BY <1>1, <1>2 DEF Receive
<1>7. LatestSent'
  BY <1>2, <1>3, <1>4, <1>5, <1>6 DEF LatestSent, Latest, Holds, Serial
<1>8. OneOnItsWay'
  <2>1. (\A u, v \in Workers : \A i \in DOMAIN inbox[u], j \in DOMAIN inbox[v] :
            inbox[u][i].client = inbox[v][j].client => u = v /\ i = j)'
    <3> SUFFICES ASSUME NEW u \in Workers, NEW v \in Workers,
                        NEW i \in DOMAIN inbox'[u], NEW j \in DOMAIN inbox'[v],
                        inbox'[u][i].client = inbox'[v][j].client
                 PROVE  u = v /\ i = j
      OBVIOUS
    <3>1. CASE u = w /\ v = w
      <4>1. i + 1 = j + 1
        BY <1>6, <3>1 DEF OneOnItsWay, Serial
      <4> QED BY <1>6, <3>1, <4>1
    <3>2. CASE u = w /\ v # w
      BY <1>6, <3>2 DEF OneOnItsWay, Serial
    <3>3. CASE u # w /\ v = w
      BY <1>6, <3>3 DEF OneOnItsWay, Serial
    <3>4. CASE u # w /\ v # w
      BY <1>6, <3>4 DEF OneOnItsWay, Serial
    <3> QED BY <3>1, <3>2, <3>3, <3>4
  <2>2. (\A u, v \in Workers : \A i \in DOMAIN inbox[u] :
            Holds(v) => msg[v].client # inbox[u][i].client)'
    <3> SUFFICES ASSUME NEW u \in Workers, NEW v \in Workers,
                        NEW i \in DOMAIN inbox'[u], Holds(v)'
                 PROVE  msg'[v].client # inbox'[u][i].client
      OBVIOUS
    <3>1. CASE v # w
      BY <1>4, <1>6, <3>1 DEF OneOnItsWay, Serial, Holds
    <3>2. CASE v = w /\ u # w
      BY <1>3, <1>5, <1>6, <3>2 DEF OneOnItsWay, Serial
    <3>3. CASE v = w /\ u = w
      <4>1. inbox[w][1].client = inbox[w][i + 1].client => 1 = i + 1
        BY <1>3, <1>6, <3>3 DEF OneOnItsWay, Serial
      <4> QED BY <1>5, <1>6, <3>3, <4>1
    <3> QED BY <3>1, <3>2, <3>3
  <2>3. (\A u, v \in Workers :
            Holds(u) /\ Holds(v) /\ msg[u].client = msg[v].client => u = v)'
    BY <1>3, <1>4, <1>5 DEF OneOnItsWay, Serial, Holds
  <2> QED BY <2>1, <2>2, <2>3 DEF OneOnItsWay
<1>9. NotYetQueued'
  BY <1>2, <1>3, <1>4, <1>5, <1>6 DEF NotYetQueued, Older, Serial
<1> QED BY <1>2, <1>7, <1>8, <1>9 DEF SerialClientsKeepOrder, Serial

\* The order a worker pushes is later than what its client has in the queue.
LEMMA PushKeepsSerial ==
    ASSUME Serial, NEW w \in Workers, PushOrder(w)
    PROVE  (LatestSent /\ OneOnItsWay /\ NotYetQueued /\ SerialClientsKeepOrder)'
<1>1. /\ sent \in [Clients -> Nat]
      /\ wpc \in [Workers -> Places]
      /\ queued \in Seq(AnyOrder)
  BY DEF Serial, SystemTypes
<1>0. CASE UNCHANGED <<queued, wpc>>
  <2>1. UNCHANGED <<sent, acks, inbox, msg>>
    BY PushOrderKinds
  <2> QED BY <1>0, <2>1 DEF LatestSent, Latest, OneOnItsWay, NotYetQueued, Older, Holds,
                            SerialClientsKeepOrder, Serial
<1> SUFFICES ASSUME ~UNCHANGED <<queued, wpc>>
             PROVE  (LatestSent /\ OneOnItsWay /\ NotYetQueued /\ SerialClientsKeepOrder)'
  BY <1>0
<1>2. wpc[w] = "push" /\ wpc' = [wpc EXCEPT ![w] = "ack"]
  BY PushOrderKinds
<1>3. UNCHANGED <<sent, acks, inbox, msg>> /\ queued' = Append(queued, msg[w])
  BY PushOrderKinds
<1>4. msg[w] \in AnyRequest /\ Latest(msg[w])
  BY <1>2, RequestTypes DEF Holds, Serial, LatestSent
<1>5. /\ msg[w] \in AnyOrder /\ msg[w].client \in Clients
      /\ msg[w].n = sent[msg[w].client]
  BY <1>4 DEF AnyRequest, AnyOrder, Latest
<1>6. \A i \in DOMAIN queued' :
         \/ i \in DOMAIN queued /\ queued'[i] = queued[i]
         \/ i = Len(queued) + 1 /\ queued'[i] = msg[w]
  BY <1>1, <1>3, <1>5
<1>7. \A i \in DOMAIN queued :
         queued[i].client = msg[w].client => queued[i].n < msg[w].n
  BY <1>2, <1>5 DEF NotYetQueued, Older, Serial
<1>8. \A v \in Workers : Holds(v)' => Holds(v)
  BY <1>1, <1>2 DEF Holds
<1>9. LatestSent'
  BY <1>3, <1>8 DEF LatestSent, Latest, Serial
<1>10. OneOnItsWay'
  BY <1>3, <1>8 DEF OneOnItsWay, Serial
<1>11. NotYetQueued'
  <2>1. (\A i \in DOMAIN queued :
            queued[i].client \in Clients => queued[i].n <= sent[queued[i].client])'
    BY <1>1, <1>3, <1>5, <1>6 DEF NotYetQueued, Serial
  <2>2. (\A v \in Workers : \A j \in DOMAIN inbox[v], i \in DOMAIN queued :
            Older(queued[i], inbox[v][j].client))'
    BY <1>2, <1>3, <1>6 DEF NotYetQueued, Older, OneOnItsWay, Holds, Serial
  <2>3. (\A v \in Workers : wpc[v] = "push" =>
            \A i \in DOMAIN queued : Older(queued[i], msg[v].client))'
    <3>1. \A v \in Workers : wpc'[v] = "push" =>
             v # w /\ wpc[v] = "push"
      BY <1>1, <1>2
    <3> QED BY <1>2, <1>3, <1>6, <3>1 DEF NotYetQueued, Older, OneOnItsWay, Holds, Serial
  <2> QED BY <2>1, <2>2, <2>3 DEF NotYetQueued
<1>12. SerialClientsKeepOrder'
  <2> SUFFICES ASSUME Window = 1, NEW i \in DOMAIN queued', NEW j \in DOMAIN queued',
                      queued'[i].client = queued'[j].client,
                      queued'[i].client \in Clients, i < j
               PROVE  queued'[i].n < queued'[j].n
    BY DEF SerialClientsKeepOrder
  <2>1. i \in DOMAIN queued /\ queued'[i] = queued[i]
    BY <1>1, <1>3, <1>5, <1>6
  <2>2. CASE j \in DOMAIN queued /\ queued'[j] = queued[j]
    BY <2>1, <2>2 DEF SerialClientsKeepOrder, Serial
  <2>3. CASE queued'[j] = msg[w]
    BY <1>7, <2>1, <2>3
  <2> QED BY <1>6, <2>2, <2>3
<1> QED BY <1>9, <1>10, <1>11, <1>12

\* An answer frees its client to send the next request.
LEMMA AckKeepsSerial ==
    ASSUME Serial, NEW w \in Workers, Ack(w)
    PROVE  (LatestSent /\ OneOnItsWay /\ NotYetQueued /\ SerialClientsKeepOrder)'
<1>1. /\ sent \in [Clients -> Nat] /\ acks \in [Clients -> Nat]
      /\ wpc \in [Workers -> Places]
  BY DEF Serial, SystemTypes
<1>2. wpc[w] = "ack" /\ wpc' = [wpc EXCEPT ![w] = "loop"]
  BY DEF Ack, Goto, After
<1>3. /\ UNCHANGED <<sent, inbox, msg, queued>>
      /\ acks' = [acks EXCEPT ![msg[w].client] = @ + 1]
  BY DEF Ack, queueVars
<1>4. msg[w].client \in Clients /\ Latest(msg[w])
  BY <1>2, RequestTypes DEF Holds, AnyRequest, Serial, LatestSent
<1>5. \A v \in Workers : Holds(v)' => v # w /\ Holds(v) /\ wpc'[v] = wpc[v]
  BY <1>1, <1>2 DEF Holds
<1>6. \A c \in Clients : c # msg[w].client => acks'[c] = acks[c]
  BY <1>1, <1>3
<1>7. LatestSent'
  <2>1. (\A c \in Clients : acks[c] <= sent[c])'
    BY <1>1, <1>3, <1>4 DEF LatestSent, Latest, Serial
  <2>2. (\A v \in Workers : \A i \in DOMAIN inbox[v] : Latest(inbox[v][i]))'
    <3>1. \A v \in Workers : \A i \in DOMAIN inbox[v] :
             inbox[v][i].client \in Clients /\ inbox[v][i].client # msg[w].client
      BY <1>2, RequestTypes DEF AnyRequest, OneOnItsWay, Holds, Serial
    <3> QED BY <1>3, <1>6, <3>1 DEF LatestSent, Latest, Serial
  <2>3. (\A v \in Workers : Holds(v) => Latest(msg[v]))'
    <3>1. \A v \in Workers : v # w /\ Holds(v) =>
             msg[v].client \in Clients /\ msg[v].client # msg[w].client
      BY <1>2, RequestTypes DEF AnyRequest, OneOnItsWay, Holds, Serial
    <3>2. \A v \in Workers : v # w /\ Holds(v) => Latest(msg[v]) /\ Latest(msg[v])'
      BY <1>3, <1>6, <3>1 DEF LatestSent, Latest, Serial
    <3> QED BY <1>5, <3>2
  <2> QED BY <2>1, <2>2, <2>3 DEF LatestSent
<1>8. OneOnItsWay'
  BY <1>3, <1>5 DEF OneOnItsWay, Serial
<1>9. NotYetQueued'
  <2>1. \A v \in Workers : wpc'[v] = "push" => wpc'[v] = wpc[v]
    BY <1>1, <1>2
  <2> QED BY <1>3, <2>1 DEF NotYetQueued, Older, Serial
<1>10. SerialClientsKeepOrder'
  BY <1>3 DEF SerialClientsKeepOrder, Serial
<1> QED BY <1>7, <1>8, <1>9, <1>10

\* What a feed pushes is no client's.
LEMMA FeedKeepsSerial ==
    ASSUME Serial, NEW f \in Feeds, FeedPush(f)
    PROVE  (LatestSent /\ OneOnItsWay /\ NotYetQueued /\ SerialClientsKeepOrder)'
<1>1. queued \in Seq(AnyOrder)
  BY DEF Serial, SystemTypes
<1>2. UNCHANGED <<sent, acks, inbox, wpc, msg>>
  BY FeedPushKinds DEF Serial
<1>3. \A i \in DOMAIN queued' :
         \/ i \in DOMAIN queued /\ queued'[i] = queued[i]
         \/ i = Len(queued) + 1 /\ queued'[i].client \notin Clients
  <2>1. f \notin Clients
    BY FeedsAssumption
  <2>2. CASE queued' = queued
    BY <2>2
  <2>3. CASE \E e \in AnyOrder : e.client = f /\ queued' = Append(queued, e)
    <3>1. PICK e \in AnyOrder : e.client = f /\ queued' = Append(queued, e)
      BY <2>3
    <3> QED BY <1>1, <2>1, <3>1
  <2> QED BY <2>2, <2>3, FeedPushKinds DEF Serial
<1>4. /\ \A v \in Workers : \A i \in DOMAIN inbox[v] : inbox[v][i].client \in Clients
      /\ \A v \in Workers : Holds(v) => msg[v].client \in Clients
  BY RequestTypes DEF AnyRequest, Serial
<1>5. LatestSent' /\ OneOnItsWay'
  BY <1>2 DEF LatestSent, Latest, OneOnItsWay, Holds, Serial
<1>6. NotYetQueued'
  BY <1>2, <1>3, <1>4 DEF NotYetQueued, Older, Holds, Serial
<1>7. SerialClientsKeepOrder'
  BY <1>3 DEF SerialClientsKeepOrder, Serial
<1> QED BY <1>5, <1>6, <1>7

LEMMA OneRequestNext == SystemTypes /\ OneRequest /\ [SystemNext]_vars => OneRequest'
<1> SUFFICES ASSUME Window = 1, Serial, [SystemNext]_vars
             PROVE  (LatestSent /\ OneOnItsWay /\ NotYetQueued
                     /\ SerialClientsKeepOrder)'
  BY DEF OneRequest, Serial
<1>1. ASSUME Quiet
      PROVE  (LatestSent /\ OneOnItsWay /\ NotYetQueued /\ SerialClientsKeepOrder)'
  BY <1>1 DEF Quiet, Holds, LatestSent, Latest, OneOnItsWay, NotYetQueued, Older,
              SerialClientsKeepOrder, Serial
<1> QED BY <1>1, SendKeepsSerial, ReceiveKeepsSerial, PushKeepsSerial,
           AckKeepsSerial, FeedKeepsSerial, GatewayStepKinds DEF Serial

\* A client that waits for each ACK has its orders in order_queue in the order it
\* sent them, though the proxy may hand each one to a different worker
\* (gateway.cpp:55) and any number of clients and feeds push in between.
THEOREM SerialClientsAreSerial == SystemSpec => []SerialClientsKeepOrder
<1>1. SystemInit => OneRequest
  BY DEF SystemInit, GatewayInit, OneRequest, LatestSent, OneOnItsWay, NotYetQueued,
         Holds, SerialClientsKeepOrder
<1>2. OneRequest => SerialClientsKeepOrder
  BY DEF OneRequest, SerialClientsKeepOrder
<1> QED BY <1>1, <1>2, OneRequestNext, TypeCorrectInSystem, PTL DEF SystemSpec

=============================================================================
