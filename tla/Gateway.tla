-------------------------------- MODULE Gateway --------------------------------
(***************************************************************************)
(* week12_PortfolioInfra/src/gateway.cpp                                   *)
(*                                                                         *)
(* Clients send requests to a ROUTER socket; a proxy thread hands each one *)
(* to the socket of some worker; a worker turns an ORDER into an entry of  *)
(* order_queue and answers ACK to the identity it received.  ZeroMQ is     *)
(* external: it delivers every request to one worker, in order per client  *)
(* and worker, and every answer to the client it names.                    *)
(*                                                                         *)
(* order_queue is the object of LockFreeRingBuffer: a worker goes through  *)
(* push step by step, beside the other workers and the feeds.              *)
(* PortfolioSystem puts these actions together with the rest of the        *)
(* program.                                                                *)
(***************************************************************************)
EXTENDS LockFreeRingBuffer

CONSTANTS Clients, Workers,
          MaxRequests,  \* bound: requests per client
          Window        \* requests a client sends before it waits for an ACK

ASSUME WindowAssumption == Window \in Nat \ {0}
ASSUME WorkersAssumption == Workers \subseteq Producers \cap Nat

VARIABLES sent, acks,   \* a client: requests sent, ACKs received
          inbox,        \* requests the proxy handed to a worker's socket
          wpc, msg,     \* a worker: where it is in worker_loop, its request
          gw_running,   \* Gateway::running
          queued,       \* history: what `accepted' holds, as requests
          answered      \* history: every request that was answered

clientVars == <<sent, acks, answered>>
queueVars == <<ringVars, queued>>
gatewayVars == <<clientVars, inbox, wpc, msg, queueVars, gw_running>>

\* What a payload can be to the worker: an order, an ORDER| that parse_order
\* rejects with an exception, something that is not an ORDER|.
Kinds == {"order", "malformed", "other"}
Requests == [client : Clients, n : 1 .. MaxRequests, kind : Kinds]
NoRequest == [client |-> CHOOSE c \in Clients : TRUE, n |-> 0, kind |-> "other"]

\* start() has started worker_count of the threads.
GatewayInit(worker_count) ==
    /\ Init
    /\ sent = [c \in Clients |-> 0]
    /\ acks = [c \in Clients |-> 0]
    /\ inbox = [w \in Workers |-> <<>>]
    /\ wpc = [w \in Workers |-> IF w <= worker_count THEN "loop" ELSE "none"]
    /\ msg = [w \in Workers |-> NoRequest]
    /\ gw_running = TRUE
    /\ queued = <<>>
    /\ answered = {}

\* A client sends; the proxy passes the request on to one of the workers.
Send(c, kind, w) ==
    /\ sent[c] < MaxRequests
    /\ sent[c] - acks[c] < Window
    /\ wpc[w] # "none"
    /\ sent' = [sent EXCEPT ![c] = @ + 1]
    /\ inbox' = [inbox EXCEPT ![w] =
                    Append(@, [client |-> c, n |-> sent[c] + 1, kind |-> kind])]
    /\ UNCHANGED <<acks, answered, wpc, msg, queueVars, gw_running>>

(***************************************************************************)
(* An operator named X_..Slip is X with a slip one could make in the code; *)
(* the specifications do not use it.                                       *)
(***************************************************************************)

\* Answers before it pushes the order.
After_AckFirstSlip(at, r) ==
    CASE at = "recv" -> IF r.kind = "other" THEN "loop" ELSE "ack"
      [] at = "ack" -> IF r.kind = "order" THEN "push" ELSE "loop"
      [] at = "push" -> "loop"

\* The exception of parse_order is not caught and ends the thread.
After_UncaughtSlip(at, r) ==
    CASE at = "recv" -> (CASE r.kind = "order" -> "push"
                           [] r.kind = "malformed" -> "done"
                           [] r.kind = "other" -> "loop")
      [] at = "push" -> "ack"
      [] at = "ack" -> "loop"

\* Where worker_loop goes on with request r.  A payload that is not an ORDER| is
\* ignored without an answer; parse_order reads the worker's own data only, its
\* exception is caught, and the worker goes on to the answer.
After(at, r) ==
    CASE at = "recv" -> (CASE r.kind = "order" -> "push"
                           [] r.kind = "malformed" -> "ack"
                           [] r.kind = "other" -> "loop")
      [] at = "push" -> "ack"
      [] at = "ack" -> "loop"

Goto(w, at) == wpc' = [wpc EXCEPT ![w] = at]

\* while (running)
Loop(w) ==
    /\ wpc[w] = "loop"
    /\ Goto(w, IF gw_running THEN "recv" ELSE "done")
    /\ UNCHANGED <<clientVars, inbox, msg, queueVars, gw_running>>

\* Both recv calls: identity and payload are one message, the two frames that a
\* DEALER such as multi_client_demo.py, the client of this port, sends.
Receive(w) ==
    /\ wpc[w] = "recv"
    /\ inbox[w] # <<>>
    /\ msg' = [msg EXCEPT ![w] = Head(inbox[w])]
    /\ inbox' = [inbox EXCEPT ![w] = Tail(@)]
    /\ Goto(w, After("recv", Head(inbox[w])))
    /\ UNCHANGED <<clientVars, queueVars, gw_running>>

\* while (!order_queue.push(order)) sleep;
PushOrder(w) ==
    /\ wpc[w] = "push"
    /\ \/ /\ PushGoesOn(w) \/ PushFull(w, TRUE)
          /\ UNCHANGED <<queued, wpc>>
       \/ /\ PushPublish(w)
          /\ queued' = Append(queued, msg[w])
          /\ Goto(w, After("push", msg[w]))
    /\ UNCHANGED <<clientVars, inbox, msg, gw_running>>

\* The answer goes back under the identity that came with the request.
Ack(w) ==
    /\ wpc[w] = "ack"
    /\ acks' = [acks EXCEPT ![msg[w].client] = @ + 1]
    /\ answered' = answered \cup {msg[w]}
    /\ Goto(w, After("ack", msg[w]))
    /\ UNCHANGED <<sent, inbox, msg, queueVars, gw_running>>

-----------------------------------------------------------------------------
(***************************************************************************)
(* Properties, for whatever system these actions are part of               *)
(***************************************************************************)

\* Entry i of `accepted' is in the slot it waits in, between tail and head.
Waits(i) == /\ i - Len(delivered) \in 1 .. (head - tail) % SIZE
            /\ buffer[(tail + i - Len(delivered) - 1) % SIZE] = accepted[i]

\* An order that was answered is not lost.  Its push has returned true before,
\* and as long as no two pushes have overlapped it has been handed over, at its
\* place, or it is in its slot and inside what pop will look at.
AckedOrdersSurvive ==
    \A r \in answered : r.kind = "order" =>
        \E i \in DOMAIN queued :
            /\ queued[i] = r
            /\ \/ raced
               \/ Waits(i)
               \/ i \in DOMAIN delivered /\ delivered[i] = accepted[i]

\* A client that waits for each ACK has its orders queued in the order it sent
\* them, though any worker may handle each of them.
SerialClientsKeepOrder ==
    Window = 1 => \A i, j \in DOMAIN queued :
        queued[i].client = queued[j].client /\ queued[i].client \in Clients /\ i < j
            => queued[i].n < queued[j].n
=============================================================================
