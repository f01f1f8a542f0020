---------------------------- MODULE PortfolioSystem ----------------------------
(***************************************************************************)
(* week12_PortfolioInfra/src/main.cpp and market_feed.cpp, around Gateway: *)
(* gateway workers and market feeds put orders into order_queue, the       *)
(* matcher thread takes them into the engine and matches, main waits for   *)
(* the end of the run and shuts everything down.                           *)
(*                                                                         *)
(* The engine is seen from outside: submit_order is called with what pop   *)
(* returns, `delivered', and `matched' is how much of it a match_all has   *)
(* seen (see EngineManager for the inside).  MarketFeed::stop only clears  *)
(* a flag that the replay of a CSV file does not read; main never enables  *)
(* the random ticks that would.                                            *)
(***************************************************************************)
EXTENDS Gateway, SequencesExt

CONSTANTS Feeds,
          MaxBars,       \* bound: bars in a CSV file, each of which costs a
                         \* client one of its MaxRequests
          MaxLoad,       \* bound: workers and bars of a feed together
          OnTerm         \* what recv, send and proxy may do when their socket or
                         \* context ends: "throw" (zmq.hpp does), or "return" an
                         \* empty result, as `if (!worker.recv(identity))
                         \* continue' expects

ASSUME FeedsAssumption == /\ Feeds \cap (Clients \cup Workers) = {}
                          /\ Feeds \subseteq Producers
ASSUME OnTermAssumption == OnTerm \subseteq {"throw", "return"} /\ OnTerm # {}

VARIABLES running,       \* the global flag
          bars, replayed, fpc,  \* a feed: bars loaded, bars replayed, position
          mpc, matched,  \* the matcher
          main           \* main thread: where it is in its shutdown, or that
                         \* std::terminate has ended the process

feedVars == <<bars, replayed, fpc>>
matcherVars == <<mpc, matched>>
systemVars == <<running, feedVars, matcherVars, main>>
vars == <<gatewayVars, systemVars>>

\* load_csv has read as many bars as its file has, none if there is no file;
\* start has started generate_ticks.  With --no-feed there is no feed at all.
FeedsStarted ==
    /\ replayed = [f \in Feeds |-> 0]
    /\ \/ bars \in [Feeds -> 0 .. MaxBars] /\ fpc = [f \in Feeds |-> "loop"]
       \/ bars = [f \in Feeds |-> 0] /\ fpc = [f \in Feeds |-> "none"]

SystemInit ==
    /\ running = TRUE
    /\ FeedsStarted
    /\ \E n \in Workers : /\ GatewayInit(n)
                         /\ \A f \in Feeds : n + bars[f] <= MaxLoad
    /\ mpc = "check"
    /\ matched = 0
    /\ main = "wait"

FrontendOpen == main = "wait"
ContextOpen == main \in {"wait", "closed"}

(***************************************************************************)
(* The gateway inside the system.  Once the ROUTER socket is closed no     *)
(* request comes in and no answer gets out.                                *)
(***************************************************************************)
ClientSends == /\ FrontendOpen
               /\ \E c \in Clients, k \in Kinds, w \in Workers :
                     Send(c, k, w) /\ \A f \in Feeds : sent[c] + bars[f] < MaxRequests
               /\ UNCHANGED systemVars

WorkerRuns(w) == /\ \/ Loop(w) \/ PushOrder(w)
                    \/ ContextOpen /\ Receive(w)
                    \/ FrontendOpen /\ Ack(w)
                 /\ UNCHANGED systemVars

AnswerIsLost(w) ==
    /\ ContextOpen /\ ~FrontendOpen
    /\ wpc[w] = "ack"
    /\ Goto(w, After("ack", msg[w]))
    /\ UNCHANGED <<clientVars, inbox, msg, queueVars, gw_running, systemVars>>

\* None of the calls on sockets is inside a try block: an exception leaves the
\* thread and ends the process.
Throws == /\ "throw" \in OnTerm
          /\ main' = "aborted"
          /\ UNCHANGED <<gatewayVars, running, feedVars, matcherVars>>

WorkerCallFails(w) ==
    /\ ~ContextOpen
    /\ wpc[w] \in {"recv", "ack"}
    /\ \/ Throws
       \/ /\ "return" \in OnTerm
          /\ Goto(w, "loop")
          /\ UNCHANGED <<clientVars, inbox, msg, queueVars, gw_running, systemVars>>

Worker(w) == WorkerRuns(w) \/ AnswerIsLost(w) \/ WorkerCallFails(w)

\* zmq::proxy notices that its frontend was closed under it, or at the latest
\* that the context has ended: it throws, or it returns and its thread is over,
\* which only ContextClosed waits for.
ProxyThrows == main \in {"closed", "terminating"} /\ Throws
ProxyReturns == "return" \in OnTerm

(***************************************************************************)
(* generate_ticks                                                          *)
(***************************************************************************)
FeedAt(f, at) == fpc' = [fpc EXCEPT ![f] = at]

\* for (tick : bars) { if (!running) break; ...
FeedTick(f) ==
    /\ fpc[f] = "loop"
    /\ running /\ replayed[f] < bars[f]
    /\ FeedAt(f, "buy")
    /\ UNCHANGED <<gatewayVars, running, bars, replayed, matcherVars, main>>

\* From one order of a bar to the next.
NextOrder(f) ==
    /\ FeedAt(f, CASE fpc[f] = "buy" -> "sell"
                   [] fpc[f] = "sell" -> "rand"
                   [] fpc[f] = "rand" -> "loop")
    /\ replayed' = IF fpc[f] = "rand" THEN [replayed EXCEPT ![f] = @ + 1] ELSE replayed

\* order_queue.push(buy), (sell), (rand_order): the result is ignored, so an
\* order that finds the queue full is gone.
FeedPush(f) ==
    /\ fpc[f] \in {"buy", "sell", "rand"}
    /\ \/ PushGoesOn(f) /\ UNCHANGED <<queued, fpc, replayed>>
       \/ PushFull(f, FALSE) /\ NextOrder(f) /\ UNCHANGED queued
       \/ /\ PushPublish(f)
          /\ queued' = Append(queued, [client |-> f, n |-> replayed[f] + 1, kind |-> fpc[f]])
          /\ NextOrder(f)
    /\ UNCHANGED <<clientVars, inbox, wpc, msg, gw_running,
                   running, bars, matcherVars, main>>

\* Also without any bars: the feed that ends first ends the whole program.
FeedEnd(f) ==
    /\ fpc[f] = "loop"
    /\ ~running \/ replayed[f] = bars[f]
    /\ FeedAt(f, "done")
    /\ running' = FALSE
    /\ UNCHANGED <<gatewayVars, bars, replayed, matcherVars, main>>

Feed(f) == FeedTick(f) \/ FeedPush(f) \/ FeedEnd(f)

(***************************************************************************)
(* The matcher thread.                                                     *)
(***************************************************************************)

\* while (running)
MatcherCheck ==
    /\ mpc = "check"
    /\ mpc' = IF running THEN "drain" ELSE "done"
    /\ UNCHANGED <<gatewayVars, running, feedVars, matched, main>>

(***************************************************************************)
(* An operator named X_..Slip is X with a slip one could make in the code; *)
(* the specifications do not use it.                                       *)
(***************************************************************************)

\* Looks at `running' after each order and leaves at once.
Drains_LeaveSlip == IF running THEN "drain" ELSE "done"
\* The inner loop looks at the queue only.
Drains == "drain"

\* while (auto order_opt = order_queue.pop()) engines.submit_order(*order_opt);
MatcherSubmit ==
    /\ mpc = "drain"
    /\ Pop
    /\ mpc' = IF cpc' = "idle" THEN Drains ELSE mpc
    /\ UNCHANGED <<clientVars, inbox, wpc, msg, queued, gw_running,
                   running, feedVars, matched, main>>

\* pop has found the queue empty; match_all, the log and the sleep of 5 ms.
MatcherMatch ==
    /\ mpc = "drain"
    /\ cpc = "idle" /\ tail = head
    /\ matched' = Len(delivered)
    /\ mpc' = "check"
    /\ UNCHANGED <<gatewayVars, running, feedVars, main>>

Matcher == MatcherCheck \/ MatcherSubmit \/ MatcherMatch

(***************************************************************************)
(* main                                                                    *)
(***************************************************************************)

\* Ctrl-C
Interrupt ==
    /\ running
    /\ running' = FALSE
    /\ UNCHANGED <<gatewayVars, feedVars, matcherVars, main>>

\* From one step of main to the next.
MainStep(from, to) ==
    /\ main = from
    /\ main' = to
    /\ UNCHANGED <<running, feedVars, matcherVars>>

\* The gateway's own flag is left alone.
CloseFrontend_FlagSlip == MainStep("wait", "closed") /\ ~running /\ UNCHANGED gatewayVars

\* while (running) sleep; the feeds are told to stop, which they do not look at;
\* gateway.stop(): running = false; frontend.close();
CloseFrontend ==
    /\ MainStep("wait", "closed")
    /\ ~running
    /\ gw_running' = FALSE
    /\ UNCHANGED <<clientVars, inbox, wpc, msg, queueVars>>

\* ctx.close() ends the context at once for everybody else ...
CloseContext == MainStep("closed", "terminating") /\ UNCHANGED gatewayVars

\* ... and returns when every socket of the context has been closed.
ContextClosed ==
    /\ MainStep("terminating", "join")
    /\ ProxyReturns
    /\ \A w \in Workers : wpc[w] \in {"none", "done"}
    /\ UNCHANGED gatewayVars

\* matcher.join(), and the results are exported.
Export == MainStep("join", "exported") /\ mpc = "done" /\ UNCHANGED gatewayVars

Main == \/ CloseFrontend \/ CloseContext \/ ContextClosed \/ Export

\* Nothing runs any more once main has returned or the process was terminated.
Ended == main \in {"exported", "aborted"}
SystemNext ==
    /\ ~Ended
    /\ \/ ClientSends
       \/ \E w \in Workers : Worker(w)
       \/ ProxyThrows
       \/ \E f \in Feeds : Feed(f)
       \/ Matcher
       \/ Interrupt
       \/ Main

SystemSpec == SystemInit /\ [][SystemNext]_vars

\* Workers, proxy, matcher and main are scheduled whenever they can run.  A feed
\* may be suspended at any point, also inside push, and nobody has to press
\* Ctrl-C or to send a request.
Alive(A) == ~Ended /\ A
FairSystemSpec ==
    /\ SystemSpec
    /\ \A w \in Workers : WF_vars(Alive(Worker(w)))
    /\ WF_vars(Alive(~ProxyReturns /\ ProxyThrows))
    /\ WF_vars(Alive(Matcher))
    /\ WF_vars(Alive(Main))

-----------------------------------------------------------------------------
(***************************************************************************)
(* Properties                                                              *)
(***************************************************************************)

\* The matcher never leaves its loop, and results are never exported, with an
\* order in the engine that no match_all has seen.
NoOrderLeftUnmatched == mpc # "drain" => matched = Len(delivered)

\* The shutdown ends with the export or with an abort.  The one way to get stuck
\* is a worker that waits for room in a queue nobody empties any more: its retry
\* loop does not look at `running', and the context waits for its socket.
StuckOnFullQueue == /\ mpc = "done" /\ (head + 1) % SIZE = tail
                    /\ \E w \in Workers : wpc[w] = "push"
ShutdownSettles == ~running ~> Ended \/ StuckOnFullQueue

\* While the program runs, every ORDER| that has reached a worker's socket is
\* answered, however full the queue is and whatever it takes to parse: again and
\* again no worker owes an answer, neither for what it has not taken yet nor for
\* what it took last, and as a client stops after MaxRequests no request can wait
\* behind later ones for ever.
Owed == {r \in UNION {ToSet(inbox[w]) \cup {msg[w]} : w \in Workers} \ answered :
           r.kind # "other"}
EveryOrderAnswered == []<>(Owed = {} \/ ~running)
=============================================================================
