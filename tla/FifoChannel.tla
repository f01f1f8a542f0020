------------------------------ MODULE FifoChannel ------------------------------
(***************************************************************************)
(* What a user of an order queue relies on: a bounded first-in first-out   *)
(* channel between the threads that push and the thread that pops.         *)
(*                                                                         *)
(* The channel is a log with a read position.  `sent' is every value a     *)
(* push accepted, in the order of acceptance; `received' every value a pop *)
(* returned; `dropped' every value whose push was refused and not retried. *)
(* A value may be refused only while Capacity values are in transit.       *)
(***************************************************************************)
EXTENDS Naturals, Sequences

CONSTANTS Values,     \* what travels through the channel
          Capacity    \* how many values it holds

VARIABLES sent, received, dropped

chanVars == <<sent, received, dropped>>

InTransit == Len(sent) - Len(received)

Init == /\ sent = <<>>
        /\ received = <<>>
        /\ dropped = <<>>

Put(v) == /\ InTransit < Capacity
          /\ sent' = Append(sent, v)
          /\ UNCHANGED <<received, dropped>>

Refuse(v) == /\ InTransit >= Capacity
             /\ dropped' = Append(dropped, v)
             /\ UNCHANGED <<sent, received>>

Get == /\ Len(received) < Len(sent)
       /\ received' = Append(received, sent[Len(received) + 1])
       /\ UNCHANGED <<sent, dropped>>

Next == \/ \E v \in Values : Put(v) \/ Refuse(v)
        \/ Get

Spec == Init /\ [][Next]_chanVars
=============================================================================
