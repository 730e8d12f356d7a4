-------------------------- MODULE ReliableChannel --------------------------
(***************************************************************************)
(* What one direction of a SCLOrkWire promises, as the class help puts it: *)
(* "automatic retransmission of dropped packets, and in-order packet       *)
(* arrival".  Messages go in at one end and come out at the other in the   *)
(* order they went in, each of them once; the sender forgets a message     *)
(* only after the application at the far end has been handed it; and when  *)
(* the sender gives up, it takes no further message.  Nothing is said of   *)
(* packets, serial numbers, buffers or timers.                             *)
(***************************************************************************)
EXTENDS Naturals, Sequences

CONSTANT Bodies        \* the messages an application may send

VARIABLES
    sent,              \* the messages accepted from the sending application
    delivered,         \* the messages handed to the receiving application
    acked,             \* how many messages the sender has forgotten
    open               \* FALSE once the sender has given up

vars == <<sent, delivered, acked, open>>

Init ==
    /\ sent = <<>>
    /\ delivered = <<>>
    /\ acked = 0
    /\ open = TRUE

Send(b) ==
    /\ open
    /\ sent' = Append(sent, b)
    /\ UNCHANGED <<delivered, acked, open>>

(* One packet can release several buffered messages to the application.    *)
Deliver ==
    /\ \E n \in Len(delivered) + 1 .. Len(sent) :
          delivered' = [i \in 1..n |-> sent[i]]
    /\ UNCHANGED <<sent, acked, open>>

Forget ==
    /\ acked < Len(delivered)
    /\ acked' = acked + 1
    /\ UNCHANGED <<sent, delivered, open>>

GiveUp ==
    /\ open
    /\ open' = FALSE
    /\ UNCHANGED <<sent, delivered, acked>>

Carry ==
    \/ \E b \in Bodies : Send(b)
    \/ Deliver
    \/ Forget

Next == Carry \/ GiveUp

Spec == Init /\ [][Next]_vars
=============================================================================
