---------------------------- MODULE WireSession ----------------------------
(***************************************************************************)
(* One direction of an established SCLOrkWire connection: the wire at one  *)
(* end sends messages, the wire at the other end acknowledges, reorders    *)
(* and delivers them.  The handshake that precedes it and the disconnect   *)
(* that ends it are in module SCLOrkWire; here both wires start just after *)
(* prChangeConnectionState(\connected), with no datagram of an earlier     *)
(* connection in flight.                                                   *)
(*                                                                         *)
(* Each OSC handler, each timer callback and each call of sendMsg runs to  *)
(* completion in the interpreter, so each of them is one action.  The UDP  *)
(* network may lose, duplicate, delay and reorder the datagrams.           *)
(***************************************************************************)
EXTENDS Naturals, Sequences

CONSTANTS
    Bodies,       \* the message arrays an application may send
    Nil,          \* an empty slot of a buffer
    BufferSize,   \* the slots of sendBuffer and of receiveBuffer
    MaxRetries,   \* the retransmissions before a message is given up
    Window,       \* bound: messages the application keeps unacknowledged
    MaxSerial     \* bound: messages sent in this session

ASSUME NilAssumption == Nil \notin Bodies /\ Nil \notin Nat
ASSUME BufferAssumption == BufferSize \in Nat \ {0}
ASSUME RetriesAssumption == MaxRetries \in Nat
ASSUME BoundsAssumption == Window \in Nat /\ MaxSerial \in Nat

VARIABLES
    \* the sending wire
    connectionState,   \* "connected", or "failureTimeout" once it gave up
    sendSerial,        \* serial of the last message sent
    sendAckSerial,     \* serial up to which every message is acknowledged
    sendBuffer,        \* slot -> serial whose retry job it holds, or Nil
    retries,           \* serial -> retransmissions its retry job has made
    scheduled,         \* serials whose retry job is on the SystemClock
    armed,             \* serials whose retry job has a nextTime
    \* the receiving wire
    receiveSerial,     \* serial of the last message delivered
    receiveBuffer,     \* slot -> a message that arrived early, or Nil
    \* the network
    data,              \* /wireSend datagrams in flight
    acks,              \* serials of the /wireAck datagrams in flight
    \* history
    sent,              \* the messages given to sendMsg
    delivered          \* the messages given to onMessageReceived

senderVars == <<connectionState, sendSerial, sendAckSerial, sendBuffer,
                retries, scheduled, armed>>
receiverVars == <<receiveSerial, receiveBuffer, delivered>>
vars == <<senderVars, receiverVars, data, acks, sent>>

Slot(serial) == serial % BufferSize     \* the index of wrapAt and wrapPut
Slots == 0 .. BufferSize - 1

Packet(serial, body) == [serial |-> serial, body |-> body]
Packets == [serial : Nat, body : Bodies]

Init ==
    /\ connectionState = "connected"
    /\ sendSerial = 0
    /\ sendAckSerial = 0
    /\ sendBuffer = [i \in Slots |-> Nil]
    /\ retries = <<>>
    /\ scheduled = {}
    /\ armed = {}
    /\ receiveSerial = 0
    /\ receiveBuffer = [i \in Slots |-> Nil]
    /\ data = {}
    /\ acks = {}
    /\ sent = <<>>
    /\ delivered = <<>>

----------------------------------------------------------------------------
(* The sending wire.                                                       *)

(* sendMsg: the message takes the next serial and a retry job, which sends *)
(* the datagram at once and again at every timeout.  The code has no       *)
(* window: a job that is still in the slot is overwritten and runs on.     *)
SendMsg(body) ==
    LET serial == sendSerial + 1 IN
    /\ connectionState = "connected"
    /\ sendSerial < MaxSerial
    /\ sendSerial < sendAckSerial + Window
    /\ sendSerial' = serial
    /\ sendBuffer' = [sendBuffer EXCEPT ![Slot(serial)] = serial]
    /\ retries' = Append(retries, 0)
    /\ scheduled' = scheduled \cup {serial}
    /\ armed' = armed \cup {serial}
    /\ data' = data \cup {Packet(serial, body)}
    /\ sent' = Append(sent, body)
    /\ UNCHANGED <<connectionState, sendAckSerial, receiverVars, acks>>

KeepGoingOneShort(serial) == sendAckSerial + 1 < serial    \* mutant
KeepGoing(serial) == sendAckSerial < serial

RetriesLeftOneShort(serial) == retries[serial] + 1 < MaxRetries   \* mutant
RetriesLeft(serial) == retries[serial] < MaxRetries

(* The three outcomes of a retry job's timer.  The job that has used up    *)
(* its retries fails the wire without asking keepGoing.                    *)
Resend(serial) ==
    /\ serial \in scheduled
    /\ RetriesLeft(serial)
    /\ KeepGoing(serial)
    /\ data' = data \cup {Packet(serial, sent[serial])}
    /\ retries' = [retries EXCEPT ![serial] = @ + 1]
    /\ armed' = armed \cup {serial}
    /\ UNCHANGED <<connectionState, sendSerial, sendAckSerial, sendBuffer,
                   scheduled, receiverVars, acks, sent>>

Finish(serial) ==
    /\ serial \in scheduled
    /\ RetriesLeft(serial)
    /\ ~KeepGoing(serial)
    /\ scheduled' = scheduled \ {serial}
    /\ armed' = armed \ {serial}
    /\ UNCHANGED <<connectionState, sendSerial, sendAckSerial, sendBuffer,
                   retries, receiverVars, data, acks, sent>>

GiveUp(serial) ==
    /\ serial \in scheduled
    /\ ~RetriesLeft(serial)
    /\ connectionState' = "failureTimeout"
    /\ scheduled' = scheduled \ {serial}
    /\ armed' = armed \ {serial}
    /\ UNCHANGED <<sendSerial, sendAckSerial, sendBuffer, retries,
                   receiverVars, data, acks, sent>>

Tick(serial) == Resend(serial) \/ Finish(serial) \/ GiveUp(serial)

(* CmdPeriod (the user's Cmd-period) empties the SystemClock; the retry    *)
(* jobs that have a nextTime put themselves back on it.                    *)
CmdPeriod ==
    /\ scheduled' = armed
    /\ UNCHANGED <<connectionState, sendSerial, sendAckSerial, sendBuffer,
                   retries, armed, receiverVars, data, acks, sent>>

----------------------------------------------------------------------------
(* The network.  A datagram that is taken may be delivered again.          *)

Taken(inFlight, d) == {inFlight, inFlight \ {d}}

Lose ==
    /\ \/ /\ \E p \in data : data' = data \ {p}
          /\ UNCHANGED acks
       \/ /\ \E a \in acks : acks' = acks \ {a}
          /\ UNCHANGED data
    /\ UNCHANGED <<senderVars, receiverVars, sent>>
----------------------------------------------------------------------------
(* The receiving wire.                                                     *)

(* The state of the receive buffer once the messages from..to have been    *)
(* taken out of it.                                                        *)
NothingDrained(from, to) == receiveBuffer                  \* mutant
Drained(from, to) ==
    LET out == {Slot(s) : s \in from .. to}
    IN  [i \in Slots |-> IF i \in out THEN Nil ELSE receiveBuffer[i]]

IsAhead(p) == p.serial > receiveSerial                      \* mutant
IsNext(p) == p.serial = receiveSerial + 1

(* An in-order message is delivered, and then the messages buffered behind *)
(* it, up to the first empty slot.                                         *)
DeliverInOrder(p) ==
    /\ IsNext(p)
    /\ \E last \in p.serial .. p.serial + BufferSize :
          /\ \A s \in p.serial + 1 .. last : receiveBuffer[Slot(s)] # Nil
          /\ receiveBuffer' = Drained(p.serial + 1, last)
          /\ receiveBuffer'[Slot(last + 1)] = Nil
          /\ receiveSerial' = last
          /\ delivered' =
                [i \in 1 .. Len(delivered) + 1 + last - p.serial |->
                    IF i <= Len(delivered) THEN delivered[i]
                    ELSE IF i = Len(delivered) + 1 THEN p.body
                    ELSE receiveBuffer[
                            Slot(p.serial + i - (Len(delivered) + 1))]]

DropEarly(p) ==                                             \* mutant
    /\ p.serial > receiveSerial + 1
    /\ UNCHANGED receiverVars

BufferEarly(p) ==
    /\ p.serial > receiveSerial + 1
    /\ receiveBuffer' = [receiveBuffer EXCEPT ![Slot(p.serial)] = p.body]
    /\ UNCHANGED <<receiveSerial, delivered>>

IgnoreDuplicate(p) ==
    /\ p.serial <= receiveSerial
    /\ UNCHANGED receiverVars

(* /wireSend: whatever became of the message, its serial is acknowledged.  *)
ReceiveSend(p) ==
    /\ p \in data
    /\ data' \in Taken(data, p)
    /\ DeliverInOrder(p) \/ BufferEarly(p) \/ IgnoreDuplicate(p)
    /\ acks' = acks \cup {p.serial}
    /\ UNCHANGED <<senderVars, sent>>

(* /wireAck, at the sending wire: only the acknowledgement of the oldest   *)
(* outstanding message counts.  It stops the job found in the slot.        *)
ReceiveAck(serial) ==
    /\ serial \in acks
    /\ acks' \in Taken(acks, serial)
    /\ IF serial = sendAckSerial + 1
       THEN /\ sendAckSerial' = serial
            /\ armed' = armed \ {sendBuffer[Slot(serial)]}
            /\ sendBuffer' = [sendBuffer EXCEPT ![Slot(serial)] = Nil]
       ELSE UNCHANGED <<sendAckSerial, armed, sendBuffer>>
    /\ UNCHANGED <<connectionState, sendSerial, retries, scheduled,
                   receiverVars, data, sent>>

----------------------------------------------------------------------------
Next ==
    \/ \E b \in Bodies : SendMsg(b)
    \/ \E s \in 1 .. sendSerial : Tick(s)
    \/ CmdPeriod
    \/ Lose
    \/ \E p \in data : ReceiveSend(p)
    \/ \E a \in acks : ReceiveAck(a)

(* The SystemClock calls every job that is on it, sooner or later.  The    *)
(* network promises nothing.                                               *)
Fairness == \A s \in 1 .. MaxSerial : WF_vars(Tick(s))

Safety == Init /\ [][Next]_vars
Spec == Safety /\ Fairness

----------------------------------------------------------------------------
(* Properties.                                                             *)

TypeOK ==
    /\ connectionState \in {"connected", "failureTimeout"}
    /\ sendSerial \in Nat
    /\ sendAckSerial \in Nat
    /\ sendBuffer \in [Slots -> Nat \cup {Nil}]
    /\ retries \in Seq(0 .. MaxRetries)
    /\ scheduled \subseteq 1 .. sendSerial
    /\ armed \subseteq scheduled
    /\ receiveSerial \in Nat
    /\ receiveBuffer \in [Slots -> Bodies \cup {Nil}]
    /\ data \subseteq Packets
    /\ acks \subseteq 1 .. sendSerial
    /\ sent \in Seq(Bodies)
    /\ delivered \in Seq(Bodies)

Received(serial) ==
    serial <= receiveSerial \/ receiveBuffer[Slot(serial)] # Nil

(* Every datagram in flight carries the message sendMsg gave its serial.   *)
DataIsGenuine ==
    \A p \in data : p.serial \in 1 .. sendSerial /\ p.body = sent[p.serial]

(* Exactly-once, in-order delivery: what onMessageReceived has been called *)
(* with is a prefix of what sendMsg was called with.                       *)
DeliveredInOrder ==
    /\ receiveSerial <= sendSerial
    /\ Len(delivered) = receiveSerial
    /\ \A i \in 1 .. receiveSerial : delivered[i] = sent[i]

(* The serials a slot can stand for never overlap: a message waits in the  *)
(* receive buffer only while it is within BufferSize of the next one due,  *)
(* and the slot of the next one due is empty.                              *)
BufferHoldsTheFuture ==
    /\ receiveBuffer[Slot(receiveSerial + 1)] = Nil
    /\ \A s \in receiveSerial + 1 .. receiveSerial + BufferSize :
          receiveBuffer[Slot(s)] # Nil =>
              s <= sendSerial /\ receiveBuffer[Slot(s)] = sent[s]

(* A serial is acknowledged only when the receiver holds its message; what *)
(* the sender counts as acknowledged has been delivered to the application.*)
AckedWasDelivered ==
    /\ sendAckSerial <= receiveSerial
    /\ \A a \in acks : Received(a)

(* The conjuncts above, with the bounds that tie the counters together,    *)
(* are inductive: module WireSessionProofs proves it.                      *)
IInv ==
    /\ TypeOK
    /\ Len(sent) = sendSerial
    /\ Len(retries) = sendSerial
    /\ sendSerial <= sendAckSerial + Window
    /\ DataIsGenuine
    /\ DeliveredInOrder
    /\ BufferHoldsTheFuture
    /\ AckedWasDelivered

(* The wire implements the reliable channel (SCLOrkWire.schelp: "automatic *)
(* retransmission of dropped packets, and in-order packet arrival").       *)
Channel == INSTANCE ReliableChannel WITH
              acked <- sendAckSerial,
              open <- connectionState = "connected"

ImplementsReliableChannel == Channel!Spec

(* While the wire is connected, every unacknowledged message has a retry   *)
(* job on the clock that a CmdPeriod puts back, and the job its own        *)
(* acknowledgement will stop, found through a slot that several serials    *)
(* share, is that job.                                                     *)
UnackedIsRetried ==
    connectionState = "connected" =>
        \A s \in sendAckSerial + 1 .. sendSerial :
            s \in armed /\ sendBuffer[Slot(s)] = s

(* sendMsg never goes unanswered: the message is acknowledged or the wire  *)
(* reports failureTimeout.                                                 *)
EveryMessageResolved ==
    \A s \in 1 .. MaxSerial :
        sendSerial >= s
            ~> (sendAckSerial >= s \/ connectionState = "failureTimeout")
=============================================================================
