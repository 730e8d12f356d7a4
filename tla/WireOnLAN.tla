----------------------------- MODULE WireOnLAN -----------------------------
(***************************************************************************)
(* WireSession on the network it was designed for, "relatively infrequent  *)
(* unicast messages between computers on a relatively reliable LAN"        *)
(* (SCLOrkWire-Design-Document.schelp:10).  A datagram is lost or delivered*)
(* once, within the retransmission timeout, and few are lost.  All retry   *)
(* jobs have the same period, so they tick in turn.                        *)
(*                                                                         *)
(* The question is how many losses the retries really cover: the ack of a  *)
(* message is thrown away while an earlier message is unacknowledged, and  *)
(* the last retransmission of a job fails the wire even if it is answered  *)
(* (SCLOrkWire.sc:380 and 485-488).                                        *)
(***************************************************************************)
EXTENDS WireSession

CONSTANT MaxLosses     \* bound: the datagrams the network loses in a session

ASSUME LossesAssumption == MaxLosses \in Nat

VARIABLES
    losses,            \* the datagrams lost so far
    ahead              \* scheduled serial -> those whose jobs tick before its

lanVars == <<vars, losses, ahead>>

InFlight(serial) == serial \in acks \/ \E p \in data : p.serial = serial

LANInit == Init /\ losses = 0 /\ ahead = <<>>

(* The job of a new message ticks after all others.                        *)
LANSend ==
    /\ \E b \in Bodies : SendMsg(b)
    /\ ahead' = [s \in scheduled' |-> IF s = sendSerial' THEN scheduled ELSE ahead[s]]
    /\ UNCHANGED losses

(* A job ticks in its turn, when its last datagram and the answer to it    *)
(* have had the time of a period, and is again after all others.           *)
LANTick ==
    /\ \E s \in scheduled :
          /\ ahead[s] = {}
          /\ ~InFlight(s)
          /\ Tick(s)
          /\ ahead' = [t \in scheduled' |->
                          IF t = s THEN scheduled' \ {s} ELSE ahead[t] \ {s}]
    /\ UNCHANGED losses

LANCmdPeriod ==
    /\ CmdPeriod
    /\ ahead' = [s \in scheduled' |-> ahead[s] \cap scheduled']
    /\ UNCHANGED losses

LANLose ==
    /\ losses < MaxLosses
    /\ Lose
    /\ losses' = losses + 1
    /\ UNCHANGED ahead

LANReceiveSend ==
    /\ \E p \in data : ReceiveSend(p) /\ p \notin data'
    /\ UNCHANGED <<losses, ahead>>

LANReceiveAck ==
    /\ \E a \in acks : ReceiveAck(a) /\ a \notin acks'
    /\ UNCHANGED <<losses, ahead>>

LANNext ==
    \/ LANSend
    \/ LANTick
    \/ LANCmdPeriod
    \/ LANLose
    \/ LANReceiveSend
    \/ LANReceiveAck

(* Timers fire, and a datagram that is not lost arrives.                   *)
LANFairness ==
    WF_lanVars(LANTick) /\ WF_lanVars(LANReceiveSend) /\ WF_lanVars(LANReceiveAck)

LANSpec == LANInit /\ [][LANNext]_lanVars /\ LANFairness

----------------------------------------------------------------------------
(* What the retries cover.  A job makes one retransmission for each loss   *)
(* of its own datagrams.  It makes up to two more for each other message   *)
(* of the window, although nothing is lost: an acknowledgement that comes  *)
(* ahead of that of an earlier message is thrown away, and delays the      *)
(* acknowledgement of the messages behind it in turn.  And a job that has  *)
(* no retry left fails on its next tick, so one must remain unused.  The   *)
(* bound is tight for every instance TLC was given.                        *)
RetriesSuffice == MaxLosses + 2 * (Window - 1) < MaxRetries

(* On such a network the wire never reports failureTimeout.                *)
NoSpuriousFailure == RetriesSuffice => connectionState = "connected"

(* On such a network the wire is a channel that never gives up.            *)
ImplementsLosslessChannel ==
    Channel!Init
    /\ [][IF RetriesSuffice THEN Channel!Carry ELSE Channel!Next]_(Channel!vars)

(* Why, as an inductive invariant.  Of two scheduled jobs one ticks before *)
(* the other.                                                              *)
InTurn ==
    /\ DOMAIN ahead = scheduled
    /\ \A s \in scheduled : ahead[s] \subseteq scheduled \ {s}
    /\ \A s \in scheduled : \A t \in scheduled \ {s} :
          s \in ahead[t] <=> t \notin ahead[s]

(* The retransmissions that an unacknowledged message may still make       *)
(* without a loss: two for each unacknowledged message before it, less the *)
(* one that it makes only once the oldest has ticked.                      *)
Oldest == sendAckSerial + 1
Unanswered(s) == IF InFlight(s) THEN 0 ELSE 1
TicksFirst(s) == IF s \in ahead[Oldest] THEN 1 ELSE 0
Allowed(s) ==
    IF s = Oldest THEN Unanswered(s)
    ELSE 2 * (s - Oldest) - 1 + TicksFirst(s) + Unanswered(Oldest)

RetriesBounded ==
    \A s \in scheduled :
        IF s <= sendAckSerial THEN retries[s] <= losses + 2 * (Window - 1)
        ELSE retries[s] + Allowed(s) <= losses + 2 * (Window - 1)

Covered ==
    /\ IInv /\ UnackedIsRetried
    /\ losses \in 0 .. MaxLosses
    /\ connectionState = "connected"
    /\ InTurn /\ RetriesBounded

LANInv == RetriesSuffice => Covered

(* Whatever the application sends is delivered and acknowledged.           *)
EverythingArrives ==
    RetriesSuffice =>
        \A s \in 1 .. MaxSerial : sendSerial >= s ~> sendAckSerial >= s
=============================================================================
