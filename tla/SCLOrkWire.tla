----------------------------- MODULE SCLOrkWire -----------------------------
(***************************************************************************)
(* The life of SCLOrkWire connections: knocking on a bound port, the       *)
(* three-way handshake, data in both directions, disconnection, failure,   *)
(* and what late or repeated datagrams do to wires that have moved on.     *)
(*                                                                         *)
(* Each wire owns a port and has an id of its own, so a wire stands for    *)
(* both.  Handlers and timer callbacks are atomic.  The nextTime of a      *)
(* retry job matters only to CmdPeriod, which is modelled in WireSession;  *)
(* stop does not take a job off the clock, so here it has no effect.       *)
(***************************************************************************)
EXTENDS Naturals, Sequences, FiniteSets, SequencesExt

CONSTANTS
    Clients,        \* wires an application makes with new
    ServerWires,    \* the wires bind will make, in the order of their ports
    Nil,
    BufferSize,
    MaxRetries,
    MaxCopies,      \* bound: datagrams the network delivers once more
    Scripts         \* bound: each says how often which call is made on a wire

Wires == Clients \cup Range(ServerWires)
Calls == {"knock", "connect", "send", "disconnect", "drop"}

(* Every wire has a port of its own, and none is nil.                      *)
ASSUME WiresAssumption ==
    /\ ServerWires \in Seq(Range(ServerWires)) /\ IsInjective(ServerWires)
    /\ Clients \cap Range(ServerWires) = {}
    /\ Nil \notin Wires
ASSUME ScriptsAssumption == Scripts \subseteq [Calls -> [Wires -> Nat]]
ASSUME SizesAssumption == BufferSize \in Nat \ {0} /\ MaxRetries \in Nat
ASSUME CopiesAssumption == MaxCopies \in Nat

VARIABLES
    wire,           \* the instance variables of each wire
    jobs,           \* the retry jobs each wire has on the SystemClock
    portSerial,     \* the wires bind has made so far
    network,        \* the datagrams in flight
    copies,         \* how many of them the network has delivered once more
    script,         \* the calls the applications may make
    calls,          \* the calls they have made
    attempts,       \* history: how often each wire has begun to connect
    sent,           \* history: messages each wire has been given to send
    acknowledged,   \* history: those of them it has seen acknowledged
    delivered       \* history: the messages handed to each application

vars == <<wire, jobs, portSerial, network, copies, script, calls, attempts,
          sent, acknowledged, delivered>>

Slot(serial) == serial % BufferSize
Empty == [i \in 0 .. BufferSize - 1 |-> Nil]

NewWire ==
    [connectionState |-> "neverConnected", listening |-> FALSE,
     netAddr |-> Nil, selfId |-> Nil,
     sendSerial |-> 0, sendAckSerial |-> 0, sendBuffer |-> Empty,
     receiveSerial |-> 0, receiveBuffer |-> Empty]

Init ==
    /\ wire = [w \in Wires |-> [NewWire EXCEPT !.listening = w \in Clients]]
    /\ jobs = [w \in Wires |-> <<>>]
    /\ portSerial = 0
    /\ network = {}
    /\ copies = 0
    /\ script \in Scripts
    /\ calls = [c \in Calls |-> [w \in Wires |-> 0]]
    /\ attempts = [w \in Wires |-> 0]
    /\ sent = [w \in Wires |-> 0]
    /\ acknowledged = [w \in Wires |-> {}]
    /\ delivered = [w \in Wires |-> <<>>]

(* prChangeConnectionState: becoming connected, even from connected,       *)
(* forgets the serials and the buffers of both directions.                 *)
Entering(r, state) ==
    IF state = "connected"
    THEN [r EXCEPT !.connectionState = state,
                   !.sendSerial = 0, !.sendAckSerial = 0, !.sendBuffer = Empty,
                   !.receiveSerial = 0, !.receiveBuffer = Empty]
    ELSE [r EXCEPT !.connectionState = state]

(* A wire begins to connect when it leaves the states it can rest in; a    *)
(* wire that knocked and accepts a request goes on with the attempt.       *)
Begins(w) == attempts' = [attempts EXCEPT ![w] = @ + 1]

Update(w, r) == wire' = [wire EXCEPT ![w] = r]

(* UDP: a datagram that has been sent may arrive now, later, after others  *)
(* sent later, or never; and a few arrive again.                           *)
Exchange(taken, msgs) ==
    \/ /\ network' = (network \ taken) \cup msgs
       /\ UNCHANGED copies
    \/ /\ taken # {}
       /\ copies < MaxCopies
       /\ network' = network \cup msgs
       /\ copies' = copies + 1

(* SCLOrkWireSendRetry.new: the datagram is sent at once and its retry job *)
(* goes on the clock.                                                      *)
Start(w, r, msg, taken) ==
    /\ Update(w, r)
    /\ jobs' = [jobs EXCEPT ![w] = Append(@, [msg |-> msg, retries |-> 0])]
    /\ Exchange(taken, {msg})

KnockMsg(w) == [type |-> "wireKnock", to |-> "bindPort", from |-> w]
RequestMsgFromKnockPort(w, to) ==                           \* mutant
    [type |-> "wireConnectRequest", to |-> to, from |-> "bindPort"]
RequestMsg(w, to) == [type |-> "wireConnectRequest", to |-> to, from |-> w]
AcceptMsg(w, to, id) ==
    [type |-> "wireConnectAccept", to |-> to, id |-> id, initiatorId |-> w]
ConfirmMsg(r) ==
    [type |-> "wireConnectConfirm", to |-> r.netAddr, id |-> r.selfId]
SendMsgMsg(r, serial, body) ==
    [type |-> "wireSend", to |-> r.netAddr, id |-> r.selfId,
     serial |-> serial, body |-> body]
AckMsg(r, serial) ==
    [type |-> "wireAck", to |-> r.netAddr, id |-> r.selfId, serial |-> serial]
DisconnectMsg(r) ==
    [type |-> "wireDisconnect", to |-> r.netAddr, id |-> r.selfId]
DisconnectConfirmMsg(r) ==
    [type |-> "wireDisconnectConfirm", to |-> r.netAddr, id |-> r.selfId]

----------------------------------------------------------------------------
(* Calls of the application.                                               *)

Made(w) == w \in Clients \cup Range(SubSeq(ServerWires, 1, portSerial))
Call(c, w) ==
    /\ calls[c][w] < script[c][w]
    /\ calls' = [calls EXCEPT ![c][w] = @ + 1]

MayConnect(w) ==
    wire[w].connectionState \in {"neverConnected", "disconnected", "failureTimeout"}

Knock(w) ==
    /\ Call("knock", w)
    /\ MayConnect(w)
    /\ Start(w, Entering(wire[w], "knocking"), KnockMsg(w), {})
    /\ Begins(w)
    /\ UNCHANGED <<portSerial, sent, acknowledged, delivered>>

ConnectingAtOnce(w, r, to, taken) ==                        \* mutant
    Start(w, Entering([r EXCEPT !.netAddr = to, !.selfId = to], "connected"),
          RequestMsg(w, to), taken)
Connecting(w, r, to, taken) ==
    Start(w, Entering([r EXCEPT !.netAddr = to], "connectionRequested"),
          RequestMsg(w, to), taken)

Connect(w, to) ==
    /\ Call("connect", w)
    /\ MayConnect(w)
    /\ Connecting(w, wire[w], to, {})
    /\ Begins(w)
    /\ UNCHANGED <<portSerial, sent, acknowledged, delivered>>

SendMsg(w) ==
    LET serial == wire[w].sendSerial + 1
        body   == <<w, sent[w] + 1>>
    IN
    /\ Call("send", w)
    /\ wire[w].connectionState = "connected"
    /\ Start(w, [wire[w] EXCEPT !.sendSerial = serial,
                                !.sendBuffer[Slot(serial)] = body],
             SendMsgMsg(wire[w], serial, body), {})
    /\ sent' = [sent EXCEPT ![w] = @ + 1]
    /\ UNCHANGED <<attempts, portSerial, acknowledged, delivered>>

Disconnect(w) ==
    /\ Call("disconnect", w)
    /\ wire[w].connectionState = "connected"
    /\ Start(w, Entering(wire[w], "disconnectRequested"),
             DisconnectMsg(wire[w]), {})
    /\ UNCHANGED <<attempts, portSerial, sent, acknowledged, delivered>>

(* prDropLine frees the OSC handlers; free disconnects first.              *)
Free(w) ==
    /\ Call("drop", w)
    /\ wire[w].listening
    /\ IF wire[w].connectionState = "connected"
       THEN Start(w, [Entering(wire[w], "disconnectRequested")
                         EXCEPT !.listening = FALSE],
                  DisconnectMsg(wire[w]), {})
       ELSE /\ Update(w, [wire[w] EXCEPT !.listening = FALSE])
            /\ UNCHANGED <<jobs, network, copies>>
    /\ UNCHANGED <<attempts, portSerial, sent, acknowledged, delivered>>

DropLine(w) ==
    /\ Call("drop", w)
    /\ wire[w].listening
    /\ Update(w, [wire[w] EXCEPT !.listening = FALSE])
    /\ UNCHANGED <<attempts, jobs, network, copies, portSerial, sent, acknowledged, delivered>>

----------------------------------------------------------------------------
(* SCLOrkWireSendRetry: a tick of a job on the clock of wire w.            *)

(* The closures passed as keepGoing look at the wire as it is now.         *)
KeepGoing(w, msg) ==
    LET r == wire[w] IN
    CASE msg.type = "wireKnock" -> r.connectionState = "knocking"
      [] msg.type = "wireConnectRequest" ->
            r.connectionState = "connectionRequested"
      [] msg.type = "wireConnectAccept" ->
            r.connectionState = "connectionAccepted"
      [] msg.type = "wireDisconnect" ->
            r.connectionState = "disconnectRequested"
      [] msg.type = "wireSend" -> r.sendAckSerial < msg.serial

(* The jobs of a wire have the same period, so they are called in turn.    *)
ResendForever(w, job, others) ==                            \* mutant
    /\ KeepGoing(w, job.msg)
    /\ Exchange({}, {job.msg})
    /\ jobs' = [jobs EXCEPT ![w] = Append(others, job)]
    /\ UNCHANGED <<attempts, wire, portSerial, calls, sent, acknowledged, delivered>>

Resend(w, job, others) ==
    /\ job.retries < MaxRetries
    /\ KeepGoing(w, job.msg)
    /\ Exchange({}, {job.msg})
    /\ jobs' = [jobs EXCEPT ![w] = Append(others, [job EXCEPT !.retries = @ + 1])]
    /\ UNCHANGED <<attempts, wire, portSerial, calls, sent, acknowledged, delivered>>

Finish(w, job, others) ==
    /\ job.retries < MaxRetries
    /\ ~KeepGoing(w, job.msg)
    /\ jobs' = [jobs EXCEPT ![w] = others]
    /\ UNCHANGED <<attempts, wire, portSerial, network, copies, calls, sent, acknowledged, delivered>>

GiveUpSilently(w, job, others) ==                           \* mutant
    /\ job.retries >= MaxRetries
    /\ jobs' = [jobs EXCEPT ![w] = others]
    /\ UNCHANGED <<attempts, wire, portSerial, network, copies, calls, sent, acknowledged, delivered>>

GiveUp(w, job, others) ==
    /\ job.retries >= MaxRetries
    /\ Update(w, Entering(wire[w], "failureTimeout"))
    /\ jobs' = [jobs EXCEPT ![w] = others]
    /\ UNCHANGED <<attempts, portSerial, network, copies, calls, sent, acknowledged, delivered>>

Tick(w) ==
    /\ jobs[w] # <<>>
    /\ LET job    == Head(jobs[w])
           others == Tail(jobs[w])
       IN  Resend(w, job, others) \/ Finish(w, job, others) \/ GiveUp(w, job, others)

----------------------------------------------------------------------------
(* The OSC handlers.                                                       *)

Heard(w, d, type) ==
    /\ d \in network
    /\ d.type = type
    /\ d.to = w
    /\ wire[w].listening

(* A handler other than the one for connection requests answers only to    *)
(* the id of its wire.                                                     *)
Addressed(w, d, type) == Heard(w, d, type) /\ d.id = w

(* The handler bind installs: every knock makes a wire, which connects     *)
(* back to the knocking one.                                               *)
OnKnock(d) ==
    /\ d \in network
    /\ d.type = "wireKnock"
    /\ portSerial < Len(ServerWires)
    /\ portSerial' = portSerial + 1
    /\ Connecting(ServerWires[portSerial + 1], [NewWire EXCEPT !.listening = TRUE],
                  d.from, {d})
    /\ Begins(ServerWires[portSerial + 1])
    /\ UNCHANGED <<calls, sent, acknowledged, delivered>>

AcceptsRequest(w) ==
    wire[w].connectionState \in {"neverConnected", "knocking", "disconnected"}

OnConnectRequest(w, d) ==
    /\ Heard(w, d, "wireConnectRequest")
    /\ AcceptsRequest(w)
    /\ Start(w, [Entering(wire[w], "connectionAccepted")
                    EXCEPT !.netAddr = d.from, !.selfId = d.from],
             AcceptMsg(w, d.from, d.from), {d})
    /\ IF wire[w].connectionState = "knocking" THEN UNCHANGED attempts ELSE Begins(w)
    /\ UNCHANGED <<portSerial, calls, sent, acknowledged, delivered>>

(* Accept and confirm are acted on in every state.                         *)
OnConnectAccept(w, d) ==
    LET r == Entering([wire[w] EXCEPT !.selfId = d.initiatorId], "connected") IN
    /\ Addressed(w, d, "wireConnectAccept")
    /\ Update(w, r)
    /\ Exchange({d}, {ConfirmMsg(r)})
    /\ UNCHANGED <<attempts, jobs, portSerial, calls, sent, acknowledged, delivered>>

OnConnectConfirm(w, d) ==
    /\ Addressed(w, d, "wireConnectConfirm")
    /\ Update(w, Entering(wire[w], "connected"))
    /\ Exchange({d}, {})
    /\ UNCHANGED <<attempts, jobs, portSerial, calls, sent, acknowledged, delivered>>

(* The last message that can be delivered once message serial has come.    *)
LastInOrder(buffer, serial) ==
    CHOOSE last \in serial .. serial + BufferSize :
        /\ \A s \in serial + 1 .. last : buffer[Slot(s)] # Nil
        /\ last = serial + BufferSize \/ buffer[Slot(last + 1)] = Nil

OnSend(w, d) ==
    LET r    == wire[w]
        last == LastInOrder(r.receiveBuffer, d.serial)
        behind == d.serial + 1 .. last
    IN
    /\ Addressed(w, d, "wireSend")
    /\ \/ /\ d.serial <= r.receiveSerial
          /\ UNCHANGED <<wire, delivered>>
       \/ /\ d.serial = r.receiveSerial + 1
          /\ Update(w, [r EXCEPT
                !.receiveSerial = last,
                !.receiveBuffer = [i \in DOMAIN @ |->
                    IF \E s \in behind : i = Slot(s) THEN Nil ELSE @[i]]])
          /\ delivered' = [delivered EXCEPT ![w] = @ \o <<d.body>> \o
                [i \in 1 .. last - d.serial |->
                    r.receiveBuffer[Slot(d.serial + i)]]]
       \/ /\ d.serial > r.receiveSerial + 1
          /\ Update(w, [r EXCEPT !.receiveBuffer[Slot(d.serial)] = d.body])
          /\ UNCHANGED delivered
    /\ Exchange({d}, {AckMsg(r, d.serial)})
    /\ UNCHANGED <<attempts, jobs, portSerial, calls, sent, acknowledged>>

OnAck(w, d) ==
    LET r == wire[w] IN
    /\ Addressed(w, d, "wireAck")
    /\ d.serial = r.sendAckSerial + 1
    /\ Update(w, [r EXCEPT !.sendAckSerial = d.serial,
                           !.sendBuffer[Slot(d.serial)] = Nil])
    /\ acknowledged' = [acknowledged EXCEPT
                            ![w] = @ \cup ({r.sendBuffer[Slot(d.serial)]} \ {Nil})]
    /\ Exchange({d}, {})
    /\ UNCHANGED <<attempts, jobs, portSerial, calls, sent, delivered>>

OnDisconnect(w, d) ==
    /\ Addressed(w, d, "wireDisconnect")
    /\ Update(w, Entering(wire[w], "disconnected"))
    /\ Exchange({d}, {DisconnectConfirmMsg(wire[w])})
    /\ UNCHANGED <<attempts, jobs, portSerial, calls, sent, acknowledged, delivered>>

OnDisconnectConfirm(w, d) ==
    /\ Addressed(w, d, "wireDisconnectConfirm")
    /\ Update(w, Entering(wire[w], "disconnected"))
    /\ Exchange({d}, {})
    /\ UNCHANGED <<attempts, jobs, portSerial, calls, sent, acknowledged, delivered>>

----------------------------------------------------------------------------
Application(w) ==
    \/ Knock(w)
    \/ \E to \in Wires \ {w} : Made(to) /\ Connect(w, to)
    \/ SendMsg(w)
    \/ Disconnect(w)
    \/ Free(w)
    \/ DropLine(w)

Handler(w, d) ==
    \/ OnConnectRequest(w, d)
    \/ OnConnectAccept(w, d)
    \/ OnConnectConfirm(w, d)
    \/ OnSend(w, d)
    \/ OnAck(w, d)
    \/ OnDisconnect(w, d)
    \/ OnDisconnectConfirm(w, d)

Next ==
    /\ UNCHANGED script
    /\ \/ \E w \in Wires : Made(w) /\ Application(w)
       \/ \E w \in Wires : Tick(w)
       \/ \E d \in network : OnKnock(d) \/ \E w \in Wires : Handler(w, d)

(* The SystemClock goes on calling the jobs that are on it.                *)
Fairness == \A w \in Wires : WF_vars(Tick(w) /\ UNCHANGED script)

Spec == Init /\ [][Next]_vars /\ Fairness

----------------------------------------------------------------------------
(* Properties.                                                             *)

States == {"neverConnected", "knocking", "connectionRequested",
           "connectionAccepted", "connected", "disconnectRequested",
           "disconnected", "failureTimeout"}

TypeOK ==
    /\ \A w \in Wires :
          /\ wire[w].connectionState \in States
          /\ wire[w].netAddr \in Wires \cup {Nil}
          /\ wire[w].selfId \in Wires \cup {Nil}
          /\ wire[w].receiveSerial \in Nat /\ wire[w].sendAckSerial \in Nat
    /\ portSerial \in 0 .. Len(ServerWires)
    /\ copies \in 0 .. MaxCopies
    /\ \A d \in network : d.to \in Wires \cup {"bindPort"}

(* Wires that have begun to connect once, whether they knocked, requested  *)
(* or accepted, and whatever has come late, twice or not at all: when one  *)
(* is connected, the other has taken its part in the handshake and is not  *)
(* waiting for an answer to its knock or request.  (In a second attempt a  *)
(* late accept or confirm does connect a wire to one that still waits.)    *)
PeerTookPart ==
    (\A w \in Wires : attempts[w] <= 1) =>
        \A w \in Wires :
            wire[w].connectionState = "connected" =>
                LET peer == wire[w].netAddr IN
                /\ peer # Nil
                /\ wire[w].selfId = peer
                /\ wire[peer].connectionState \notin
                       {"neverConnected", "knocking", "connectionRequested"}

(* No wire is stuck half way: knocking, requesting, accepting and          *)
(* disconnecting end, if need be in failureTimeout.                        *)
HalfWay == {"knocking", "connectionRequested", "connectionAccepted",
            "disconnectRequested"}

NoLimbo == \A w \in Wires : []<>(wire[w].connectionState \notin HalfWay)

(* The retransmissions of a connection stop.                               *)
TimersRunOut == \A w \in Wires : []<>(jobs[w] = <<>>)

----------------------------------------------------------------------------
(* What the documentation says, and the code does not do.                  *)

(* SCLOrkWire.schelp:8, "the reliability of TCP": a message the sender has *)
(* seen acknowledged was handed to the application at the other end.       *)
AcknowledgedWasDelivered ==
    \A w \in Wires : \A body \in acknowledged[w] :
        \E v \in Wires : \E i \in DOMAIN delivered[v] : delivered[v][i] = body

(* SCLOrkWire.schelp:85, failureTimeout "is a terminal state of the wire". *)
FailureIsTerminal ==
    [][\A w \in Wires : wire[w].connectionState = "failureTimeout" =>
                            wire'[w].connectionState = "failureTimeout"]_vars
=============================================================================
