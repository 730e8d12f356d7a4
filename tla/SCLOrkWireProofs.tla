-------------------------- MODULE SCLOrkWireProofs --------------------------
(***************************************************************************)
(* Proofs about module SCLOrkWire: its types, and that the two ends of a   *)
(* handshake agree (PeerTookPart), for every number of wires, calls and    *)
(* retries and whatever the network does.                                  *)
(*                                                                         *)
(* What a late datagram can do depends on what its receiver and its sender *)
(* have become since it was sent.  The invariant says it of all datagrams  *)
(* that may still arrive, those in flight and those a retry job will send. *)
(***************************************************************************)
EXTENDS SCLOrkWire, NumberLemmas, SequenceTheorems, TLAPS

Bodies == Wires \X Nat
Buffers == [0 .. BufferSize - 1 -> Bodies \cup {Nil}]
Ends == Wires \cup {Nil}

WireRecords ==
    [connectionState : States, listening : BOOLEAN,
     netAddr : Ends, selfId : Ends,
     sendSerial : Nat, sendAckSerial : Nat, sendBuffer : Buffers,
     receiveSerial : Nat, receiveBuffer : Buffers]

Knocks == [type : {"wireKnock"}, to : {"bindPort"}, from : Wires]
Requests == [type : {"wireConnectRequest"}, to : Wires, from : Wires]
Accepts == [type : {"wireConnectAccept"}, to : Wires, id : Wires,
            initiatorId : Wires]
Confirms == [type : {"wireConnectConfirm"}, to : Wires, id : Ends]
Sends == [type : {"wireSend"}, to : Wires, id : Ends, serial : Nat, body : Bodies]
Acks == [type : {"wireAck"}, to : Wires, id : Ends, serial : Nat]
Disconnects == [type : {"wireDisconnect"}, to : Wires, id : Ends]
DisconnectConfirms == [type : {"wireDisconnectConfirm"}, to : Wires, id : Ends]

Retried == Knocks \cup Requests \cup Accepts \cup Sends \cup Disconnects
Datagrams == Retried \cup Confirms \cup Acks \cup DisconnectConfirms
Jobs == [msg : Retried, retries : Nat]

(* All that may still arrive: what is in flight, and what the jobs resend. *)
Arriving == network \cup {jobs[p[1]][p[2]].msg : p \in
                {q \in Wires \X Nat : q[2] \in 1 .. Len(jobs[q[1]])}}

(* A wire that others know has an address to answer to.                    *)
Known(w) == w # Nil => wire[w].netAddr # Nil

Names(d) ==
    /\ d.type = "wireConnectRequest" => Known(d.from)
    /\ d.type = "wireConnectAccept" => Known(d.id) /\ Known(d.initiatorId)
    /\ d.type \notin {"wireKnock", "wireConnectRequest", "wireConnectAccept"} =>
           Known(d.id)

Fresh(w) ==
    /\ wire[w].connectionState = "neverConnected"
    /\ wire[w].netAddr = Nil
    /\ jobs[w] = <<>>

TypeInv ==
    /\ wire \in [Wires -> WireRecords]
    /\ jobs \in [Wires -> Seq(Jobs)]
    /\ portSerial \in 0 .. Len(ServerWires)
    /\ network \subseteq Datagrams
    /\ attempts \in [Wires -> Nat]
    /\ sent \in [Wires -> Nat]
    /\ \A w \in Wires : attempts[w] = 0 => Fresh(w)
    /\ \A w \in Wires : ~ Made(w) => attempts[w] = 0 /\ ~ wire[w].listening
    /\ \A w \in Wires : Known(wire[w].selfId)
    /\ \A w \in Wires : wire[w].connectionState = "connected" => wire[w].netAddr # Nil
    /\ \A d \in Arriving : Names(d)

----------------------------------------------------------------------------
Single == \A w \in Wires : attempts[w] <= 1

TookPart(w) == wire[w].connectionState \notin
                   {"neverConnected", "knocking", "connectionRequested"}

Pledge(w, peer) ==
    /\ wire[w].netAddr = peer
    /\ wire[w].selfId = peer

Honest(d) ==
    /\ d.type = "wireConnectRequest" => wire[d.from].netAddr = d.to
    /\ d.type = "wireConnectAccept" =>
          /\ d.id = d.to
          /\ wire[d.to].netAddr = d.initiatorId
          /\ Pledge(d.initiatorId, d.to)
          /\ TookPart(d.initiatorId)
    /\ d.type = "wireConnectConfirm" =>
          /\ d.id # Nil
          /\ wire[d.id].netAddr # Nil
          /\ Pledge(d.id, wire[d.id].netAddr)
          /\ TookPart(wire[d.id].netAddr)

Handshakes ==
    /\ \A w \in Wires :
          /\ wire[w].connectionState = "knocking" => wire[w].netAddr = Nil
          /\ wire[w].connectionState = "connected" =>
                /\ wire[w].netAddr # Nil
                /\ Pledge(w, wire[w].netAddr)
                /\ TookPart(wire[w].netAddr)
    /\ \A d \in Arriving : Honest(d)

IInv == TypeInv /\ (Single => Handshakes)

----------------------------------------------------------------------------
(* A step gives wire w the record r and lets the datagrams new arrive, too; *)
(* what this may not do to the types, and to the handshakes.               *)

Moves(w, r, begun, new) ==
    /\ wire' = [wire EXCEPT ![w] = r]
    /\ jobs' \in [Wires -> Seq(Jobs)]
    /\ \A v \in Wires \ {w} : jobs'[v] = jobs[v]
    /\ network' \subseteq Datagrams
    /\ attempts' = IF begun THEN [attempts EXCEPT ![w] = @ + 1] ELSE attempts
    /\ Arriving' \subseteq Arriving \cup new
    /\ portSerial' \in portSerial .. Len(ServerWires)
    /\ sent' \in [Wires -> Nat]

Typed(w, r, begun, new) ==
    /\ wire[w].netAddr # Nil => r.netAddr # Nil
    /\ (attempts[w] = 0 => Fresh(w))'
    /\ Made(w)'
    /\ Known(r.selfId)'
    /\ r.connectionState = "connected" => r.netAddr # Nil
    /\ \A d \in new : Names(d)'

Agrees(w, r, new) ==
    /\ wire[w].netAddr # Nil => r.netAddr = wire[w].netAddr
    /\ wire[w].netAddr # Nil /\ wire[w].selfId = wire[w].netAddr =>
           r.selfId = wire[w].selfId
    /\ TookPart(w) => TookPart(w)'
    /\ r.connectionState = "connected" =>
          \/ wire[w].connectionState = "connected"
          \/ r.netAddr # Nil /\ r.selfId = r.netAddr /\ TookPart(r.netAddr)'
    /\ r.connectionState = "knocking" => r.netAddr = Nil
    /\ \A d \in new : Honest(d)'

Acts(w, r, begun, new) ==
    /\ Moves(w, r, begun, new)
    /\ Typed(w, r, begun, new)
    /\ Single' /\ Handshakes => Agrees(w, r, new)

----------------------------------------------------------------------------
(* Records and jobs.                                                       *)

LEMMA EmptyTyped == Empty \in Buffers
BY DEF Empty, Buffers

LEMMA NewWireTyped == NewWire \in WireRecords
BY EmptyTyped DEF NewWire, WireRecords, States, Ends

(* Entering a state changes nothing but serials and buffers besides it.    *)
LEMMA EnteringTyped ==
    ASSUME NEW r \in WireRecords, NEW s \in States
    PROVE  /\ Entering(r, s) \in WireRecords
           /\ Entering(r, s).connectionState = s
           /\ Entering(r, s).netAddr = r.netAddr
           /\ Entering(r, s).selfId = r.selfId
           /\ Entering(r, s).listening = r.listening
<1> DEFINE Like(x) == /\ x \in WireRecords /\ x.connectionState = s
                      /\ x.netAddr = r.netAddr /\ x.selfId = r.selfId
                      /\ x.listening = r.listening
<1>1. PICK r1 : r1 = [r EXCEPT !.connectionState = s]
    OBVIOUS
<1>2. Like(r1)
    BY <1>1 DEF WireRecords
<1>3. CASE s = "connected"
    <2>1. PICK r2 : r2 = [r1 EXCEPT !.sendSerial = 0]
        OBVIOUS
    <2>2. PICK r3 : r3 = [r2 EXCEPT !.sendAckSerial = 0]
        OBVIOUS
    <2>3. PICK r4 : r4 = [r3 EXCEPT !.sendBuffer = Empty]
        OBVIOUS
    <2>4. PICK r5 : r5 = [r4 EXCEPT !.receiveSerial = 0]
        OBVIOUS
    <2>5. PICK r6 : r6 = [r5 EXCEPT !.receiveBuffer = Empty]
        OBVIOUS
    <2>6. Like(r2)
        BY <1>2, <2>1 DEF WireRecords
    <2>7. Like(r3)
        BY <2>2, <2>6 DEF WireRecords
    <2>8. Like(r4)
        BY <2>3, <2>7, EmptyTyped DEF WireRecords
    <2>9. Like(r5)
        BY <2>4, <2>8 DEF WireRecords
    <2>10. Like(r6)
        BY <2>5, <2>9, EmptyTyped DEF WireRecords
    <2>11. Entering(r, s) = r6
        BY <1>1, <1>3, <2>1, <2>2, <2>3, <2>4, <2>5, Zenon DEF Entering
    <2> QED
        BY <2>10, <2>11
<1>4. CASE s # "connected"
    BY <1>1, <1>2, <1>4, Zenon DEF Entering
<1> QED
    BY <1>3, <1>4

LEMMA JobMsgs ==
    ASSUME NEW w \in Wires, jobs \in [Wires -> Seq(Jobs)],
           NEW i \in 1 .. Len(jobs[w])
    PROVE  jobs[w][i].msg \in Arriving
<1>1. <<w, i>> \in {p \in Wires \X Nat : p[2] \in 1 .. Len(jobs[p[1]])}
    <2>1. i \in Nat
        BY LenProperties
    <2> QED
        BY <2>1
<1> QED
    BY <1>1 DEF Arriving

(* What arrives after a step, from where it is.                            *)
LEMMA ArrivingFrom ==
    ASSUME NEW new, jobs' \in [Wires -> Seq(Jobs)],
           network' \subseteq Arriving \cup new,
           \A v \in Wires : \A i \in 1 .. Len(jobs'[v]) :
               jobs'[v][i].msg \in Arriving \cup new
    PROVE  Arriving' \subseteq Arriving \cup new
<1>1. ASSUME NEW d \in Arriving' PROVE d \in Arriving \cup new
    <2>1. CASE d \in network'
        BY <2>1
    <2>2. CASE d \notin network'
        <3>1. PICK v \in Wires, i \in Nat : i \in 1 .. Len(jobs'[v]) /\ d = jobs'[v][i].msg
            BY <2>2 DEF Arriving
        <3> QED
            BY <3>1
    <2> QED
        BY <2>1, <2>2
<1> QED
    BY <1>1

(* A new job is appended, its datagram sent.                               *)
LEMMA StartArrives ==
    ASSUME jobs \in [Wires -> Seq(Jobs)], network \subseteq Datagrams,
           NEW w \in Wires, NEW msg \in Retried, NEW r, NEW taken,
           Start(w, r, msg, taken)
    PROVE  /\ wire' = [wire EXCEPT ![w] = r]
           /\ jobs' \in [Wires -> Seq(Jobs)]
           /\ \A v \in Wires \ {w} : jobs'[v] = jobs[v]
           /\ network' \subseteq Datagrams
           /\ Arriving' \subseteq Arriving \cup {msg}
<1> DEFINE job == [msg |-> msg, retries |-> 0]
           q == jobs[w]
<1>1. job \in Jobs /\ job.msg = msg /\ q \in Seq(Jobs)
    BY DEF Jobs
<1>2. jobs' = [jobs EXCEPT ![w] = Append(q, job)]
    BY DEF Start
<1>3. Append(q, job) \in Seq(Jobs)
    BY <1>1, AppendProperties
<1>4. jobs' \in [Wires -> Seq(Jobs)] /\ \A v \in Wires \ {w} : jobs'[v] = jobs[v]
    BY <1>2, <1>3
<1>5. network' \subseteq network \cup {msg}
    BY DEF Start, Exchange
<1>6. ASSUME NEW v \in Wires, NEW i \in 1 .. Len(jobs'[v])
      PROVE  jobs'[v][i].msg \in Arriving \cup {msg}
    <2>1. CASE v # w
        BY <2>1, <1>4, <1>6, JobMsgs
    <2>2. CASE v = w
        <3>1. jobs'[w] = Append(q, job)
            BY <1>2
        <3>2. Len(Append(q, job)) = Len(q) + 1
            BY <1>1, AppendProperties
        <3>3. CASE i = Len(q) + 1
            <4>1. Append(q, job)[i] = job
                BY <3>3, <1>1, AppendProperties
            <4> QED
                BY <4>1, <3>1, <2>2, <1>1
        <3>4. CASE i # Len(q) + 1
            <4>1. Len(q) \in Nat
                BY <1>1, LenProperties
            <4>2. i \in 1 .. Len(q)
                BY <4>1, <3>4, <3>2, <3>1, <2>2, <1>6, SMT
            <4>3. Append(q, job)[i] = q[i]
                BY <4>2, <1>1, AppendProperties
            <4> QED
                BY <4>3, <4>2, <3>1, <2>2, JobMsgs
        <3> QED
            BY <3>3, <3>4
    <2> QED
        BY <2>1, <2>2
<1>7. network' \subseteq Arriving \cup {msg}
    BY <1>5 DEF Arriving
<1>8. Arriving' \subseteq Arriving \cup {msg}
    BY <1>4, <1>6, <1>7, ArrivingFrom
<1> QED
    BY <1>4, <1>5, <1>8 DEF Start, Update, Datagrams

(* A handler takes one datagram and may send another.                      *)
LEMMA ExchangeArrives ==
    ASSUME jobs \in [Wires -> Seq(Jobs)], network \subseteq Datagrams,
           NEW d, NEW new \in SUBSET Datagrams,
           UNCHANGED jobs, Exchange({d}, new)
    PROVE  /\ jobs' \in [Wires -> Seq(Jobs)]
           /\ \A v \in Wires : jobs'[v] = jobs[v]
           /\ network' \subseteq Datagrams
           /\ Arriving' \subseteq Arriving \cup new
<1>1. network' \subseteq network \cup new
    BY DEF Exchange
<1>2. network' \subseteq Arriving \cup new
    BY <1>1 DEF Arriving
<1>3. \A v \in Wires : \A i \in 1 .. Len(jobs'[v]) : jobs'[v][i].msg \in Arriving \cup new
    BY JobMsgs
<1> QED
    BY <1>1, <1>2, <1>3, ArrivingFrom

(* A tick takes the first job off, and may send its datagram again and put *)
(* the job behind the others.                                              *)
LEMMA TickArrives ==
    ASSUME jobs \in [Wires -> Seq(Jobs)], network \subseteq Datagrams,
           NEW w \in Wires, jobs[w] # <<>>,
           \/ /\ jobs' = [jobs EXCEPT ![w] = Tail(jobs[w])]
              /\ UNCHANGED network
           \/ /\ jobs' = [jobs EXCEPT ![w] =
                             Append(Tail(jobs[w]), [Head(jobs[w]) EXCEPT !.retries = @ + 1])]
              /\ Exchange({}, {Head(jobs[w]).msg})
    PROVE  /\ jobs' \in [Wires -> Seq(Jobs)]
           /\ \A v \in Wires \ {w} : jobs'[v] = jobs[v]
           /\ network' \subseteq Datagrams
           /\ Arriving' \subseteq Arriving
<1> DEFINE q == jobs[w]
           job == Head(q)
           others == Tail(q)
           again == [job EXCEPT !.retries = @ + 1]
           back == Append(others, again)
<1>1. q \in Seq(Jobs) /\ q # <<>>
    OBVIOUS
<1>2. /\ job \in Jobs /\ job = q[1] /\ Len(q) \in Nat \ {0}
      /\ others \in Seq(Jobs) /\ Len(others) = Len(q) - 1
      /\ \A i \in 1 .. Len(others) : others[i] = q[i + 1]
    BY <1>1, HeadTailProperties, LenProperties, EmptySeq, SMTT(30)
<1>3. again \in Jobs /\ again.msg = job.msg /\ job.msg \in Retried
    BY <1>2 DEF Jobs
<1>4. /\ back \in Seq(Jobs) /\ Len(back) = Len(others) + 1
      /\ \A i \in 1 .. Len(others) : back[i] = others[i]
      /\ back[Len(others) + 1] = again
    BY <1>2, <1>3, AppendProperties
<1>5. job.msg \in Arriving /\ \A i \in 1 .. Len(others) : others[i].msg \in Arriving
    <2>1. 1 \in 1 .. Len(q) /\ \A i \in 1 .. Len(others) : i + 1 \in 1 .. Len(q)
        BY <1>2, SMT
    <2> QED
        BY <2>1, <1>2, JobMsgs
<1>6. \A i \in 1 .. Len(back) : back[i].msg \in Arriving
    <2> SUFFICES ASSUME NEW i \in 1 .. Len(back) PROVE back[i].msg \in Arriving
        OBVIOUS
    <2>1. i \in 1 .. Len(others) \/ i = Len(others) + 1
        BY <1>2, <1>4, SMT
    <2> QED
        BY <2>1, <1>3, <1>4, <1>5
<1>7. jobs' = [jobs EXCEPT ![w] = others] \/ jobs' = [jobs EXCEPT ![w] = back]
    OBVIOUS
<1>8. jobs' \in [Wires -> Seq(Jobs)] /\ \A v \in Wires \ {w} : jobs'[v] = jobs[v]
    BY <1>2, <1>4, <1>7
<1>9. jobs'[w] = others \/ jobs'[w] = back
    BY <1>7
<1>10. \A v \in Wires : \A i \in 1 .. Len(jobs'[v]) : jobs'[v][i].msg \in Arriving \cup {}
    <2> SUFFICES ASSUME NEW v \in Wires, NEW i \in 1 .. Len(jobs'[v])
                 PROVE  jobs'[v][i].msg \in Arriving
        OBVIOUS
    <2> HIDE DEF others, back
    <2>1. CASE v # w
        BY <2>1, <1>8, JobMsgs
    <2>2. CASE v = w
        BY <2>2, <1>9, <1>5, <1>6
    <2> QED
        BY <2>1, <2>2
<1>11. network' \subseteq network \cup {job.msg}
    BY DEF Exchange
<1>12. network' \subseteq Arriving \cup {} /\ network' \subseteq Datagrams
    BY <1>11, <1>5, <1>3 DEF Arriving, Datagrams
<1>13. Arriving' \subseteq Arriving \cup {}
    BY <1>8, <1>10, <1>12, ArrivingFrom
<1> QED
    BY <1>8, <1>12, <1>13

----------------------------------------------------------------------------
(* Such a step keeps the invariant.                                        *)

LEMMA FirstMade ==
    ASSUME NEW n \in 0 .. Len(ServerWires)
    PROVE  Range(SubSeq(ServerWires, 1, n)) = {ServerWires[i] : i \in 1 .. n}
<1>1. ServerWires \in Seq(Range(ServerWires)) /\ Len(ServerWires) \in Nat
    BY WiresAssumption, LenProperties
<1>2. \A i \in 1 .. n : ServerWires[i] \in Range(ServerWires)
    <2>1. \A i \in 1 .. n : i \in 1 .. Len(ServerWires)
        BY <1>1, SMT
    <2> QED
        BY <2>1, <1>1, ElementOfSeq
<1> DEFINE first == SubSeq(ServerWires, 1, n)
<1>3. /\ first \in Seq(Range(ServerWires))
      /\ Len(first) = (IF 1 <= n THEN n - 1 + 1 ELSE 0)
      /\ \A i \in 1 .. n - 1 + 1 : first[i] = ServerWires[1 + i - 1]
    BY <1>1, <1>2, SubSeqProperties
<1> HIDE DEF first
<1>4. n \in Nat /\ Len(first) = n /\ \A i \in 1 .. n : first[i] = ServerWires[i]
    BY <1>1, <1>3, SMT
<1>5. DOMAIN first = 1 .. n
    BY <1>3, <1>4, LenProperties
<1>6. Range(first) = {ServerWires[i] : i \in 1 .. n}
    BY <1>4, <1>5 DEF Range
<1> QED
    BY <1>6 DEF first

LEMMA MadeGrows ==
    ASSUME portSerial \in 0 .. Len(ServerWires),
           portSerial' \in portSerial .. Len(ServerWires),
           NEW w, Made(w)
    PROVE  Made(w)'
<1>1. Len(ServerWires) \in Nat
    BY WiresAssumption, LenProperties
<1>2. portSerial' \in 0 .. Len(ServerWires) /\ 1 .. portSerial \subseteq 1 .. portSerial'
    BY <1>1, SMT
<1>3. /\ Range(SubSeq(ServerWires, 1, portSerial)) = {ServerWires[i] : i \in 1 .. portSerial}
      /\ Range(SubSeq(ServerWires, 1, portSerial')) = {ServerWires[i] : i \in 1 .. portSerial'}
    BY <1>2, FirstMade
<1> QED
    BY <1>2, <1>3 DEF Made

LEMMA ArrivingTyped ==
    ASSUME TypeInv
    PROVE  Arriving \subseteq Datagrams
<1>1. ASSUME NEW v \in Wires, NEW i \in 1 .. Len(jobs[v])
      PROVE  jobs[v][i].msg \in Retried
    <2>1. jobs[v] \in Seq(Jobs)
        BY DEF TypeInv
    <2>2. jobs[v][i] \in Jobs
        BY <2>1, ElementOfSeq
    <2> QED
        BY <2>2 DEF Jobs
<1> QED
    BY <1>1 DEF Arriving, TypeInv, Datagrams

LEMMA MovesTyped ==
    ASSUME TypeInv, NEW w \in Wires, NEW r \in WireRecords, NEW begun \in BOOLEAN,
           NEW new, Moves(w, r, begun, new), Typed(w, r, begun, new)
    PROVE  TypeInv'
<1>1. wire' \in [Wires -> WireRecords] /\ wire'[w] = r
    BY DEF TypeInv, Moves
<1>2. \A v \in Wires \ {w} : wire'[v] = wire[v]
    BY DEF TypeInv, Moves
<1>3. \A v \in Wires : wire[v].netAddr # Nil => wire'[v].netAddr # Nil
    BY <1>1, <1>2 DEF Typed
<1>4. \A v \in Ends : Known(v) => Known(v)'
    BY <1>3 DEF Known, Ends
<1>5. attempts' \in [Wires -> Nat] /\ \A v \in Wires \ {w} : attempts'[v] = attempts[v]
    BY DEF TypeInv, Moves
<1>7. \A v \in Wires : attempts'[v] = 0 => Fresh(v)'
    BY <1>2, <1>5 DEF TypeInv, Fresh, Moves, Typed
<1>8. ASSUME NEW v \in Wires, ~ Made(v)' PROVE attempts'[v] = 0 /\ ~ wire'[v].listening
    <2>1. v # w
        BY <1>8 DEF Typed
    <2>2. ~ Made(v)
        BY <1>8, MadeGrows DEF Moves, TypeInv
    <2> QED
        BY <2>1, <2>2, <1>2, <1>5 DEF TypeInv
<1>9. \A v \in Wires : Known(wire[v].selfId)'
    <2> SUFFICES ASSUME NEW v \in Wires PROVE Known(wire[v].selfId)'
        OBVIOUS
    <2>1. CASE v = w
        BY <2>1, <1>1 DEF Typed, Known
    <2>2. CASE v # w
        <3>1. Known(wire[v].selfId) /\ wire[v].selfId \in Ends /\ wire'[v] = wire[v]
            BY <2>2, <1>2 DEF TypeInv, WireRecords
        <3> QED
            BY <3>1, <1>3 DEF Known, Ends
    <2> QED
        BY <2>1, <2>2
<1>10. \A v \in Wires : wire'[v].connectionState = "connected" => wire'[v].netAddr # Nil
    BY <1>1, <1>2 DEF Typed, TypeInv
<1>11. \A d \in Arriving : d \in Datagrams
    BY ArrivingTyped
<1>12. ASSUME NEW d \in Arriving, d \notin new PROVE Names(d)'
    <2>1. d \in Datagrams /\ Names(d)
        BY <1>11, <1>12 DEF TypeInv
    <2>2. /\ d.type = "wireConnectRequest" => d.from \in Ends
          /\ d.type = "wireConnectAccept" => d.id \in Ends /\ d.initiatorId \in Ends
          /\ d.type \notin {"wireKnock", "wireConnectRequest", "wireConnectAccept"} =>
                 d.id \in Ends
        BY <2>1 DEF Datagrams, Retried, Knocks, Requests, Accepts, Confirms, Sends,
                    Acks, Disconnects, DisconnectConfirms, Ends
    <2>3. \A v \in Ends : (v # Nil => wire[v].netAddr # Nil) => (v # Nil => wire'[v].netAddr # Nil)
        BY <1>4 DEF Known
    <2> QED
        BY <2>1, <2>2, <2>3 DEF Names, Known
<1>13. \A d \in Arriving' : Names(d)'
    BY <1>12 DEF Moves, Typed
<1> QED
    BY <1>1, <1>5, <1>7, <1>8, <1>9, <1>10, <1>13 DEF TypeInv, Moves

LEMMA SingleBefore ==
    ASSUME TypeInv, NEW w \in Wires, NEW r, NEW begun, NEW new,
           Moves(w, r, begun, new), Single'
    PROVE  Single /\ (begun => attempts[w] = 0)
<1>1. ASSUME NEW v \in Wires PROVE attempts[v] <= 1 /\ (begun /\ v = w => attempts[v] = 0)
    <2>1. attempts[v] \in Nat /\ attempts'[v] <= 1
        BY DEF TypeInv, Single
    <2>2. attempts'[v] = attempts[v] + 1 \/ (~ (begun /\ v = w) /\ attempts'[v] = attempts[v])
        BY DEF TypeInv, Moves
    <2> QED
        BY <2>1, <2>2, SMT
<1> QED
    BY <1>1 DEF Single

LEMMA MovesAgree ==
    ASSUME TypeInv, Handshakes, NEW w \in Wires, NEW r \in WireRecords, NEW begun,
           NEW new, Moves(w, r, begun, new), Agrees(w, r, new)
    PROVE  Handshakes'
<1>1. wire'[w] = r /\ \A v \in Wires \ {w} : wire'[v] = wire[v]
    BY DEF TypeInv, Moves
<1>2. \A v \in Wires : wire[v].netAddr # Nil => wire'[v].netAddr = wire[v].netAddr
    BY <1>1 DEF Agrees
<1>3. \A v \in Wires : wire[v].netAddr # Nil /\ wire[v].selfId = wire[v].netAddr =>
                           wire'[v].selfId = wire[v].selfId
    BY <1>1 DEF Agrees
<1>4. \A v \in Wires : TookPart(v) => TookPart(v)'
    BY <1>1 DEF Agrees, TookPart
<1>5. \A v \in Wires : wire[v].netAddr # Nil => wire[v].netAddr \in Wires
    BY DEF TypeInv, WireRecords, Ends
<1>6. ASSUME NEW v \in Wires
      PROVE  /\ wire'[v].connectionState = "knocking" => wire'[v].netAddr = Nil
             /\ wire'[v].connectionState = "connected" =>
                   /\ wire'[v].netAddr # Nil
                   /\ Pledge(v, wire[v].netAddr)'
                   /\ TookPart(wire[v].netAddr)'
    <2>1. CASE v = w
        <3>1. CASE wire[w].connectionState = "connected" /\ r.connectionState = "connected"
            BY <3>1, <2>1, <1>1, <1>2, <1>3, <1>4, <1>5 DEF Handshakes, Pledge, TookPart, Agrees
        <3>2. CASE ~ (wire[w].connectionState = "connected" /\ r.connectionState = "connected")
            BY <3>2, <2>1, <1>1 DEF Agrees, Pledge, TookPart
        <3> QED
            BY <3>1, <3>2
    <2>2. CASE v # w
        BY <2>2, <1>1, <1>2, <1>3, <1>4, <1>5 DEF Handshakes, Pledge, TookPart
    <2> QED
        BY <2>1, <2>2
<1>7. ASSUME NEW d \in Arriving, d \in Datagrams PROVE Honest(d)'
    <2>1. Honest(d)
        BY <1>7 DEF Handshakes
    <2>2. CASE d.type = "wireConnectRequest"
        <3>1. d.from \in Wires /\ d.to \in Wires
            BY <2>2, <1>7 DEF Datagrams, Retried, Knocks, Requests, Accepts, Confirms,
                              Sends, Acks, Disconnects, DisconnectConfirms
        <3> QED
            BY <2>1, <2>2, <3>1, <1>2, WiresAssumption DEF Honest
    <2>3. CASE d.type = "wireConnectAccept"
        <3>1. d.to \in Wires /\ d.initiatorId \in Wires
            BY <2>3, <1>7 DEF Datagrams, Retried, Knocks, Requests, Accepts, Confirms,
                              Sends, Acks, Disconnects, DisconnectConfirms
        <3> QED
            BY <2>1, <2>3, <3>1, <1>2, <1>3, <1>4, WiresAssumption DEF Honest, Pledge
    <2>4. CASE d.type = "wireConnectConfirm"
        <3>1. d.id \in Wires
            BY <2>1, <2>4, <1>7 DEF Datagrams, Retried, Knocks, Requests, Accepts, Confirms,
                              Sends, Acks, Disconnects, DisconnectConfirms, Ends, Honest
        <3> QED
            BY <2>1, <2>4, <3>1, <1>2, <1>3, <1>4, <1>5 DEF Honest, Pledge, TookPart
    <2> QED
        BY <2>2, <2>3, <2>4 DEF Honest
<1>8. \A d \in Arriving' : d \in new \/ d \in Arriving
    BY DEF Moves
<1> QED
    BY <1>6, <1>7, <1>8, ArrivingTyped DEF Handshakes, Agrees

----------------------------------------------------------------------------
(* Every action is such a step.                                            *)

Acting == \E w \in Wires, r \in WireRecords, begun \in BOOLEAN,
             new \in SUBSET Datagrams : Acts(w, r, begun, new)

(* A wire that has an address, a job or a connection has begun.            *)
LEMMA HasBegun ==
    ASSUME TypeInv, NEW w \in Wires,
           \/ wire[w].netAddr # Nil
           \/ wire[w].connectionState # "neverConnected"
           \/ jobs[w] # <<>>
           \/ wire[w].listening /\ attempts[w] # 0
    PROVE  attempts[w] # 0 /\ Made(w)
BY DEF TypeInv, Fresh

LEMMA Listens ==
    ASSUME TypeInv, NEW w \in Wires, wire[w].listening
    PROVE  Made(w)
BY DEF TypeInv

(* Only its wire answers to an id.                                         *)
LEMMA AddressedBegun ==
    ASSUME TypeInv, NEW w \in Wires, NEW d, NEW type, Addressed(w, d, type),
           type # "wireKnock", type # "wireConnectRequest"
    PROVE  attempts[w] # 0 /\ Made(w) /\ wire[w].netAddr \in Wires /\ d \in Datagrams
<1>1. d \in network /\ d.type = type /\ d.id = w
    BY DEF Addressed, Heard
<1>2. d \in Arriving
    BY <1>1 DEF Arriving
<1>3. Known(d.id)
    BY <1>1, <1>2 DEF TypeInv, Names
<1>4. wire[w].netAddr # Nil /\ wire[w].netAddr \in Ends
    BY <1>1, <1>3, WiresAssumption DEF Known, TypeInv, WireRecords
<1> QED
    BY <1>1, <1>4, HasBegun DEF TypeInv, Ends

(* What is known stays known.                                              *)
LEMMA StaysKnown ==
    ASSUME TypeInv, NEW w \in Wires, NEW r, NEW begun, NEW new, Moves(w, r, begun, new),
           wire[w].netAddr # Nil => r.netAddr # Nil,
           NEW v \in Ends, Known(v)
    PROVE  Known(v)'
<1>1. wire'[w] = r /\ \A u \in Wires \ {w} : wire'[u] = wire[u]
    BY DEF TypeInv, Moves
<1>2. v # Nil => wire'[v].netAddr # Nil
    BY <1>1 DEF Known, Ends
<1> QED
    BY <1>2 DEF Known

(* A step that gives no wire a new partner, and sends no part of a         *)
(* handshake.                                                              *)
LEMMA Rests ==
    ASSUME TypeInv, NEW w \in Wires, NEW r \in WireRecords, NEW new \in SUBSET Datagrams,
           Moves(w, r, FALSE, new), Made(w),
           r.netAddr = wire[w].netAddr, r.selfId = wire[w].selfId,
           r.connectionState = wire[w].connectionState
              \/ r.connectionState \in {"disconnectRequested", "disconnected", "failureTimeout"},
           \/ attempts[w] # 0
           \/ r.connectionState = wire[w].connectionState /\ jobs' = jobs,
           \A d \in new : /\ d.type \in {"wireSend", "wireAck", "wireDisconnect",
                                         "wireDisconnectConfirm"}
                          /\ d.id \in Ends /\ Known(d.id)
    PROVE  Acting
<1>1. wire'[w] = r /\ \A v \in Wires \ {w} : wire'[v] = wire[v]
    BY DEF TypeInv, Moves
<1>2. \A v \in Wires : wire'[v].netAddr = wire[v].netAddr
    BY <1>1
<1>3. attempts' = attempts
    BY DEF Moves
<1>4. (attempts[w] = 0 => Fresh(w))'
    BY <1>1, <1>3 DEF TypeInv, Fresh
<1>5. Made(w)'
    BY MadeGrows DEF TypeInv, Moves
<1>6. wire[w].selfId \in Ends /\ Known(wire[w].selfId)
    BY DEF TypeInv, WireRecords
<1>7. Known(r.selfId)'
    <2>1. r.selfId # Nil => wire'[r.selfId].netAddr # Nil
        BY <1>2, <1>6 DEF Known, Ends
    <2> QED
        BY <1>1, <2>1 DEF Known
<1>8. r.connectionState = "connected" => r.netAddr # Nil
    BY DEF TypeInv
<1>9. \A d \in new : Names(d)'
    <2> SUFFICES ASSUME NEW d \in new PROVE Names(d)'
        OBVIOUS
    <2>1. Known(d.id) /\ d.id \in Ends
        OBVIOUS
    <2>2. d.id # Nil => wire'[d.id].netAddr # Nil
        BY <2>1, <1>2 DEF Known, Ends
    <2> QED
        BY <2>2 DEF Names, Known
<1>10. Typed(w, r, FALSE, new)
    BY <1>4, <1>5, <1>7, <1>8, <1>9 DEF Typed
<1>11. Handshakes => Agrees(w, r, new)
    <2>1. TookPart(w) => TookPart(w)'
        BY <1>1 DEF TookPart
    <2>2. \A d \in new : Honest(d)'
        BY DEF Honest
    <2>3. Handshakes => (r.connectionState = "knocking" => r.netAddr = Nil)
        BY DEF Handshakes
    <2> QED
        BY <2>1, <2>2, <2>3 DEF Agrees
<1> QED
    BY <1>10, <1>11 DEF Acting, Acts

(* Types of datagrams, from their fields.                                  *)
LEMMA RequestTyped ==
    ASSUME NEW d \in Datagrams, d.type = "wireConnectRequest"
    PROVE  d.to \in Wires /\ d.from \in Wires
BY DEF Datagrams, Retried, Knocks, Requests, Accepts, Confirms, Sends, Acks,
       Disconnects, DisconnectConfirms

LEMMA AcceptTyped ==
    ASSUME NEW d \in Datagrams, d.type = "wireConnectAccept"
    PROVE  d.to \in Wires /\ d.id \in Wires /\ d.initiatorId \in Wires
BY DEF Datagrams, Retried, Knocks, Requests, Accepts, Confirms, Sends, Acks,
       Disconnects, DisconnectConfirms

LEMMA SerialTyped ==
    ASSUME NEW d \in Datagrams, d.type \in {"wireSend", "wireAck"}
    PROVE  d.serial \in Nat /\ (d.type = "wireSend" => d.body \in Bodies)
BY DEF Datagrams, Retried, Knocks, Requests, Accepts, Confirms, Sends, Acks,
       Disconnects, DisconnectConfirms

LEMMA KnockTyped ==
    ASSUME NEW d \in Datagrams, d.type = "wireKnock"
    PROVE  d.from \in Wires
BY DEF Datagrams, Retried, Knocks, Requests, Accepts, Confirms, Sends, Acks,
       Disconnects, DisconnectConfirms

LEMMA KnockActs ==
    ASSUME TypeInv, NEW w \in Wires, Made(w), Knock(w)
    PROVE  Acting
<1> DEFINE new == {KnockMsg(w)}
<1>0. PICK r : r = Entering(wire[w], "knocking")
    OBVIOUS
<1>1. wire[w] \in WireRecords /\ "knocking" \in States
    BY DEF TypeInv, States
<1>2. /\ r \in WireRecords /\ r.connectionState = "knocking"
      /\ r.netAddr = wire[w].netAddr /\ r.selfId = wire[w].selfId
    BY <1>0, <1>1, EnteringTyped
<1>3. KnockMsg(w) \in Retried /\ KnockMsg(w).type = "wireKnock"
    BY DEF KnockMsg, Retried, Knocks
<1>4. new \in SUBSET Datagrams
    BY <1>3 DEF Datagrams
<1>5. Start(w, r, KnockMsg(w), {})
    BY <1>0 DEF Knock
<1>6. Moves(w, r, TRUE, new)
    <2>1. portSerial' \in portSerial .. Len(ServerWires) /\ sent' = sent
        BY WiresAssumption, LenProperties DEF Knock, TypeInv
    <2> QED
        BY <2>1, <1>3, <1>5, StartArrives DEF Moves, Knock, Begins, TypeInv
<1>7. /\ wire'[w] = r /\ \A v \in Wires \ {w} : wire'[v] = wire[v]
      /\ attempts'[w] # 0
    <2>1. attempts[w] \in Nat /\ attempts'[w] = attempts[w] + 1
        BY DEF Knock, Begins, TypeInv
    <2> QED
        BY <2>1, <1>6 DEF TypeInv, Moves
<1>8. Typed(w, r, TRUE, new)
    <2>1. Made(w)'
        BY <1>6, MadeGrows DEF Moves, TypeInv
    <2>2. Known(r.selfId)'
        <3>1. Known(wire[w].selfId) /\ wire[w].selfId \in Ends
            BY <1>1 DEF TypeInv, WireRecords
        <3>2. PICK v \in Ends : v = r.selfId /\ Known(v)
            BY <3>1, <1>2
        <3>3. Known(v)'
            BY <3>2, <1>2, <1>6, StaysKnown
        <3> QED
            BY <3>2, <3>3 DEF Known
    <2> QED
        BY <2>1, <2>2, <1>2, <1>3, <1>7 DEF Typed, Names
<1>9. Single' => Agrees(w, r, new)
    <2> SUFFICES ASSUME Single' PROVE Agrees(w, r, new)
        OBVIOUS
    <2>1. Fresh(w)
        BY <1>6, SingleBefore DEF TypeInv
    <2> QED
        BY <2>1, <1>2, <1>3 DEF Agrees, Fresh, TookPart, Honest
<1> QED
    BY <1>2, <1>4, <1>6, <1>8, <1>9 DEF Acting, Acts

(* Connecting, for a wire that begins to, with or without a new record.    *)
LEMMA ConnectingActs ==
    ASSUME TypeInv, NEW w \in Wires, NEW r0 \in WireRecords, NEW to \in Wires, NEW taken,
           Connecting(w, r0, to, taken), Begins(w), Made(w)',
           r0.selfId \in {wire[w].selfId, Nil}, sent' = sent,
           portSerial' \in portSerial .. Len(ServerWires)
    PROVE  Acting
<1> DEFINE msg == RequestMsg(w, to)
           new == {msg}
<1>1. PICK r1 : r1 = [r0 EXCEPT !.netAddr = to]
    OBVIOUS
<1>2. r1 \in WireRecords /\ r1.netAddr = to /\ r1.selfId = r0.selfId
    BY <1>1 DEF WireRecords, Ends
<1>3. PICK r : r = Entering(r1, "connectionRequested")
    OBVIOUS
<1>4. /\ r \in WireRecords /\ r.connectionState = "connectionRequested"
      /\ r.netAddr = to /\ r.selfId = r0.selfId
    BY <1>2, <1>3, EnteringTyped DEF States
<1>5. msg \in Retried /\ msg.type = "wireConnectRequest" /\ msg.from = w /\ msg.to = to
    BY DEF RequestMsg, Retried, Requests
<1>6. new \in SUBSET Datagrams
    BY <1>5 DEF Datagrams
<1>7. Start(w, r, msg, taken)
    BY <1>1, <1>3 DEF Connecting
<1> HIDE DEF msg
<1>8. Moves(w, r, TRUE, new)
    BY <1>5, <1>7, StartArrives DEF Moves, Begins, TypeInv
<1>9. /\ wire'[w] = r /\ \A v \in Wires \ {w} : wire'[v] = wire[v]
      /\ attempts'[w] # 0
    <2>1. attempts[w] \in Nat /\ attempts'[w] = attempts[w] + 1
        BY DEF Begins, TypeInv
    <2> QED
        BY <2>1, <1>8 DEF TypeInv, Moves
<1>10. to # Nil
    BY WiresAssumption
<1>11. Typed(w, r, TRUE, new)
    <2>1. Known(r.selfId)'
        <3>1. Known(wire[w].selfId) /\ wire[w].selfId \in Ends
            BY DEF TypeInv, WireRecords
        <3>2. r.selfId # Nil => wire'[r.selfId].netAddr # Nil
            BY <3>1, <1>4, <1>9, <1>10 DEF Known, Ends
        <3> QED
            BY <3>2, <1>9 DEF Known
    <2>2. Names(msg)'
        BY <1>4, <1>5, <1>9, <1>10 DEF Names, Known
    <2> QED
        BY <2>1, <2>2, <1>4, <1>9, <1>10 DEF Typed
<1>12. Single' => Agrees(w, r, new)
    <2> SUFFICES ASSUME Single' PROVE Agrees(w, r, new)
        OBVIOUS
    <2>1. Fresh(w)
        BY <1>8, SingleBefore DEF TypeInv
    <2>2. Honest(msg)'
        BY <1>4, <1>5, <1>9 DEF Honest
    <2> QED
        BY <2>1, <2>2, <1>4 DEF Agrees, Fresh, TookPart
<1> QED
    BY <1>4, <1>6, <1>8, <1>11, <1>12 DEF Acting, Acts

LEMMA ConnectActs ==
    ASSUME TypeInv, NEW w \in Wires, Made(w), NEW to \in Wires, Connect(w, to)
    PROVE  Acting
<1>1. wire[w] \in WireRecords
    BY DEF TypeInv
<1>2. portSerial' \in portSerial .. Len(ServerWires) /\ sent' = sent
    BY WiresAssumption, LenProperties DEF Connect, TypeInv
<1>3. Made(w)'
    BY <1>2, MadeGrows DEF TypeInv
<1>4. Connecting(w, wire[w], to, {}) /\ Begins(w)
    BY DEF Connect
<1> QED
    BY <1>1, <1>2, <1>3, <1>4, ConnectingActs

LEMMA OnKnockActs ==
    ASSUME TypeInv, NEW d \in network, OnKnock(d)
    PROVE  Acting
<1> DEFINE r0 == [NewWire EXCEPT !.listening = TRUE]
<1>0. PICK n, w : n = portSerial + 1 /\ w = ServerWires[n]
    OBVIOUS
<1>1. /\ Len(ServerWires) \in Nat /\ n \in 1 .. Len(ServerWires)
      /\ portSerial' = n /\ portSerial' \in portSerial .. Len(ServerWires)
      /\ portSerial' \in 0 .. Len(ServerWires)
    BY <1>0, WiresAssumption, LenProperties DEF OnKnock, TypeInv
<1>2. w \in Wires
    BY <1>0, <1>1, WiresAssumption, ElementOfSeq DEF Wires
<1>3. Made(w)'
    <2>1. Range(SubSeq(ServerWires, 1, portSerial')) = {ServerWires[i] : i \in 1 .. portSerial'}
        BY <1>1, FirstMade
    <2>2. n \in 1 .. portSerial'
        BY <1>1, SMT
    <2> QED
        BY <1>0, <2>1, <2>2 DEF Made
<1>4. r0 \in WireRecords /\ r0.selfId = Nil
    <2>1. NewWire \in WireRecords /\ NewWire.selfId = Nil
        BY NewWireTyped DEF NewWire
    <2> QED
        BY <2>1 DEF WireRecords
<1>5. d.from \in Wires
    BY KnockTyped DEF TypeInv, OnKnock
<1>6. Connecting(w, r0, d.from, {d}) /\ Begins(w) /\ sent' = sent
    BY <1>0 DEF OnKnock
<1> HIDE DEF r0
<1> QED
    BY <1>1, <1>2, <1>3, <1>4, <1>5, <1>6, ConnectingActs

LEMMA OnConnectRequestActs ==
    ASSUME TypeInv, NEW w \in Wires, NEW d, OnConnectRequest(w, d)
    PROVE  Acting
<1> DEFINE x == d.from
           msg == AcceptMsg(w, x, x)
           new == {msg}
<1>0. PICK begun \in BOOLEAN : begun = (wire[w].connectionState # "knocking")
    OBVIOUS
<1>1. /\ d \in network /\ d \in Datagrams /\ d \in Arriving
      /\ d.type = "wireConnectRequest" /\ d.to = w /\ wire[w].listening
    BY DEF OnConnectRequest, Heard, TypeInv, Arriving
<1>2. x \in Wires /\ Names(d) /\ wire[x].netAddr # Nil
    <2>1. x \in Wires /\ Names(d)
        BY <1>1, RequestTyped DEF TypeInv
    <2> QED
        BY <2>1, <1>1, WiresAssumption DEF Names, Known
<1>3. PICK r1 : r1 = Entering(wire[w], "connectionAccepted")
    OBVIOUS
<1>4. r1 \in WireRecords /\ r1.connectionState = "connectionAccepted"
    BY <1>3, EnteringTyped DEF States, TypeInv
<1>5. PICK r : r = [r1 EXCEPT !.netAddr = x, !.selfId = x]
    OBVIOUS
<1>6. /\ r \in WireRecords /\ r.connectionState = "connectionAccepted"
      /\ r.netAddr = x /\ r.selfId = x
    BY <1>2, <1>4, <1>5 DEF WireRecords, Ends
<1>7. /\ msg \in Retried /\ msg.type = "wireConnectAccept" /\ msg.to = x /\ msg.id = x
      /\ msg.initiatorId = w
    BY <1>2 DEF AcceptMsg, Retried, Accepts
<1>8. new \in SUBSET Datagrams
    BY <1>7 DEF Datagrams
<1>9. Start(w, r, msg, {d})
    BY <1>3, <1>5 DEF OnConnectRequest
<1>10. /\ attempts' = IF begun THEN [attempts EXCEPT ![w] = @ + 1] ELSE attempts
       /\ portSerial' = portSerial /\ sent' = sent
    BY <1>0 DEF OnConnectRequest, Begins
<1> HIDE DEF msg, x
<1>11. Moves(w, r, begun, new)
    <2>1. portSerial' \in portSerial .. Len(ServerWires)
        BY <1>10, WiresAssumption, LenProperties DEF TypeInv
    <2> QED
        BY <2>1, <1>7, <1>9, <1>10, StartArrives DEF Moves, TypeInv
<1>12. wire'[w] = r /\ \A v \in Wires \ {w} : wire'[v] = wire[v]
    BY <1>11 DEF TypeInv, Moves
<1>13. attempts'[w] # 0
    <2>1. attempts[w] \in Nat
        BY DEF TypeInv
    <2>2. CASE begun
        <3>1. attempts'[w] = attempts[w] + 1
            BY <2>2, <1>10 DEF TypeInv
        <3> QED
            BY <2>1, <3>1, SMT
    <2>3. CASE ~ begun
        BY <2>3, <1>0, <1>10, HasBegun
    <2> QED
        BY <2>2, <2>3
<1>14. x # Nil /\ w # Nil
    BY <1>2, WiresAssumption
<1>15. Known(x)' /\ Known(w)'
    BY <1>2, <1>6, <1>12, <1>14 DEF Known
<1>16. Typed(w, r, begun, new)
    <2>1. Made(w)'
        BY <1>1, <1>11, MadeGrows, Listens DEF Moves, TypeInv
    <2>2. Known(r.selfId)'
        <3>1. PICK v \in Ends : v = r.selfId
            BY <1>2, <1>6 DEF Ends
        <3>2. wire'[v].netAddr # Nil
            BY <3>1, <1>6, <1>15, <1>14 DEF Known
        <3> QED
            BY <3>1, <3>2 DEF Known
    <2>3. Names(msg)'
        <3>1. wire'[msg.id].netAddr # Nil /\ wire'[msg.initiatorId].netAddr # Nil
            BY <1>7, <1>15, <1>14 DEF Known
        <3> QED
            BY <3>1, <1>7 DEF Names, Known
    <2> QED
        BY <2>1, <2>2, <2>3, <1>6, <1>13, <1>14 DEF Typed
<1>17. Single' /\ Handshakes => Agrees(w, r, new)
    <2> SUFFICES ASSUME Single', Handshakes PROVE Agrees(w, r, new)
        OBVIOUS
    <2>1. wire[w].netAddr = Nil
        <3>1. CASE begun
            <4>1. begun => attempts[w] = 0
                BY <1>11, SingleBefore
            <4> QED
                BY <3>1, <4>1 DEF TypeInv, Fresh
        <3>2. CASE ~ begun
            BY <3>2, <1>0 DEF Handshakes
        <3> QED
            BY <3>1, <3>2
    <2>2. wire[x].netAddr = w
        BY <1>1 DEF Handshakes, Honest, x
    <2>3. x # w
        BY <2>1, <2>2, <1>14
    <2>4. Honest(msg)'
        <3>1. /\ wire'[x].netAddr = w /\ wire'[w].netAddr = x /\ wire'[w].selfId = x
              /\ wire'[w].connectionState = "connectionAccepted"
            BY <2>2, <2>3, <1>2, <1>6, <1>12
        <3> QED
            BY <3>1, <1>7 DEF Honest, Pledge, TookPart
    <2>5. TookPart(w)'
        BY <1>6, <1>12 DEF TookPart
    <2> QED
        BY <2>1, <2>4, <2>5, <1>6 DEF Agrees
<1> QED
    BY <1>6, <1>8, <1>11, <1>16, <1>17 DEF Acting, Acts

LEMMA OnConnectAcceptActs ==
    ASSUME TypeInv, NEW w \in Wires, NEW d, OnConnectAccept(w, d)
    PROVE  Acting
<1> DEFINE y == d.initiatorId
<1>1. PICK r1 : r1 = [wire[w] EXCEPT !.selfId = y]
    OBVIOUS
<1>2. PICK r : r = Entering(r1, "connected")
    OBVIOUS
<1>3. PICK msg : msg = ConfirmMsg(r)
    OBVIOUS
<1> DEFINE new == {msg}
<1>4. /\ d \in network /\ d \in Datagrams /\ d \in Arriving
      /\ d.type = "wireConnectAccept" /\ d.to = w /\ d.id = w
    BY DEF OnConnectAccept, Addressed, Heard, TypeInv, Arriving
<1>5. y \in Wires /\ Known(y) /\ y # Nil
    BY <1>4, AcceptTyped, WiresAssumption DEF TypeInv, Names
<1>6. attempts[w] # 0 /\ Made(w) /\ wire[w].netAddr \in Wires /\ wire[w].netAddr # Nil
    BY AddressedBegun, WiresAssumption DEF OnConnectAccept
<1> HIDE DEF y
<1>7. r1 \in WireRecords /\ r1.netAddr = wire[w].netAddr /\ r1.selfId = y
    BY <1>1, <1>5 DEF TypeInv, WireRecords, Ends
<1>8. /\ r \in WireRecords /\ r.connectionState = "connected"
      /\ r.netAddr = wire[w].netAddr /\ r.selfId = y
    BY <1>2, <1>7, EnteringTyped DEF States
<1>9. msg \in Confirms /\ msg.type = "wireConnectConfirm" /\ msg.id = y
    BY <1>3, <1>5, <1>6, <1>8 DEF ConfirmMsg, Confirms, Ends
<1>10. new \in SUBSET Datagrams
    BY <1>9 DEF Datagrams
<1>11. /\ wire' = [wire EXCEPT ![w] = r] /\ UNCHANGED jobs /\ Exchange({d}, new)
       /\ UNCHANGED <<attempts, portSerial, sent>>
    BY <1>1, <1>2, <1>3 DEF OnConnectAccept, Update, y
<1>12. Moves(w, r, FALSE, new)
    <2>1. portSerial' \in portSerial .. Len(ServerWires)
        BY <1>11, WiresAssumption, LenProperties DEF TypeInv
    <2>2. /\ jobs' \in [Wires -> Seq(Jobs)] /\ \A v \in Wires : jobs'[v] = jobs[v]
          /\ network' \subseteq Datagrams
          /\ Arriving' \subseteq Arriving \cup new
        BY <1>10, <1>11, ExchangeArrives DEF TypeInv
    <2> QED
        BY <2>1, <2>2, <1>11 DEF Moves, TypeInv
<1>13. wire'[w] = r /\ \A v \in Wires \ {w} : wire'[v] = wire[v]
    BY <1>11 DEF TypeInv
<1>14. Known(y)'
    BY <1>5, <1>8, <1>12, StaysKnown DEF Ends
<1>15. Typed(w, r, FALSE, new)
    <2>1. Made(w)' /\ attempts'[w] # 0
        BY <1>6, <1>11, <1>12, MadeGrows DEF Moves, TypeInv
    <2>2. Known(r.selfId)' /\ Names(msg)'
        BY <1>8, <1>9, <1>14 DEF Names, Known
    <2> QED
        BY <2>1, <2>2, <1>6, <1>8 DEF Typed
<1>16. Handshakes => Agrees(w, r, new)
    <2> SUFFICES ASSUME Handshakes PROVE Agrees(w, r, new)
        OBVIOUS
    <2>1. wire[w].netAddr = y /\ Pledge(y, w) /\ TookPart(y)
        BY <1>4 DEF Handshakes, Honest, y
    <2>2. TookPart(w)' /\ TookPart(y)'
        BY <2>1, <1>5, <1>8, <1>13 DEF TookPart
    <2>3. wire'[y].netAddr = w /\ wire'[y].selfId = w
        BY <2>1, <1>5, <1>8, <1>13 DEF Pledge
    <2>4. Honest(msg)'
        <3>1. w # Nil
            BY WiresAssumption
        <3> QED
            BY <3>1, <2>2, <2>3, <1>5, <1>9 DEF Honest, Pledge, TookPart
    <2>5. r.netAddr = y /\ r.selfId = y /\ r.connectionState # "knocking"
        BY <2>1, <1>8
    <2>6. TookPart(r.netAddr)'
        BY <2>2, <2>5 DEF TookPart
    <2> QED
        BY <2>1, <2>2, <2>4, <2>5, <2>6, <1>5 DEF Agrees
<1> QED
    BY <1>8, <1>10, <1>12, <1>15, <1>16 DEF Acting, Acts

LEMMA OnConnectConfirmActs ==
    ASSUME TypeInv, NEW w \in Wires, NEW d, OnConnectConfirm(w, d)
    PROVE  Acting
<1>1. PICK r : r = Entering(wire[w], "connected")
    OBVIOUS
<1> DEFINE new == {}
<1>2. d \in Arriving /\ d.type = "wireConnectConfirm" /\ d.to = w /\ d.id = w
    BY DEF OnConnectConfirm, Addressed, Heard, Arriving
<1>3. attempts[w] # 0 /\ Made(w) /\ wire[w].netAddr \in Wires /\ wire[w].netAddr # Nil
    BY AddressedBegun, WiresAssumption DEF OnConnectConfirm
<1>4. /\ r \in WireRecords /\ r.connectionState = "connected"
      /\ r.netAddr = wire[w].netAddr /\ r.selfId = wire[w].selfId
    BY <1>1, EnteringTyped DEF States, TypeInv
<1>5. new \in SUBSET Datagrams
    OBVIOUS
<1>6. /\ wire' = [wire EXCEPT ![w] = r] /\ UNCHANGED jobs /\ Exchange({d}, new)
      /\ UNCHANGED <<attempts, portSerial, sent>>
    BY <1>1 DEF OnConnectConfirm, Update
<1>7. Moves(w, r, FALSE, new)
    <2>1. portSerial' \in portSerial .. Len(ServerWires)
        BY <1>6, WiresAssumption, LenProperties DEF TypeInv
    <2>2. /\ jobs' \in [Wires -> Seq(Jobs)] /\ \A v \in Wires : jobs'[v] = jobs[v]
          /\ network' \subseteq Datagrams
          /\ Arriving' \subseteq Arriving \cup new
        BY <1>5, <1>6, ExchangeArrives DEF TypeInv
    <2> QED
        BY <2>1, <2>2, <1>6 DEF Moves, TypeInv
<1>8. wire'[w] = r /\ \A v \in Wires \ {w} : wire'[v] = wire[v]
    BY <1>6 DEF TypeInv
<1>9. Typed(w, r, FALSE, new)
    <2>1. Made(w)' /\ attempts'[w] # 0
        BY <1>3, <1>6, <1>7, MadeGrows DEF Moves, TypeInv
    <2>2. Known(r.selfId)'
        <3>1. PICK v \in Ends : v = r.selfId /\ Known(v)
            BY <1>4 DEF TypeInv, WireRecords
        <3>2. Known(v)'
            BY <3>1, <1>4, <1>7, StaysKnown
        <3> QED
            BY <3>1, <3>2 DEF Known
    <2> QED
        BY <2>1, <2>2, <1>3, <1>4 DEF Typed
<1>10. Handshakes => Agrees(w, r, new)
    <2> SUFFICES ASSUME Handshakes PROVE Agrees(w, r, new)
        OBVIOUS
    <2>1. Pledge(w, wire[w].netAddr) /\ TookPart(wire[w].netAddr)
        BY <1>2 DEF Handshakes, Honest
    <2>2. PICK x \in Wires : x = r.netAddr /\ x = wire[w].netAddr
        BY <1>3, <1>4
    <2>3. TookPart(w)' /\ TookPart(x)'
        BY <2>1, <2>2, <1>4, <1>8 DEF TookPart
    <2>4. r.selfId = x
        BY <2>1, <2>2, <1>4 DEF Pledge
    <2>5. TookPart(r.netAddr)'
        BY <2>2, <2>3 DEF TookPart
    <2> QED
        BY <2>2, <2>3, <2>4, <2>5, <1>3, <1>4 DEF Agrees
<1> QED
    BY <1>4, <1>5, <1>7, <1>9, <1>10 DEF Acting, Acts

(* The actions that take no part in a handshake.                           *)

LEMMA PortStays ==
    ASSUME TypeInv, UNCHANGED portSerial
    PROVE  portSerial' \in portSerial .. Len(ServerWires)
BY WiresAssumption, LenProperties DEF TypeInv

LEMMA StartRests ==
    ASSUME TypeInv, NEW w \in Wires, NEW r \in WireRecords, NEW msg \in Retried, Made(w),
           Start(w, r, msg, {}), UNCHANGED <<attempts, portSerial>>,
           sent' \in [Wires -> Nat], attempts[w] # 0,
           r.netAddr = wire[w].netAddr, r.selfId = wire[w].selfId,
           \/ r.connectionState = wire[w].connectionState
           \/ r.connectionState = "disconnectRequested",
           msg.type \in {"wireSend", "wireDisconnect"}, msg.id = wire[w].selfId
    PROVE  Acting
<1> DEFINE new == {msg}
<1>1. new \in SUBSET Datagrams
    BY DEF Datagrams
<1>2. Moves(w, r, FALSE, new)
    BY PortStays, StartArrives DEF Moves, TypeInv
<1>3. msg.id \in Ends /\ Known(msg.id)
    <2>1. wire[w].selfId \in Ends /\ Known(wire[w].selfId)
        BY DEF TypeInv, WireRecords
    <2> QED
        BY <2>1 DEF Known
<1> HIDE DEF new
<1>4. \A d \in new : /\ d.type \in {"wireSend", "wireAck", "wireDisconnect",
                                     "wireDisconnectConfirm"}
                     /\ d.id \in Ends /\ Known(d.id)
    BY <1>3 DEF new, Known
<1> QED
    BY <1>1, <1>2, <1>4, Rests

LEMMA ExchangeRests ==
    ASSUME TypeInv, NEW w \in Wires, NEW r \in WireRecords, NEW d,
           NEW new \in SUBSET Datagrams, Made(w), attempts[w] # 0,
           Update(w, r), UNCHANGED <<jobs, attempts, portSerial, sent>>, Exchange({d}, new),
           r.netAddr = wire[w].netAddr, r.selfId = wire[w].selfId,
           \/ r.connectionState = wire[w].connectionState
           \/ r.connectionState = "disconnected",
           \A m \in new : /\ m.type \in {"wireAck", "wireDisconnectConfirm"}
                          /\ m.id = wire[w].selfId
    PROVE  Acting
<1>1. /\ jobs' \in [Wires -> Seq(Jobs)] /\ \A v \in Wires : jobs'[v] = jobs[v]
      /\ network' \subseteq Datagrams
      /\ Arriving' \subseteq Arriving \cup new
    BY ExchangeArrives DEF TypeInv
<1>2. Moves(w, r, FALSE, new)
    BY <1>1, PortStays DEF Moves, TypeInv, Update
<1>3. wire[w].selfId \in Ends /\ Known(wire[w].selfId)
    BY DEF TypeInv, WireRecords
<1>4. \A m \in new : /\ m.type \in {"wireSend", "wireAck", "wireDisconnect",
                                     "wireDisconnectConfirm"}
                     /\ m.id \in Ends /\ Known(m.id)
    BY <1>3 DEF Known
<1> QED
    BY <1>2, <1>4, Rests

LEMMA SendMsgActs ==
    ASSUME TypeInv, NEW w \in Wires, Made(w), SendMsg(w)
    PROVE  Acting
<1>1. PICK serial, body, slot, msg :
          /\ serial = wire[w].sendSerial + 1 /\ body = <<w, sent[w] + 1>>
          /\ slot = Slot(serial) /\ msg = SendMsgMsg(wire[w], serial, body)
    OBVIOUS
<1>2. wire[w] \in WireRecords /\ sent[w] \in Nat
    BY DEF TypeInv
<1>3. serial \in Nat /\ body \in Bodies
    BY <1>1, <1>2 DEF WireRecords, Bodies
<1>4. PICK r1 : r1 = [wire[w] EXCEPT !.sendSerial = serial]
    OBVIOUS
<1>5. PICK r : r = [r1 EXCEPT !.sendBuffer[slot] = body]
    OBVIOUS
<1>6. /\ r1 \in WireRecords /\ r1.connectionState = wire[w].connectionState
      /\ r1.netAddr = wire[w].netAddr /\ r1.selfId = wire[w].selfId
    BY <1>2, <1>3, <1>4 DEF WireRecords
<1>7. PICK b : b = [r1.sendBuffer EXCEPT ![slot] = body]
    OBVIOUS
<1>8. b \in Buffers
    BY <1>3, <1>6, <1>7 DEF WireRecords, Buffers
<1>9. r = [r1 EXCEPT !.sendBuffer = b]
    BY <1>5, <1>7
<1>10. /\ r \in WireRecords /\ r.connectionState = wire[w].connectionState
       /\ r.netAddr = wire[w].netAddr /\ r.selfId = wire[w].selfId
    BY <1>6, <1>8, <1>9 DEF WireRecords
<1>11. /\ Start(w, r, msg, {}) /\ UNCHANGED <<attempts, portSerial>>
       /\ wire[w].connectionState = "connected" /\ sent' = [sent EXCEPT ![w] = @ + 1]
    BY <1>1, <1>4, <1>5, Zenon DEF SendMsg
<1>12. attempts[w] # 0 /\ wire[w].netAddr \in Wires
    BY <1>2, <1>11, HasBegun DEF TypeInv, WireRecords, Ends
<1>13. /\ msg \in Retried /\ msg.type = "wireSend" /\ msg.id = wire[w].selfId
    BY <1>1, <1>2, <1>3, <1>12 DEF SendMsgMsg, Retried, Sends, WireRecords
<1>14. sent' \in [Wires -> Nat]
    BY <1>11 DEF TypeInv
<1> QED
    BY <1>10, <1>11, <1>12, <1>13, <1>14, StartRests

LEMMA DisconnectTyped ==
    ASSUME TypeInv, NEW w \in Wires, wire[w].connectionState = "connected"
    PROVE  /\ DisconnectMsg(wire[w]) \in Retried
           /\ DisconnectMsg(wire[w]).type = "wireDisconnect"
           /\ DisconnectMsg(wire[w]).id = wire[w].selfId
           /\ attempts[w] # 0
<1>1. wire[w] \in WireRecords /\ wire[w].netAddr \in Wires
    BY DEF TypeInv, WireRecords, Ends
<1> QED
    BY <1>1, HasBegun DEF DisconnectMsg, Retried, Disconnects, WireRecords

LEMMA DisconnectActs ==
    ASSUME TypeInv, NEW w \in Wires, Made(w), Disconnect(w)
    PROVE  Acting
<1>1. PICK r, msg : r = Entering(wire[w], "disconnectRequested") /\ msg = DisconnectMsg(wire[w])
    OBVIOUS
<1>2. /\ r \in WireRecords /\ r.connectionState = "disconnectRequested"
      /\ r.netAddr = wire[w].netAddr /\ r.selfId = wire[w].selfId
    BY <1>1, EnteringTyped DEF TypeInv, States
<1>3. /\ msg \in Retried /\ msg.type = "wireDisconnect" /\ msg.id = wire[w].selfId
      /\ attempts[w] # 0
    BY <1>1, DisconnectTyped DEF Disconnect
<1>4. Start(w, r, msg, {}) /\ UNCHANGED <<attempts, portSerial, sent>>
    BY <1>1 DEF Disconnect
<1> QED
    BY <1>2, <1>3, <1>4, StartRests DEF TypeInv

(* The wire stops listening, and nothing else.                             *)
LEMMA StopsListening ==
    ASSUME TypeInv, NEW w \in Wires, Made(w),
           Update(w, [wire[w] EXCEPT !.listening = FALSE]),
           UNCHANGED <<jobs, network, attempts, portSerial, sent>>
    PROVE  Acting
<1>1. PICK r : r = [wire[w] EXCEPT !.listening = FALSE]
    OBVIOUS
<1>2. /\ r \in WireRecords /\ r.connectionState = wire[w].connectionState
      /\ r.netAddr = wire[w].netAddr /\ r.selfId = wire[w].selfId
    BY <1>1 DEF TypeInv, WireRecords
<1>3. Arriving' = Arriving
    BY DEF Arriving
<1>4. Moves(w, r, FALSE, {})
    BY <1>1, <1>3, PortStays DEF Moves, TypeInv, Update
<1>5. PICK new \in SUBSET Datagrams : new = {}
    OBVIOUS
<1>6. Moves(w, r, FALSE, new)
    BY <1>4, <1>5
<1> QED
    BY <1>2, <1>5, <1>6, Rests

LEMMA FreeActs ==
    ASSUME TypeInv, NEW w \in Wires, Made(w), Free(w)
    PROVE  Acting
<1>1. CASE wire[w].connectionState = "connected"
    <2>1. PICK r1, msg : r1 = Entering(wire[w], "disconnectRequested") /\ msg = DisconnectMsg(wire[w])
        OBVIOUS
    <2>2. /\ r1 \in WireRecords /\ r1.connectionState = "disconnectRequested"
          /\ r1.netAddr = wire[w].netAddr /\ r1.selfId = wire[w].selfId
        BY <2>1, EnteringTyped DEF TypeInv, States
    <2>3. PICK r : r = [r1 EXCEPT !.listening = FALSE]
        OBVIOUS
    <2>4. /\ r \in WireRecords /\ r.connectionState = "disconnectRequested"
          /\ r.netAddr = wire[w].netAddr /\ r.selfId = wire[w].selfId
        BY <2>2, <2>3 DEF WireRecords
    <2>5. /\ msg \in Retried /\ msg.type = "wireDisconnect" /\ msg.id = wire[w].selfId
          /\ attempts[w] # 0
        BY <1>1, <2>1, DisconnectTyped
    <2>6. Start(w, r, msg, {}) /\ UNCHANGED <<attempts, portSerial, sent>>
        BY <1>1, <2>1, <2>3 DEF Free
    <2> QED
        BY <2>4, <2>5, <2>6, StartRests DEF TypeInv
<1>2. CASE wire[w].connectionState # "connected"
    <2>1. /\ Update(w, [wire[w] EXCEPT !.listening = FALSE])
          /\ UNCHANGED <<jobs, network, attempts, portSerial, sent>>
        BY <1>2 DEF Free
    <2> QED
        BY <2>1, StopsListening
<1> QED
    BY <1>1, <1>2

LEMMA DropLineActs ==
    ASSUME TypeInv, NEW w \in Wires, Made(w), DropLine(w)
    PROVE  Acting
BY StopsListening DEF DropLine

LEMMA TickActs ==
    ASSUME TypeInv, NEW w \in Wires, Tick(w)
    PROVE  Acting
<1> DEFINE job == Head(jobs[w])
           others == Tail(jobs[w])
<1>1. /\ jobs[w] # <<>>
      /\ Resend(w, job, others) \/ Finish(w, job, others) \/ GiveUp(w, job, others)
    BY DEF Tick
<1>2. /\ jobs' \in [Wires -> Seq(Jobs)]
      /\ \A v \in Wires \ {w} : jobs'[v] = jobs[v]
      /\ network' \subseteq Datagrams
      /\ Arriving' \subseteq Arriving
    <2>1. \/ /\ jobs' = [jobs EXCEPT ![w] = Tail(jobs[w])]
             /\ UNCHANGED network
          \/ /\ jobs' = [jobs EXCEPT ![w] =
                    Append(Tail(jobs[w]), [Head(jobs[w]) EXCEPT !.retries = @ + 1])]
             /\ Exchange({}, {Head(jobs[w]).msg})
        BY <1>1, Zenon DEF Resend, Finish, GiveUp
    <2> QED
        BY <1>1, <2>1, TickArrives DEF TypeInv
<1>3. /\ UNCHANGED <<attempts, portSerial, sent>>
      /\ UNCHANGED wire \/ Update(w, Entering(wire[w], "failureTimeout"))
    BY <1>1, Zenon DEF Resend, Finish, GiveUp
<1>4. PICK r \in WireRecords :
          /\ wire' = [wire EXCEPT ![w] = r]
          /\ r.netAddr = wire[w].netAddr /\ r.selfId = wire[w].selfId
          /\ r.connectionState \in {wire[w].connectionState, "failureTimeout"}
    <2>1. wire[w] \in WireRecords
        BY DEF TypeInv
    <2>2. CASE UNCHANGED wire
        <3>1. wire' = [wire EXCEPT ![w] = wire[w]]
            BY <2>2 DEF TypeInv
        <3> QED
            BY <2>1, <3>1
    <2>3. CASE Update(w, Entering(wire[w], "failureTimeout"))
        <3>1. PICK r : r = Entering(wire[w], "failureTimeout")
            OBVIOUS
        <3>2. /\ r \in WireRecords /\ r.connectionState = "failureTimeout"
              /\ r.netAddr = wire[w].netAddr /\ r.selfId = wire[w].selfId
            BY <2>1, <3>1, EnteringTyped DEF States
        <3> QED
            BY <2>3, <3>1, <3>2 DEF Update
    <2> QED
        BY <1>3, <2>2, <2>3
<1>5. PICK new \in SUBSET Datagrams : new = {}
    OBVIOUS
<1>6. Moves(w, r, FALSE, new)
    BY <1>2, <1>3, <1>4, <1>5, PortStays DEF Moves, TypeInv
<1>7. attempts[w] # 0 /\ Made(w)
    BY <1>1, HasBegun
<1> QED
    BY <1>4, <1>5, <1>6, <1>7, Rests

(* There is a last message that can be delivered.                          *)
LEMMA LastInOrderTyped ==
    ASSUME NEW buffer, NEW serial \in Nat
    PROVE  LastInOrder(buffer, serial) \in Nat
<1> DEFINE end == serial + BufferSize
           stops == {last \in serial .. end : last = end \/ buffer[Slot(last + 1)] = Nil}
<1>1. BufferSize \in Nat \ {0}
    BY SizesAssumption
<1>2. end \in Nat /\ end \in stops /\ stops \in SUBSET Nat
    BY <1>1, SMT
<1>3. PICK first \in stops : \A y \in stops : first <= y
    <2>1. stops # {}
        BY <1>2
    <2> HIDE DEF stops
    <2> QED
        BY <1>2, <2>1, LeastNumber
<1>4. first \in serial .. end /\ first \in Nat
    BY <1>2, <1>3
<1>5. ASSUME NEW s \in serial + 1 .. first, buffer[Slot(s)] = Nil PROVE FALSE
    <2>1. s - 1 \in serial .. end /\ s - 1 + 1 = s /\ ~ (first <= s - 1)
        BY <1>2, <1>4, <1>5, SMT
    <2>2. s - 1 \in stops
        BY <2>1, <1>5
    <2> QED
        BY <2>1, <2>2, <1>3
<1>6. \E last \in serial .. serial + BufferSize :
          /\ \A s \in serial + 1 .. last : buffer[Slot(s)] # Nil
          /\ last = serial + BufferSize \/ buffer[Slot(last + 1)] = Nil
    BY <1>3, <1>4, <1>5
<1>7. LastInOrder(buffer, serial) \in serial .. serial + BufferSize
    BY <1>6 DEF LastInOrder
<1> QED
    BY <1>1, <1>7, SMT

LEMMA OnSendActs ==
    ASSUME TypeInv, NEW w \in Wires, NEW d, OnSend(w, d)
    PROVE  Acting
<1>1. d \in network /\ d.type = "wireSend" /\ Addressed(w, d, "wireSend")
    BY DEF OnSend, Addressed, Heard
<1>2. attempts[w] # 0 /\ Made(w) /\ wire[w].netAddr \in Wires /\ d \in Datagrams
    BY <1>1, AddressedBegun
<1>3. d.serial \in Nat /\ d.body \in Bodies
    BY <1>1, <1>2, SerialTyped
<1>4. PICK r0 \in WireRecords : r0 = wire[w]
    BY DEF TypeInv
<1>5. PICK r \in WireRecords :
          /\ Update(w, r)
          /\ r.netAddr = wire[w].netAddr /\ r.selfId = wire[w].selfId
          /\ r.connectionState = wire[w].connectionState
    <2>1. CASE UNCHANGED wire
        <3>1. Update(w, r0)
            BY <2>1, <1>4 DEF Update, TypeInv
        <3> QED
            BY <3>1, <1>4
    <2>2. CASE Update(w, [r0 EXCEPT !.receiveBuffer[Slot(d.serial)] = d.body])
        <3>1. PICK slot, b : slot = Slot(d.serial) /\ b = [r0.receiveBuffer EXCEPT ![slot] = d.body]
            OBVIOUS
        <3>2. b \in Buffers
            BY <3>1, <1>3 DEF WireRecords, Buffers
        <3>3. PICK r : r = [r0 EXCEPT !.receiveBuffer = b]
            OBVIOUS
        <3>4. /\ r \in WireRecords /\ r.netAddr = r0.netAddr /\ r.selfId = r0.selfId
              /\ r.connectionState = r0.connectionState
            BY <3>2, <3>3 DEF WireRecords
        <3> QED
            BY <2>2, <3>1, <3>3, <3>4, <1>4
    <2>3. CASE LET last == LastInOrder(r0.receiveBuffer, d.serial) IN
               Update(w, [r0 EXCEPT
                   !.receiveSerial = last,
                   !.receiveBuffer = [i \in DOMAIN @ |->
                       IF \E s \in d.serial + 1 .. last : i = Slot(s) THEN Nil ELSE @[i]]])
        <3>1. PICK last \in Nat : last = LastInOrder(r0.receiveBuffer, d.serial)
            BY <1>3, LastInOrderTyped
        <3>2. PICK b : b = [i \in DOMAIN r0.receiveBuffer |->
                  IF \E s \in d.serial + 1 .. last : i = Slot(s) THEN Nil
                  ELSE r0.receiveBuffer[i]]
            OBVIOUS
        <3>3. b \in Buffers
            BY <3>2 DEF WireRecords, Buffers
        <3>4. PICK r : r = [r0 EXCEPT !.receiveSerial = last, !.receiveBuffer = b]
            OBVIOUS
        <3>5. /\ r \in WireRecords /\ r.netAddr = r0.netAddr /\ r.selfId = r0.selfId
              /\ r.connectionState = r0.connectionState
            BY <3>1, <3>3, <3>4 DEF WireRecords
        <3>6. Update(w, r)
            BY <2>3, <3>1, <3>2, <3>4 DEF Update
        <3> QED
            BY <3>5, <3>6, <1>4
    <2> QED
        BY <2>1, <2>2, <2>3, <1>4, Zenon DEF OnSend
<1>6. PICK msg : msg = AckMsg(wire[w], d.serial)
    OBVIOUS
<1>7. msg \in Acks /\ msg.type = "wireAck" /\ msg.id = wire[w].selfId
    BY <1>2, <1>3, <1>4, <1>6 DEF AckMsg, Acks, WireRecords
<1>8. PICK new \in SUBSET Datagrams : new = {msg}
    BY <1>7 DEF Datagrams
<1>9. UNCHANGED <<jobs, attempts, portSerial, sent>> /\ Exchange({d}, new)
    BY <1>6, <1>8 DEF OnSend
<1> QED
    BY <1>2, <1>5, <1>7, <1>8, <1>9, ExchangeRests

LEMMA OnAckActs ==
    ASSUME TypeInv, NEW w \in Wires, NEW d, OnAck(w, d)
    PROVE  Acting
<1>1. d \in network /\ d.type = "wireAck" /\ Addressed(w, d, "wireAck")
    BY DEF OnAck, Addressed, Heard
<1>2. attempts[w] # 0 /\ Made(w) /\ wire[w].netAddr \in Wires /\ d \in Datagrams
    BY <1>1, AddressedBegun
<1>3. d.serial \in Nat
    BY <1>1, <1>2, SerialTyped
<1>4. PICK r0 \in WireRecords : r0 = wire[w]
    BY DEF TypeInv
<1>5. PICK r1 : r1 = [r0 EXCEPT !.sendAckSerial = d.serial]
    OBVIOUS
<1>6. /\ r1 \in WireRecords /\ r1.netAddr = r0.netAddr /\ r1.selfId = r0.selfId
      /\ r1.connectionState = r0.connectionState
    BY <1>3, <1>5 DEF WireRecords
<1>7. PICK slot, b : slot = Slot(d.serial) /\ b = [r1.sendBuffer EXCEPT ![slot] = Nil]
    OBVIOUS
<1>8. b \in Buffers
    BY <1>6, <1>7 DEF WireRecords, Buffers
<1>9. PICK r : r = [r1 EXCEPT !.sendBuffer = b]
    OBVIOUS
<1>10. /\ r \in WireRecords /\ r.netAddr = r0.netAddr /\ r.selfId = r0.selfId
       /\ r.connectionState = r0.connectionState
    BY <1>6, <1>8, <1>9 DEF WireRecords
<1>11. Update(w, r)
    BY <1>4, <1>5, <1>7, <1>9, Zenon DEF OnAck
<1>12. PICK new \in SUBSET Datagrams : new = {}
    OBVIOUS
<1>13. UNCHANGED <<jobs, attempts, portSerial, sent>> /\ Exchange({d}, new)
    BY <1>12 DEF OnAck
<1> QED
    BY <1>2, <1>4, <1>10, <1>11, <1>12, <1>13, ExchangeRests

LEMMA OnDisconnectActs ==
    ASSUME TypeInv, NEW w \in Wires, NEW d,
           OnDisconnect(w, d) \/ OnDisconnectConfirm(w, d)
    PROVE  Acting
<1>1. Addressed(w, d, "wireDisconnect") \/ Addressed(w, d, "wireDisconnectConfirm")
    BY DEF OnDisconnect, OnDisconnectConfirm
<1>2. attempts[w] # 0 /\ Made(w) /\ wire[w].netAddr \in Wires
    BY <1>1, AddressedBegun
<1>3. PICK r, msg : r = Entering(wire[w], "disconnected") /\ msg = DisconnectConfirmMsg(wire[w])
    OBVIOUS
<1>4. /\ r \in WireRecords /\ r.connectionState = "disconnected"
      /\ r.netAddr = wire[w].netAddr /\ r.selfId = wire[w].selfId
    BY <1>3, EnteringTyped DEF TypeInv, States
<1>5. /\ msg \in DisconnectConfirms /\ msg.type = "wireDisconnectConfirm"
      /\ msg.id = wire[w].selfId
    BY <1>2, <1>3 DEF DisconnectConfirmMsg, DisconnectConfirms, TypeInv, WireRecords
<1>6. /\ UNCHANGED <<jobs, attempts, portSerial, sent>> /\ Update(w, r)
      /\ Exchange({d}, {msg}) \/ Exchange({d}, {})
    BY <1>3 DEF OnDisconnect, OnDisconnectConfirm
<1>7. {msg} \in SUBSET Datagrams /\ {} \in SUBSET Datagrams
    BY <1>5 DEF Datagrams
<1>8. PICK new \in SUBSET Datagrams : Exchange({d}, new) /\ new \subseteq {msg}
    BY <1>6, <1>7
<1> QED
    BY <1>2, <1>4, <1>5, <1>6, <1>8, ExchangeRests

----------------------------------------------------------------------------
(* The invariant.                                                          *)

LEMMA NextActs ==
    ASSUME TypeInv, Next
    PROVE  Acting
<1>1. ASSUME NEW w \in Wires, Made(w), Application(w) PROVE Acting
    BY <1>1, KnockActs, ConnectActs, SendMsgActs, DisconnectActs, FreeActs, DropLineActs
       DEF Application
<1>2. ASSUME NEW w \in Wires, Tick(w) PROVE Acting
    BY <1>2, TickActs
<1>3. ASSUME NEW d \in network, OnKnock(d) PROVE Acting
    BY <1>3, OnKnockActs
<1>4. ASSUME NEW d \in network, NEW w \in Wires, Handler(w, d) PROVE Acting
    BY <1>4, OnConnectRequestActs, OnConnectAcceptActs, OnConnectConfirmActs, OnSendActs,
       OnAckActs, OnDisconnectActs DEF Handler
<1> QED
    BY <1>1, <1>2, <1>3, <1>4 DEF Next

LEMMA InitIInv == Init => IInv
<1> SUFFICES ASSUME Init PROVE IInv
    OBVIOUS
<1>1. ServerWires \in Seq(Range(ServerWires)) /\ Len(ServerWires) \in Nat
    BY WiresAssumption, LenProperties
<1>2. jobs \in [Wires -> Seq(Jobs)] /\ \A w \in Wires : jobs[w] = <<>>
    BY EmptySeq DEF Init
<1>3. Arriving = {}
    <2>1. \A w \in Wires : 1 .. Len(jobs[w]) = {}
        BY <1>2, EmptySeq, SMT
    <2> QED
        BY <2>1 DEF Arriving, Init
<1>4. \A w \in Wires : /\ wire[w] = [NewWire EXCEPT !.listening = w \in Clients]
                       /\ wire[w] \in WireRecords
                       /\ wire[w].connectionState = "neverConnected"
                       /\ wire[w].netAddr = Nil /\ wire[w].selfId = Nil
                       /\ wire[w].listening <=> w \in Clients
    <2> SUFFICES ASSUME NEW w \in Wires
                 PROVE  /\ wire[w] = [NewWire EXCEPT !.listening = w \in Clients]
                        /\ wire[w] \in WireRecords
                        /\ wire[w].connectionState = "neverConnected"
                        /\ wire[w].netAddr = Nil /\ wire[w].selfId = Nil
                        /\ wire[w].listening <=> w \in Clients
        OBVIOUS
    <2>1. wire[w] = [NewWire EXCEPT !.listening = w \in Clients]
        BY DEF Init
    <2>2. PICK listens \in BOOLEAN : listens <=> w \in Clients
        OBVIOUS
    <2>3. listens = (w \in Clients)
        BY <2>2
    <2>4. wire[w] = [NewWire EXCEPT !.listening = listens]
        BY <2>1, <2>3
    <2>5. NewWire \in WireRecords
        BY NewWireTyped
    <2>6. /\ [NewWire EXCEPT !.listening = listens] \in WireRecords
          /\ [NewWire EXCEPT !.listening = listens].connectionState = NewWire.connectionState
          /\ [NewWire EXCEPT !.listening = listens].netAddr = NewWire.netAddr
          /\ [NewWire EXCEPT !.listening = listens].selfId = NewWire.selfId
          /\ [NewWire EXCEPT !.listening = listens].listening = listens
        BY <2>5 DEF WireRecords
    <2>7. /\ NewWire.connectionState = "neverConnected"
          /\ NewWire.netAddr = Nil /\ NewWire.selfId = Nil
        BY DEF NewWire
    <2> QED
        BY <2>1, <2>2, <2>4, <2>6, <2>7
<1>5. wire \in [Wires -> WireRecords]
    <2>1. wire = [w \in Wires |-> wire[w]]
        BY DEF Init
    <2> QED
        BY <2>1, <1>4
<1>6. \A w \in Wires : ~ Made(w) => ~ wire[w].listening
    BY <1>4 DEF Made
<1>7. TypeInv
    BY <1>1, <1>2, <1>3, <1>4, <1>5, <1>6 DEF Init, TypeInv, Fresh, Known
<1>8. Handshakes
    BY <1>3, <1>4 DEF Handshakes
<1> QED
    BY <1>7, <1>8 DEF IInv

LEMMA StutterIInv ==
    ASSUME IInv, UNCHANGED vars
    PROVE  IInv'
<1>1. /\ wire' = wire /\ jobs' = jobs /\ portSerial' = portSerial /\ network' = network
      /\ attempts' = attempts /\ sent' = sent
    BY DEF vars
<1>2. TypeInv'
    BY <1>1 DEF IInv, TypeInv, Fresh, Known, Made, Arriving, Names
<1>3. Single' = Single /\ (Handshakes => Handshakes')
    BY <1>1 DEF Single, Handshakes, Pledge, TookPart, Arriving, Honest
<1> QED
    BY <1>2, <1>3 DEF IInv

LEMMA NextIInv == IInv /\ [Next]_vars => IInv'
<1> SUFFICES ASSUME IInv, [Next]_vars PROVE IInv'
    OBVIOUS
<1>1. CASE Next
    <2>1. PICK w \in Wires, r \in WireRecords, begun \in BOOLEAN, new \in SUBSET Datagrams :
              Acts(w, r, begun, new)
        BY <1>1, NextActs DEF IInv, Acting
    <2>2. TypeInv'
        BY <2>1, MovesTyped DEF Acts, IInv
    <2>3. ASSUME Single' PROVE Handshakes'
        <3>1. Handshakes
            BY <2>1, <2>3, SingleBefore DEF Acts, IInv
        <3> QED
            BY <2>1, <2>3, <3>1, MovesAgree DEF Acts, IInv
    <2> QED
        BY <2>2, <2>3 DEF IInv
<1>2. CASE UNCHANGED vars
    BY <1>2, StutterIInv
<1> QED
    BY <1>1, <1>2

LEMMA Invariance == Spec => []IInv
BY InitIInv, NextIInv, PTL DEF Spec

(* The network delivers as many datagrams again as it may.                 *)
LEMMA CopiesBounded == Spec => [](copies \in 0 .. MaxCopies)
<1>1. Init => copies \in 0 .. MaxCopies
    BY CopiesAssumption DEF Init
<1>2. copies \in 0 .. MaxCopies /\ [Next]_vars => (copies \in 0 .. MaxCopies)'
    <2> SUFFICES ASSUME copies \in 0 .. MaxCopies, [Next]_vars
                 PROVE  copies' \in 0 .. MaxCopies
        OBVIOUS
    <2>1. ASSUME NEW taken, NEW msgs, Exchange(taken, msgs)
          PROVE  copies' \in 0 .. MaxCopies
        BY <2>1, CopiesAssumption DEF Exchange
    <2>2. UNCHANGED copies \/ \E taken, msgs : Exchange(taken, msgs)
        <3>1. ASSUME NEW w, Application(w)
              PROVE  UNCHANGED copies \/ \E taken, msgs : Exchange(taken, msgs)
            BY <3>1, Zenon
               DEF Application, Knock, Connect, SendMsg, Disconnect, Free, DropLine,
                   Connecting, Start
        <3>2. ASSUME NEW w, Tick(w)
              PROVE  UNCHANGED copies \/ \E taken, msgs : Exchange(taken, msgs)
            BY <3>2, Zenon DEF Tick, Resend, Finish, GiveUp
        <3>3. ASSUME NEW w, NEW d, Handler(w, d)
              PROVE  UNCHANGED copies \/ \E taken, msgs : Exchange(taken, msgs)
            BY <3>3, Zenon
               DEF Handler, OnConnectRequest, OnConnectAccept, OnConnectConfirm, OnSend,
                   OnAck, OnDisconnect, OnDisconnectConfirm, Start
        <3>4. ASSUME NEW d, OnKnock(d)
              PROVE  UNCHANGED copies \/ \E taken, msgs : Exchange(taken, msgs)
            BY <3>4, Zenon DEF OnKnock, Connecting, Start
        <3>5. CASE UNCHANGED vars
            BY <3>5 DEF vars
        <3> QED
            BY <3>1, <3>2, <3>3, <3>4, <3>5, Zenon DEF Next
    <2> QED
        BY <2>1, <2>2
<1> QED
    BY <1>1, <1>2, PTL DEF Spec

(* The variables of every wire have their types, the state of a wire is    *)
(* one of those of prChangeConnectionState, and no datagram is sent to nil *)
(* (SCLOrkWire.sc:10-38): a wire that answers has an address to answer to. *)
THEOREM TypeCorrect == Spec => []TypeOK
<1>1. IInv /\ copies \in 0 .. MaxCopies => TypeOK
    <2> SUFFICES ASSUME TypeInv, copies \in 0 .. MaxCopies PROVE TypeOK
        BY DEF IInv
    <2>1. \A d \in Datagrams : d.to \in Wires \cup {"bindPort"}
        BY DEF Datagrams, Retried, Knocks, Requests, Accepts, Confirms, Sends, Acks,
               Disconnects, DisconnectConfirms
    <2>2. \A w \in Wires : wire[w] \in WireRecords
        BY DEF TypeInv
    <2> QED
        BY <2>1, <2>2 DEF TypeInv, TypeOK, WireRecords, Ends
<1> QED
    BY <1>1, Invariance, CopiesBounded, PTL

(* Whatever is lost, late or repeated: of wires that have begun to connect *)
(* once, one is connected only to a wire that has taken its part in the    *)
(* same handshake (SCLOrkWire.sc:261-324).                                 *)
THEOREM HandshakesAgree == Spec => []PeerTookPart
<1>1. IInv => PeerTookPart
    BY DEF IInv, PeerTookPart, Single, Handshakes, Pledge, TookPart
<1> QED
    BY <1>1, Invariance, PTL
=============================================================================
