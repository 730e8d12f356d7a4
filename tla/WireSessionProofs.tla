------------------------- MODULE WireSessionProofs -------------------------
(***************************************************************************)
(* Proofs about modules WireSession and WireOnLAN, for every size of the   *)
(* buffers, number of retries, number of messages and set of bodies.  The  *)
(* hypothesis on the application is WindowFits: it keeps no more messages  *)
(* unacknowledged than the buffers have slots.  The code does not enforce  *)
(* it ("completely possible to clobber old data", SCLOrkWire.sc:177).      *)
(***************************************************************************)
EXTENDS WireOnLAN, NumberLemmas, TLAPS

WindowFits == Window <= BufferSize

----------------------------------------------------------------------------
(* Two serials that share a slot are at least BufferSize apart.            *)

LEMMA SlotType ==
    ASSUME NEW s \in Nat
    PROVE  Slot(s) \in Slots
BY DivMod, BufferAssumption DEF Slot, Slots

LEMMA SlotsApart ==
    ASSUME NEW s \in Nat, NEW t \in Nat, Slot(s) = Slot(t), s < t
    PROVE  t >= s + BufferSize
BY ResiduesApart, BufferAssumption DEF Slot

(* A slot comes round again after BufferSize serials.                      *)
LEMMA SlotPeriod ==
    ASSUME NEW s \in Nat
    PROVE  Slot(s + BufferSize) = Slot(s)
BY ResiduePeriod, BufferAssumption DEF Slot

----------------------------------------------------------------------------
(* The inductive invariant, one lemma for each action that disturbs it.    *)

LEMMA InitIInv == Init => IInv
<1> SUFFICES ASSUME Init PROVE IInv
    OBVIOUS
<1> USE DEF Init
<1>1. \A s \in Nat : Slot(s) \in Slots
    BY SlotType
<1>2. TypeOK
    BY DEF TypeOK
<1>3. BufferHoldsTheFuture
    BY <1>1, BufferAssumption DEF BufferHoldsTheFuture
<1>4. DataIsGenuine /\ DeliveredInOrder /\ AckedWasDelivered
    BY DEF DataIsGenuine, DeliveredInOrder, AckedWasDelivered
<1> QED
    BY <1>2, <1>3, <1>4, BoundsAssumption DEF IInv

LEMMA SendMsgIInv ==
    ASSUME IInv, NEW b \in Bodies, SendMsg(b)
    PROVE  IInv'
<1> USE DEF SendMsg, receiverVars, IInv
<1> DEFINE serial == sendSerial + 1
<1>1. serial \in Nat /\ Slot(serial) \in Slots
    BY SlotType DEF TypeOK
<1>2. TypeOK'
    BY <1>1, RetriesAssumption DEF TypeOK, Packets, Packet
<1>3. /\ (Len(sent) = sendSerial)'
      /\ (Len(retries) = sendSerial)'
      /\ (sendSerial <= sendAckSerial + Window)'
      /\ \A i \in 1 .. sendSerial : sent'[i] = sent[i]
      /\ sent'[serial] = b
    BY BoundsAssumption DEF TypeOK
<1>4. DataIsGenuine'
    BY <1>3 DEF DataIsGenuine, TypeOK, Packet
<1>5. DeliveredInOrder'
    BY <1>3 DEF DeliveredInOrder, TypeOK
<1>6. BufferHoldsTheFuture'
    <2>1. ASSUME NEW s \in receiveSerial + 1 .. receiveSerial + BufferSize,
                 receiveBuffer[Slot(s)] # Nil
          PROVE  s <= sendSerial' /\ receiveBuffer[Slot(s)] = sent'[s]
        <3>1. s <= sendSerial /\ receiveBuffer[Slot(s)] = sent[s]
            BY <2>1 DEF BufferHoldsTheFuture
        <3>2. s \in 1 .. sendSerial
            BY <3>1, BufferAssumption DEF TypeOK
        <3> QED
            BY <3>1, <3>2, <1>3 DEF TypeOK
    <2> QED
        BY <2>1 DEF BufferHoldsTheFuture, Slot
<1>7. AckedWasDelivered'
    BY DEF AckedWasDelivered, Received, TypeOK, Slot
<1> QED
    BY <1>2, <1>3, <1>4, <1>5, <1>6, <1>7

LEMMA TickIInv ==
    ASSUME IInv, NEW s \in 1 .. sendSerial, Tick(s)
    PROVE  IInv'
<1> USE DEF IInv
<1>1. /\ UNCHANGED <<sendSerial, sendAckSerial, sendBuffer, acks, sent>>
      /\ UNCHANGED receiverVars
    BY DEF Tick, Resend, Finish, GiveUp
<1>2. /\ retries' \in Seq(0 .. MaxRetries)
      /\ Len(retries') = Len(retries)
    <2>1. CASE Resend(s)
        BY <2>1, RetriesAssumption DEF Resend, RetriesLeft, TypeOK
    <2>2. CASE Finish(s) \/ GiveUp(s)
        BY <2>2 DEF Finish, GiveUp, TypeOK
    <2> QED
        BY <2>1, <2>2 DEF Tick
<1>3. \A p \in data' : p \in data \/ p = Packet(s, sent[s])
    BY DEF Tick, Resend, Finish, GiveUp
<1>4. sent[s] \in Bodies /\ s \in Nat
    BY DEF TypeOK
<1>5. data' \subseteq Packets
    BY <1>3, <1>4 DEF TypeOK, Packets, Packet
<1>6. /\ connectionState' \in {"connected", "failureTimeout"}
      /\ scheduled' \subseteq 1 .. sendSerial
      /\ armed' \subseteq scheduled'
    BY DEF Tick, Resend, Finish, GiveUp, TypeOK
<1>7. TypeOK'
    BY <1>1, <1>2, <1>5, <1>6 DEF TypeOK, receiverVars
<1>8. DataIsGenuine'
    BY <1>1, <1>3 DEF DataIsGenuine, Packet
<1>9. DeliveredInOrder' /\ BufferHoldsTheFuture' /\ AckedWasDelivered'
    BY <1>1 DEF DeliveredInOrder, BufferHoldsTheFuture, AckedWasDelivered,
                Received, receiverVars, Slot
<1> QED
    BY <1>1, <1>2, <1>7, <1>8, <1>9

LEMMA ReceiveAckIInv ==
    ASSUME IInv, NEW a \in acks, ReceiveAck(a)
    PROVE  IInv'
<1> USE DEF IInv
<1>1. /\ UNCHANGED <<connectionState, sendSerial, retries, scheduled>>
      /\ UNCHANGED <<data, sent, receiveSerial, receiveBuffer, delivered>>
      /\ acks' \subseteq acks
    BY DEF ReceiveAck, receiverVars, Taken
<1>2. a \in Nat /\ Slot(a) \in Slots
    BY SlotType DEF TypeOK
<1>3. /\ sendAckSerial' \in Nat
      /\ sendAckSerial <= sendAckSerial'
      /\ sendBuffer' \in [Slots -> Nat \cup {Nil}]
      /\ armed' \subseteq armed
    BY <1>2 DEF ReceiveAck, TypeOK
<1>4. TypeOK'
    BY <1>1, <1>3 DEF TypeOK
<1>5. (sendSerial <= sendAckSerial + Window)'
    <2>1. /\ sendSerial \in Nat /\ sendAckSerial \in Nat /\ Window \in Nat
          /\ sendSerial <= sendAckSerial + Window
        BY BoundsAssumption DEF TypeOK
    <2>2. CASE a = sendAckSerial + 1
        BY <1>1, <2>1, <2>2 DEF ReceiveAck
    <2>3. CASE a # sendAckSerial + 1
        BY <1>1, <2>1, <2>3 DEF ReceiveAck
    <2> QED
        BY <2>2, <2>3
<1>6. DataIsGenuine' /\ DeliveredInOrder' /\ BufferHoldsTheFuture'
    BY <1>1 DEF DataIsGenuine, DeliveredInOrder, BufferHoldsTheFuture, Slot
<1>7. (sendAckSerial <= receiveSerial)'
    <2>1. CASE a = sendAckSerial + 1
        <3>1. Received(a)
            BY DEF AckedWasDelivered
        <3>2. a <= receiveSerial + 1
            BY <2>1, <1>2 DEF AckedWasDelivered, TypeOK
        <3>3. a # receiveSerial + 1
            BY <3>1, <1>2 DEF Received, BufferHoldsTheFuture, TypeOK
        <3>4. sendAckSerial' = a
            BY <2>1 DEF ReceiveAck
        <3> QED
            BY <3>2, <3>3, <3>4, <1>1, <1>2 DEF TypeOK
    <2>2. CASE a # sendAckSerial + 1
        BY <2>2, <1>1 DEF ReceiveAck, AckedWasDelivered
    <2> QED
        BY <2>1, <2>2
<1>8. AckedWasDelivered'
    BY <1>1, <1>7 DEF AckedWasDelivered, Received, Slot
<1> QED
    BY <1>1, <1>4, <1>5, <1>6, <1>8

LEMMA BufferEarlyIInv ==
    ASSUME WindowFits, IInv, NEW p \in data, ReceiveSend(p), BufferEarly(p)
    PROVE  BufferHoldsTheFuture' /\ \A a \in acks' : Received(a)'
<1> DEFINE r == receiveSerial
           N == BufferSize
<1>1. /\ r \in Nat /\ N \in Nat \ {0} /\ sendSerial \in Nat
      /\ p.serial \in Nat /\ p.body \in Bodies
      /\ receiveBuffer \in [Slots -> Bodies \cup {Nil}]
      /\ acks \subseteq 1 .. sendSerial
    BY BufferAssumption DEF IInv, TypeOK, Packets
<1>2. /\ p.serial > r + 1 /\ p.serial <= r + N
      /\ p.serial <= sendSerial /\ p.body = sent[p.serial]
    <2>1. /\ p.serial > r + 1
          /\ p.serial <= sendSerial /\ p.body = sent[p.serial]
        BY <1>1 DEF BufferEarly, IInv, DataIsGenuine
    <2>2. sendSerial <= sendAckSerial + Window /\ sendAckSerial <= r
        BY DEF IInv, AckedWasDelivered
    <2>3. sendAckSerial \in Nat /\ Window \in Nat /\ Window <= N
        BY BoundsAssumption DEF IInv, TypeOK, WindowFits
    <2> QED
        BY <1>1, <2>1, <2>2, <2>3
<1>3. /\ receiveSerial' = r
      /\ UNCHANGED <<sent, sendSerial>>
      /\ acks' = acks \cup {p.serial}
    BY DEF ReceiveSend, BufferEarly, senderVars
<1>4. /\ Slot(p.serial) \in Slots
      /\ receiveBuffer' = [receiveBuffer EXCEPT ![Slot(p.serial)] = p.body]
    BY <1>1, SlotType DEF BufferEarly
<1>5. \A s \in r + 1 .. r + N :
         Slot(s) \in Slots /\ (Slot(s) = Slot(p.serial) => s = p.serial)
    <2>1. TAKE s \in r + 1 .. r + N
    <2>2. s \in Nat
        BY <1>1
    <2>3. CASE s < p.serial
        BY <1>1, <1>2, <2>2, <2>3, SlotsApart, SlotType
    <2>4. CASE p.serial < s
        BY <1>1, <1>2, <2>2, <2>4, SlotsApart, SlotType
    <2> QED
        BY <1>1, <2>2, <2>3, <2>4, SlotType
<1>6. receiveBuffer'[Slot(r + 1)] = Nil
    <2>1. r + 1 \in r + 1 .. r + N /\ r + 1 # p.serial
        BY <1>1, <1>2
    <2> QED
        BY <1>1, <1>4, <1>5, <2>1 DEF IInv, BufferHoldsTheFuture
<1>7. ASSUME NEW s \in r + 1 .. r + N, receiveBuffer'[Slot(s)] # Nil
      PROVE  s <= sendSerial /\ receiveBuffer'[Slot(s)] = sent[s]
    <2>1. CASE s = p.serial
        BY <1>1, <1>2, <1>4, <2>1
    <2>2. CASE s # p.serial
        <3>1. receiveBuffer'[Slot(s)] = receiveBuffer[Slot(s)]
            BY <1>1, <1>4, <1>5, <2>2
        <3> QED
            BY <1>7, <3>1 DEF IInv, BufferHoldsTheFuture
    <2> QED
        BY <2>1, <2>2
<1>8. BufferHoldsTheFuture'
    BY <1>3, <1>6, <1>7 DEF BufferHoldsTheFuture, Slot
<1>9. ASSUME NEW a \in acks'
      PROVE  a <= r \/ receiveBuffer'[Slot(a)] # Nil
    <2>1. CASE Slot(a) = Slot(p.serial)
        BY <1>1, <1>4, <2>1, NilAssumption
    <2>2. CASE Slot(a) # Slot(p.serial)
        <3>1. a \in acks /\ Slot(a) \in Slots
            BY <1>1, <1>3, <2>2, SlotType
        <3> QED
            BY <1>1, <1>4, <2>2, <3>1 DEF IInv, AckedWasDelivered, Received
    <2> QED
        BY <2>1, <2>2
<1> QED
    BY <1>3, <1>8, <1>9 DEF Received, Slot

LEMMA DeliverInOrderIInv ==
    ASSUME WindowFits, IInv, NEW p \in data, ReceiveSend(p), DeliverInOrder(p)
    PROVE  /\ receiveSerial < receiveSerial' /\ receiveSerial' \in Nat
           /\ receiveBuffer' \in [Slots -> Bodies \cup {Nil}]
           /\ delivered' \in Seq(Bodies)
           /\ DeliveredInOrder' /\ BufferHoldsTheFuture'
           /\ \A a \in acks' : Received(a)'
<1> DEFINE r == receiveSerial
           N == BufferSize
<1>1. /\ r \in Nat /\ N \in Nat \ {0} /\ sendSerial \in Nat
      /\ p.serial = r + 1 /\ p.body = sent[r + 1]
      /\ r + 1 <= sendSerial
      /\ receiveBuffer \in [Slots -> Bodies \cup {Nil}]
      /\ acks \subseteq 1 .. sendSerial
      /\ sent \in Seq(Bodies) /\ Len(sent) = sendSerial
      /\ delivered \in Seq(Bodies) /\ Len(delivered) = r
      /\ \A i \in 1 .. r : delivered[i] = sent[i]
    BY BufferAssumption
       DEF IInv, TypeOK, DeliverInOrder, IsNext, DataIsGenuine,
           DeliveredInOrder
<1>2. PICK last \in r + 1 .. r + 1 + N :
         /\ \A s \in r + 2 .. last : receiveBuffer[Slot(s)] # Nil
         /\ receiveBuffer' = Drained(r + 2, last)
         /\ receiveBuffer'[Slot(last + 1)] = Nil
         /\ receiveSerial' = last
         /\ delivered' =
               [i \in 1 .. r + 1 + last - (r + 1) |->
                   IF i <= r THEN delivered[i]
                   ELSE IF i = r + 1 THEN sent[r + 1]
                   ELSE receiveBuffer[Slot(r + 1 + i - (r + 1))]]
    BY <1>1 DEF DeliverInOrder
<1>3. /\ UNCHANGED <<sent, sendSerial>>
      /\ acks' = acks \cup {r + 1}
    BY <1>1 DEF ReceiveSend, senderVars
<1>4. last <= r + N
    <2>1. Slot(r + 1 + N) = Slot(r + 1)
        BY <1>1, SlotPeriod
    <2>2. receiveBuffer[Slot(r + 1)] = Nil
        BY DEF IInv, BufferHoldsTheFuture
    <2>3. last # r + 1 + N
        BY <1>1, <1>2, <2>1, <2>2
    <2> QED
        BY <1>1, <2>3
<1>5. \A s \in r + 2 .. last :
         s <= sendSerial /\ receiveBuffer[Slot(s)] = sent[s]
    <2>1. TAKE s \in r + 2 .. last
    <2>2. s \in r + 1 .. r + N
        BY <1>1, <1>4
    <2>3. receiveBuffer[Slot(s)] # Nil
        BY <1>2
    <2> QED
        BY <2>2, <2>3 DEF IInv, BufferHoldsTheFuture
<1>6. last \in Nat /\ last >= r + 1 /\ last <= sendSerial
    <2>1. last \in Nat /\ last >= r + 1
        BY <1>1
    <2>2. CASE last = r + 1
        BY <1>1, <2>1, <2>2
    <2>3. CASE last # r + 1
        <3>1. last \in r + 2 .. last
            BY <1>1, <2>1, <2>3
        <3> QED
            BY <1>5, <2>1, <3>1
    <2> QED
        BY <2>1, <2>2, <2>3
<1>7. /\ DOMAIN delivered' = 1 .. last
      /\ \A i \in 1 .. last : delivered'[i] = sent[i]
    <2>1. delivered' =
             [i \in 1 .. last |->
                 IF i <= r THEN delivered[i]
                 ELSE IF i = r + 1 THEN sent[r + 1]
                 ELSE receiveBuffer[Slot(i)]]
        BY <1>1, <1>2, <1>6
    <2> QED
        BY <1>1, <1>5, <1>6, <2>1
<1>8. delivered' \in Seq(Bodies) /\ Len(delivered') = last
    <2>1. \A i \in 1 .. last : sent[i] \in Bodies
        BY <1>1, <1>6
    <2>2. delivered' = [i \in 1 .. last |-> sent[i]]
        BY <1>2, <1>7
    <2> QED
        BY <1>6, <2>1, <2>2
<1>9. DeliveredInOrder'
    BY <1>2, <1>3, <1>6, <1>7, <1>8 DEF DeliveredInOrder
<1>10. receiveBuffer' \in [Slots -> Bodies \cup {Nil}]
    BY <1>1, <1>2 DEF Drained
<1>11. \A s \in Nat :
          receiveBuffer'[Slot(s)] =
             IF \E t \in r + 2 .. last : Slot(s) = Slot(t)
             THEN Nil ELSE receiveBuffer[Slot(s)]
    BY <1>2, SlotType DEF Drained
<1>12. ASSUME NEW s \in last + 1 .. last + N, receiveBuffer'[Slot(s)] # Nil
       PROVE  s <= sendSerial /\ receiveBuffer'[Slot(s)] = sent[s]
    <2>1. /\ s \in Nat
          /\ receiveBuffer'[Slot(s)] = receiveBuffer[Slot(s)]
          /\ \A t \in r + 2 .. last : Slot(s) # Slot(t)
        BY <1>1, <1>6, <1>11, <1>12
    <2>2. CASE s <= r + N
        BY <1>1, <1>6, <1>12, <2>1, <2>2 DEF IInv, BufferHoldsTheFuture
    <2>3. CASE s > r + N
        <3> DEFINE t == s - N
        <3>1. t \in Nat /\ t >= r + 1 /\ t <= last /\ t + N = s
            BY <1>1, <1>6, <2>3
        <3>2. Slot(s) = Slot(t)
            BY <3>1, SlotPeriod
        <3>3. t = r + 1
            BY <1>1, <1>6, <2>1, <3>1, <3>2
        <3> QED
            BY <1>12, <2>1, <3>2, <3>3 DEF IInv, BufferHoldsTheFuture
    <2> QED
        BY <1>1, <1>6, <2>2, <2>3
<1>13. BufferHoldsTheFuture'
    BY <1>2, <1>3, <1>12 DEF BufferHoldsTheFuture, Slot
<1>14. ASSUME NEW a \in acks'
       PROVE  a <= last \/ receiveBuffer'[Slot(a)] # Nil
    <2>1. CASE a <= last
        BY <2>1
    <2>2. CASE a > last
        <3>1. a \in acks /\ a \in Nat /\ a > r /\ a <= sendSerial
            BY <1>1, <1>3, <1>6, <2>2
        <3>2. receiveBuffer[Slot(a)] # Nil
            BY <1>1, <3>1 DEF IInv, AckedWasDelivered, Received
        <3>3. a <= r + N
            <4>1. sendSerial <= sendAckSerial + Window /\ sendAckSerial <= r
                BY DEF IInv, AckedWasDelivered
            <4>2. sendAckSerial \in Nat /\ Window \in Nat /\ Window <= N
                BY BoundsAssumption DEF IInv, TypeOK, WindowFits
            <4> QED
                BY <1>1, <3>1, <4>1, <4>2
        <3>4. \A t \in r + 2 .. last : Slot(a) # Slot(t)
            BY <1>1, <1>6, <2>2, <3>1, <3>3, SlotsApart
        <3> QED
            BY <1>11, <3>1, <3>2, <3>4
    <2>3. a \in acks \/ a = r + 1
        BY <1>3, <1>14
    <2>4. a \in Nat
        <3>1. r \in Nat /\ r + 1 \in Nat
            BY <1>1
        <3>2. CASE a = r + 1
            BY <3>1, <3>2
        <3>3. CASE a \in acks
            <4>1. acks \subseteq Nat
                BY DEF IInv, TypeOK
            <4> QED
                BY <3>3, <4>1
        <3> QED
            BY <2>3, <3>2, <3>3
    <2> QED
        BY <1>6, <2>1, <2>2, <2>4
<1> QED
    BY <1>1, <1>2, <1>6, <1>8, <1>9, <1>10, <1>13, <1>14 DEF Received, Slot

LEMMA ReceiveSendIInv ==
    ASSUME WindowFits, IInv, NEW p \in data, ReceiveSend(p)
    PROVE  IInv'
<1>1. /\ UNCHANGED senderVars /\ UNCHANGED sent
      /\ data' \subseteq data
      /\ acks' = acks \cup {p.serial}
    BY DEF ReceiveSend, Taken
<1>2. p.serial \in 1 .. sendSerial /\ p.body \in Bodies
    BY DEF IInv, DataIsGenuine, TypeOK, Packets
<1>3. /\ receiveSerial <= receiveSerial' /\ receiveSerial' \in Nat
      /\ receiveBuffer' \in [Slots -> Bodies \cup {Nil}]
      /\ delivered' \in Seq(Bodies)
      /\ DeliveredInOrder' /\ BufferHoldsTheFuture'
      /\ \A a \in acks' : Received(a)'
    <2>1. CASE DeliverInOrder(p)
        BY <2>1, DeliverInOrderIInv DEF IInv, TypeOK
    <2>2. CASE BufferEarly(p)
        <3>1. BufferHoldsTheFuture' /\ \A a \in acks' : Received(a)'
            BY <2>2, BufferEarlyIInv
        <3>2. /\ UNCHANGED <<receiveSerial, delivered>>
              /\ receiveBuffer' \in [Slots -> Bodies \cup {Nil}]
            BY <1>2, <2>2 DEF BufferEarly, IInv, TypeOK
        <3> QED
            BY <1>1, <3>1, <3>2
               DEF IInv, TypeOK, DeliveredInOrder, senderVars
    <2>3. CASE IgnoreDuplicate(p)
        <3>1. /\ UNCHANGED <<receiveSerial, receiveBuffer, delivered>>
              /\ p.serial <= receiveSerial
            BY <2>3 DEF IgnoreDuplicate, receiverVars
        <3> QED
            BY <1>1, <3>1
               DEF IInv, TypeOK, DeliveredInOrder, BufferHoldsTheFuture,
                   AckedWasDelivered, Received, senderVars, Slot
    <2> QED
        BY <2>1, <2>2, <2>3 DEF ReceiveSend
<1>4. TypeOK'
    BY <1>1, <1>2, <1>3 DEF IInv, TypeOK, senderVars
<1>5. DataIsGenuine'
    BY <1>1 DEF IInv, DataIsGenuine, senderVars
<1>6. (sendAckSerial <= receiveSerial)'
    BY <1>1, <1>3 DEF IInv, AckedWasDelivered, TypeOK, senderVars
<1> QED
    BY <1>1, <1>3, <1>4, <1>5, <1>6 DEF IInv, AckedWasDelivered, senderVars

LEMMA NextIInv ==
    ASSUME WindowFits, IInv, [Next]_vars
    PROVE  IInv'
<1>1. ASSUME NEW b \in Bodies, SendMsg(b) PROVE IInv'
    BY <1>1, SendMsgIInv
<1>2. ASSUME NEW s \in 1 .. sendSerial, Tick(s) PROVE IInv'
    BY <1>2, TickIInv
<1>3. CASE CmdPeriod \/ Lose
    <2>1. /\ UNCHANGED <<connectionState, sendSerial, sendAckSerial,
                         sendBuffer, retries, armed, sent>>
          /\ UNCHANGED <<receiveSerial, receiveBuffer, delivered>>
          /\ scheduled' = armed \/ scheduled' = scheduled
          /\ data' \subseteq data /\ acks' \subseteq acks
        BY <1>3 DEF CmdPeriod, Lose, senderVars, receiverVars
    <2> QED
        BY <2>1 DEF IInv, TypeOK, DataIsGenuine, DeliveredInOrder,
                    BufferHoldsTheFuture, AckedWasDelivered, Received, Slot
<1>4. ASSUME NEW p \in data, ReceiveSend(p) PROVE IInv'
    BY <1>4, ReceiveSendIInv
<1>5. ASSUME NEW a \in acks, ReceiveAck(a) PROVE IInv'
    BY <1>5, ReceiveAckIInv
<1>6. CASE UNCHANGED vars
    BY <1>6 DEF vars, senderVars, receiverVars, IInv, TypeOK, DataIsGenuine,
                DeliveredInOrder, BufferHoldsTheFuture, AckedWasDelivered,
                Received, Slot
<1> QED
    BY <1>1, <1>2, <1>3, <1>4, <1>5, <1>6 DEF Next

(* The invariant holds for ever: types, exactly-once in-order delivery,    *)
(* and no acknowledgement of a message the receiver does not hold.  It is  *)
(* about the OSC handlers of SCLOrkWire (prBindSend and prBindAck) on a    *)
(* network that loses, repeats and reorders datagrams.                     *)
THEOREM Invariance ==
    ASSUME WindowFits
    PROVE  Spec => []IInv
<1>1. Init => IInv
    BY InitIInv
<1>2. IInv /\ [Next]_vars => IInv'
    BY NextIInv
<1> QED
    BY <1>1, <1>2, PTL DEF Spec, Safety

(* What the two applications see.  onMessageReceived is called with the    *)
(* messages of sendMsg, in order and once each, and a message that         *)
(* prBindAck counts as acknowledged has been handed over before.           *)
THEOREM Delivery ==
    ASSUME WindowFits
    PROVE  Spec => [](DeliveredInOrder /\ AckedWasDelivered)
<1>1. IInv => DeliveredInOrder /\ AckedWasDelivered
    BY DEF IInv
<1> QED
    BY <1>1, Invariance, PTL

----------------------------------------------------------------------------
(* The retry jobs.                                                         *)

(* Two outstanding messages never share a slot.                            *)
LEMMA OutstandingApart ==
    ASSUME WindowFits, IInv,
           NEW s \in sendAckSerial + 1 .. sendSerial,
           NEW t \in sendAckSerial + 1 .. sendAckSerial + BufferSize,
           Slot(s) = Slot(t)
    PROVE  s = t
<1>1. /\ sendSerial \in Nat /\ sendAckSerial \in Nat /\ Window \in Nat
      /\ BufferSize \in Nat /\ Window <= BufferSize
      /\ sendSerial <= sendAckSerial + Window
    BY BoundsAssumption, BufferAssumption DEF IInv, TypeOK, WindowFits
<1>2. s \in Nat /\ t \in Nat
    BY <1>1
<1>3. ~(s < t) /\ ~(t < s)
    BY <1>1, <1>2, SlotsApart
<1> QED
    BY <1>2, <1>3

LEMMA NextRetried ==
    ASSUME WindowFits, IInv, UnackedIsRetried, [Next]_vars
    PROVE  UnackedIsRetried'
<1> SUFFICES ASSUME connectionState' = "connected",
                    NEW s \in sendAckSerial' + 1 .. sendSerial'
             PROVE  s \in armed' /\ sendBuffer'[Slot(s)] = s
    BY DEF UnackedIsRetried, Slot
<1>1. /\ sendSerial \in Nat /\ sendAckSerial \in Nat
      /\ sendBuffer \in [Slots -> Nat \cup {Nil}]
      /\ BufferSize \in Nat \ {0} /\ Window \in Nat /\ Window <= BufferSize
      /\ sendSerial <= sendAckSerial + Window
    BY BoundsAssumption, BufferAssumption DEF IInv, TypeOK, WindowFits
<1>2. ASSUME NEW b \in Bodies, SendMsg(b)
      PROVE  s \in armed' /\ sendBuffer'[Slot(s)] = s
    <2> DEFINE serial == sendSerial + 1
    <2>1. /\ serial \in sendAckSerial + 1 .. sendAckSerial + BufferSize
          /\ connectionState = "connected"
          /\ armed' = armed \cup {serial}
          /\ sendBuffer' = [sendBuffer EXCEPT ![Slot(serial)] = serial]
          /\ sendAckSerial' = sendAckSerial /\ sendSerial' = serial
        BY <1>1, <1>2 DEF SendMsg
    <2>2. s \in Nat /\ serial \in Nat
        BY <1>1, <2>1
    <2>3. CASE s = serial
        BY <1>1, <2>1, <2>2, <2>3, SlotType
    <2>4. CASE s # serial
        <3>1. s \in sendAckSerial + 1 .. sendSerial
            BY <1>1, <2>1, <2>2, <2>4
        <3>2. Slot(s) # Slot(serial)
            BY <2>1, <2>4, <3>1, OutstandingApart
        <3>3. s \in armed /\ sendBuffer[Slot(s)] = s
            BY <2>1, <3>1 DEF UnackedIsRetried
        <3>4. Slot(s) \in Slots
            BY <2>2, SlotType
        <3> QED
            BY <1>1, <2>1, <3>2, <3>3, <3>4
    <2> QED
        BY <2>3, <2>4
<1>3. ASSUME NEW t \in 1 .. sendSerial, Tick(t)
      PROVE  s \in armed' /\ sendBuffer'[Slot(s)] = s
    <2>1. UNCHANGED <<sendSerial, sendAckSerial, sendBuffer>>
        BY <1>3 DEF Tick, Resend, Finish, GiveUp
    <2>2. ~GiveUp(t) /\ connectionState = "connected"
        BY <1>3 DEF Tick, Resend, Finish, GiveUp
    <2>3. s \in armed /\ sendBuffer[Slot(s)] = s
        BY <2>1, <2>2 DEF UnackedIsRetried
    <2>4. CASE t = s
        <3>1. KeepGoing(s)
            BY <1>1, <2>1, <2>4 DEF KeepGoing
        <3> QED
            BY <1>3, <2>1, <2>2, <2>3, <2>4, <3>1 DEF Tick, Resend, Finish
    <2>5. CASE t # s
        BY <1>3, <2>1, <2>2, <2>3, <2>5 DEF Tick, Resend, Finish
    <2> QED
        BY <2>4, <2>5
<1>4. ASSUME NEW a \in acks, ReceiveAck(a)
      PROVE  s \in armed' /\ sendBuffer'[Slot(s)] = s
    <2>1. UNCHANGED <<connectionState, sendSerial>>
        BY <1>4 DEF ReceiveAck
    <2>2. CASE a # sendAckSerial + 1
        BY <1>4, <2>1, <2>2 DEF ReceiveAck, UnackedIsRetried
    <2>3. CASE a = sendAckSerial + 1
        <3>1. /\ sendAckSerial' = a
              /\ armed' = armed \ {sendBuffer[Slot(a)]}
              /\ sendBuffer' = [sendBuffer EXCEPT ![Slot(a)] = Nil]
            BY <1>4, <2>3 DEF ReceiveAck
        <3>2. /\ s \in sendAckSerial + 1 .. sendSerial
              /\ a \in sendAckSerial + 1 .. sendSerial
              /\ a \in sendAckSerial + 1 .. sendAckSerial + BufferSize
              /\ s # a /\ s \in Nat
            BY <1>1, <2>1, <2>3, <3>1
        <3>3. /\ s \in armed /\ sendBuffer[Slot(s)] = s
              /\ sendBuffer[Slot(a)] = a
            BY <2>1, <3>2 DEF UnackedIsRetried
        <3>4. Slot(s) # Slot(a) /\ Slot(s) \in Slots
            BY <3>2, OutstandingApart, SlotType
        <3> QED
            BY <1>1, <3>1, <3>2, <3>3, <3>4
    <2> QED
        BY <2>2, <2>3
<1>5. CASE \/ CmdPeriod \/ Lose \/ UNCHANGED vars
           \/ \E p \in data : ReceiveSend(p)
    BY <1>5 DEF CmdPeriod, Lose, ReceiveSend, vars, senderVars,
                UnackedIsRetried
<1> QED
    BY <1>2, <1>3, <1>4, <1>5 DEF Next

(* No unacknowledged message is ever without its retry job, and stopping a *)
(* job by way of its slot (prBindAck) never stops the job of another       *)
(* message.                                                                *)
THEOREM RetryJobsInPlace ==
    ASSUME WindowFits
    PROVE  Spec => []UnackedIsRetried
<1>1. Init => IInv /\ UnackedIsRetried
    BY InitIInv DEF Init, UnackedIsRetried
<1>2. IInv /\ UnackedIsRetried /\ [Next]_vars => IInv' /\ UnackedIsRetried'
    BY NextIInv, NextRetried
<1> QED
    BY <1>1, <1>2, PTL DEF Spec, Safety

----------------------------------------------------------------------------
(* The wire implements the reliable channel.                               *)

LEMMA NextChannel ==
    ASSUME WindowFits, IInv, IInv', [Next]_vars
    PROVE  [Channel!Next]_(Channel!vars)
<1> USE DEF Channel!vars
<1>1. ASSUME NEW b \in Bodies, SendMsg(b) PROVE Channel!Next
    BY <1>1 DEF SendMsg, receiverVars, Channel!Next, Channel!Carry, Channel!Send
<1>2. ASSUME NEW s \in 1 .. sendSerial, Tick(s)
      PROVE  Channel!Next \/ UNCHANGED Channel!vars
    <2>1. UNCHANGED <<sendAckSerial, sent, delivered>>
        BY <1>2 DEF Tick, Resend, Finish, GiveUp, receiverVars
    <2>2. CASE connectionState' = connectionState
        BY <2>1, <2>2
    <2>3. CASE connectionState' # connectionState
        <3>1. connectionState = "connected" /\ connectionState' # "connected"
            BY <1>2, <2>3 DEF Tick, Resend, Finish, GiveUp, IInv, TypeOK
        <3> QED
            BY <2>1, <3>1 DEF Channel!Next, Channel!GiveUp
    <2> QED
        BY <2>2, <2>3
<1>3. CASE CmdPeriod \/ Lose \/ UNCHANGED vars
    BY <1>3 DEF CmdPeriod, Lose, vars, senderVars, receiverVars
<1>4. ASSUME NEW p \in data, ReceiveSend(p)
      PROVE  Channel!Next \/ UNCHANGED Channel!vars
    <2>1. UNCHANGED <<sent, sendAckSerial, connectionState, sendSerial>>
        BY <1>4 DEF ReceiveSend, senderVars
    <2>2. CASE DeliverInOrder(p)
        <3>1. /\ receiveSerial < receiveSerial' /\ receiveSerial' \in Nat
              /\ delivered' \in Seq(Bodies)
              /\ receiveSerial \in Nat
            BY <1>4, <2>2, DeliverInOrderIInv DEF IInv, TypeOK
        <3>2. /\ Len(delivered) = receiveSerial
              /\ Len(delivered') = receiveSerial'
              /\ receiveSerial' <= Len(sent)
              /\ \A i \in 1 .. receiveSerial' : delivered'[i] = sent[i]
            BY <2>1 DEF IInv, DeliveredInOrder
        <3>3. delivered' = [i \in 1 .. receiveSerial' |-> sent[i]]
            BY <3>1, <3>2
        <3>4. receiveSerial' \in Len(delivered) + 1 .. Len(sent)
            <4>1. Len(sent) \in Nat
                BY DEF IInv, TypeOK
            <4> QED
                BY <3>1, <3>2, <4>1
        <3> QED
            BY <2>1, <3>3, <3>4 DEF Channel!Next, Channel!Carry, Channel!Deliver
    <2>3. CASE BufferEarly(p) \/ IgnoreDuplicate(p)
        BY <2>1, <2>3 DEF BufferEarly, IgnoreDuplicate, receiverVars
    <2> QED
        BY <1>4, <2>2, <2>3 DEF ReceiveSend
<1>5. ASSUME NEW a \in acks, ReceiveAck(a)
      PROVE  Channel!Next \/ UNCHANGED Channel!vars
    <2>1. UNCHANGED <<sent, delivered, connectionState>>
        BY <1>5 DEF ReceiveAck, receiverVars
    <2>2. CASE a # sendAckSerial + 1
        BY <1>5, <2>1, <2>2 DEF ReceiveAck
    <2>3. CASE a = sendAckSerial + 1
        <3>1. sendAckSerial' = sendAckSerial + 1
            BY <1>5, <2>3 DEF ReceiveAck
        <3>2. sendAckSerial' <= Len(delivered')
            BY DEF IInv, DeliveredInOrder, AckedWasDelivered
        <3>3. sendAckSerial \in Nat /\ Len(delivered) \in Nat
            BY DEF IInv, TypeOK
        <3>4. sendAckSerial < Len(delivered)
            BY <2>1, <3>1, <3>2, <3>3
        <3> QED
            BY <2>1, <3>1, <3>4 DEF Channel!Next, Channel!Carry, Channel!Forget
    <2> QED
        BY <2>2, <2>3
<1> QED
    BY <1>1, <1>2, <1>3, <1>4, <1>5 DEF Next

(* SCLOrkWire's serials, acknowledgements, retransmissions and buffers     *)
(* amount to the reliable channel of module ReliableChannel: the claim of  *)
(* the class help ("in-order packet arrival"), for one direction of a      *)
(* connection whose sender keeps to the window.                            *)
THEOREM Refinement ==
    ASSUME WindowFits
    PROVE  Spec => ImplementsReliableChannel
<1>1. Init => Channel!Init
    BY DEF Init, Channel!Init
<1>2. IInv /\ IInv' /\ [Next]_vars => [Channel!Next]_(Channel!vars)
    BY NextChannel
<1>3. Spec => []IInv
    BY Invariance
<1> QED
    BY <1>1, <1>2, <1>3, PTL
       DEF Spec, Safety, ImplementsReliableChannel, Channel!Spec

----------------------------------------------------------------------------
(* On a LAN: what the retries cover (module WireOnLAN).                    *)

LEMMA LANTypes ==
    ASSUME Covered
    PROVE  /\ sendSerial \in Nat /\ sendAckSerial \in Nat
           /\ Window \in Nat /\ MaxLosses \in Nat /\ MaxRetries \in Nat
           /\ losses \in Nat /\ losses <= MaxLosses
           /\ sendSerial <= sendAckSerial + Window
           /\ Oldest = sendAckSerial + 1
           /\ scheduled \subseteq 1 .. sendSerial
           /\ armed \subseteq scheduled
           /\ Len(retries) = sendSerial
           /\ \A s \in 1 .. sendSerial : retries[s] \in Nat
           /\ DOMAIN ahead = scheduled
BY BoundsAssumption, RetriesAssumption, LossesAssumption
   DEF Covered, IInv, TypeOK, InTurn, Oldest

(* While any message is unacknowledged, the oldest one has its job.        *)
LEMMA OldestScheduled ==
    ASSUME Covered, NEW s \in scheduled, ~(s <= sendAckSerial)
    PROVE  Oldest \in scheduled /\ s \in Nat /\ Oldest <= s
<1>1. s \in Nat /\ Oldest <= s /\ Oldest \in sendAckSerial + 1 .. sendSerial
    BY LANTypes
<1>2. Oldest \in armed
    BY <1>1 DEF Covered, UnackedIsRetried
<1> QED
    BY <1>1, <1>2, LANTypes

(* What RetriesBounded says of a job, by the place of its message: o is    *)
(* the oldest that is not acknowledged.                                    *)
Within(s, o) ==
    /\ s <= sendAckSerial => retries[s] <= losses + 2 * (Window - 1)
    /\ s = o => retries[s] + Unanswered(s) <= losses + 2 * (Window - 1)
    /\ s > o => retries[s] + (2 * (s - o) - 1 + TicksFirst(s) + Unanswered(o))
                   <= losses + 2 * (Window - 1)

LEMMA BoundOf ==
    ASSUME Covered, NEW s \in scheduled, NEW o, o = Oldest
    PROVE  /\ s \in Nat /\ o \in Nat /\ retries[s] \in Nat
           /\ Unanswered(s) \in {0, 1} /\ Unanswered(o) \in {0, 1}
           /\ TicksFirst(s) \in {0, 1}
           /\ Within(s, o)
           /\ s > o => o \in scheduled
<1>1. /\ s \in Nat /\ o \in Nat /\ retries[s] \in Nat /\ o = sendAckSerial + 1
      /\ sendAckSerial \in Nat
    BY LANTypes
<1>2. /\ Unanswered(s) \in {0, 1} /\ Unanswered(o) \in {0, 1}
      /\ TicksFirst(s) \in {0, 1}
    BY DEF Unanswered, TicksFirst
<1>3. IF s <= sendAckSerial THEN retries[s] <= losses + 2 * (Window - 1)
      ELSE retries[s] + Allowed(s) <= losses + 2 * (Window - 1)
    BY DEF Covered, RetriesBounded
<1>4. /\ s = o => Allowed(s) = Unanswered(s)
      /\ s # o => Allowed(s) = 2 * (s - o) - 1 + TicksFirst(s) + Unanswered(o)
    BY DEF Allowed
<1>5. s > o => o \in scheduled
    BY <1>1, OldestScheduled
<1> QED
    BY <1>1, <1>2, <1>3, <1>4, <1>5 DEF Within

LEMMA RetriesLeftOver ==
    ASSUME RetriesSuffice, Covered, NEW s \in scheduled
    PROVE  RetriesLeft(s)
<1>1. PICK o \in Nat : o = Oldest
    BY LANTypes
<1>2. /\ s \in Nat /\ retries[s] \in Nat
      /\ Unanswered(s) \in {0, 1} /\ Unanswered(o) \in {0, 1}
      /\ TicksFirst(s) \in {0, 1}
      /\ Within(s, o)
    BY <1>1, BoundOf
<1>3. sendAckSerial \in Nat /\ o = sendAckSerial + 1
      /\ losses \in Nat /\ Window \in Nat
    BY <1>1, LANTypes
<1>4. retries[s] <= losses + 2 * (Window - 1)
    BY <1>2, <1>3 DEF Within
<1> QED
    BY <1>2, <1>4, LANTypes DEF RetriesLeft, RetriesSuffice

(* The same, of the state a step ends in.                                  *)
LEMMA BoundsNext ==
    ASSUME sendAckSerial' \in Nat,
           NEW o \in Nat, o = Oldest',
           \A s \in scheduled' : s \in Nat,
           \A s \in scheduled' : Within(s, o)'
    PROVE  RetriesBounded'
<1> SUFFICES ASSUME NEW s \in scheduled', ~(s <= sendAckSerial')
             PROVE  retries'[s] + Allowed(s)' <= losses' + 2 * (Window - 1)
    BY DEF RetriesBounded, Within
<1>1. o = sendAckSerial' + 1
    BY DEF Oldest
<1>2. Unanswered(o)' = Unanswered(Oldest)'
    BY DEF Unanswered, InFlight
<1>3. CASE s = o
    BY <1>3 DEF Allowed, Within
<1>4. CASE s # o
    <2>1. s > o
        BY <1>1, <1>4
    <2> QED
        BY <1>2, <1>4, <2>1 DEF Allowed, Within
<1> QED
    BY <1>3, <1>4

LEMMA LANSendBounds ==
    ASSUME Covered, NEW b \in Bodies, SendMsg(b),
           ahead' = [s \in scheduled' |->
                        IF s = sendSerial' THEN scheduled ELSE ahead[s]],
           UNCHANGED losses
    PROVE  InTurn' /\ RetriesBounded'
<1>1. PICK n \in Nat : n = sendSerial + 1
    BY LANTypes
<1>2. PICK o \in Nat : o = Oldest
    BY LANTypes
<1>3. /\ sendSerial \in Nat /\ sendAckSerial \in Nat /\ losses \in Nat
      /\ Window \in Nat /\ o = sendAckSerial + 1
      /\ scheduled \subseteq 1 .. sendSerial /\ DOMAIN ahead = scheduled
    BY <1>2, LANTypes
<1>4. /\ sendSerial < sendAckSerial + Window
      /\ sendSerial' = n
      /\ retries' = Append(retries, 0)
      /\ scheduled' = scheduled \cup {n}
      /\ data' = data \cup {Packet(n, b)}
      /\ UNCHANGED <<sendAckSerial, acks>>
      /\ Oldest' = o
    BY <1>1, <1>2 DEF SendMsg, Oldest
<1>5. n \notin scheduled /\ \A s \in scheduled : s \in Nat /\ s < n
    BY <1>1, <1>3
<1>6. \A s \in scheduled : s # n /\ s \in scheduled'
    BY <1>4, <1>5
<1>7. /\ DOMAIN ahead' = scheduled'
      /\ n \in scheduled' /\ ahead'[n] = scheduled
      /\ \A s \in scheduled : ahead'[s] = ahead[s]
    BY <1>4, <1>6
<1>8. /\ \A s \in scheduled : ahead[s] \subseteq scheduled \ {s}
      /\ \A s \in scheduled : \A t \in scheduled \ {s} :
            s \in ahead[t] <=> t \notin ahead[s]
    BY DEF Covered, InTurn
<1>9. InTurn'
    <2>1. \A s \in scheduled' : ahead'[s] \subseteq scheduled' \ {s}
        BY <1>4, <1>5, <1>7, <1>8
    <2>2. ASSUME NEW s \in scheduled', NEW t \in scheduled' \ {s}
          PROVE  s \in ahead'[t] <=> t \notin ahead'[s]
        <3>1. CASE s = n
            <4>1. t \in scheduled
                BY <1>4, <3>1
            <4>2. n \notin ahead[t]
                BY <1>5, <1>8, <4>1
            <4> QED
                BY <1>7, <3>1, <4>1, <4>2
        <3>2. CASE t = n
            <4>1. s \in scheduled
                BY <1>4, <3>2
            <4>2. n \notin ahead[s]
                BY <1>5, <1>8, <4>1
            <4> QED
                BY <1>7, <3>2, <4>1, <4>2
        <3>3. CASE s # n /\ t # n
            <4>1. s \in scheduled /\ t \in scheduled \ {s}
                BY <1>4, <3>3
            <4> QED
                BY <1>7, <1>8, <4>1
        <3> QED
            BY <3>1, <3>2, <3>3
    <2> QED
        BY <1>7, <2>1, <2>2 DEF InTurn
<1>10. \A s \in scheduled : InFlight(s)' <=> InFlight(s)
    BY <1>4, <1>6 DEF InFlight, Packet
<1>11. InFlight(n)'
    <2>1. Packet(n, b) \in data' /\ Packet(n, b).serial = n
        BY <1>4 DEF Packet
    <2> QED
        BY <2>1 DEF InFlight
<1>12. /\ retries'[n] = 0
       /\ \A s \in scheduled : retries'[s] = retries[s]
    <2>1. retries \in Seq(0 .. MaxRetries) /\ Len(retries) = sendSerial
        BY DEF Covered, IInv, TypeOK
    <2> QED
        BY <1>1, <1>3, <1>4, <2>1, RetriesAssumption
<1>13. n = o \/ n > o
    <2>1. sendAckSerial <= sendSerial
        BY DEF Covered, IInv, AckedWasDelivered, DeliveredInOrder, TypeOK
    <2> QED
        BY <1>1, <1>3, <2>1
<1>14. n - o <= Window - 1 /\ Window - 1 \in Nat
    BY <1>1, <1>3, <1>4, <1>13
<1>15. n > o => o \in scheduled
    <2>1. n > o => o \in sendAckSerial + 1 .. sendSerial
        BY <1>1, <1>3
    <2>2. o \in sendAckSerial + 1 .. sendSerial => o \in armed
        BY DEF Covered, UnackedIsRetried
    <2> QED
        BY <2>1, <2>2, LANTypes
<1>16. ASSUME NEW s \in scheduled'
       PROVE  Within(s, o)'
    <2>1. CASE s = n
        <3>1. retries'[s] = 0 /\ Unanswered(s)' = 0
            BY <1>11, <1>12, <2>1 DEF Unanswered
        <3>2. Unanswered(o)' \in {0, 1}
            BY DEF Unanswered
        <3>3. ASSUME s > o PROVE TicksFirst(s)' = 0
            <4>1. o \in scheduled
                BY <1>15, <2>1, <3>3
            <4>2. s \notin ahead'[o]
                BY <1>5, <1>7, <1>8, <2>1, <4>1
            <4> QED
                BY <1>4, <4>2 DEF TicksFirst
        <3>4. s \in Nat /\ s - o <= Window - 1 /\ losses' = losses
            BY <1>14, <2>1
        <3>5. 0 <= losses + 2 * (Window - 1)
            BY <1>3, <1>14
        <3>6. s > o => 2 * (s - o) - 1 + 0 + Unanswered(o)' <= losses + 2 * (Window - 1)
            BY <1>3, <3>2, <3>4
        <3> QED
            BY <1>2, <1>3, <3>1, <3>2, <3>3, <3>4, <3>5, <3>6 DEF Within
    <2>2. CASE s \in scheduled
        <3>1. /\ s \in Nat /\ retries[s] \in Nat
              /\ Within(s, o) /\ (s > o => o \in scheduled)
            BY <1>2, <2>2, BoundOf
        <3>2. Unanswered(s)' = Unanswered(s)
            BY <1>10, <2>2 DEF Unanswered
        <3>3. ASSUME s > o
              PROVE  TicksFirst(s)' = TicksFirst(s) /\ Unanswered(o)' = Unanswered(o)
            <4>1. o \in scheduled
                BY <3>1, <3>3
            <4>2. Unanswered(o)' = Unanswered(o)
                BY <1>10, <4>1 DEF Unanswered
            <4>3. TicksFirst(s)' = TicksFirst(s)
                BY <1>2, <1>4, <1>7, <4>1 DEF TicksFirst
            <4> QED
                BY <4>2, <4>3
        <3>4. retries'[s] = retries[s] /\ sendAckSerial' = sendAckSerial /\ losses' = losses
            BY <1>4, <1>12, <2>2
        <3> QED
            BY <3>1, <3>2, <3>3, <3>4 DEF Within
    <2> QED
        BY <1>4, <2>1, <2>2
<1>17. sendAckSerial' \in Nat /\ o = Oldest' /\ \A s \in scheduled' : s \in Nat
    BY <1>3, <1>4, <1>5
<1> QED
    BY <1>9, <1>16, <1>17, BoundsNext

(* A retransmission: the job of s0 has used one more of its retries, and   *)
(* ticks after all others from now on.                                     *)
LEMMA LANResendBounds ==
    ASSUME Covered, NEW s0 \in scheduled, ahead[s0] = {}, ~InFlight(s0),
           Resend(s0),
           ahead' = [t \in scheduled' |->
                        IF t = s0 THEN scheduled' \ {s0} ELSE ahead[t] \ {s0}],
           UNCHANGED losses
    PROVE  InTurn' /\ RetriesBounded'
<1>1. PICK o \in Nat : o = Oldest
    BY LANTypes
<1>2. /\ sendSerial \in Nat /\ sendAckSerial \in Nat /\ losses \in Nat
      /\ Window \in Nat /\ o = sendAckSerial + 1
      /\ scheduled \subseteq 1 .. sendSerial
    BY <1>1, LANTypes
<1>3. /\ sendAckSerial < s0
      /\ retries' = [retries EXCEPT ![s0] = @ + 1]
      /\ data' = data \cup {Packet(s0, sent[s0])}
      /\ UNCHANGED <<sendAckSerial, scheduled, acks>>
      /\ Oldest' = o
    BY <1>1 DEF Resend, KeepGoing, Oldest
<1>4. /\ DOMAIN ahead' = scheduled
      /\ ahead'[s0] = scheduled \ {s0}
      /\ \A t \in scheduled \ {s0} : ahead'[t] = ahead[t] \ {s0}
    BY <1>3
<1>5. /\ \A s \in scheduled : ahead[s] \subseteq scheduled \ {s}
      /\ \A s \in scheduled : \A t \in scheduled \ {s} :
            s \in ahead[t] <=> t \notin ahead[s]
    BY DEF Covered, InTurn
<1>6. InTurn'
    <2>1. \A s \in scheduled : ahead'[s] \subseteq scheduled \ {s}
        BY <1>4, <1>5
    <2>2. ASSUME NEW s \in scheduled, NEW t \in scheduled \ {s}
          PROVE  s \in ahead'[t] <=> t \notin ahead'[s]
        BY <1>4, <1>5
    <2> QED
        BY <1>3, <1>4, <2>1, <2>2 DEF InTurn
<1>7. \A s \in scheduled \ {s0} : InFlight(s)' <=> InFlight(s)
    BY <1>3 DEF InFlight, Packet
<1>8. InFlight(s0)'
    <2>1. Packet(s0, sent[s0]) \in data' /\ Packet(s0, sent[s0]).serial = s0
        BY <1>3 DEF Packet
    <2> QED
        BY <2>1 DEF InFlight
<1>9. \A s \in scheduled :
         retries'[s] = IF s = s0 THEN retries[s] + 1 ELSE retries[s]
    <2>1. retries \in Seq(0 .. MaxRetries) /\ Len(retries) = sendSerial
        BY DEF Covered, IInv, TypeOK
    <2> QED
        BY <1>2, <1>3, <2>1
<1>10. /\ Unanswered(s0) = 1 /\ Unanswered(s0)' = 0
       /\ \A s \in scheduled \ {s0} : Unanswered(s)' = Unanswered(s)
    BY <1>7, <1>8 DEF Unanswered
<1>11. ASSUME NEW s \in scheduled
       PROVE  Within(s, o)'
    <2>1. /\ s \in Nat /\ retries[s] \in Nat /\ Within(s, o)
          /\ TicksFirst(s) \in {0, 1} /\ Unanswered(o) \in {0, 1}
          /\ (s > o => o \in scheduled)
        BY <1>1, BoundOf
    <2>2. losses' = losses /\ sendAckSerial' = sendAckSerial
        BY <1>3
    <2>3. CASE s = s0
        <3>1. retries'[s] = retries[s] + 1 /\ Unanswered(s) = 1 /\ Unanswered(s)' = 0
            BY <1>9, <1>10, <2>3
        <3>2. ASSUME s > o
              PROVE  /\ TicksFirst(s) = 1 /\ TicksFirst(s)' = 0
                     /\ Unanswered(o)' = Unanswered(o)
            <4>1. o \in scheduled \ {s}
                BY <1>2, <2>1, <3>2
            <4>2. s \in ahead[o] /\ s \notin ahead'[o]
                BY <1>4, <1>5, <2>3, <4>1
            <4>3. Unanswered(o)' = Unanswered(o)
                BY <1>10, <2>3, <4>1
            <4> QED
                BY <1>1, <1>3, <4>2, <4>3 DEF TicksFirst
        <3>3. s > o \/ s = o
            BY <1>2, <1>3, <2>1, <2>3
        <3> QED
            BY <1>2, <2>1, <2>2, <3>1, <3>2, <3>3 DEF Within
    <2>4. CASE s # s0
        <3>1. retries'[s] = retries[s] /\ Unanswered(s)' = Unanswered(s)
            BY <1>9, <1>10, <2>4
        <3>2. ASSUME s > o
              PROVE  TicksFirst(s)' + Unanswered(o)' <= TicksFirst(s) + Unanswered(o)
            <4>1. o \in scheduled
                BY <2>1, <3>2
            <4>2. CASE s0 = o
                <5>1. Unanswered(o)' = 0 /\ Unanswered(o) = 1 /\ TicksFirst(s)' \in {0, 1}
                    BY <1>10, <4>2 DEF TicksFirst
                <5> QED
                    BY <2>1, <5>1
            <4>3. CASE s0 # o
                <5>1. s \in ahead'[o] => s \in ahead[o]
                    BY <1>4, <4>1, <4>3
                <5>2. TicksFirst(s)' <= TicksFirst(s)
                    BY <1>1, <1>3, <5>1 DEF TicksFirst
                <5>3. Unanswered(o)' = Unanswered(o) /\ TicksFirst(s)' \in {0, 1}
                    BY <1>10, <4>1, <4>3 DEF TicksFirst
                <5> QED
                    BY <2>1, <5>2, <5>3
            <4> QED
                BY <4>2, <4>3
        <3>3. TicksFirst(s)' \in {0, 1} /\ Unanswered(o)' \in {0, 1}
            BY DEF TicksFirst, Unanswered
        <3> QED
            BY <1>2, <2>1, <2>2, <3>1, <3>2, <3>3 DEF Within
    <2> QED
        BY <2>3, <2>4
<1>12. /\ sendAckSerial' \in Nat /\ o = Oldest'
       /\ scheduled' = scheduled /\ \A s \in scheduled' : s \in Nat
    BY <1>2, <1>3
<1> QED
    BY <1>6, <1>11, <1>12, BoundsNext

(* A job whose message is acknowledged leaves the clock.                   *)
LEMMA LANFinishBounds ==
    ASSUME Covered, NEW s0 \in scheduled, Finish(s0),
           ahead' = [t \in scheduled' |->
                        IF t = s0 THEN scheduled' \ {s0} ELSE ahead[t] \ {s0}],
           UNCHANGED losses
    PROVE  InTurn' /\ RetriesBounded'
<1>1. PICK o \in Nat : o = Oldest
    BY LANTypes
<1>2. /\ sendSerial \in Nat /\ sendAckSerial \in Nat /\ losses \in Nat
      /\ Window \in Nat /\ o = sendAckSerial + 1
      /\ scheduled \subseteq 1 .. sendSerial
    BY <1>1, LANTypes
<1>3. /\ ~(sendAckSerial < s0)
      /\ scheduled' = scheduled \ {s0}
      /\ UNCHANGED <<sendAckSerial, retries, data, acks>>
      /\ Oldest' = o
    BY <1>1 DEF Finish, KeepGoing, Oldest
<1>4. /\ DOMAIN ahead' = scheduled \ {s0}
      /\ \A t \in scheduled \ {s0} : ahead'[t] = ahead[t] \ {s0}
    BY <1>3
<1>5. /\ \A s \in scheduled : ahead[s] \subseteq scheduled \ {s}
      /\ \A s \in scheduled : \A t \in scheduled \ {s} :
            s \in ahead[t] <=> t \notin ahead[s]
    BY DEF Covered, InTurn
<1>6. InTurn'
    BY <1>3, <1>4, <1>5 DEF InTurn
<1>7. ASSUME NEW s \in scheduled'
      PROVE  Within(s, o)'
    <2>1. s \in scheduled /\ s # s0
        BY <1>3
    <2>2. /\ s \in Nat /\ Within(s, o)
          /\ TicksFirst(s) \in {0, 1} /\ Unanswered(o) \in {0, 1}
          /\ (s > o => o \in scheduled)
        BY <1>1, <2>1, BoundOf
    <2>3. Unanswered(s)' = Unanswered(s) /\ Unanswered(o)' = Unanswered(o)
        BY <1>3 DEF Unanswered, InFlight
    <2>4. ASSUME s > o PROVE TicksFirst(s)' = TicksFirst(s)
        <3>1. o \in scheduled \ {s0}
            BY <1>2, <1>3, <2>2, <2>4
        <3>2. s \in ahead'[o] <=> s \in ahead[o]
            BY <1>4, <2>1, <3>1
        <3> QED
            BY <1>1, <1>3, <3>2 DEF TicksFirst
    <2> QED
        BY <1>3, <2>2, <2>3, <2>4 DEF Within
<1>8. /\ sendAckSerial' \in Nat /\ o = Oldest' /\ \A s \in scheduled' : s \in Nat
    BY <1>2, <1>3
<1> QED
    BY <1>6, <1>7, <1>8, BoundsNext

(* Cmd-period leaves the jobs of the unacknowledged messages on the clock, *)
(* in the order they had.                                                  *)
LEMMA LANCmdPeriodBounds ==
    ASSUME Covered, CmdPeriod,
           ahead' = [s \in scheduled' |-> ahead[s] \cap scheduled'],
           UNCHANGED losses
    PROVE  InTurn' /\ RetriesBounded'
<1>1. PICK o \in Nat : o = Oldest
    BY LANTypes
<1>2. /\ sendSerial \in Nat /\ sendAckSerial \in Nat /\ losses \in Nat
      /\ Window \in Nat /\ o = sendAckSerial + 1
      /\ scheduled \subseteq 1 .. sendSerial /\ armed \subseteq scheduled
    BY <1>1, LANTypes
<1>3. /\ scheduled' = armed
      /\ UNCHANGED <<sendSerial, sendAckSerial, retries, data, acks>>
      /\ Oldest' = o
    BY <1>1 DEF CmdPeriod, Oldest
<1>4. /\ DOMAIN ahead' = armed
      /\ \A t \in armed : ahead'[t] = ahead[t] \cap armed
    BY <1>3
<1>5. /\ \A s \in scheduled : ahead[s] \subseteq scheduled \ {s}
      /\ \A s \in scheduled : \A t \in scheduled \ {s} :
            s \in ahead[t] <=> t \notin ahead[s]
    BY DEF Covered, InTurn
<1>6. InTurn'
    BY <1>2, <1>3, <1>4, <1>5 DEF InTurn
<1>7. ASSUME NEW s \in scheduled'
      PROVE  Within(s, o)'
    <2>1. s \in scheduled /\ s \in armed
        BY <1>2, <1>3
    <2>2. /\ s \in Nat /\ Within(s, o)
          /\ TicksFirst(s) \in {0, 1} /\ Unanswered(o) \in {0, 1}
          /\ (s > o => o \in scheduled)
        BY <1>1, <2>1, BoundOf
    <2>3. Unanswered(s)' = Unanswered(s) /\ Unanswered(o)' = Unanswered(o)
        BY <1>3 DEF Unanswered, InFlight
    <2>4. ASSUME s > o PROVE TicksFirst(s)' = TicksFirst(s)
        <3>1. o \in sendAckSerial + 1 .. sendSerial
            BY <1>2, <2>1, <2>2, <2>4
        <3>2. o \in armed
            BY <3>1 DEF Covered, UnackedIsRetried
        <3>3. s \in ahead'[o] <=> s \in ahead[o]
            BY <1>4, <2>1, <3>2
        <3> QED
            BY <1>1, <1>3, <3>3 DEF TicksFirst
    <2> QED
        BY <1>3, <2>2, <2>3, <2>4 DEF Within
<1>8. /\ sendAckSerial' \in Nat /\ o = Oldest' /\ \A s \in scheduled' : s \in Nat
    BY <1>2, <1>3
<1> QED
    BY <1>6, <1>7, <1>8, BoundsNext

(* A loss may cost each message one retransmission more.                   *)
LEMMA LANLoseBounds ==
    ASSUME Covered, Lose, losses' = losses + 1, UNCHANGED ahead
    PROVE  InTurn' /\ RetriesBounded'
<1>1. PICK o \in Nat : o = Oldest
    BY LANTypes
<1>2. /\ sendAckSerial \in Nat /\ losses \in Nat
      /\ Window \in Nat /\ o = sendAckSerial + 1
      /\ scheduled \subseteq 1 .. sendSerial /\ sendSerial \in Nat
    BY <1>1, LANTypes
<1>3. /\ UNCHANGED <<sendAckSerial, scheduled, retries>>
      /\ Oldest' = o
    BY <1>1 DEF Lose, Oldest, senderVars
<1>4. InTurn'
    BY <1>3 DEF Covered, InTurn
<1>5. ASSUME NEW s \in scheduled'
      PROVE  Within(s, o)'
    <2>1. s \in scheduled
        BY <1>3
    <2>2. /\ s \in Nat /\ retries[s] \in Nat /\ Within(s, o)
          /\ Unanswered(s) \in {0, 1} /\ Unanswered(o) \in {0, 1}
          /\ TicksFirst(s) \in {0, 1}
        BY <1>1, <2>1, BoundOf
    <2>3. Unanswered(s)' \in {0, 1} /\ Unanswered(o)' \in {0, 1}
        BY DEF Unanswered
    <2>4. TicksFirst(s)' = TicksFirst(s)
        BY <1>1, <1>3 DEF TicksFirst
    <2>5. Unanswered(s)' <= Unanswered(s) + 1 /\ Unanswered(o)' <= Unanswered(o) + 1
        BY <2>2, <2>3
    <2> QED
        BY <1>2, <1>3, <2>2, <2>3, <2>4, <2>5 DEF Within
<1>6. /\ sendAckSerial' \in Nat /\ o = Oldest' /\ \A s \in scheduled' : s \in Nat
    BY <1>2, <1>3
<1> QED
    BY <1>4, <1>5, <1>6, BoundsNext

(* The answer to a datagram takes its place on the network.                *)
LEMMA LANReceiveSendBounds ==
    ASSUME Covered, NEW p \in data, ReceiveSend(p),
           UNCHANGED <<losses, ahead>>
    PROVE  InTurn' /\ RetriesBounded'
<1>1. PICK o \in Nat : o = Oldest
    BY LANTypes
<1>2. /\ sendAckSerial \in Nat /\ losses \in Nat
      /\ Window \in Nat /\ o = sendAckSerial + 1
      /\ scheduled \subseteq 1 .. sendSerial /\ sendSerial \in Nat
    BY <1>1, LANTypes
<1>3. /\ UNCHANGED <<sendAckSerial, scheduled, retries>>
      /\ Oldest' = o
      /\ acks' = acks \cup {p.serial}
      /\ data' = data \/ data' = data \ {p}
    BY <1>1 DEF ReceiveSend, Oldest, senderVars, Taken
<1>4. InTurn'
    BY <1>3 DEF Covered, InTurn
<1>5. ASSUME NEW s PROVE Unanswered(s)' = Unanswered(s)
    <2>1. ASSUME InFlight(s) PROVE InFlight(s)'
        BY <1>3, <2>1 DEF InFlight
    <2>2. ASSUME InFlight(s)' PROVE InFlight(s)
        BY <1>3, <2>2 DEF InFlight
    <2> QED
        BY <2>1, <2>2 DEF Unanswered
<1>6. ASSUME NEW s \in scheduled'
      PROVE  Within(s, o)'
    <2>1. s \in scheduled
        BY <1>3
    <2>2. Within(s, o)
        BY <1>1, <2>1, BoundOf
    <2>3. TicksFirst(s)' = TicksFirst(s)
        BY <1>1, <1>3 DEF TicksFirst
    <2>4. Unanswered(s)' = Unanswered(s) /\ Unanswered(o)' = Unanswered(o)
        BY <1>5
    <2> QED
        BY <1>3, <2>2, <2>3, <2>4 DEF Within
<1>7. /\ sendAckSerial' \in Nat /\ o = Oldest' /\ \A s \in scheduled' : s \in Nat
    BY <1>2, <1>3
<1> QED
    BY <1>4, <1>6, <1>7, BoundsNext

(* An acknowledgement that counts makes the next message the oldest; one   *)
(* that comes ahead of its turn changes nothing.                           *)
LEMMA LANReceiveAckBounds ==
    ASSUME Covered, NEW a \in acks, ReceiveAck(a),
           UNCHANGED <<losses, ahead>>
    PROVE  InTurn' /\ RetriesBounded'
<1>1. PICK o \in Nat : o = Oldest
    BY LANTypes
<1>2. /\ sendAckSerial \in Nat /\ losses \in Nat
      /\ Window \in Nat /\ o = sendAckSerial + 1
      /\ scheduled \subseteq 1 .. sendSerial /\ sendSerial \in Nat
    BY <1>1, LANTypes
<1>3. /\ UNCHANGED <<scheduled, retries, data>>
      /\ acks' = acks \/ acks' = acks \ {a}
      /\ a = o => sendAckSerial' = o
      /\ a # o => sendAckSerial' = sendAckSerial
    BY <1>2 DEF ReceiveAck, Taken
<1>4. InTurn'
    BY <1>3 DEF Covered, InTurn
<1>5. CASE a # o
    <2>1. Oldest' = o
        BY <1>1, <1>3, <1>5 DEF Oldest
    <2>2. Unanswered(o)' = Unanswered(o)
        BY <1>3, <1>5 DEF Unanswered, InFlight
    <2>3. ASSUME NEW s \in scheduled' PROVE Within(s, o)'
        <3>1. s \in scheduled
            BY <1>3
        <3>2. s \in Nat /\ Within(s, o)
            BY <1>1, <3>1, BoundOf
        <3>3. TicksFirst(s)' = TicksFirst(s)
            BY <1>1, <2>1 DEF TicksFirst
        <3>4. s = o => Unanswered(s)' = Unanswered(s)
            BY <2>2
        <3> QED
            BY <1>3, <1>5, <2>2, <3>2, <3>3, <3>4 DEF Within
    <2>4. /\ sendAckSerial' \in Nat /\ \A s \in scheduled' : s \in Nat
        BY <1>2, <1>3, <1>5
    <2> QED
        BY <1>4, <2>1, <2>3, <2>4, BoundsNext
<1>6. CASE a = o
    <2>1. PICK q \in Nat : q = o + 1
        BY <1>1
    <2>2. Oldest' = q /\ sendAckSerial' = o
        BY <1>3, <1>6, <2>1 DEF Oldest
    <2>3. ASSUME NEW s \in scheduled' PROVE Within(s, q)'
        <3>1. s \in scheduled
            BY <1>3
        <3>2. /\ s \in Nat /\ retries[s] \in Nat /\ Within(s, o)
              /\ Unanswered(s) \in {0, 1} /\ Unanswered(o) \in {0, 1}
              /\ TicksFirst(s) \in {0, 1}
            BY <1>1, <3>1, BoundOf
        <3>3. /\ Unanswered(s)' \in {0, 1} /\ Unanswered(q)' \in {0, 1}
              /\ TicksFirst(s)' \in {0, 1}
            BY DEF Unanswered, TicksFirst
        <3>4. retries'[s] = retries[s] /\ losses' = losses
            BY <1>3
        <3>5. retries[s] <= losses + 2 * (Window - 1)
            BY <1>2, <3>2 DEF Within
        <3>6. s > o => retries[s] + (2 * (s - o) - 1)
                           <= losses + 2 * (Window - 1)
            BY <1>2, <3>2 DEF Within
        <3>7. s = q =>
                retries'[s] + Unanswered(s)' <= losses' + 2 * (Window - 1)
            BY <1>1, <1>2, <2>1, <3>2, <3>3, <3>4, <3>6
        <3>8. s > q =>
                retries'[s] + (2 * (s - q) - 1 + TicksFirst(s)' + Unanswered(q)')
                   <= losses' + 2 * (Window - 1)
            BY <1>1, <1>2, <2>1, <3>2, <3>3, <3>4, <3>6
        <3> QED
            BY <3>4, <3>5, <3>7, <3>8 DEF Within
    <2>4. /\ sendAckSerial' \in Nat /\ \A s \in scheduled' : s \in Nat
        BY <1>2, <1>3, <2>2
    <2> QED
        BY <1>4, <2>1, <2>2, <2>3, <2>4, BoundsNext
<1> QED
    BY <1>5, <1>6

----------------------------------------------------------------------------
LEMMA LANStep ==
    ASSUME WindowFits, RetriesSuffice, Covered, [LANNext]_lanVars
    PROVE  /\ [Next]_vars
           /\ Covered'
<1>1. CASE LANSend
    <2>1. PICK b \in Bodies : SendMsg(b)
        BY <1>1 DEF LANSend
    <2>2. /\ ahead' = [s \in scheduled' |->
                          IF s = sendSerial' THEN scheduled ELSE ahead[s]]
          /\ UNCHANGED losses
        BY <1>1 DEF LANSend
    <2>3. Next /\ UNCHANGED connectionState
        BY <2>1 DEF Next, SendMsg
    <2>4. InTurn' /\ RetriesBounded'
        BY <2>1, <2>2, LANSendBounds
    <2> QED
        BY <2>2, <2>3, <2>4, NextIInv, NextRetried DEF Covered
<1>2. CASE LANTick
    <2>1. PICK s \in scheduled :
             /\ ahead[s] = {} /\ ~InFlight(s) /\ Tick(s)
             /\ ahead' = [t \in scheduled' |->
                             IF t = s THEN scheduled' \ {s} ELSE ahead[t] \ {s}]
        BY <1>2 DEF LANTick
    <2>2. UNCHANGED losses
        BY <1>2 DEF LANTick
    <2>3. Next
        BY <2>1, LANTypes DEF Next
    <2>4. ~GiveUp(s)
        BY RetriesLeftOver DEF GiveUp
    <2>5. InTurn' /\ RetriesBounded'
        BY <2>1, <2>2, <2>4, LANResendBounds, LANFinishBounds DEF Tick
    <2>6. UNCHANGED connectionState
        BY <2>1, <2>4 DEF Tick, Resend, Finish
    <2> QED
        BY <2>2, <2>3, <2>5, <2>6, NextIInv, NextRetried DEF Covered
<1>3. CASE LANCmdPeriod
    <2>1. /\ CmdPeriod /\ UNCHANGED losses
          /\ ahead' = [s \in scheduled' |-> ahead[s] \cap scheduled']
        BY <1>3 DEF LANCmdPeriod
    <2>2. Next /\ UNCHANGED connectionState
        BY <2>1 DEF Next, CmdPeriod
    <2>3. InTurn' /\ RetriesBounded'
        BY <2>1, LANCmdPeriodBounds
    <2> QED
        BY <2>1, <2>2, <2>3, NextIInv, NextRetried DEF Covered
<1>4. CASE LANLose
    <2>1. Lose /\ losses < MaxLosses /\ losses' = losses + 1 /\ UNCHANGED ahead
        BY <1>4 DEF LANLose
    <2>2. Next /\ UNCHANGED connectionState
        BY <2>1 DEF Next, Lose, senderVars
    <2>3. InTurn' /\ RetriesBounded'
        BY <2>1, LANLoseBounds
    <2>4. losses' \in 0 .. MaxLosses
        BY <2>1, LANTypes
    <2> QED
        BY <2>2, <2>3, <2>4, NextIInv, NextRetried DEF Covered
<1>5. CASE LANReceiveSend
    <2>1. PICK p \in data : ReceiveSend(p)
        BY <1>5 DEF LANReceiveSend
    <2>2. UNCHANGED <<losses, ahead>>
        BY <1>5 DEF LANReceiveSend
    <2>3. Next /\ UNCHANGED connectionState
        BY <2>1 DEF Next, ReceiveSend, senderVars
    <2>4. InTurn' /\ RetriesBounded'
        BY <2>1, <2>2, LANReceiveSendBounds
    <2> QED
        BY <2>2, <2>3, <2>4, NextIInv, NextRetried DEF Covered
<1>6. CASE LANReceiveAck
    <2>1. PICK a \in acks : ReceiveAck(a)
        BY <1>6 DEF LANReceiveAck
    <2>2. UNCHANGED <<losses, ahead>>
        BY <1>6 DEF LANReceiveAck
    <2>3. Next /\ UNCHANGED connectionState
        BY <2>1 DEF Next, ReceiveAck
    <2>4. InTurn' /\ RetriesBounded'
        BY <2>1, <2>2, LANReceiveAckBounds
    <2> QED
        BY <2>2, <2>3, <2>4, NextIInv, NextRetried DEF Covered
<1>7. CASE UNCHANGED lanVars
    <2>1. UNCHANGED vars /\ UNCHANGED <<losses, ahead>>
        BY <1>7 DEF lanVars
    <2>2. UNCHANGED <<connectionState, sendAckSerial, scheduled, retries, data, acks>>
        BY <2>1 DEF vars, senderVars
    <2>3. InTurn' /\ RetriesBounded'
        BY <2>1, <2>2 DEF Covered, InTurn, RetriesBounded, Allowed, Oldest,
                          Unanswered, TicksFirst, InFlight
    <2> QED
        BY <2>1, <2>2, <2>3, NextIInv, NextRetried DEF Covered
<1> QED
    BY <1>1, <1>2, <1>3, <1>4, <1>5, <1>6, <1>7 DEF LANNext

(* The invariant of SCLOrkWire's retry jobs on a LAN: how many of its      *)
(* retransmissions each job (SCLOrkWireSendRetry) has used.                *)
THEOREM LANInvariance ==
    ASSUME WindowFits
    PROVE  LANSpec => []LANInv
<1>1. ASSUME RetriesSuffice, LANInit PROVE Covered
    <2>1. Init /\ losses = 0 /\ ahead = <<>>
        BY <1>1 DEF LANInit
    <2>2. scheduled = {} /\ connectionState = "connected" /\ sendSerial = 0
          /\ sendAckSerial = 0
        BY <2>1 DEF Init
    <2>3. IInv
        BY <2>1, InitIInv
    <2>4. UnackedIsRetried
        BY <2>2 DEF UnackedIsRetried
    <2>5. InTurn /\ RetriesBounded
        BY <2>1, <2>2 DEF InTurn, RetriesBounded
    <2> QED
        BY <2>1, <2>2, <2>3, <2>4, <2>5, LossesAssumption DEF Covered
<1>2. LANInit => LANInv
    BY <1>1 DEF LANInv
<1>3. LANInv /\ [LANNext]_lanVars => LANInv'
    BY LANStep DEF LANInv, RetriesSuffice
<1> QED
    BY <1>2, <1>3, PTL DEF LANSpec

(* The retransmissions of a job (SCLOrkWireSendRetry) suffice on a LAN: if *)
(* the network loses at most MaxLosses datagrams in a session and each of  *)
(* the others is answered within the timeout, more than MaxLosses retries, *)
(* and two for each other message of the window, keep the wire connected;  *)
(* whatever acknowledgements prBindAck throws away, and although the last  *)
(* retry is never of use.                                                  *)
THEOREM RetriesSufficeOnLAN ==
    ASSUME WindowFits
    PROVE  LANSpec => []NoSpuriousFailure
<1>1. LANInv => NoSpuriousFailure
    BY DEF LANInv, NoSpuriousFailure, Covered
<1> QED
    BY <1>1, LANInvariance, PTL

(* A step of the wire on a LAN is one of the session's.                    *)
LEMMA LANStepIsStep ==
    ASSUME IInv, [LANNext]_lanVars
    PROVE  [Next]_vars
<1>1. LANSend \/ LANReceiveSend \/ LANReceiveAck => Next
    BY DEF LANSend, LANReceiveSend, LANReceiveAck, Next
<1>2. LANCmdPeriod \/ LANLose => Next
    BY DEF LANCmdPeriod, LANLose, Next
<1>3. LANTick => Next
    BY DEF LANTick, Next, IInv, TypeOK
<1>4. UNCHANGED lanVars => UNCHANGED vars
    BY DEF lanVars
<1> QED
    BY <1>1, <1>2, <1>3, <1>4 DEF LANNext

(* On a LAN whose losses the retries cover, the wire is a channel that     *)
(* never gives up: whatever is sent is delivered in order, and forgotten   *)
(* when it has been delivered (SCLOrkWireSendRetry, prBindSend, prBindAck).*)
THEOREM LANRefinement ==
    ASSUME WindowFits
    PROVE  LANSpec => ImplementsLosslessChannel
<1>1. LANInit => Channel!Init
    BY DEF LANInit, Init, Channel!Init
<1>2. LANInit => IInv
    BY InitIInv DEF LANInit
<1>3. IInv /\ [LANNext]_lanVars => [Next]_vars
    BY LANStepIsStep
<1>4. IInv /\ [LANNext]_lanVars => IInv'
    BY <1>3, NextIInv
<1>5. IInv /\ IInv' /\ LANInv' /\ [LANNext]_lanVars =>
         [IF RetriesSuffice THEN Channel!Carry ELSE Channel!Next]_(Channel!vars)
    <2> SUFFICES ASSUME IInv, IInv', LANInv', [LANNext]_lanVars
                 PROVE  [IF RetriesSuffice THEN Channel!Carry
                         ELSE Channel!Next]_(Channel!vars)
        OBVIOUS
    <2>1. [Channel!Next]_(Channel!vars)
        BY <1>3, NextChannel
    <2>2. RetriesSuffice => ~Channel!GiveUp
        BY DEF LANInv, Covered, RetriesSuffice, Channel!GiveUp
    <2> QED
        BY <2>1, <2>2 DEF Channel!Next
<1> QED
    BY <1>1, <1>2, <1>4, <1>5, LANInvariance, PTL
       DEF LANSpec, ImplementsLosslessChannel
=============================================================================
