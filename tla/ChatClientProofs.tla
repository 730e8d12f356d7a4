-------------------------- MODULE ChatClientProofs --------------------------
(***************************************************************************)
(* Proofs about module ChatClient, for any number of clients and users,    *)
(* any length of the ring and of a reply, any timeout and any number of    *)
(* failures: what a client the server has told everything knows, and what  *)
(* a poll is answered with.                                                *)
(*                                                                         *)
(* The ring forgets messages, and a roster is a snapshot with changes      *)
(* older and newer than itself applied to it, so the argument is about the *)
(* log of every message the server has numbered.  The log is no variable:  *)
(* the invariant says that there is one.                                   *)
(***************************************************************************)
EXTENDS ChatClient, NumberLemmas, FiniteSetTheorems, SequenceTheorems, TLAPS

----------------------------------------------------------------------------
(***************************************************************************)
(* Types                                                                   *)
(***************************************************************************)
Rosters == UNION {[D -> Names] : D \in SUBSET Ids}

(* What a message of the ring says.                                        *)
Bodies ==
    [path : {"chatChangeClient"},
     change : {"add", "rename", "remove", "timeout"}, id : Ids, name : Names]
    \cup [path : {"chatReceive"}, id : Ids]

Numbered == [serial : Nat, msg : Bodies]

Responses ==
    [path : {"chatSignInComplete"}, id : Ids]
    \cup [path : {"chatSetAllClients"}, nameMap : Rosters]
    \cup [path : {"message"}, message : Numbered]

ClientRecords ==
    [userId : Ids \cup {Nil}, messageSerial : Nat, nameMap : Rosters,
     polling : BOOLEAN, signInFunc : BOOLEAN]

(* What has been freed is older than the ring, and than the message its    *)
(* first comparison misses.                                                *)
FreedBefore == \A s \in freed : s \in Nat /\ s + MessageArraySize < messageSerial

ServerTyped ==
    /\ userSerial \in Nat /\ messageSerial \in Nat /\ FreedBefore
    /\ nameMap \in Rosters
    /\ DOMAIN clientPings \subseteq Ids /\ IsFiniteSet(DOMAIN clientPings)
    /\ \A id \in DOMAIN clientPings : clientPings[id] \in 0 .. Timeout

(* The ring holds the newest messages, each in the slot of its serial.     *)
RingHolds ==
    \A s \in 0 .. messageSerial - 1 :
        s + MessageArraySize >= messageSerial =>
            /\ messages[s % MessageArraySize] \in Numbered
            /\ messages[s % MessageArraySize].serial = s

ClientTyped(c) ==
    /\ client[c] \in ClientRecords
    /\ toClient[c] \in Seq(Responses)
    /\ client[c].polling => client[c].userId \in Ids
    /\ \A i \in 1 .. Len(toClient[c]) :
          /\ toClient[c][i].path = "message" =>
                toClient[c][i].message.serial \in 1 .. messageSerial - 1
          /\ toClient[c][i].path = "chatSetAllClients" => client[c].userId \in Ids

TypeInv ==
    /\ ServerTyped
    /\ RingHolds
    /\ open \subseteq Clients
    /\ DOMAIN client = Clients /\ DOMAIN toClient = Clients
    /\ \A c \in Clients : ClientTyped(c)

----------------------------------------------------------------------------
(***************************************************************************)
(* Rosters                                                                 *)
(***************************************************************************)
(* A roster gives each of its ids a name.                                  *)
LEMMA RosterValues ==
    ASSUME NEW f \in Rosters
    PROVE  /\ DOMAIN f \subseteq Ids
           /\ \A id \in DOMAIN f : f[id] \in Names
BY DEF Rosters

LEMMA EmptyRoster == <<>> \in Rosters /\ DOMAIN <<>> = {}
<1>1. DOMAIN <<>> = {} /\ <<>> \in [{} -> Names]
    OBVIOUS
<1> QED
    BY <1>1 DEF Rosters

(* Entering a user.                                                        *)
LEMMA WithRoster ==
    ASSUME NEW f, NEW x, NEW y
    PROVE  /\ DOMAIN With(f, x, y) = DOMAIN f \cup {x}
           /\ With(f, x, y)[x] = y
           /\ \A z \in DOMAIN f : z # x => With(f, x, y)[z] = f[z]
           /\ f \in Rosters /\ x \in Ids /\ y \in Names => With(f, x, y) \in Rosters
<1>1. /\ DOMAIN With(f, x, y) = DOMAIN f \cup {x}
      /\ With(f, x, y)[x] = y
      /\ \A z \in DOMAIN f : z # x => With(f, x, y)[z] = f[z]
    BY DEF With
<1>2. ASSUME f \in Rosters, x \in Ids, y \in Names
      PROVE  With(f, x, y) \in Rosters
    <2> DEFINE D == DOMAIN f \cup {x}
    <2>1. With(f, x, y) \in [D -> Names]
        BY <1>2, RosterValues DEF With
    <2>2. D \in SUBSET Ids
        BY <1>2, RosterValues
    <2> QED
        BY <2>1, <2>2 DEF Rosters
<1> QED
    BY <1>1, <1>2

(* Removing users.                                                         *)
LEMMA WithoutRoster ==
    ASSUME NEW f, NEW S
    PROVE  /\ DOMAIN Without(f, S) = DOMAIN f \ S
           /\ \A z \in DOMAIN f \ S : Without(f, S)[z] = f[z]
           /\ f \in Rosters => Without(f, S) \in Rosters
<1>1. /\ DOMAIN Without(f, S) = DOMAIN f \ S
      /\ \A z \in DOMAIN f \ S : Without(f, S)[z] = f[z]
    BY DEF Without, Restrict
<1>2. ASSUME f \in Rosters PROVE Without(f, S) \in Rosters
    <2> DEFINE D == DOMAIN f \ S
    <2>1. Without(f, S) \in [D -> Names]
        BY <1>2, RosterValues DEF Without, Restrict
    <2>2. D \in SUBSET Ids
        BY <1>2, RosterValues
    <2> QED
        BY <2>1, <2>2 DEF Rosters
<1> QED
    BY <1>1, <1>2

----------------------------------------------------------------------------
(***************************************************************************)
(* The ring                                                                *)
(***************************************************************************)
LEMMA SizesTyped ==
    /\ MessageArraySize \in Nat \ {0}
    /\ MaxMessagesPerRequest \in Nat /\ MaxMessagesPerRequest >= 1
    /\ MaxMessagesPerRequest <= MessageArraySize
    /\ Timeout \in Nat \ {0}
BY SizesAssumption

(* The messages of the ring after some have been queued: these, and of the *)
(* others the ones that are left.                                          *)
RingAfter(queued) ==
    \A s \in 0 .. messageSerial + Len(queued) - 1 :
        s + MessageArraySize >= messageSerial + Len(queued) =>
            messages'[s % MessageArraySize] =
                IF s < messageSerial THEN messages[s % MessageArraySize]
                ELSE [serial |-> s, msg |-> queued[s - messageSerial + 1]]

LEMMA QueueRing ==
    ASSUME messageSerial \in Nat, NEW queued, Len(queued) \in Nat,
           QueueMessages(queued)
    PROVE  /\ messageSerial' = messageSerial + Len(queued)
           /\ RingAfter(queued)
<1> DEFINE serials == messageSerial .. messageSerial + Len(queued) - 1
           numbered == [s \in serials |->
                           [serial |-> s, msg |-> queued[s - messageSerial + 1]]]
           Newest(i) == {s \in serials : s % MessageArraySize = i}
           slot(s) == s % MessageArraySize
<1>1. /\ messageSerial' = messageSerial + Len(queued)
      /\ messages' = [i \in Slots |-> IF Newest(i) = {} THEN messages[i]
                                      ELSE numbered[Max(Newest(i))]]
    BY DEF QueueMessages
<1>2. ASSUME NEW s \in 0 .. messageSerial + Len(queued) - 1,
             s + MessageArraySize >= messageSerial + Len(queued)
      PROVE  messages'[slot(s)] = IF s < messageSerial THEN messages[slot(s)]
                ELSE [serial |-> s, msg |-> queued[s - messageSerial + 1]]
    <2>1. s \in Nat /\ slot(s) \in Slots
        <3>1. s \in Nat
            OBVIOUS
        <3> QED
            BY <3>1, DivMod, SizesTyped DEF Slots
    <2>2. ASSUME NEW t \in Newest(slot(s)) PROVE t <= s
        <3>1. t \in Nat /\ t < messageSerial + Len(queued) /\ t % MessageArraySize = s % MessageArraySize
            OBVIOUS
        <3>2. CASE s < t
            <4>1. t >= s + MessageArraySize
                BY <2>1, <3>1, <3>2, ResiduesApart, SizesTyped
            <4> QED
                BY <4>1, <3>1, <1>2, <2>1, SizesTyped
        <3> QED
            BY <3>1, <3>2, <2>1
    <2>3. messages'[slot(s)] = IF Newest(slot(s)) = {} THEN messages[slot(s)]
                                ELSE numbered[Max(Newest(slot(s)))]
        BY <1>1, <2>1
    <2>4. CASE s < messageSerial
        <3>1. Newest(slot(s)) = {}
            <4> SUFFICES ASSUME NEW t \in Newest(slot(s)) PROVE FALSE
                OBVIOUS
            <4> QED
                BY <2>2, <2>4
        <3> QED
            BY <3>1, <2>3, <2>4
    <2>5. CASE s >= messageSerial
        <3>1. s \in Newest(slot(s))
            BY <2>5, <2>1
        <3>2. Max(Newest(slot(s))) = s
            <4> DEFINE S == Newest(slot(s))
            <4>1. \A y \in S : s >= y
                BY <2>2
            <4>2. S \subseteq Nat /\ s \in S
                BY <3>1
            <4> HIDE DEF S
            <4>3. \E x \in S : \A y \in S : x >= y
                BY <4>1, <4>2
            <4>4. Max(S) \in S /\ \A y \in S : Max(S) >= y
                BY <4>3 DEF Max
            <4>5. Max(S) \in Nat /\ s \in Nat /\ s >= Max(S) /\ Max(S) >= s
                BY <4>1, <4>2, <4>4
            <4>6. Max(S) = s
                BY <4>5
            <4> QED
                BY <4>6 DEF S
        <3>3. messages'[slot(s)] = numbered[s]
            BY <3>1, <3>2, <2>3
        <3>4. s \in serials /\ ~ (s < messageSerial)
            BY <2>1, <2>5
        <3> HIDE DEF slot, serials
        <3>5. numbered[s] = [serial |-> s, msg |-> queued[s - messageSerial + 1]]
            BY <3>4
        <3> QED
            BY <3>3, <3>4, <3>5
    <2> QED
        BY <2>1, <2>4, <2>5
<1> QED
    BY <1>1, <1>2 DEF RingAfter

(* Only messages whose slot is taken are freed.                            *)
LEMMA QueueFrees ==
    ASSUME messageSerial \in Nat, FreedBefore, NEW queued,
           Len(queued) \in Nat, QueueMessages(queued)
    PROVE  FreedBefore'
<1> DEFINE N == MessageArraySize
           k == Len(queued)
           m == messageSerial
           serials == m .. m + k - 1
<1>1. /\ messageSerial' = m + k
      /\ freed' = freed \cup {s - N : s \in {t \in serials : Frees(t)}}
    BY DEF QueueMessages
<1>2. N \in Nat /\ k \in Nat /\ m \in Nat
    BY SizesTyped
<1>3. \A t \in serials : Frees(t) => t > N
    BY DEF Frees
<1> HIDE DEF N, k, m
<1>4. ASSUME NEW s \in freed' PROVE s \in Nat /\ s + N < m + k
    <2>1. CASE s \in freed
        <3>1. s \in Nat /\ s + N < m
            BY <2>1 DEF FreedBefore, N, m
        <3> QED
            BY <1>2, <3>1
    <2>2. CASE s \notin freed
        <3>1. PICK t \in serials : Frees(t) /\ s = t - N
            BY <1>1, <2>2
        <3> QED
            BY <1>2, <1>3, <3>1
    <2> QED
        BY <2>1, <2>2
<1> QED
    BY <1>1, <1>4 DEF FreedBefore, N, k, m

----------------------------------------------------------------------------
(***************************************************************************)
(* What the server does, seen from its log                                 *)
(***************************************************************************)
About(m, id) == m.path = "chatChangeClient" /\ m.id = id

Agree(f, g, id) ==
    /\ id \in DOMAIN f <=> id \in DOMAIN g
    /\ id \in DOMAIN f => f[id] = g[id]

(* A roster is as a change leaves it.                                      *)
Settled(f, m) ==
    /\ m.change \in {"add", "rename"} => m.id \in DOMAIN f /\ f[m.id] = m.name
    /\ m.change \in {"remove", "timeout"} => m.id \notin DOMAIN f

LEMMA WithSettles ==
    ASSUME NEW f, NEW id, NEW name, NEW g, g = With(f, id, name)
    PROVE  /\ id \in DOMAIN g /\ g[id] = name
           /\ \A i : i # id => Agree(g, f, i)
<1>1. DOMAIN g = DOMAIN f \cup {id} /\ g[id] = name
    BY DEF With
<1>2. ASSUME NEW i, i # id PROVE Agree(g, f, i)
    <2>1. i \in DOMAIN f => g[i] = f[i]
        BY <1>2 DEF With
    <2> QED
        BY <1>1, <1>2, <2>1 DEF Agree
<1> QED
    BY <1>1, <1>2

LEMMA WithoutSettles ==
    ASSUME NEW f, NEW S, NEW g, g = Without(f, S)
    PROVE  /\ DOMAIN g = DOMAIN f \ S
           /\ \A i : i \notin S => Agree(g, f, i)
<1>1. DOMAIN g = DOMAIN f \ S
    BY DEF Without, Restrict
<1>2. ASSUME NEW i, i \notin S PROVE Agree(g, f, i)
    <2>1. i \in DOMAIN f => g[i] = f[i]
        BY <1>2 DEF Without, Restrict
    <2> QED
        BY <1>1, <1>2, <2>1 DEF Agree
<1> QED
    BY <1>1, <1>2

(* A step of the server numbers these messages, and changes the roster as  *)
(* they say.                                                               *)
Logs(queued) ==
    /\ queued \in Seq(Bodies)
    /\ messageSerial' = messageSerial + Len(queued)
    /\ RingAfter(queued)
    /\ \A id : (\A i \in 1 .. Len(queued) : ~ About(queued[i], id)) =>
                  Agree(nameMap', nameMap, id)
    /\ \A i \in 1 .. Len(queued) :
          queued[i].path = "chatChangeClient" => Settled(nameMap', queued[i])

LEMMA LogsNothing ==
    ASSUME messageSerial \in Nat, UNCHANGED <<nameMap, messageSerial, messages>>
    PROVE  Logs(<<>>)
<1>1. <<>> \in Seq(Bodies) /\ Len(<<>>) = 0
    BY EmptySeq
<1>2. RingAfter(<<>>)
    BY <1>1 DEF RingAfter
<1>3. \A id : Agree(nameMap', nameMap, id)
    BY DEF Agree
<1> QED
    BY <1>1, <1>2, <1>3 DEF Logs

LEMMA LogsOne ==
    ASSUME ServerTyped, NEW m \in Bodies, QueueMessages(<<m>>),
           m.path = "chatChangeClient" => Settled(nameMap', m),
           \A id : ~ About(m, id) => Agree(nameMap', nameMap, id)
    PROVE  /\ Logs(<<m>>)
           /\ messageSerial' \in Nat /\ FreedBefore'
<1>1. <<m>> \in Seq(Bodies) /\ Len(<<m>>) = 1 /\ <<m>>[1] = m
    OBVIOUS
<1>2. messageSerial \in Nat /\ FreedBefore
    BY DEF ServerTyped
<1> DEFINE queued == <<m>>
<1> HIDE DEF queued
<1>3. /\ queued \in Seq(Bodies) /\ Len(queued) = 1 /\ queued[1] = m
      /\ QueueMessages(queued)
    BY <1>1 DEF queued
<1>4. /\ messageSerial' = messageSerial + Len(queued)
      /\ RingAfter(queued)
      /\ FreedBefore'
    <2>1. Len(queued) \in Nat
        BY <1>3
    <2>2. messageSerial' = messageSerial + Len(queued) /\ RingAfter(queued)
        BY <1>2, <1>3, <2>1, QueueRing
    <2> QED
        BY <1>2, <1>3, <2>1, <2>2, QueueFrees
<1>5. Logs(queued)
    BY <1>3, <1>4 DEF Logs
<1> QED
    BY <1>2, <1>3, <1>4, <1>5 DEF queued

LEMMA SignInLogs ==
    ASSUME ServerTyped, NEW c \in Clients, NEW name \in Names, SignIn(c, name)
    PROVE  ServerTyped' /\ Logs(<<ChangeClient("add", userSerial + 1, name)>>)
<1> DEFINE id == userSerial + 1
           m == ChangeClient("add", id, name)
<1>1. id \in Ids /\ userSerial' = id /\ nameMap' = With(nameMap, id, name)
    BY DEF ServerTyped, SignIn, Ids
<1>2. QueueMessages(<<m>>) /\ clientPings' = clientPings
    BY DEF SignIn
<1>3. m \in Bodies
    BY <1>1 DEF ChangeClient, Bodies
<1> HIDE DEF id
<1>4. nameMap' \in Rosters
    BY <1>1, WithRoster DEF ServerTyped
<1>5. Settled(nameMap', m)
    BY <1>1, WithSettles DEF Settled, ChangeClient
<1>6. ASSUME NEW i, ~ About(m, i) PROVE Agree(nameMap', nameMap, i)
    <2>1. i # id
        BY <1>6 DEF About, ChangeClient
    <2> QED
        BY <2>1, <1>1, WithSettles
<1> HIDE DEF m
<1>7. Logs(<<m>>) /\ messageSerial' \in Nat /\ FreedBefore'
    BY <1>2, <1>3, <1>5, <1>6, LogsOne
<1> QED
    BY <1>1, <1>2, <1>4, <1>7 DEF ServerTyped, Ids, m, id

(* A request without an id is refused.                                     *)
LEMMA RefuseLogs ==
    ASSUME ServerTyped, Refuse
    PROVE  ServerTyped' /\ \E queued : Logs(queued)
<1>1. Logs(<<>>)
    BY LogsNothing DEF ServerTyped, Refuse
<1> QED
    BY <1>1 DEF ServerTyped, FreedBefore, Refuse

LEMMA SendMessageLogs ==
    ASSUME ServerTyped, NEW id \in Ids, id # Nil, SendMessage(id)
    PROVE  ServerTyped' /\ Logs(<<Receive(id)>>)
<1>1. Receive(id) \in Bodies /\ Receive(id).path # "chatChangeClient"
    BY DEF Bodies, Receive
<1>2. \A i : Agree(nameMap', nameMap, i)
    BY DEF Agree, SendMessage
<1>3. /\ Logs(<<Receive(id)>>)
      /\ messageSerial' \in Nat /\ FreedBefore'
    BY <1>1, <1>2, LogsOne DEF SendMessage
<1> QED
    BY <1>3 DEF ServerTyped, SendMessage

LEMMA ChangeNameLogs ==
    ASSUME ServerTyped, NEW id \in Ids, id # Nil, NEW name \in Names,
           ChangeName(id, name)
    PROVE  ServerTyped' /\ Logs(<<ChangeClient("rename", id, name)>>)
<1> DEFINE m == ChangeClient("rename", id, name)
<1>1. /\ nameMap' = With(nameMap, id, name) /\ QueueMessages(<<m>>)
      /\ UNCHANGED <<userSerial, clientPings>>
    BY DEF ChangeName
<1>2. m \in Bodies
    BY DEF ChangeClient, Bodies
<1>3. nameMap' \in Rosters
    BY <1>1, WithRoster DEF ServerTyped
<1>4. Settled(nameMap', m)
    BY <1>1, WithSettles DEF Settled, ChangeClient
<1>5. ASSUME NEW i, ~ About(m, i) PROVE Agree(nameMap', nameMap, i)
    <2>1. i # id
        BY <1>5 DEF About, ChangeClient
    <2> QED
        BY <2>1, <1>1, WithSettles
<1> HIDE DEF m
<1>6. Logs(<<m>>) /\ messageSerial' \in Nat /\ FreedBefore'
    BY <1>1, <1>2, <1>4, <1>5, LogsOne
<1> QED
    BY <1>1, <1>3, <1>6 DEF ServerTyped, m

LEMMA SignOutLogs ==
    ASSUME ServerTyped, NEW id \in Ids, id # Nil, SignOut(id)
    PROVE  ServerTyped' /\ \E queued : Logs(queued)
<1>1. CASE id \notin DOMAIN nameMap
    <2>1. UNCHANGED <<nameMap, messageSerial, messages, freed, userSerial,
                      clientPings>>
        BY <1>1 DEF SignOut, Refuse
    <2>2. Logs(<<>>)
        BY <2>1, LogsNothing DEF ServerTyped
    <2> QED
        BY <2>1, <2>2 DEF ServerTyped, FreedBefore
<1>2. CASE id \in DOMAIN nameMap
    <2> DEFINE m == ChangeClient("remove", id, nameMap[id])
    <2>1. /\ nameMap' = Without(nameMap, {id}) /\ QueueMessages(<<m>>)
          /\ UNCHANGED <<userSerial, clientPings>>
        BY <1>2 DEF SignOut
    <2>2. m \in Bodies
        BY <1>2, RosterValues DEF ChangeClient, Bodies, ServerTyped
    <2>3. nameMap' \in Rosters
        BY <2>1, WithoutRoster DEF ServerTyped
    <2>4. Settled(nameMap', m)
        <3>1. DOMAIN nameMap' = DOMAIN nameMap \ {id}
            BY <2>1, WithoutSettles
        <3>2. m.id = id /\ m.change = "remove"
            BY DEF ChangeClient
        <3> HIDE DEF m
        <3> QED
            BY <3>1, <3>2 DEF Settled
    <2>5. ASSUME NEW i, ~ About(m, i) PROVE Agree(nameMap', nameMap, i)
        <3>1. i # id
            BY <2>5 DEF About, ChangeClient
        <3> QED
            BY <3>1, <2>1, WithoutSettles
    <2> HIDE DEF m
    <2>6. Logs(<<m>>) /\ messageSerial' \in Nat /\ FreedBefore'
        BY <2>1, <2>2, <2>4, <2>5, LogsOne
    <2> QED
        BY <2>1, <2>3, <2>6 DEF ServerTyped
<1> QED
    BY <1>1, <1>2

LEMMA GetMessagesLogs ==
    ASSUME ServerTyped, NEW c \in Clients, NEW userID \in Ids, NEW messageID \in Nat,
           GetMessages(c, userID, messageID)
    PROVE  ServerTyped' /\ \E queued : Logs(queued)
<1> DEFINE pings == With(clientPings, userID, 0)
           stale == Stale(pings)
           gone == stale \cap DOMAIN nameMap
           timeout(id) == ChangeClient("timeout", id, nameMap[id])
<1>1. PICK order \in Bijection(1 .. Cardinality(gone), gone) :
         QueueMessages([i \in DOMAIN order |-> timeout(order[i])])
    BY DEF GetMessages
<1>2. /\ clientPings' = Without(pings, stale) /\ nameMap' = Without(nameMap, gone)
      /\ userSerial' = userSerial
    BY DEF GetMessages
<1>3. /\ DOMAIN pings \subseteq Ids /\ IsFiniteSet(DOMAIN pings)
      /\ \A id \in DOMAIN pings : pings[id] \in 0 .. Timeout
    <2>1. /\ DOMAIN pings = DOMAIN clientPings \cup {userID}
          /\ \A id \in DOMAIN pings :
                pings[id] = IF id = userID THEN 0 ELSE clientPings[id]
        BY DEF With
    <2>2. /\ DOMAIN clientPings \subseteq Ids /\ IsFiniteSet(DOMAIN clientPings)
          /\ \A id \in DOMAIN clientPings : clientPings[id] \in 0 .. Timeout
        BY DEF ServerTyped
    <2> HIDE DEF pings
    <2> QED
        BY <2>1, <2>2, FS_AddElement, SizesTyped
<1> HIDE DEF pings
<1>4. stale \in SUBSET DOMAIN pings
    BY DEF Stale
<1> HIDE DEF stale
<1>5. IsFiniteSet(gone) /\ Cardinality(gone) \in Nat
    <2>1. gone \in SUBSET DOMAIN pings
        BY <1>4
    <2> QED
        BY <1>3, <2>1, FS_Subset, FS_CardinalityType
<1>6. /\ DOMAIN clientPings' \subseteq Ids /\ IsFiniteSet(DOMAIN clientPings')
      /\ \A id \in DOMAIN clientPings' : clientPings'[id] \in 0 .. Timeout
    <2>1. /\ DOMAIN clientPings' = DOMAIN pings \ stale
          /\ \A id \in DOMAIN clientPings' : clientPings'[id] = pings[id]
        BY <1>2 DEF Without, Restrict
    <2>2. IsFiniteSet(DOMAIN pings \ stale)
        BY <1>3, FS_Difference
    <2> QED
        BY <1>3, <2>1, <2>2
<1> DEFINE n == Cardinality(gone)
           queued == [i \in DOMAIN order |-> timeout(order[i])]
<1>7. /\ order \in [1 .. n -> gone] /\ DOMAIN order = 1 .. n
      /\ \A id \in gone : \E i \in 1 .. n : order[i] = id
    BY <1>1 DEF Bijection, Injection, Surjection
<1>8. /\ gone \subseteq DOMAIN nameMap
      /\ \A id \in gone : timeout(id) \in Bodies
    BY RosterValues DEF ChangeClient, Bodies, ServerTyped
<1>9. /\ queued \in Seq(Bodies) /\ Len(queued) = n
      /\ \A i \in 1 .. n : queued[i] = timeout(order[i])
    <2> HIDE DEF n, gone, timeout
    <2>1. queued \in [1 .. n -> Bodies] /\ n \in Nat
        BY <1>5, <1>7, <1>8 DEF n
    <2>2. queued \in Seq(Bodies) /\ Len(queued) = n
        BY <2>1
    <2> QED
        BY <2>2, <1>7
<1>10. nameMap' \in Rosters
    BY <1>2, WithoutRoster DEF ServerTyped
<1>11. ASSUME NEW i \in 1 .. n PROVE Settled(nameMap', queued[i])
    <2>1. queued[i] = timeout(order[i]) /\ order[i] \in gone
        BY <1>7, <1>9
    <2>2. DOMAIN nameMap' = DOMAIN nameMap \ gone
        BY <1>2, WithoutSettles
    <2>3. order[i] \notin DOMAIN nameMap'
        BY <2>1, <2>2
    <2> QED
        BY <2>1, <2>3 DEF Settled, ChangeClient
<1>12. ASSUME NEW id, \A i \in 1 .. n : ~ About(queued[i], id)
       PROVE  Agree(nameMap', nameMap, id)
    <2>1. id \notin gone
        <3> SUFFICES ASSUME id \in gone PROVE FALSE
            OBVIOUS
        <3>1. PICK i \in 1 .. n : order[i] = id
            BY <1>7
        <3>2. About(queued[i], id)
            BY <1>9, <3>1 DEF About, ChangeClient
        <3> QED
            BY <1>12, <3>2
    <2> HIDE DEF gone
    <2> QED
        BY <1>2, <2>1, WithoutSettles
<1>13. QueueMessages(queued)
    BY <1>1
<1> HIDE DEF queued, n, gone
<1>14. /\ messageSerial' = messageSerial + Len(queued) /\ RingAfter(queued)
       /\ FreedBefore' /\ messageSerial' \in Nat
    <2>1. messageSerial \in Nat /\ FreedBefore /\ Len(queued) \in Nat
        BY <1>9 DEF ServerTyped
    <2>2. messageSerial' = messageSerial + Len(queued)
        BY <1>13, <2>1, QueueRing
    <2> QED
        BY <1>13, <2>1, <2>2, QueueRing, QueueFrees
<1>15. Logs(queued)
    BY <1>9, <1>11, <1>12, <1>14 DEF Logs
<1> QED
    BY <1>2, <1>6, <1>10, <1>14, <1>15 DEF ServerTyped

----------------------------------------------------------------------------
(***************************************************************************)
(* What a step does to a client                                            *)
(***************************************************************************)
Path(c, i) == toClient[c][i].path
SerialOf(c, i) == toClient[c][i].message.serial

(* The client has read so many responses, and been sent some.              *)
Moves(c, read, replies) ==
    /\ replies \in Seq(Responses)
    /\ toClient'[c] \in Seq(Responses)
    /\ Len(toClient'[c]) = Len(toClient[c]) - read + Len(replies)
    /\ \A i \in 1 .. Len(toClient'[c]) :
          toClient'[c][i] =
              IF i + read <= Len(toClient[c]) THEN toClient[c][i + read]
              ELSE replies[i + read - Len(toClient[c])]

Answer(messageID) ==
    [i \in 1 .. messageSerial - 1 - StartAfter(messageID) |->
        [path |-> "message",
         message |-> messages[(StartAfter(messageID) + i) % MessageArraySize]]]

(* Nothing happens to the client, or its connection is lost, or it stops.  *)
Rests(c) ==
    /\ client'[c] \in ClientRecords
    /\ client'[c].userId = client[c].userId
    /\ client'[c].messageSerial = client[c].messageSerial
    /\ client'[c].nameMap = client[c].nameMap
    /\ client'[c].polling => client[c].polling
    /\ Moves(c, 0, <<>>) \/ Moves(c, Len(toClient[c]), <<>>)

SignsIn(c) ==
    /\ client'[c] = client[c]
    /\ messageSerial' > 0
    /\ \E id \in Ids : Moves(c, 0, <<[path |-> "chatSignInComplete", id |-> id]>>)

Polls(c) ==
    /\ client'[c] = client[c]
    /\ client[c].polling
    /\ Moves(c, 0, Answer(client[c].messageSerial))
    /\ StartAfter(client[c].messageSerial) > client[c].messageSerial =>
          c \in truncated'

First(c, path) == toClient[c] # <<>> /\ Path(c, 1) = path

AsksForRoster(c) ==
    /\ First(c, "chatSignInComplete")
    /\ client'[c] = [client[c] EXCEPT !.userId = toClient[c][1].id]
    /\ Moves(c, 1, <<AllClients>>)
    /\ UNCHANGED <<nameMap, messageSerial>>

TakesRoster(c) ==
    /\ First(c, "chatSetAllClients")
    /\ client'[c] = [client[c] EXCEPT !.nameMap = toClient[c][1].nameMap,
                                      !.polling = TRUE]
    /\ Moves(c, 1, <<>>)
    /\ UNCHANGED <<nameMap, messageSerial>>

Acts(c) ==
    /\ First(c, "message")
    /\ SerialOf(c, 1) > client[c].messageSerial
    /\ client'[c] = [client[c] EXCEPT
          !.messageSerial = SerialOf(c, 1),
          !.nameMap = Changed(client[c].nameMap, toClient[c][1].message.msg)]
    /\ Moves(c, 1, <<>>)
    /\ UNCHANGED <<nameMap, messageSerial>>

Ignores(c) ==
    /\ \/ First(c, "chatSignInComplete")
       \/ First(c, "message") /\ SerialOf(c, 1) <= client[c].messageSerial
    /\ client'[c] = client[c]
    /\ Moves(c, 1, <<>>)
    /\ UNCHANGED <<nameMap, messageSerial>>

ClientSteps(c) ==
    \/ Rests(c) \/ SignsIn(c) \/ Polls(c)
    \/ AsksForRoster(c) \/ TakesRoster(c) \/ Acts(c) \/ Ignores(c)

(* A step other than a restart of the server, seen from the log and from   *)
(* the clients.                                                            *)
Steps ==
    /\ ServerTyped'
    /\ \E queued : Logs(queued)
    /\ DOMAIN client' = Clients /\ DOMAIN toClient' = Clients
    /\ open' \subseteq Clients
    /\ \A c \in Clients : ClientSteps(c)
    /\ truncated \subseteq truncated' /\ UNCHANGED restarted
    /\ \A c \in outOfTurn' :
          \/ c \in outOfTurn
          \/ c \in Clients /\ Acts(c) /\ SerialOf(c, 1) # client[c].messageSerial + 1

----------------------------------------------------------------------------
LEMMA NewestOfTwo ==
    ASSUME NEW a \in Int, NEW b \in Int
    PROVE  Max({a, b}) = IF a >= b THEN a ELSE b
<1>1. \E x \in {a, b} : \A y \in {a, b} : x >= y
    OBVIOUS
<1>2. Max({a, b}) \in {a, b} /\ \A y \in {a, b} : Max({a, b}) >= y
    BY <1>1 DEF Max
<1> QED
    BY <1>2

(* Where an answer starts: no further back than the ring reaches.          *)
LEMMA StartsInRing ==
    ASSUME messageSerial \in Nat, NEW messageID \in Nat
    PROVE  /\ StartAfter(messageID) \in Nat
           /\ StartAfter(messageID) + MessageArraySize + 1 >= messageSerial
           /\ StartAfter(messageID) <= messageID
                \/ StartAfter(messageID) > messageID
<1> DEFINE k == messageSerial - MaxMessagesPerRequest - 1
<1>1. Max({0, k}) = IF 0 >= k THEN 0 ELSE k
    BY NewestOfTwo, SizesTyped
<1>2. StartAfter(messageID) = IF messageSerial - messageID > MaxMessagesPerRequest
                              THEN Max({0, k}) ELSE messageID
    BY DEF StartAfter, Behind
<1> QED
    BY <1>1, <1>2, SizesTyped

(* An answer is made of the messages that follow the one it starts after.  *)
LEMMA Answers ==
    ASSUME ServerTyped, RingHolds, NEW messageID \in Nat
    PROVE  /\ Answer(messageID) \in Seq(Responses)
           /\ \A i \in 1 .. Len(Answer(messageID)) :
                 LET s == StartAfter(messageID) + i IN
                 /\ s \in 1 .. messageSerial - 1
                 /\ s + MessageArraySize >= messageSerial
                 /\ Answer(messageID)[i].path = "message"
                 /\ Answer(messageID)[i].message = messages[s % MessageArraySize]
                 /\ Answer(messageID)[i].message.serial = s
<1> DEFINE from == StartAfter(messageID)
           k == messageSerial - 1 - from
           n == IF k >= 0 THEN k ELSE 0
           response(i) == [path |-> "message",
                           message |-> messages[(from + i) % MessageArraySize]]
<1>1. /\ from \in Nat /\ from + MessageArraySize + 1 >= messageSerial
      /\ messageSerial \in Nat
    BY StartsInRing DEF ServerTyped
<1> HIDE DEF from
<1>2. n \in Nat /\ 1 .. k = 1 .. n
    BY <1>1
<1>3. ASSUME NEW i \in 1 .. n
      PROVE  /\ from + i \in 1 .. messageSerial - 1
             /\ from + i + MessageArraySize >= messageSerial
             /\ messages[(from + i) % MessageArraySize] \in Numbered
             /\ messages[(from + i) % MessageArraySize].serial = from + i
    <2>1. /\ from + i \in 0 .. messageSerial - 1 /\ from + i >= 1
          /\ from + i + MessageArraySize >= messageSerial
        BY <1>1, SizesTyped
    <2> QED
        BY <2>1 DEF RingHolds
<1>4. \A i \in 1 .. n : response(i) \in Responses
    BY <1>3 DEF Responses
<1>5. Answer(messageID) = [i \in 1 .. n |-> response(i)]
    BY <1>2 DEF Answer, from
<1> HIDE DEF n, k
<1>6. /\ Answer(messageID) \in Seq(Responses) /\ Len(Answer(messageID)) = n
      /\ \A i \in 1 .. n : Answer(messageID)[i] = response(i)
    <2>1. Answer(messageID) \in [1 .. n -> Responses]
        BY <1>4, <1>5
    <2> QED
        BY <1>2, <1>5, <2>1
<1> QED
    BY <1>3, <1>6 DEF from

(* The ways a connection moves.                                            *)
LEMMA MovesNot ==
    ASSUME NEW c, toClient[c] \in Seq(Responses), toClient'[c] = toClient[c]
    PROVE  Moves(c, 0, <<>>)
BY EmptySeq DEF Moves

LEMMA MovesAll ==
    ASSUME NEW c, toClient[c] \in Seq(Responses), toClient'[c] = <<>>
    PROVE  Moves(c, Len(toClient[c]), <<>>)
BY EmptySeq DEF Moves

LEMMA MovesOn ==
    ASSUME NEW c, toClient[c] \in Seq(Responses), NEW replies \in Seq(Responses),
           toClient'[c] = toClient[c] \o replies
    PROVE  Moves(c, 0, replies)
BY ConcatProperties DEF Moves

LEMMA MovesTail ==
    ASSUME NEW c, toClient[c] \in Seq(Responses), toClient[c] # <<>>,
           toClient'[c] = Tail(toClient[c])
    PROVE  Moves(c, 1, <<>>) /\ Head(toClient[c]) = toClient[c][1]
<1> DEFINE q == toClient[c]
           t == toClient'[c]
<1>1. /\ t \in Seq(Responses) /\ Len(t) = Len(q) - 1
      /\ \A i \in 1 .. Len(t) : t[i] = q[i + 1]
      /\ Len(q) \in Nat
    BY HeadTailProperties, LenProperties
<1>2. Head(q) = q[1]
    OBVIOUS
<1> HIDE DEF q, t
<1>3. \A i \in 1 .. Len(t) : i + 1 <= Len(q)
    BY <1>1
<1>4. Len(<<>>) = 0 /\ <<>> \in Seq(Responses)
    BY EmptySeq
<1> DEFINE none == <<>>
<1> HIDE DEF none
<1>5. /\ none \in Seq(Responses) /\ t \in Seq(Responses)
      /\ Len(t) = Len(q) - 1 + Len(none)
      /\ \A i \in 1 .. Len(t) :
            t[i] = IF i + 1 <= Len(q) THEN q[i + 1] ELSE none[i + 1 - Len(q)]
    <2>1. none \in Seq(Responses) /\ Len(none) = 0
        BY <1>4 DEF none
    <2> QED
        BY <1>1, <1>3, <2>1
<1>6. Moves(c, 1, none)
    BY <1>5 DEF Moves, q, t
<1> QED
    BY <1>2, <1>6 DEF none, q

LEMMA AppendTail ==
    ASSUME NEW S, NEW q \in Seq(S), q # <<>>, NEW r \in S
    PROVE  /\ Append(Tail(q), r) \in Seq(S)
           /\ Len(Append(Tail(q), r)) = Len(q)
           /\ Len(q) \in Nat
           /\ \A i \in 1 .. Len(q) :
                 Append(Tail(q), r)[i] = IF i + 1 <= Len(q) THEN q[i + 1] ELSE r
<1> DEFINE t == Tail(q)
<1>1. /\ t \in Seq(S) /\ Len(t) = Len(q) - 1 /\ Len(q) \in Nat
      /\ \A i \in 1 .. Len(t) : t[i] = q[i + 1]
    BY HeadTailProperties, LenProperties
<1> HIDE DEF t
<1>2. /\ Append(t, r) \in Seq(S) /\ Len(Append(t, r)) = Len(t) + 1
      /\ \A i \in 1 .. Len(t) : Append(t, r)[i] = t[i]
      /\ Append(t, r)[Len(t) + 1] = r
    BY <1>1, AppendProperties
<1>3. ASSUME NEW i \in 1 .. Len(q)
      PROVE  Append(t, r)[i] = IF i + 1 <= Len(q) THEN q[i + 1] ELSE r
    <2>1. CASE i + 1 <= Len(q)
        <3>1. i \in 1 .. Len(t)
            BY <1>1, <2>1
        <3> QED
            BY <1>1, <1>2, <2>1, <3>1
    <2>2. CASE ~ (i + 1 <= Len(q))
        <3>1. i = Len(t) + 1
            BY <1>1, <2>2
        <3> QED
            BY <1>2, <2>2, <3>1
    <2> QED
        BY <2>1, <2>2
<1>4. /\ Append(t, r) \in Seq(S)
      /\ Len(Append(t, r)) = Len(q)
      /\ Len(q) \in Nat
      /\ \A i \in 1 .. Len(q) :
            Append(t, r)[i] = IF i + 1 <= Len(q) THEN q[i + 1] ELSE r
    <2>1. Len(t) + 1 = Len(q)
        BY <1>1
    <2> QED
        BY <1>1, <1>2, <1>3, <2>1
<1> QED
    BY <1>4 DEF t

LEMMA MovesTailOn ==
    ASSUME NEW c, toClient[c] \in Seq(Responses), toClient[c] # <<>>,
           NEW r \in Responses, toClient'[c] = Append(Tail(toClient[c]), r)
    PROVE  Moves(c, 1, <<r>>) /\ Head(toClient[c]) = toClient[c][1]
<1> DEFINE q == toClient[c]
           t == toClient'[c]
           one == <<r>>
<1>1. /\ t \in Seq(Responses) /\ Len(t) = Len(q) /\ Len(q) \in Nat
      /\ \A i \in 1 .. Len(q) : t[i] = IF i + 1 <= Len(q) THEN q[i + 1] ELSE r
    BY AppendTail
<1>2. Head(q) = q[1]
    OBVIOUS
<1>3. one \in Seq(Responses) /\ Len(one) = 1 /\ one[1] = r
    OBVIOUS
<1> HIDE DEF q, t, one
<1>4. ASSUME NEW i \in 1 .. Len(t)
      PROVE  t[i] = IF i + 1 <= Len(q) THEN q[i + 1] ELSE one[i + 1 - Len(q)]
    <2>1. CASE i + 1 <= Len(q)
        BY <1>1, <2>1
    <2>2. CASE ~ (i + 1 <= Len(q))
        <3>1. i + 1 - Len(q) = 1
            BY <1>1, <2>2
        <3> QED
            BY <1>1, <1>3, <2>2, <3>1
    <2> QED
        BY <2>1, <2>2
<1>5. Len(t) = Len(q) - 1 + Len(one)
    BY <1>1, <1>3
<1> QED
    BY <1>1, <1>2, <1>3, <1>4, <1>5 DEF Moves, q, t, one

----------------------------------------------------------------------------
(* Each action is such a step.                                             *)
LEMMA Undisturbed ==
    ASSUME TypeInv, NEW c \in Clients,
           client'[c] = client[c], toClient'[c] = toClient[c]
    PROVE  ClientSteps(c)
<1>1. client[c] \in ClientRecords /\ Moves(c, 0, <<>>)
    BY MovesNot DEF TypeInv, ClientTyped
<1>2. Rests(c)
    BY <1>1 DEF Rests
<1> QED
    BY <1>2 DEF ClientSteps

LEMMA QuietServer ==
    ASSUME TypeInv, UNCHANGED <<userSerial, nameMap, clientPings, messageSerial,
                                messages, freed>>
    PROVE  ServerTyped' /\ \E queued : Logs(queued)
<1>1. Logs(<<>>)
    BY LogsNothing DEF TypeInv, ServerTyped
<1> QED
    BY <1>1 DEF TypeInv, ServerTyped, FreedBefore

LEMMA StutterSteps ==
    ASSUME TypeInv, UNCHANGED vars
    PROVE  Steps
<1> USE DEF vars, serverVars, tcpVars
<1>1. ServerTyped' /\ \E queued : Logs(queued)
    BY QuietServer
<1>2. \A c \in Clients : ClientSteps(c)
    BY Undisturbed
<1> QED
    BY <1>1, <1>2 DEF Steps, TypeInv

LEMMA TickSteps ==
    ASSUME TypeInv, Tick
    PROVE  Steps
<1> USE DEF Tick, Elapse, tcpVars, clientVars
<1>1. \E queued : Logs(queued)
    BY LogsNothing DEF TypeInv, ServerTyped
<1>2. ServerTyped'
    <2>1. \A id \in DOMAIN clientPings : Min({clientPings[id] + 1, Timeout}) \in 0 .. Timeout
        <3> TAKE id \in DOMAIN clientPings
        <3> DEFINE a == clientPings[id] + 1
        <3>1. a \in Nat /\ Timeout \in Nat
            BY SizesTyped DEF TypeInv, ServerTyped
        <3> HIDE DEF a
        <3>2. \E x \in {a, Timeout} : \A y \in {a, Timeout} : x =< y
            BY <3>1
        <3>3. /\ Min({a, Timeout}) \in {a, Timeout}
              /\ \A y \in {a, Timeout} : Min({a, Timeout}) =< y
            BY <3>2 DEF Min
        <3>4. Min({a, Timeout}) \in 0 .. Timeout
            BY <3>1, <3>3
        <3> QED
            BY <3>4 DEF a
    <2>2. /\ DOMAIN clientPings' = DOMAIN clientPings
          /\ \A id \in DOMAIN clientPings' : clientPings'[id] \in 0 .. Timeout
        BY <2>1
    <2> QED
        BY <2>2 DEF TypeInv, ServerTyped, FreedBefore
<1>3. \A c \in Clients : ClientSteps(c)
    BY Undisturbed
<1> QED
    BY <1>1, <1>2, <1>3 DEF Steps, TypeInv

LEMMA ConnectSteps ==
    ASSUME TypeInv, NEW c \in Clients, NEW name \in Names, Connect(c, name)
    PROVE  Steps
<1> DEFINE r == [path |-> "chatSignInComplete", id |-> userSerial + 1]
<1>0. SignIn(c, name) /\ UNCHANGED clientVars /\ open' = open \cup {c}
    BY DEF Connect
<1>1. ServerTyped' /\ Logs(<<ChangeClient("add", userSerial + 1, name)>>)
    BY <1>0, SignInLogs DEF TypeInv
<1>2. messageSerial' > 0
    <2>1. <<ChangeClient("add", userSerial + 1, name)>> = <<ChangeClient("add", userSerial + 1, name)>>
          /\ Len(<<ChangeClient("add", userSerial + 1, name)>>) = 1
        OBVIOUS
    <2> QED
        BY <1>1, <2>1 DEF Logs, TypeInv, ServerTyped
<1>3. toClient' = [toClient EXCEPT ![c] = @ \o <<r>>] /\ UNCHANGED truncated
    BY <1>0 DEF SignIn, Reply
<1>4. userSerial + 1 \in Ids /\ r \in Responses
    BY DEF TypeInv, ServerTyped, Ids, Responses
<1>5. ASSUME NEW d \in Clients PROVE ClientSteps(d)
    <2>1. CASE d = c
        <3>1. toClient'[c] = toClient[c] \o <<r>> /\ client'[c] = client[c]
            BY <1>0, <1>3 DEF TypeInv, clientVars
        <3>2. toClient[c] \in Seq(Responses) /\ <<r>> \in Seq(Responses)
            BY <1>4 DEF TypeInv, ClientTyped
        <3>3. Moves(c, 0, <<r>>)
            BY <3>1, <3>2, MovesOn
        <3>4. SignsIn(c)
            BY <1>2, <1>4, <3>1, <3>3 DEF SignsIn
        <3> QED
            BY <2>1, <3>4 DEF ClientSteps
    <2>2. CASE d # c
        BY <1>0, <1>3, <2>2, Undisturbed DEF TypeInv, clientVars
    <2> QED
        BY <2>1, <2>2
<1> QED
    BY <1>0, <1>1, <1>3, <1>5 DEF Steps, TypeInv, clientVars

LEMMA PollSteps ==
    ASSUME TypeInv, NEW c \in Clients, Poll(c)
    PROVE  Steps
<1> DEFINE id == client[c].messageSerial
<1>1. /\ client[c].userId \in Ids /\ id \in Nat /\ client[c].polling
      /\ toClient[c] \in Seq(Responses)
    BY DEF Poll, TypeInv, ClientTyped, ClientRecords
<1>2. /\ GetMessages(c, client[c].userId, id)
      /\ UNCHANGED <<open, clientVars>>
    BY DEF Poll
<1>3. ServerTyped' /\ \E queued : Logs(queued)
    BY <1>1, <1>2, GetMessagesLogs DEF TypeInv
<1>4. /\ toClient' = [toClient EXCEPT ![c] = @ \o Answer(id)]
      /\ truncated' = IF StartAfter(id) > id THEN truncated \cup {c} ELSE truncated
    BY <1>2 DEF GetMessages, Reply, Answer
<1>5. ASSUME NEW d \in Clients PROVE ClientSteps(d)
    <2>1. CASE d = c
        <3>1. toClient'[c] = toClient[c] \o Answer(id) /\ client'[c] = client[c]
            BY <1>2, <1>4 DEF TypeInv, clientVars
        <3>2. Answer(id) \in Seq(Responses)
            BY <1>1, Answers DEF TypeInv
        <3>3. Moves(c, 0, Answer(id))
            BY <1>1, <3>1, <3>2, MovesOn
        <3>4. Polls(c)
            BY <1>1, <1>4, <3>1, <3>3 DEF Polls
        <3> QED
            BY <2>1, <3>4 DEF ClientSteps
    <2>2. CASE d # c
        BY <1>2, <1>4, <2>2, Undisturbed DEF TypeInv, clientVars
    <2> QED
        BY <2>1, <2>2
<1> QED
    BY <1>2, <1>3, <1>4, <1>5 DEF Steps, TypeInv, clientVars

LEMMA SpeakSteps ==
    ASSUME TypeInv, NEW c \in Clients,
           ClientSendMessage(c) \/ \E name \in Names : Rename(c, name)
    PROVE  Steps
<1> DEFINE id == client[c].userId
<1>1. /\ id \in Ids \cup {Nil} /\ ServerTyped
      /\ SendMessage(id) \/ \E name \in Names : ChangeName(id, name)
    BY DEF ClientSendMessage, Rename, TypeInv, ClientTyped, ClientRecords
<1>2. UNCHANGED <<tcpVars, clientVars, truncated>>
    BY DEF ClientSendMessage, Rename, SendMessage, ChangeName, Refuse
<1> HIDE DEF id
<1>3. ServerTyped' /\ \E queued : Logs(queued)
    <2>1. CASE id = Nil
        BY <1>1, <2>1, RefuseLogs DEF SendMessage, ChangeName
    <2>2. CASE id # Nil /\ SendMessage(id)
        BY <1>1, <2>2, SendMessageLogs
    <2>3. CASE id # Nil /\ \E name \in Names : ChangeName(id, name)
        BY <1>1, <2>3, ChangeNameLogs
    <2> QED
        BY <1>1, <2>1, <2>2, <2>3
<1>4. \A d \in Clients : ClientSteps(d)
    BY <1>2, Undisturbed DEF tcpVars, clientVars
<1> QED
    BY <1>2, <1>3, <1>4 DEF Steps, TypeInv, tcpVars, clientVars

LEMMA ForgetsRests ==
    ASSUME TypeInv, NEW c \in Clients, toClient'[c] = <<>>,
           \/ client'[c] = client[c]
           \/ client'[c] = [client[c] EXCEPT !.polling = FALSE]
    PROVE  ClientSteps(c)
<1>1. client[c] \in ClientRecords /\ toClient[c] \in Seq(Responses)
    BY DEF TypeInv, ClientTyped
<1>2. Moves(c, Len(toClient[c]), <<>>)
    BY <1>1, MovesAll
<1>3. /\ client'[c] \in ClientRecords
      /\ client'[c].userId = client[c].userId
      /\ client'[c].messageSerial = client[c].messageSerial
      /\ client'[c].nameMap = client[c].nameMap
      /\ client'[c].polling => client[c].polling
    BY <1>1 DEF ClientRecords
<1> QED
    BY <1>2, <1>3 DEF ClientSteps, Rests

LEMMA DisconnectSteps ==
    ASSUME TypeInv, NEW c \in Clients, Disconnect(c)
    PROVE  Steps
<1> DEFINE id == client[c].userId
<1>1. id \in Ids \cup {Nil} /\ ServerTyped /\ SignOut(id)
    BY DEF Disconnect, TypeInv, ClientTyped, ClientRecords
<1> HIDE DEF id
<1>2. ServerTyped' /\ \E queued : Logs(queued)
    <2>1. CASE id = Nil
        BY <1>1, <2>1, RefuseLogs DEF SignOut
    <2>2. CASE id # Nil
        BY <1>1, <2>2, SignOutLogs
    <2> QED
        BY <2>1, <2>2
<1>3. ASSUME NEW d \in Clients PROVE ClientSteps(d)
    <2>1. CASE d = c
        BY <2>1, ForgetsRests DEF Disconnect, TypeInv
    <2>2. CASE d # c
        BY <2>2, Undisturbed DEF Disconnect, TypeInv
    <2> QED
        BY <2>1, <2>2
<1> QED
    BY <1>2, <1>3 DEF Steps, TypeInv, Disconnect, SignOut, Refuse

LEMMA LoseConnectionSteps ==
    ASSUME TypeInv, NEW c \in Clients, LoseConnection(c)
    PROVE  Steps
<1>1. ServerTyped' /\ \E queued : Logs(queued)
    BY QuietServer DEF LoseConnection, serverVars
<1>2. ASSUME NEW d \in Clients PROVE ClientSteps(d)
    <2>1. CASE d = c
        BY <2>1, ForgetsRests DEF LoseConnection, TypeInv
    <2>2. CASE d # c
        BY <2>2, Undisturbed DEF LoseConnection, TypeInv
    <2> QED
        BY <2>1, <2>2
<1> QED
    BY <1>1, <1>2 DEF Steps, TypeInv, LoseConnection

LEMMA CmdPeriodSteps ==
    ASSUME TypeInv, NEW c \in Clients, CmdPeriod(c)
    PROVE  Steps
<1>1. ServerTyped' /\ \E queued : Logs(queued)
    BY QuietServer DEF CmdPeriod, serverVars
<1>2. ASSUME NEW d \in Clients PROVE ClientSteps(d)
    <2>1. CASE d = c
        <3>1. /\ client[c] \in ClientRecords /\ toClient[c] \in Seq(Responses)
              /\ toClient'[c] = toClient[c]
              /\ client'[c] = [client[c] EXCEPT !.signInFunc = FALSE]
            BY DEF CmdPeriod, TypeInv, ClientTyped, tcpVars
        <3>2. Moves(c, 0, <<>>)
            BY <3>1, MovesNot
        <3>3. /\ client'[c] \in ClientRecords
              /\ client'[c].userId = client[c].userId
              /\ client'[c].messageSerial = client[c].messageSerial
              /\ client'[c].nameMap = client[c].nameMap
              /\ client'[c].polling => client[c].polling
            BY <3>1 DEF ClientRecords
        <3> QED
            BY <2>1, <3>2, <3>3 DEF ClientSteps, Rests
    <2>2. CASE d # c
        BY <2>2, Undisturbed DEF CmdPeriod, TypeInv, tcpVars
    <2> QED
        BY <2>1, <2>2
<1> QED
    BY <1>1, <1>2 DEF Steps, TypeInv, CmdPeriod, tcpVars

LEMMA OnSignInCompleteSteps ==
    ASSUME TypeInv, NEW c \in Clients, OnSignInComplete(c)
    PROVE  Steps
<1> DEFINE q == toClient[c]
<1>1. ServerTyped' /\ \E queued : Logs(queued)
    BY QuietServer DEF OnSignInComplete, serverVars
<1>2. /\ q \in Seq(Responses) /\ q # <<>> /\ Head(q) = q[1] /\ q[1] \in Responses
      /\ First(c, "chatSignInComplete")
    BY DEF OnSignInComplete, Response, First, Path, TypeInv, ClientTyped
<1>3. AllClients \in Responses
    BY DEF AllClients, Responses, TypeInv, ServerTyped
<1>4. UNCHANGED <<nameMap, messageSerial, truncated, open, restarted, outOfTurn>>
    BY DEF OnSignInComplete, serverVars
<1>5. CASE client[c].signInFunc
    <2>1. /\ client' = [client EXCEPT ![c].userId = Head(q).id]
          /\ toClient' = [toClient EXCEPT ![c] = Append(Tail(q), AllClients)]
        BY <1>5 DEF OnSignInComplete, Unread
    <2>2. /\ client'[c] = [client[c] EXCEPT !.userId = Head(q).id]
          /\ toClient'[c] = Append(Tail(q), AllClients)
          /\ DOMAIN client' = Clients /\ DOMAIN toClient' = Clients
          /\ \A d \in Clients \ {c} :
                client'[d] = client[d] /\ toClient'[d] = toClient[d]
        BY <2>1 DEF TypeInv
    <2>3. AsksForRoster(c)
        BY <1>2, <1>3, <1>4, <2>2, MovesTailOn DEF AsksForRoster
    <2>4. \A d \in Clients : ClientSteps(d)
        BY <2>2, <2>3, Undisturbed DEF ClientSteps
    <2> QED
        BY <1>1, <1>4, <2>2, <2>4 DEF Steps, TypeInv
<1>6. CASE ~ client[c].signInFunc
    <2>1. client' = client /\ toClient' = [toClient EXCEPT ![c] = Tail(q)]
        BY <1>6 DEF OnSignInComplete, Unread
    <2>2. /\ client' = client
          /\ toClient'[c] = Tail(q)
          /\ DOMAIN client' = Clients /\ DOMAIN toClient' = Clients
          /\ \A d \in Clients \ {c} : toClient'[d] = toClient[d]
        BY <2>1 DEF TypeInv
    <2>3. Ignores(c)
        BY <1>2, <1>4, <2>2, MovesTail DEF Ignores
    <2>4. \A d \in Clients : ClientSteps(d)
        BY <2>2, <2>3, Undisturbed DEF ClientSteps
    <2> QED
        BY <1>1, <1>4, <2>2, <2>4 DEF Steps, TypeInv
<1> QED
    BY <1>5, <1>6

LEMMA OnSetAllClientsSteps ==
    ASSUME TypeInv, NEW c \in Clients, OnSetAllClients(c)
    PROVE  Steps
<1> DEFINE q == toClient[c]
<1>1. ServerTyped' /\ \E queued : Logs(queued)
    BY QuietServer DEF OnSetAllClients, serverVars
<1>2. /\ q \in Seq(Responses) /\ q # <<>> /\ Head(q) = q[1]
      /\ First(c, "chatSetAllClients")
    BY DEF OnSetAllClients, Response, First, Path, TypeInv, ClientTyped
<1>3. UNCHANGED <<nameMap, messageSerial, truncated, open, restarted, outOfTurn>>
    BY DEF OnSetAllClients, serverVars
<1>4. /\ client' = [client EXCEPT ![c].nameMap = Head(q).nameMap,
                                  ![c].polling = TRUE]
      /\ toClient' = [toClient EXCEPT ![c] = Tail(q)]
    BY DEF OnSetAllClients, Unread
<1>5. /\ client'[c] = [client[c] EXCEPT !.nameMap = Head(q).nameMap, !.polling = TRUE]
      /\ toClient'[c] = Tail(q)
      /\ DOMAIN client' = Clients /\ DOMAIN toClient' = Clients
      /\ \A d \in Clients \ {c} :
            client'[d] = client[d] /\ toClient'[d] = toClient[d]
    BY <1>4 DEF TypeInv
<1>6. TakesRoster(c)
    BY <1>2, <1>3, <1>5, MovesTail DEF TakesRoster
<1>7. \A d \in Clients : ClientSteps(d)
    BY <1>5, <1>6, Undisturbed DEF ClientSteps
<1> QED
    BY <1>1, <1>3, <1>5, <1>7 DEF Steps, TypeInv

LEMMA OnMessageSteps ==
    ASSUME TypeInv, NEW c \in Clients, OnMessage(c)
    PROVE  Steps
<1> DEFINE q == toClient[c]
           message == Head(q).message
<1>1. ServerTyped' /\ \E queued : Logs(queued)
    BY QuietServer DEF OnMessage, serverVars
<1>2. /\ q \in Seq(Responses) /\ q # <<>> /\ Head(q) = q[1]
      /\ First(c, "message")
    BY DEF OnMessage, Response, First, Path, TypeInv, ClientTyped
<1>3. message.serial = SerialOf(c, 1) /\ message.msg = q[1].message.msg
    BY <1>2 DEF SerialOf
<1>4. UNCHANGED <<nameMap, messageSerial, truncated, open, restarted>>
    BY DEF OnMessage, serverVars
<1>5. toClient' = [toClient EXCEPT ![c] = Tail(q)]
    BY DEF OnMessage, Unread
<1>6. /\ toClient'[c] = Tail(q) /\ DOMAIN toClient' = Clients
      /\ \A d \in Clients \ {c} : toClient'[d] = toClient[d]
    BY <1>5 DEF TypeInv
<1>7. Moves(c, 1, <<>>)
    BY <1>2, <1>6, MovesTail
<1>8. CASE IsNew(c, message)
    <2>1. /\ client' = [client EXCEPT
                ![c].messageSerial = message.serial,
                ![c].nameMap = Changed(@, message.msg)]
          /\ outOfTurn' = IF message.serial = client[c].messageSerial + 1
                          THEN outOfTurn ELSE outOfTurn \cup {c}
        BY <1>8 DEF OnMessage
    <2>2. /\ client'[c] = [client[c] EXCEPT
                !.messageSerial = message.serial,
                !.nameMap = Changed(client[c].nameMap, message.msg)]
          /\ DOMAIN client' = Clients
          /\ \A d \in Clients \ {c} : client'[d] = client[d]
        BY <2>1 DEF TypeInv
    <2>3. Acts(c)
        BY <1>2, <1>3, <1>4, <1>7, <1>8, <2>2 DEF Acts, IsNew
    <2>4. \A d \in Clients : ClientSteps(d)
        BY <1>6, <2>2, <2>3, Undisturbed DEF ClientSteps
    <2> QED
        BY <1>1, <1>3, <1>4, <1>6, <2>1, <2>2, <2>3, <2>4 DEF Steps, TypeInv
<1>9. CASE ~ IsNew(c, message)
    <2>1. client' = client /\ outOfTurn' = outOfTurn
        BY <1>9 DEF OnMessage
    <2>2. SerialOf(c, 1) <= client[c].messageSerial
        <3>1. SerialOf(c, 1) \in Nat /\ client[c].messageSerial \in Nat
            <4>1. 1 \in 1 .. Len(q)
                BY <1>2, EmptySeq
            <4> QED
                BY <1>2, <4>1 DEF First, TypeInv, ClientTyped, ClientRecords,
                                  SerialOf, Path
        <3> QED
            BY <1>3, <1>9, <3>1 DEF IsNew
    <2>3. Ignores(c)
        BY <1>2, <1>4, <1>7, <2>1, <2>2 DEF Ignores
    <2>4. \A d \in Clients : ClientSteps(d)
        BY <1>6, <2>1, <2>3, Undisturbed DEF ClientSteps
    <2> QED
        BY <1>1, <1>4, <1>6, <2>1, <2>4 DEF Steps, TypeInv
<1> QED
    BY <1>8, <1>9

LEMMA NextSteps ==
    ASSUME TypeInv, [Next]_vars
    PROVE  ServerRestart \/ Steps
<1>1. CASE UNCHANGED vars
    BY <1>1, StutterSteps
<1>2. CASE Tick
    BY <1>2, TickSteps
<1>3. ASSUME NEW c \in Clients,
             \/ \E name \in Names : Connect(c, name) \/ Rename(c, name)
             \/ Poll(c) \/ ClientSendMessage(c)
             \/ Disconnect(c) \/ LoseConnection(c) \/ CmdPeriod(c) \/ Handle(c)
      PROVE  Steps
    BY <1>3, ConnectSteps, PollSteps, SpeakSteps, DisconnectSteps,
       LoseConnectionSteps, CmdPeriodSteps, OnSignInCompleteSteps,
       OnSetAllClientsSteps, OnMessageSteps DEF Handle
<1> QED
    BY <1>1, <1>2, <1>3 DEF Next

----------------------------------------------------------------------------
(***************************************************************************)
(* Types are kept                                                          *)
(***************************************************************************)
LEMMA MovedTyped ==
    ASSUME NEW c, NEW read \in Nat, NEW replies,
           messageSerial \in Nat, messageSerial' \in Nat,
           messageSerial <= messageSerial',
           ClientTyped(c), read <= Len(toClient[c]), Moves(c, read, replies),
           client'[c] \in ClientRecords,
           client[c].userId \in Ids => client'[c].userId \in Ids,
           client'[c].polling => client'[c].userId \in Ids,
           \A i \in 1 .. Len(replies) :
              /\ replies[i].path = "message" =>
                    replies[i].message.serial \in 1 .. messageSerial - 1
              /\ replies[i].path = "chatSetAllClients" => client'[c].userId \in Ids
    PROVE  ClientTyped(c)'
<1> DEFINE q == toClient[c]
           t == toClient'[c]
<1>1. /\ q \in Seq(Responses) /\ t \in Seq(Responses) /\ replies \in Seq(Responses)
      /\ Len(t) = Len(q) - read + Len(replies)
      /\ \A i \in 1 .. Len(t) :
            t[i] = IF i + read <= Len(q) THEN q[i + read]
                   ELSE replies[i + read - Len(q)]
      /\ \A i \in 1 .. Len(q) :
          /\ q[i].path = "message" => q[i].message.serial \in 1 .. messageSerial - 1
          /\ q[i].path = "chatSetAllClients" => client[c].userId \in Ids
    BY DEF Moves, ClientTyped
<1>2. read <= Len(q) /\ Len(q) \in Nat /\ Len(t) \in Nat /\ Len(replies) \in Nat
    BY <1>1
<1> HIDE DEF q, t
<1>3. ASSUME NEW i \in 1 .. Len(t)
      PROVE  /\ t[i].path = "message" => t[i].message.serial \in 1 .. messageSerial' - 1
             /\ t[i].path = "chatSetAllClients" => client'[c].userId \in Ids
    <2>1. CASE i + read <= Len(q)
        <3>1. t[i] = q[i + read] /\ i + read \in 1 .. Len(q)
            <4>1. t[i] = q[i + read]
                BY <1>1, <2>1
            <4>2. i + read \in 1 .. Len(q)
                BY <1>2, <2>1
            <4> QED
                BY <4>1, <4>2
        <3> QED
            BY <1>1, <3>1
    <2>2. CASE ~ (i + read <= Len(q))
        <3>1. /\ t[i] = replies[i + read - Len(q)]
              /\ i + read - Len(q) \in 1 .. Len(replies)
            BY <1>1, <1>2, <2>2
        <3> QED
            BY <3>1
    <2> QED
        BY <2>1, <2>2
<1> QED
    BY <1>1, <1>3 DEF ClientTyped, t

(* What a message makes of a roster is a roster.                           *)
LEMMA ChangedRoster ==
    ASSUME NEW f \in Rosters, NEW m \in Bodies
    PROVE  Changed(f, m) \in Rosters
<1>1. CASE m.path # "chatChangeClient"
    BY <1>1 DEF Changed
<1>2. CASE m.path = "chatChangeClient" /\ m.change \in {"add", "rename"}
    <2>1. m.id \in Ids /\ m.name \in Names
        BY <1>2 DEF Bodies
    <2>2. Changed(f, m) = With(f, m.id, m.name)
        BY <1>2 DEF Changed
    <2> DEFINE x == m.id
               y == m.name
    <2>3. x \in Ids /\ y \in Names
        BY <2>1
    <2> HIDE DEF x, y
    <2>4. With(f, x, y) \in Rosters
        BY <2>3, WithRoster
    <2> QED
        BY <2>2, <2>4 DEF x, y
<1>3. CASE m.path = "chatChangeClient" /\ m.change \in {"remove", "timeout"}
    <2>1. Changed(f, m) = Without(f, {m.id})
        BY <1>3 DEF Changed
    <2> DEFINE S == {m.id}
    <2> HIDE DEF S
    <2>2. Without(f, S) \in Rosters
        BY WithoutRoster
    <2> QED
        BY <2>1, <2>2 DEF S
<1>4. m.path = "chatChangeClient" =>
          m.change \in {"add", "rename"} \cup {"remove", "timeout"}
    BY DEF Bodies
<1> QED
    BY <1>1, <1>2, <1>3, <1>4

LEMMA LogsGrow ==
    ASSUME ServerTyped, RingHolds, NEW queued, Logs(queued)
    PROVE  /\ messageSerial <= messageSerial'
           /\ messageSerial' \in Nat
           /\ RingHolds'
<1> DEFINE n == Len(queued)
<1>1. /\ messageSerial \in Nat /\ n \in Nat /\ messageSerial' = messageSerial + n
      /\ \A i \in 1 .. n : queued[i] \in Bodies
    BY DEF ServerTyped, Logs
<1>2. ASSUME NEW s \in 0 .. messageSerial' - 1,
             s + MessageArraySize >= messageSerial'
      PROVE  /\ messages'[s % MessageArraySize] \in Numbered
             /\ messages'[s % MessageArraySize].serial = s
    <2>1. messages'[s % MessageArraySize] =
             IF s < messageSerial THEN messages[s % MessageArraySize]
             ELSE [serial |-> s, msg |-> queued[s - messageSerial + 1]]
        BY <1>1, <1>2 DEF Logs, RingAfter
    <2>2. CASE s < messageSerial
        <3>1. s \in 0 .. messageSerial - 1 /\ s + MessageArraySize >= messageSerial
            BY <1>1, <1>2, <2>2, SizesTyped
        <3> QED
            BY <2>1, <2>2, <3>1 DEF RingHolds
    <2>3. CASE ~ (s < messageSerial)
        <3>1. s - messageSerial + 1 \in 1 .. n /\ s \in Nat
            BY <1>1, <1>2, <2>3
        <3>2. queued[s - messageSerial + 1] \in Bodies
            BY <1>1, <3>1
        <3> QED
            BY <2>1, <2>3, <3>1, <3>2 DEF Numbered
    <2> QED
        BY <2>2, <2>3
<1> QED
    BY <1>1, <1>2 DEF RingHolds

LEMMA StepsTyped ==
    ASSUME TypeInv, Steps
    PROVE  TypeInv'
<1>1. PICK queued : Logs(queued)
    BY DEF Steps
<1>2. /\ messageSerial \in Nat /\ messageSerial' \in Nat
      /\ messageSerial <= messageSerial' /\ RingHolds'
    BY <1>1, LogsGrow DEF TypeInv, ServerTyped
<1>3. ASSUME NEW c \in Clients PROVE ClientTyped(c)'
    <2>1. /\ client[c] \in ClientRecords /\ toClient[c] \in Seq(Responses)
          /\ client[c].polling => client[c].userId \in Ids
          /\ \A i \in 1 .. Len(toClient[c]) :
                /\ toClient[c][i] \in Responses
                /\ Path(c, i) = "message" => SerialOf(c, i) \in 1 .. messageSerial - 1
                /\ Path(c, i) = "chatSetAllClients" => client[c].userId \in Ids
          /\ Len(toClient[c]) \in Nat
          /\ ClientTyped(c)
        BY DEF TypeInv, ClientTyped, Path, SerialOf
    <2>2. Len(<<>>) = 0 /\ 0 <= Len(toClient[c]) /\ 0 \in Nat
        BY <2>1
    <2> DEFINE Fine(replies) ==
            \A i \in 1 .. Len(replies) :
               /\ replies[i].path = "message" =>
                     replies[i].message.serial \in 1 .. messageSerial - 1
               /\ replies[i].path = "chatSetAllClients" => client'[c].userId \in Ids
    <2>3. Fine(<<>>)
        BY <2>2
    <2>4. CASE Rests(c)
        <3>1. /\ client'[c] \in ClientRecords
              /\ client'[c].userId = client[c].userId
              /\ client'[c].polling => client[c].polling
            BY <2>4 DEF Rests
        <3>2. CASE Moves(c, 0, <<>>)
            BY <1>2, <2>1, <2>2, <2>3, <3>1, <3>2, MovedTyped
        <3>3. CASE Moves(c, Len(toClient[c]), <<>>)
            BY <1>2, <2>1, <2>2, <2>3, <3>1, <3>3, MovedTyped
        <3> QED
            BY <2>4, <3>2, <3>3 DEF Rests
    <2>5. CASE SignsIn(c)
        <3>1. PICK id \in Ids :
                 Moves(c, 0, <<[path |-> "chatSignInComplete", id |-> id]>>)
            BY <2>5 DEF SignsIn
        <3> DEFINE replies == <<[path |-> "chatSignInComplete", id |-> id]>>
        <3>2. Fine(replies)
            OBVIOUS
        <3>3. client'[c] = client[c]
            BY <2>5 DEF SignsIn
        <3> HIDE DEF replies
        <3>4. Moves(c, 0, replies)
            BY <3>1 DEF replies
        <3> QED
            BY <1>2, <2>1, <2>2, <3>2, <3>3, <3>4, MovedTyped
    <2>6. CASE Polls(c)
        <3> DEFINE replies == Answer(client[c].messageSerial)
        <3>1. client'[c] = client[c] /\ Moves(c, 0, replies)
            BY <2>6 DEF Polls
        <3>2. \A i \in 1 .. Len(replies) :
                 /\ replies[i].path = "message"
                 /\ replies[i].message.serial \in 1 .. messageSerial - 1
            <4>1. client[c].messageSerial \in Nat
                BY <2>1 DEF ClientRecords
            <4>2. /\ Len(replies) \in Nat
                  /\ \A i \in 1 .. Len(replies) :
                        LET s == StartAfter(client[c].messageSerial) + i IN
                        /\ s \in 1 .. messageSerial - 1
                        /\ replies[i].path = "message"
                        /\ replies[i].message.serial = s
                <5> DEFINE id == client[c].messageSerial
                <5>1. id \in Nat /\ ServerTyped /\ RingHolds
                    BY <4>1 DEF TypeInv
                <5> HIDE DEF id
                <5>2. /\ Answer(id) \in Seq(Responses)
                      /\ \A i \in 1 .. Len(Answer(id)) :
                            LET s == StartAfter(id) + i IN
                            /\ s \in 1 .. messageSerial - 1
                            /\ Answer(id)[i].path = "message"
                            /\ Answer(id)[i].message.serial = s
                    BY <5>1, Answers
                <5>3. Len(Answer(id)) \in Nat
                    BY <5>2, LenProperties
                <5> QED
                    BY <5>2, <5>3 DEF id
            <4> HIDE DEF replies
            <4> QED
                BY <4>2
        <3> HIDE DEF replies
        <3> QED
            BY <1>2, <2>1, <2>2, <3>1, <3>2, MovedTyped
    <2>7. ASSUME NEW path, First(c, path)
          PROVE  /\ 1 \in 1 .. Len(toClient[c]) /\ 1 <= Len(toClient[c])
                 /\ toClient[c][1] \in Responses /\ Path(c, 1) = path
        BY <2>1, <2>7, EmptySeq DEF First
    <2>8. CASE AsksForRoster(c)
        <3>1. toClient[c][1].id \in Ids /\ 1 <= Len(toClient[c])
            <4>1. First(c, "chatSignInComplete")
                BY <2>8 DEF AsksForRoster
            <4> QED
                BY <2>7, <4>1 DEF Responses, Path
        <3>2. /\ client'[c] \in ClientRecords /\ client'[c].userId \in Ids
            BY <2>1, <2>8, <3>1 DEF AsksForRoster, ClientRecords
        <3> DEFINE replies == <<AllClients>>
        <3>3. Fine(replies)
            BY <3>2 DEF AllClients
        <3>4. Moves(c, 1, replies)
            BY <2>8 DEF AsksForRoster
        <3> HIDE DEF replies
        <3> QED
            BY <1>2, <2>1, <3>1, <3>2, <3>3, <3>4, MovedTyped
    <2>9. CASE TakesRoster(c)
        <3>1. /\ toClient[c][1].nameMap \in Rosters /\ 1 <= Len(toClient[c])
              /\ client[c].userId \in Ids
            <4>1. First(c, "chatSetAllClients")
                BY <2>9 DEF TakesRoster
            <4>2. toClient[c][1].path = "chatSetAllClients"
                BY <2>7, <4>1 DEF Path
            <4>3. toClient[c][1] \in Responses /\ 1 \in 1 .. Len(toClient[c])
                BY <2>7, <4>1
            <4>4. toClient[c][1].nameMap \in Rosters
                BY <4>2, <4>3 DEF Responses
            <4> QED
                BY <2>1, <2>7, <4>1, <4>2, <4>3, <4>4 DEF Path
        <3>2. client'[c] \in ClientRecords /\ client'[c].userId \in Ids
            BY <2>1, <2>9, <3>1 DEF TakesRoster, ClientRecords
        <3>3. Moves(c, 1, <<>>)
            BY <2>9 DEF TakesRoster
        <3> QED
            BY <1>2, <2>1, <2>3, <3>1, <3>2, <3>3, MovedTyped
    <2>10. CASE Acts(c)
        <3>1. /\ toClient[c][1].message \in Numbered /\ 1 <= Len(toClient[c])
            <4>1. First(c, "message")
                BY <2>10 DEF Acts
            <4> QED
                BY <2>7, <4>1 DEF Responses, Path
        <3>2. /\ SerialOf(c, 1) \in Nat
              /\ Changed(client[c].nameMap, toClient[c][1].message.msg) \in Rosters
            <4>1. /\ toClient[c][1].message.msg \in Bodies /\ SerialOf(c, 1) \in Nat
                  /\ client[c].nameMap \in Rosters
                BY <2>1, <3>1 DEF Numbered, SerialOf, ClientRecords
            <4> QED
                BY <4>1, ChangedRoster
        <3>3. /\ client'[c] \in ClientRecords
              /\ client'[c].userId = client[c].userId
              /\ client'[c].polling = client[c].polling
            BY <2>1, <2>10, <3>2 DEF Acts, ClientRecords
        <3>4. Moves(c, 1, <<>>)
            BY <2>10 DEF Acts
        <3> QED
            BY <1>2, <2>1, <2>3, <3>1, <3>3, <3>4, MovedTyped
    <2>11. CASE Ignores(c)
        <3>1. client'[c] = client[c] /\ Moves(c, 1, <<>>)
            BY <2>11 DEF Ignores
        <3>2. 1 <= Len(toClient[c])
            BY <2>7, <2>11 DEF Ignores
        <3> QED
            BY <1>2, <2>1, <2>3, <3>1, <3>2, MovedTyped
    <2>12. ClientSteps(c)
        BY DEF Steps
    <2> QED
        BY <2>4, <2>5, <2>6, <2>8, <2>9, <2>10, <2>11, <2>12 DEF ClientSteps
<1> QED
    BY <1>2, <1>3 DEF TypeInv, Steps

LEMMA InitTyped ==
    ASSUME Init PROVE TypeInv
<1> USE DEF Init, ServerInit, TCPInit
<1>1. ServerTyped
    <2>1. DOMAIN <<>> = {}
        OBVIOUS
    <2> QED
        BY <2>1, EmptyRoster, FS_EmptySet DEF ServerTyped, FreedBefore
<1>2. RingHolds
    BY DEF RingHolds
<1>3. ASSUME NEW c \in Clients PROVE ClientTyped(c)
    <2>1. client[c] = NewClient /\ toClient[c] = <<>>
        OBVIOUS
    <2>2. NewClient \in ClientRecords /\ ~ NewClient.polling
        BY EmptyRoster DEF NewClient, ClientRecords
    <2> QED
        BY <2>1, <2>2, EmptySeq DEF ClientTyped
<1> QED
    BY <1>1, <1>2, <1>3 DEF TypeInv

LEMMA RestartTyped ==
    ASSUME TypeInv, ServerRestart PROVE TypeInv'
<1> USE DEF ServerRestart
<1>1. ServerTyped'
    <2>1. DOMAIN <<>> = {}
        OBVIOUS
    <2> QED
        BY <2>1, EmptyRoster, FS_EmptySet DEF ServerTyped, FreedBefore
<1>2. RingHolds'
    BY DEF RingHolds
<1>3. ASSUME NEW c \in Clients PROVE ClientTyped(c)'
    <2>1. client'[c] = client[c] /\ toClient'[c] = <<>>
        OBVIOUS
    <2> QED
        BY <2>1, EmptySeq DEF TypeInv, ClientTyped
<1> QED
    BY <1>1, <1>2, <1>3 DEF TypeInv

LEMMA NextTyped ==
    ASSUME TypeInv, [Next]_vars PROVE TypeInv'
BY NextSteps, StepsTyped, RestartTyped

LEMMA TypesSuffice == TypeInv => TypeOK
<1> SUFFICES ASSUME TypeInv PROVE TypeOK
    OBVIOUS
<1>1. Range(nameMap) \subseteq Names /\ DOMAIN nameMap \subseteq Ids
    BY RosterValues DEF TypeInv, ServerTyped, Range
<1>2. Range(clientPings) \subseteq 0 .. Timeout
    BY DEF TypeInv, ServerTyped, Range
<1>3. ASSUME NEW c \in Clients
      PROVE  /\ client[c].userId \in Ids \cup {Nil}
             /\ client[c].messageSerial \in Nat
             /\ \A i \in DOMAIN toClient[c] :
                    toClient[c][i].path = "message" =>
                        toClient[c][i].message.serial \in 1 .. messageSerial - 1
    <2>1. /\ client[c] \in ClientRecords
          /\ DOMAIN toClient[c] = 1 .. Len(toClient[c])
        BY LenProperties DEF TypeInv, ClientTyped
    <2> QED
        BY <2>1 DEF TypeInv, ClientTyped, ClientRecords
<1> QED
    BY <1>1, <1>2, <1>3 DEF TypeOK, TypeInv, ServerTyped, FreedBefore

(* Users and clients are named by ids that were issued, nobody's ping is   *)
(* older than the timeout, and a poll is never answered with an empty slot *)
(* of the ring, nor with a message the server has not numbered since it    *)
(* was started.                                                            *)
THEOREM TypeCorrect == Spec => []TypeOK
<1>1. Init => TypeInv
    BY InitTyped
<1>2. TypeInv /\ [Next]_vars => TypeInv'
    BY NextTyped
<1> QED
    BY <1>1, <1>2, TypesSuffice, PTL DEF Spec

----------------------------------------------------------------------------
(***************************************************************************)
(* The log                                                                 *)
(***************************************************************************)
(* A message of the queue that is not the next one for the client comes    *)
(* after the message it follows.                                           *)
InTurn(c) ==
    \A i \in 1 .. Len(toClient[c]) :
        Path(c, i) = "message" /\ SerialOf(c, i) > client[c].messageSerial + 1 =>
            \E j \in 1 .. i - 1 :
                /\ Path(c, j) = "message"
                /\ SerialOf(c, j) = SerialOf(c, i) - 1

(* The messages that will still change a roster that the client has once   *)
(* it has read so many responses.                                          *)
Late(c, read) ==
    {s \in Nat :
        /\ s > client[c].messageSerial
        /\ \A j \in 1 .. read : Path(c, j) = "message" => SerialOf(c, j) < s}

(* Two rosters agree but for what these messages say.                      *)
Covered(log, late, roster, map) ==
    \A id \in Ids :
        \/ \E s \in DOMAIN log \cap late : About(log[s], id)
        \/ Agree(roster, map, id)

SentLogged(log, c) ==
    \A i \in 1 .. Len(toClient[c]) :
        Path(c, i) = "message" =>
            toClient[c][i].message.msg = log[SerialOf(c, i)]

HasBegun(c) ==
    /\ client[c].messageSerial = 0 \/ client[c].messageSerial < messageSerial
    /\ client[c].polling \/ toClient[c] # <<>> => messageSerial > 0

RosterCovered(log, c) ==
    client[c].polling => Covered(log, Late(c, 0), client[c].nameMap, nameMap)

SnapshotsCovered(log, c) ==
    \A i \in 1 .. Len(toClient[c]) :
        Path(c, i) = "chatSetAllClients" =>
            Covered(log, Late(c, i - 1), toClient[c][i].nameMap, nameMap)

ClientLogged(log, c) ==
    /\ SentLogged(log, c)
    /\ HasBegun(c)
    /\ c \notin truncated =>
          InTurn(c) /\ RosterCovered(log, c) /\ SnapshotsCovered(log, c)

RingLogged(log) ==
    \A s \in 0 .. messageSerial - 1 :
        s + MessageArraySize >= messageSerial =>
            messages[s % MessageArraySize].msg = log[s]

(* The last change about a user is what the roster says of the user.       *)
RosterLogged(log) ==
    \A s \in DOMAIN log :
        log[s].path = "chatChangeClient" =>
            \/ \E t \in DOMAIN log : t > s /\ About(log[t], log[s].id)
            \/ Settled(nameMap, log[s])

LogInv(log) ==
    /\ DOMAIN log = 0 .. messageSerial - 1
    /\ \A s \in DOMAIN log : log[s] \in Bodies
    /\ RingLogged(log)
    /\ RosterLogged(log)
    /\ \A c \in Clients : ClientLogged(log, c)

IInv ==
    /\ TypeInv
    /\ ~ restarted => /\ \E log : LogInv(log)
                      /\ outOfTurn \subseteq truncated

----------------------------------------------------------------------------
(* The log grows by what a step numbers.                                   *)
Extends(log, queued, new) ==
    /\ \A s \in DOMAIN log : s \in DOMAIN new /\ new[s] = log[s]
    /\ \A i \in 1 .. Len(queued) :
          /\ messageSerial + i - 1 \in DOMAIN new
          /\ new[messageSerial + i - 1] = queued[i]
    /\ \A s \in DOMAIN new :
          s \in DOMAIN log \/ \E i \in 1 .. Len(queued) : s = messageSerial + i - 1

LEMMA LogExtends ==
    ASSUME messageSerial \in Nat, NEW log, DOMAIN log = 0 .. messageSerial - 1,
           \A s \in DOMAIN log : log[s] \in Bodies,
           NEW queued, Logs(queued), NEW new,
           new = [s \in 0 .. messageSerial' - 1 |->
                     IF s < messageSerial THEN log[s]
                     ELSE queued[s - messageSerial + 1]]
    PROVE  /\ DOMAIN new = 0 .. messageSerial' - 1
           /\ Extends(log, queued, new)
           /\ \A s \in DOMAIN new : new[s] \in Bodies
<1> DEFINE n == Len(queued)
<1>1. /\ n \in Nat /\ messageSerial' = messageSerial + n
      /\ \A i \in 1 .. n : queued[i] \in Bodies
    BY DEF Logs
<1>2. DOMAIN new = 0 .. messageSerial' - 1
    OBVIOUS
<1>3. ASSUME NEW s \in DOMAIN log
      PROVE  s \in DOMAIN new /\ new[s] = log[s]
    <2>1. s \in 0 .. messageSerial' - 1 /\ s < messageSerial
        BY <1>1
    <2> QED
        BY <1>2, <2>1
<1>4. ASSUME NEW i \in 1 .. n
      PROVE  /\ messageSerial + i - 1 \in DOMAIN new
             /\ new[messageSerial + i - 1] = queued[i]
    <2> DEFINE s == messageSerial + i - 1
    <2>1. s \in 0 .. messageSerial' - 1 /\ ~ (s < messageSerial)
          /\ s - messageSerial + 1 = i
        BY <1>1
    <2>2. new[s] = queued[s - messageSerial + 1]
        BY <2>1
    <2> QED
        BY <1>2, <2>1, <2>2
<1>5. ASSUME NEW s \in DOMAIN new
      PROVE  s \in DOMAIN log \/ \E i \in 1 .. n : s = messageSerial + i - 1
    <2>1. CASE s < messageSerial
        BY <1>2, <2>1
    <2>2. CASE ~ (s < messageSerial)
        <3>1. s - messageSerial + 1 \in 1 .. n
              /\ s = messageSerial + (s - messageSerial + 1) - 1
            BY <1>1, <1>2, <2>2
        <3> QED
            BY <3>1
    <2> QED
        BY <2>1, <2>2
<1>6. Extends(log, queued, new)
    BY <1>3, <1>4, <1>5 DEF Extends
<1>7. \A s \in DOMAIN new : new[s] \in Bodies
    BY <1>1, <1>3, <1>4, <1>5
<1> QED
    BY <1>2, <1>6, <1>7

LEMMA RingLoggedGrows ==
    ASSUME messageSerial \in Nat, NEW log, DOMAIN log = 0 .. messageSerial - 1,
           RingLogged(log), NEW queued, Logs(queued), NEW new,
           Extends(log, queued, new)
    PROVE  RingLogged(new)'
<1> DEFINE n == Len(queued)
<1>1. n \in Nat /\ messageSerial' = messageSerial + n
    BY DEF Logs
<1>2. ASSUME NEW s \in 0 .. messageSerial' - 1,
             s + MessageArraySize >= messageSerial'
      PROVE  messages'[s % MessageArraySize].msg = new[s]
    <2>1. messages'[s % MessageArraySize] =
             IF s < messageSerial THEN messages[s % MessageArraySize]
             ELSE [serial |-> s, msg |-> queued[s - messageSerial + 1]]
        <3>1. RingAfter(queued)
            BY DEF Logs
        <3>2. /\ s \in 0 .. messageSerial + Len(queued) - 1
              /\ s + MessageArraySize >= messageSerial + Len(queued)
            BY <1>1, <1>2
        <3> QED
            BY <3>1, <3>2 DEF RingAfter
    <2>2. CASE s < messageSerial
        <3>1. s \in 0 .. messageSerial - 1 /\ s + MessageArraySize >= messageSerial
            BY <1>1, <1>2, <2>2, SizesTyped
        <3>2. messages[s % MessageArraySize].msg = log[s] /\ new[s] = log[s]
            BY <3>1 DEF RingLogged, Extends
        <3> QED
            BY <2>1, <2>2, <3>2
    <2>3. CASE ~ (s < messageSerial)
        <3> DEFINE i == s - messageSerial + 1
        <3>1. i \in 1 .. n /\ messageSerial + i - 1 = s
            BY <1>1, <1>2, <2>3
        <3> HIDE DEF i
        <3>2. new[s] = queued[i]
            BY <3>1 DEF Extends
        <3> QED
            BY <2>1, <2>3, <3>2 DEF i
    <2> QED
        BY <2>2, <2>3
<1> QED
    BY <1>2 DEF RingLogged

LEMMA RosterLoggedGrows ==
    ASSUME messageSerial \in Nat, NEW log, DOMAIN log = 0 .. messageSerial - 1,
           RosterLogged(log), NEW queued, Logs(queued), NEW new,
           Extends(log, queued, new)
    PROVE  RosterLogged(new)'
<1> SUFFICES ASSUME NEW s \in DOMAIN new, new[s].path = "chatChangeClient",
                    \A t \in DOMAIN new : t > s => ~ About(new[t], new[s].id)
             PROVE  Settled(nameMap', new[s])
    BY DEF RosterLogged
<1>1. CASE \E i \in 1 .. Len(queued) : s = messageSerial + i - 1
    <2>1. PICK i \in 1 .. Len(queued) : s = messageSerial + i - 1
        BY <1>1
    <2>2. new[s] = queued[i]
        BY <2>1 DEF Extends
    <2> QED
        BY <2>1, <2>2 DEF Logs
<1>2. CASE s \in DOMAIN log
    <2>1. new[s] = log[s]
        BY <1>2 DEF Extends
    <2>2. Settled(nameMap, log[s])
        <3>1. \A t \in DOMAIN log : t > s => ~ About(log[t], log[s].id)
            BY <2>1 DEF Extends
        <3> QED
            BY <1>2, <2>1, <3>1 DEF RosterLogged
    <2>3. \A i \in 1 .. Len(queued) : ~ About(queued[i], log[s].id)
        <3> SUFFICES ASSUME NEW i \in 1 .. Len(queued) 
                     PROVE  ~ About(queued[i], log[s].id)
            OBVIOUS
        <3> DEFINE t == messageSerial + i - 1
        <3>1. t \in DOMAIN new /\ new[t] = queued[i]
            BY DEF Extends
        <3>2. t > s
            BY <1>2 DEF Logs
        <3> HIDE DEF t
        <3> QED
            BY <2>1, <3>1, <3>2
    <2>4. Agree(nameMap', nameMap, log[s].id)
        BY <2>3 DEF Logs
    <2> QED
        BY <2>1, <2>2, <2>4 DEF Settled, Agree
<1> QED
    BY <1>1, <1>2 DEF Extends

LEMMA CoveredGrows ==
    ASSUME NEW log, NEW new, NEW late, NEW late2, NEW roster, NEW map, NEW map2,
           Covered(log, late, roster, map),
           \A s \in DOMAIN log \cap late :
              s \in DOMAIN new \cap late2 /\ new[s] = log[s],
           \A id \in Ids :
              \/ Agree(map2, map, id)
              \/ \E s \in DOMAIN new \cap late2 : About(new[s], id)
    PROVE  Covered(new, late2, roster, map2)
<1> SUFFICES ASSUME NEW id \in Ids,
                    ~ \E s \in DOMAIN new \cap late2 : About(new[s], id)
             PROVE  Agree(roster, map2, id)
    BY DEF Covered
<1>1. Agree(map2, map, id)
    OBVIOUS
<1>2. ~ \E s \in DOMAIN log \cap late : About(log[s], id)
    OBVIOUS
<1>3. Agree(roster, map, id)
    BY <1>2 DEF Covered
<1> QED
    BY <1>1, <1>3 DEF Agree

(* A change makes of a roster what it makes of the server's.               *)
LEMMA ChangedSettles ==
    ASSUME NEW f, NEW m \in Bodies
    PROVE  /\ \A id : ~ About(m, id) => Agree(Changed(f, m), f, id)
           /\ \A g : m.path = "chatChangeClient" /\ Settled(g, m) =>
                        Agree(Changed(f, m), g, m.id)
<1>1. CASE m.path # "chatChangeClient"
    BY <1>1 DEF Changed, Agree
<1>2. CASE m.path = "chatChangeClient" /\ m.change \in {"add", "rename"}
    <2> DEFINE h == Changed(f, m)
    <2>1. h = With(f, m.id, m.name)
        BY <1>2 DEF Changed
    <2>2. /\ m.id \in DOMAIN h /\ h[m.id] = m.name
          /\ \A i : i # m.id => Agree(h, f, i)
        BY <2>1, WithSettles
    <2> HIDE DEF h
    <2>3. ASSUME NEW id, ~ About(m, id) PROVE Agree(h, f, id)
        BY <1>2, <2>2, <2>3 DEF About
    <2>4. ASSUME NEW g, Settled(g, m) PROVE Agree(h, g, m.id)
        BY <1>2, <2>2, <2>4 DEF Settled, Agree
    <2> QED
        BY <2>3, <2>4 DEF h
<1>3. CASE m.path = "chatChangeClient" /\ m.change \in {"remove", "timeout"}
    <2> DEFINE h == Changed(f, m)
    <2>1. h = Without(f, {m.id})
        BY <1>3 DEF Changed
    <2>2. /\ DOMAIN h = DOMAIN f \ {m.id}
          /\ \A i : i \notin {m.id} => Agree(h, f, i)
        BY <2>1, WithoutSettles
    <2> HIDE DEF h
    <2>3. ASSUME NEW id, ~ About(m, id) PROVE Agree(h, f, id)
        BY <1>3, <2>2, <2>3 DEF About
    <2>4. ASSUME NEW g, Settled(g, m) PROVE Agree(h, g, m.id)
        BY <1>3, <2>2, <2>4 DEF Settled, Agree
    <2> QED
        BY <2>3, <2>4 DEF h
<1>4. m.path = "chatChangeClient" =>
          m.change \in {"add", "rename"} \cup {"remove", "timeout"}
    BY DEF Bodies
<1> QED
    BY <1>1, <1>2, <1>3, <1>4

----------------------------------------------------------------------------
(* Where a response of the queue was before the step.                      *)
LEMMA MovesIndex ==
    ASSUME NEW c, NEW read \in Nat, NEW replies, toClient[c] \in Seq(Responses),
           read <= Len(toClient[c]), Moves(c, read, replies),
           NEW i \in 1 .. Len(toClient'[c])
    PROVE  \/ /\ i + read \in 1 .. Len(toClient[c])
              /\ toClient'[c][i] = toClient[c][i + read]
           \/ /\ i + read - Len(toClient[c]) \in 1 .. Len(replies)
              /\ toClient'[c][i] = replies[i + read - Len(toClient[c])]
              /\ i + read > Len(toClient[c])
<1> DEFINE q == toClient[c]
           t == toClient'[c]
<1>0. /\ Len(t) = Len(q) - read + Len(replies)
      /\ q \in Seq(Responses) /\ t \in Seq(Responses) /\ replies \in Seq(Responses)
      /\ \A k \in 1 .. Len(t) :
            t[k] = IF k + read <= Len(q) THEN q[k + read]
                   ELSE replies[k + read - Len(q)]
    BY DEF Moves
<1>2. read <= Len(q) /\ i \in 1 .. Len(t)
    OBVIOUS
<1>1. /\ Len(t) = Len(q) - read + Len(replies)
      /\ t[i] = IF i + read <= Len(q) THEN q[i + read]
                ELSE replies[i + read - Len(q)]
      /\ Len(q) \in Nat /\ Len(t) \in Nat /\ Len(replies) \in Nat
    BY <1>0, <1>2, LenProperties
<1> HIDE DEF q, t
<1>3. CASE i + read <= Len(q)
    <2>1. t[i] = q[i + read]
        BY <1>1, <1>3
    <2>2. i + read \in 1 .. Len(q)
        BY <1>1, <1>2, <1>3
    <2> QED
        BY <2>1, <2>2 DEF q, t
<1>4. CASE ~ (i + read <= Len(q))
    <2>1. t[i] = replies[i + read - Len(q)]
        BY <1>1, <1>4
    <2>2. i + read - Len(q) \in 1 .. Len(replies) /\ i + read > Len(q)
        BY <1>1, <1>2, <1>4
    <2> QED
        BY <2>1, <2>2 DEF q, t
<1> QED
    BY <1>3, <1>4

RepliesLogged(log, replies) ==
    \A k \in 1 .. Len(replies) :
        replies[k].path = "message" =>
            /\ replies[k].message.serial \in DOMAIN log
            /\ replies[k].message.msg = log[replies[k].message.serial]

LEMMA SentLoggedMoves ==
    ASSUME TypeInv, NEW c \in Clients, NEW read \in Nat, NEW replies,
           read <= Len(toClient[c]), Moves(c, read, replies),
           NEW log, NEW new, DOMAIN log = 0 .. messageSerial - 1,
           SentLogged(log, c),
           \A s \in DOMAIN log : new[s] = log[s],
           RepliesLogged(log, replies)
    PROVE  SentLogged(new, c)'
<1> SUFFICES ASSUME NEW i \in 1 .. Len(toClient'[c]),
                    toClient'[c][i].path = "message"
             PROVE  toClient'[c][i].message.msg = new[toClient'[c][i].message.serial]
    BY DEF SentLogged, Path, SerialOf
<1>0. toClient[c] \in Seq(Responses) /\ Len(toClient[c]) \in Nat
    BY DEF TypeInv, ClientTyped
<1>1. CASE /\ i + read \in 1 .. Len(toClient[c])
           /\ toClient'[c][i] = toClient[c][i + read]
    <2> DEFINE k == i + read
    <2>1. k \in 1 .. Len(toClient[c]) /\ toClient[c][k].path = "message"
        BY <1>1
    <2> HIDE DEF k
    <2>2. /\ toClient[c][k].message.msg = log[SerialOf(c, k)]
          /\ SerialOf(c, k) \in 1 .. messageSerial - 1
        BY <2>1 DEF SentLogged, TypeInv, ClientTyped, Path, SerialOf
    <2>3. SerialOf(c, k) \in DOMAIN log
        BY <2>2 DEF TypeInv, ServerTyped
    <2>4. toClient[c][k].message.msg = new[toClient[c][k].message.serial]
        BY <2>2, <2>3 DEF SerialOf
    <2> QED
        BY <1>1, <2>4 DEF k
<1>2. CASE /\ i + read - Len(toClient[c]) \in 1 .. Len(replies)
           /\ toClient'[c][i] = replies[i + read - Len(toClient[c])]
    <2> DEFINE k == i + read - Len(toClient[c])
    <2>1. k \in 1 .. Len(replies) /\ replies[k].path = "message"
        BY <1>2
    <2> HIDE DEF k
    <2>2. replies[k].message.msg = new[replies[k].message.serial]
        BY <2>1 DEF RepliesLogged
    <2>3. toClient'[c][i] = replies[k]
        BY <1>2 DEF k
    <2> QED
        BY <2>2, <2>3
<1>3. \/ /\ i + read \in 1 .. Len(toClient[c])
         /\ toClient'[c][i] = toClient[c][i + read]
      \/ /\ i + read - Len(toClient[c]) \in 1 .. Len(replies)
         /\ toClient'[c][i] = replies[i + read - Len(toClient[c])]
    BY <1>0, MovesIndex
<1> QED
    BY <1>1, <1>2, <1>3

(* What a client has read does not exceed the serial it ends with.         *)
Keeps(c, read) ==
    /\ client'[c].messageSerial >= client[c].messageSerial
    /\ \A j \in 1 .. read :
          Path(c, j) = "message" => SerialOf(c, j) <= client'[c].messageSerial

LEMMA InTurnMoves ==
    ASSUME TypeInv, TypeInv', NEW c \in Clients, NEW read \in Nat, NEW replies,
           read <= Len(toClient[c]), Moves(c, read, replies),
           InTurn(c), Keeps(c, read),
           \A k \in 1 .. Len(replies) :
              replies[k].path = "message" =>
                  \/ replies[k].message.serial <= client'[c].messageSerial + 1
                  \/ /\ k > 1
                     /\ replies[k - 1].path = "message"
                     /\ replies[k - 1].message.serial = replies[k].message.serial - 1
    PROVE  InTurn(c)'
<1> DEFINE q == toClient[c]
           t == toClient'[c]
           cs == client[c].messageSerial
           ds == client'[c].messageSerial
           n == Len(q)
<1>1. /\ q \in Seq(Responses) /\ t \in Seq(Responses) /\ replies \in Seq(Responses)
      /\ Len(t) = n - read + Len(replies)
      /\ \A k \in 1 .. Len(t) :
            t[k] = IF k + read <= n THEN q[k + read] ELSE replies[k + read - n]
    BY DEF Moves, TypeInv, ClientTyped
<1>2. /\ n \in Nat /\ Len(t) \in Nat /\ Len(replies) \in Nat /\ read <= n
    BY <1>1, LenProperties
<1>3. /\ messageSerial \in Nat /\ messageSerial' \in Nat
      /\ cs \in Nat /\ ds \in Nat /\ ds >= cs
    BY DEF TypeInv, ServerTyped, ClientTyped, ClientRecords, Keeps
<1>4. \A k \in 1 .. n : q[k].path = "message" => q[k].message.serial \in Nat
    <2>1. \A k \in 1 .. n : q[k].path = "message" =>
              q[k].message.serial \in 1 .. messageSerial - 1
        BY DEF TypeInv, ClientTyped
    <2> HIDE DEF q
    <2> QED
        BY <1>3, <2>1
<1>5. \A k \in 1 .. n :
         q[k].path = "message" /\ q[k].message.serial > cs + 1 =>
            \E j \in 1 .. k - 1 :
                q[j].path = "message" /\ q[j].message.serial = q[k].message.serial - 1
    BY DEF InTurn, Path, SerialOf
<1>6. \A j \in 1 .. read : q[j].path = "message" => q[j].message.serial <= ds
    BY DEF Keeps, Path, SerialOf
<1>7. \A k \in 1 .. Len(t) : t[k].path = "message" => t[k].message.serial \in Nat
    <2>1. \A k \in 1 .. Len(t) : t[k].path = "message" =>
              t[k].message.serial \in 1 .. messageSerial' - 1
        BY DEF TypeInv, ClientTyped
    <2> HIDE DEF t
    <2> QED
        BY <1>3, <2>1
<1>8. \A k \in 1 .. Len(replies) :
         replies[k].path = "message" =>
             \/ replies[k].message.serial <= ds + 1
             \/ /\ k > 1
                /\ replies[k - 1].path = "message"
                /\ replies[k - 1].message.serial = replies[k].message.serial - 1
    OBVIOUS
<1> SUFFICES ASSUME NEW i \in 1 .. Len(t), t[i].path = "message",
                    t[i].message.serial > ds + 1
             PROVE  \E j \in 1 .. i - 1 :
                       /\ t[j].path = "message"
                       /\ t[j].message.serial = t[i].message.serial - 1
    BY DEF InTurn, Path, SerialOf
<1> HIDE DEF q, t, cs, ds, n
<1>9. t[i].message.serial \in Nat
    BY <1>7
<1>10. CASE i + read <= n
    <2> DEFINE k == i + read
    <2>1. k \in 1 .. n /\ t[i] = q[k]
        <3>1. t[i] = q[k]
            BY <1>1, <1>10
        <3> QED
            BY <1>2, <1>10, <3>1
    <2> HIDE DEF k
    <2>2. q[k].message.serial > cs + 1
        BY <1>3, <1>9, <2>1
    <2>3. PICK l \in 1 .. k - 1 :
             q[l].path = "message" /\ q[l].message.serial = q[k].message.serial - 1
        BY <1>5, <2>1, <2>2
    <2>4. q[l].message.serial > ds
        BY <1>3, <1>9, <2>1, <2>3
    <2>5. l \in Nat /\ k \in Nat /\ l >= 1 /\ l <= k - 1 /\ l <= n
        BY <1>2, <2>1, <2>3
    <2>6. l > read
        <3> SUFFICES ASSUME ~ (l > read) PROVE FALSE
            OBVIOUS
        <3>1. l \in 1 .. read
            BY <2>5
        <3>2. q[l].message.serial <= ds /\ q[l].message.serial \in Nat
            BY <1>4, <1>6, <2>3, <2>5, <3>1
        <3> QED
            BY <1>3, <2>4, <3>2
    <2> DEFINE j == l - read
    <2>7. j \in 1 .. i - 1 /\ j \in 1 .. Len(t) /\ j + read <= n /\ j + read = l
        BY <1>2, <2>5, <2>6 DEF k
    <2> HIDE DEF j
    <2>8. t[j] = q[l]
        <3>1. t[j] = q[j + read]
            BY <1>1, <2>7
        <3> QED
            BY <2>7, <3>1
    <2> QED
        BY <2>1, <2>3, <2>7, <2>8
<1>11. CASE ~ (i + read <= n)
    <2> DEFINE k == i + read - n
    <2>1. t[i] = replies[k]
        BY <1>1, <1>11
    <2>2. k \in 1 .. Len(replies)
        BY <1>1, <1>2, <1>11
    <2> HIDE DEF k
    <2>3. replies[k].path = "message" /\ ~ (replies[k].message.serial <= ds + 1)
        BY <1>3, <1>9, <2>1
    <2>4. /\ k > 1
          /\ replies[k - 1].path = "message"
          /\ replies[k - 1].message.serial = replies[k].message.serial - 1
        BY <1>8, <2>2, <2>3
    <2> DEFINE j == i - 1
    <2>5. /\ j \in 1 .. Len(t) /\ j \in 1 .. i - 1 /\ ~ (j + read <= n)
          /\ j + read - n = k - 1
        BY <1>2, <1>11, <2>2, <2>4 DEF k
    <2> HIDE DEF j
    <2>6. t[j] = replies[k - 1]
        <3>1. t[j] = replies[j + read - n]
            BY <1>1, <2>5
        <3> QED
            BY <2>5, <3>1
    <2> QED
        BY <2>1, <2>4, <2>5, <2>6
<1> QED
    BY <1>10, <1>11

(* What a step numbers is late for everybody, so that a roster is covered  *)
(* as it was.                                                              *)
LEMMA GrowthCovers ==
    ASSUME messageSerial \in Nat, NEW log, DOMAIN log = 0 .. messageSerial - 1,
           NEW queued, Logs(queued), NEW new, Extends(log, queued, new),
           NEW late, NEW late2, NEW roster,
           Covered(log, late, roster, nameMap),
           \A s \in DOMAIN log : s \in late => s \in late2,
           \A s \in Nat : s >= messageSerial => s \in late2
    PROVE  Covered(new, late2, roster, nameMap')
<1>1. \A s \in DOMAIN log \cap late : s \in DOMAIN new \cap late2 /\ new[s] = log[s]
    BY DEF Extends
<1>2. ASSUME NEW id \in Ids, ~ Agree(nameMap', nameMap, id)
      PROVE  \E s \in DOMAIN new \cap late2 : About(new[s], id)
    <2>1. PICK i \in 1 .. Len(queued) : About(queued[i], id)
        BY <1>2 DEF Logs
    <2> DEFINE s == messageSerial + i - 1
    <2>2. s \in DOMAIN new /\ new[s] = queued[i]
        BY DEF Extends
    <2>3. s \in Nat /\ s >= messageSerial
        OBVIOUS
    <2> HIDE DEF s
    <2> QED
        BY <2>1, <2>2, <2>3
<1> QED
    BY <1>1, <1>2, CoveredGrows

LEMMA RosterCoveredGrows ==
    ASSUME TypeInv, NEW c \in Clients, NEW log, DOMAIN log = 0 .. messageSerial - 1,
           NEW queued, Logs(queued), NEW new, Extends(log, queued, new),
           RosterCovered(log, c), HasBegun(c),
           client'[c].polling => client[c].polling,
           client'[c].nameMap = client[c].nameMap,
           client'[c].messageSerial = client[c].messageSerial
    PROVE  RosterCovered(new, c)'
<1> SUFFICES ASSUME client'[c].polling
             PROVE  Covered(new, Late(c, 0)', client'[c].nameMap, nameMap')
    BY DEF RosterCovered
<1>1. Covered(log, Late(c, 0), client[c].nameMap, nameMap)
    BY DEF RosterCovered
<1>2. /\ messageSerial \in Nat /\ client[c].messageSerial \in Nat
      /\ client[c].messageSerial < messageSerial
    BY DEF TypeInv, ServerTyped, ClientTyped, ClientRecords, HasBegun
<1>3. Late(c, 0)' = Late(c, 0) /\ Late(c, 0) = {s \in Nat : s > client[c].messageSerial}
    BY DEF Late
<1>4. \A s \in Nat : s >= messageSerial => s \in Late(c, 0)'
    BY <1>2, <1>3
<1>5. Covered(new, Late(c, 0)', client[c].nameMap, nameMap')
    BY <1>1, <1>2, <1>3, <1>4, GrowthCovers
<1> QED
    BY <1>5

LEMMA SnapshotsMove ==
    ASSUME TypeInv, TypeInv', NEW c \in Clients, NEW read \in Nat, NEW replies,
           read <= Len(toClient[c]), Moves(c, read, replies),
           NEW log, DOMAIN log = 0 .. messageSerial - 1,
           NEW queued, Logs(queued), NEW new, Extends(log, queued, new),
           SnapshotsCovered(log, c), HasBegun(c),
           \/ client'[c].messageSerial = client[c].messageSerial
           \/ /\ read = 1 /\ Path(c, 1) = "message"
              /\ client'[c].messageSerial = SerialOf(c, 1),
           \A k \in 1 .. Len(replies) :
              /\ replies[k].path = "message" =>
                     replies[k].message.serial \in 1 .. messageSerial - 1
              /\ replies[k].path = "chatSetAllClients" =>
                     replies[k].nameMap = nameMap'
    PROVE  SnapshotsCovered(new, c)'
<1> DEFINE q == toClient[c]
           t == toClient'[c]
           cs == client[c].messageSerial
           ds == client'[c].messageSerial
           n == Len(q)
<1>1. /\ q \in Seq(Responses) /\ t \in Seq(Responses) /\ replies \in Seq(Responses)
      /\ Len(t) = n - read + Len(replies)
      /\ \A k \in 1 .. Len(t) :
            t[k] = IF k + read <= n THEN q[k + read] ELSE replies[k + read - n]
    BY DEF Moves, TypeInv, ClientTyped
<1>2. /\ n \in Nat /\ Len(t) \in Nat /\ Len(replies) \in Nat /\ read <= n
    BY <1>1, LenProperties
<1>3. messageSerial \in Nat /\ cs \in Nat /\ ds \in Nat
    BY DEF TypeInv, ServerTyped, ClientTyped, ClientRecords
<1>4. \A k \in 1 .. n : q[k].path = "message" =>
          q[k].message.serial \in 1 .. messageSerial - 1
    BY DEF TypeInv, ClientTyped
<1>5. \/ ds = cs
      \/ read = 1 /\ q[1].path = "message" /\ ds = q[1].message.serial
    BY DEF Path, SerialOf
<1>6. q # <<>> => messageSerial > 0 /\ cs < messageSerial
    BY <1>3 DEF HasBegun
<1>7. \A k \in 1 .. Len(replies) :
         /\ replies[k].path = "message" =>
                replies[k].message.serial \in 1 .. messageSerial - 1
         /\ replies[k].path = "chatSetAllClients" =>
                replies[k].nameMap = nameMap'
    OBVIOUS
<1>8. \A k \in 1 .. n : q[k].path = "chatSetAllClients" =>
          Covered(log, Late(c, k - 1), q[k].nameMap, nameMap)
    BY DEF SnapshotsCovered, Path
<1>9. ASSUME NEW k \in Nat
      PROVE  /\ Late(c, k) = {s \in Nat : s > cs /\ \A j \in 1 .. k :
                    q[j].path = "message" => q[j].message.serial < s}
             /\ Late(c, k)' = {s \in Nat : s > ds /\ \A j \in 1 .. k :
                    t[j].path = "message" => t[j].message.serial < s}
    BY DEF Late, Path, SerialOf
<1> SUFFICES ASSUME NEW i \in 1 .. Len(t), t[i].path = "chatSetAllClients"
             PROVE  Covered(new, Late(c, i - 1)', t[i].nameMap, nameMap')
    BY DEF SnapshotsCovered, Path
<1> HIDE DEF q, t, cs, ds, n
<1>10. CASE i + read <= n
    <2> DEFINE k == i + read
    <2>1. k \in 1 .. n /\ k \in Nat /\ k - 1 \in Nat /\ i - 1 \in Nat
        BY <1>2, <1>10
    <2>2. t[i] = q[k]
        BY <1>1, <1>10
    <2>3. q # <<>>
        BY <2>1 DEF n
    <2>4. ds < messageSerial
        <3>1. CASE ds = cs
            BY <1>3, <1>6, <2>3, <3>1
        <3>2. CASE read = 1 /\ q[1].path = "message" /\ ds = q[1].message.serial
            <4>1. 1 \in 1 .. n
                BY <1>2, <3>2
            <4>2. q[1].message.serial \in 1 .. messageSerial - 1
                BY <1>4, <3>2, <4>1
            <4> QED
                BY <1>3, <3>2, <4>2
        <3> QED
            BY <1>5, <3>1, <3>2
    <2>5. ASSUME NEW s \in DOMAIN log, s \in Late(c, k - 1)
          PROVE  s \in Late(c, i - 1)'
        <3>1. /\ s \in Nat /\ s > cs
              /\ \A j \in 1 .. k - 1 : q[j].path = "message" => q[j].message.serial < s
            <4> HIDE DEF k
            <4> QED
                BY <1>9, <2>1, <2>5
        <3>2. s > ds
            <4>1. CASE ds = cs
                BY <3>1, <4>1
            <4>2. CASE read = 1 /\ q[1].path = "message" /\ ds = q[1].message.serial
                <5>1. 1 \in 1 .. k - 1
                    BY <4>2
                <5>2. q[1].message.serial < s
                    BY <3>1, <4>2, <5>1
                <5> QED
                    BY <1>3, <3>1, <4>2, <5>2
            <4> QED
                BY <1>5, <4>1, <4>2
        <3>3. ASSUME NEW j \in 1 .. i - 1, t[j].path = "message"
              PROVE  t[j].message.serial < s
            <4>1. j \in 1 .. Len(t) /\ j + read <= n /\ j + read \in 1 .. k - 1
                BY <1>2, <1>10
            <4>2. t[j] = q[j + read]
                BY <1>1, <4>1
            <4> HIDE DEF k
            <4> QED
                BY <3>1, <3>3, <4>1, <4>2
        <3> QED
            BY <1>9, <2>1, <3>1, <3>2, <3>3
    <2>6. ASSUME NEW s \in Nat, s >= messageSerial PROVE s \in Late(c, i - 1)'
        <3>1. s > ds
            BY <1>3, <2>4, <2>6
        <3>2. ASSUME NEW j \in 1 .. i - 1, t[j].path = "message"
              PROVE  t[j].message.serial < s
            <4>1. j \in 1 .. Len(t) /\ j + read <= n /\ j + read \in 1 .. n
                BY <1>2, <1>10
            <4>2. t[j] = q[j + read]
                BY <1>1, <4>1
            <4>3. t[j].message.serial \in 1 .. messageSerial - 1
                BY <1>4, <3>2, <4>1, <4>2
            <4> QED
                BY <1>3, <2>6, <4>3
        <3> QED
            BY <1>9, <2>1, <3>1, <3>2
    <2>7. Covered(log, Late(c, k - 1), t[i].nameMap, nameMap)
        BY <1>8, <2>1, <2>2
    <2> HIDE DEF k
    <2> QED
        BY <1>3, <2>5, <2>6, <2>7, GrowthCovers
<1>11. CASE ~ (i + read <= n)
    <2> DEFINE k == i + read - n
    <2>1. t[i] = replies[k]
        BY <1>1, <1>11
    <2>2. k \in 1 .. Len(replies)
        BY <1>1, <1>2, <1>11
    <2> HIDE DEF k
    <2>3. t[i].nameMap = nameMap'
        BY <1>7, <2>1, <2>2
    <2> QED
        BY <2>3 DEF Covered, Agree
<1> QED
    BY <1>10, <1>11

----------------------------------------------------------------------------
(* One client, by what happens to it.                                      *)
RepliesFit(log, c, replies) ==
    \A k \in 1 .. Len(replies) :
        /\ replies[k].path = "message" =>
              /\ replies[k].message.serial \in 1 .. messageSerial - 1
              /\ replies[k].message.msg = log[replies[k].message.serial]
              /\ c \notin truncated' =>
                    \/ replies[k].message.serial <= client'[c].messageSerial + 1
                    \/ /\ k > 1
                       /\ replies[k - 1].path = "message"
                       /\ replies[k - 1].message.serial =
                              replies[k].message.serial - 1
        /\ replies[k].path = "chatSetAllClients" =>
              replies[k].nameMap = nameMap'

LEMMA QueueMoves ==
    ASSUME TypeInv, TypeInv', truncated \subseteq truncated', NEW c \in Clients,
           NEW log, LogInv(log), NEW queued, Logs(queued),
           NEW new, Extends(log, queued, new),
           NEW read \in Nat, NEW replies,
           read <= Len(toClient[c]), Moves(c, read, replies),
           \/ client'[c].messageSerial = client[c].messageSerial
           \/ /\ read = 1 /\ Path(c, 1) = "message"
              /\ client'[c].messageSerial = SerialOf(c, 1)
              /\ SerialOf(c, 1) > client[c].messageSerial,
           \A j \in 1 .. read :
              Path(c, j) = "message" => SerialOf(c, j) <= client'[c].messageSerial,
           RepliesFit(log, c, replies)
    PROVE  /\ SentLogged(new, c)'
           /\ c \notin truncated' => InTurn(c)' /\ SnapshotsCovered(new, c)'
<1>1. /\ DOMAIN log = 0 .. messageSerial - 1
      /\ SentLogged(log, c) /\ HasBegun(c)
      /\ c \notin truncated' => InTurn(c) /\ SnapshotsCovered(log, c)
    BY DEF LogInv, ClientLogged
<1>2. SentLogged(new, c)'
    <2>1. \A s \in DOMAIN log : new[s] = log[s]
        BY DEF Extends
    <2>2. 1 .. messageSerial - 1 \subseteq DOMAIN log
        BY <1>1 DEF TypeInv, ServerTyped
    <2>3. RepliesLogged(log, replies)
        BY <2>2 DEF RepliesFit, RepliesLogged
    <2> QED
        BY <1>1, <2>1, <2>3, SentLoggedMoves
<1>3. ASSUME c \notin truncated' PROVE InTurn(c)'
    <2>1. Keeps(c, read)
        <3>1. client[c].messageSerial \in Nat /\ client'[c].messageSerial \in Nat
            BY DEF TypeInv, ClientTyped, ClientRecords
        <3>2. client'[c].messageSerial >= client[c].messageSerial
            BY <3>1
        <3> QED
            BY <3>2 DEF Keeps
    <2>2. \A k \in 1 .. Len(replies) :
              replies[k].path = "message" =>
                  \/ replies[k].message.serial <= client'[c].messageSerial + 1
                  \/ /\ k > 1
                     /\ replies[k - 1].path = "message"
                     /\ replies[k - 1].message.serial = replies[k].message.serial - 1
        BY <1>3 DEF RepliesFit
    <2>3. InTurn(c)
        BY <1>1, <1>3
    <2> QED
        BY <2>1, <2>2, <2>3, InTurnMoves
<1>4. ASSUME c \notin truncated' PROVE SnapshotsCovered(new, c)'
    <2>1. SnapshotsCovered(log, c)
        BY <1>1, <1>4
    <2>2. \A k \in 1 .. Len(replies) :
              /\ replies[k].path = "message" =>
                     replies[k].message.serial \in 1 .. messageSerial - 1
              /\ replies[k].path = "chatSetAllClients" =>
                     replies[k].nameMap = nameMap'
        BY DEF RepliesFit
    <2> QED
        BY <1>1, <2>1, <2>2, SnapshotsMove
<1> QED
    BY <1>2, <1>3, <1>4

LEMMA BegunStays ==
    ASSUME TypeInv, NEW c \in Clients, HasBegun(c), messageSerial' \in Nat,
           messageSerial <= messageSerial',
           \/ client'[c].messageSerial = client[c].messageSerial
           \/ client'[c].messageSerial < messageSerial,
           client'[c].messageSerial \in Nat,
           \/ messageSerial' > 0
           \/ (client'[c].polling \/ toClient'[c] # <<>>) =>
                  (client[c].polling \/ toClient[c] # <<>>)
    PROVE  HasBegun(c)'
<1>1. messageSerial \in Nat /\ client[c].messageSerial \in Nat
    BY DEF TypeInv, ServerTyped, ClientTyped, ClientRecords
<1>2. client'[c].messageSerial = 0 \/ client'[c].messageSerial < messageSerial'
    BY <1>1 DEF HasBegun
<1>3. client'[c].polling \/ toClient'[c] # <<>> => messageSerial' > 0
    <2>1. CASE messageSerial' > 0
        BY <2>1
    <2>2. CASE (client'[c].polling \/ toClient'[c] # <<>>) =>
                  (client[c].polling \/ toClient[c] # <<>>)
        <3>1. (client'[c].polling \/ toClient'[c] # <<>>) => messageSerial > 0
            BY <2>2 DEF HasBegun
        <3> QED
            BY <1>1, <3>1
    <2> QED
        BY <2>1, <2>2
<1> QED
    BY <1>2, <1>3 DEF HasBegun

(* A queue that only lets responses go was not empty if it is not.         *)
LEMMA StillQueued ==
    ASSUME NEW c, NEW read \in Nat, toClient[c] \in Seq(Responses),
           Moves(c, read, <<>>), toClient'[c] # <<>>
    PROVE  toClient[c] # <<>>
<1>1. Len(<<>>) = 0 /\ Len(toClient'[c]) = Len(toClient[c]) - read + Len(<<>>)
    BY EmptySeq DEF Moves
<1>2. toClient'[c] \in Seq(Responses) /\ Len(toClient'[c]) > 0
    <2>1. toClient'[c] \in Seq(Responses)
        BY DEF Moves
    <2> QED
        BY <2>1, EmptySeq
<1>3. Len(toClient[c]) > 0
    <2>1. Len(toClient[c]) \in Nat /\ Len(toClient'[c]) \in Nat
        BY <1>2, LenProperties
    <2> QED
        BY <1>1, <1>2, <2>1
<1> QED
    BY <1>1, <1>3

LEMMA RestsLogged ==
    ASSUME TypeInv, TypeInv', truncated \subseteq truncated', NEW c \in Clients,
           NEW log, LogInv(log), NEW queued, Logs(queued),
           NEW new, Extends(log, queued, new), Rests(c)
    PROVE  ClientLogged(new, c)'
<1>1. /\ DOMAIN log = 0 .. messageSerial - 1 /\ HasBegun(c)
      /\ c \notin truncated' => RosterCovered(log, c)
      /\ client'[c].messageSerial = client[c].messageSerial
      /\ client'[c].nameMap = client[c].nameMap
      /\ client'[c].polling => client[c].polling
      /\ toClient[c] \in Seq(Responses) /\ Len(toClient[c]) \in Nat
      /\ client'[c].messageSerial \in Nat
    BY DEF LogInv, ClientLogged, Rests, TypeInv, ClientTyped, ClientRecords
<1>2. c \notin truncated' => RosterCovered(new, c)'
    BY <1>1, RosterCoveredGrows
<1>3. messageSerial' \in Nat /\ messageSerial <= messageSerial'
    BY LogsGrow DEF TypeInv
<1>4. HasBegun(c)'
    <2>1. toClient'[c] # <<>> => toClient[c] # <<>>
        BY <1>1, StillQueued DEF Rests
    <2> QED
        BY <1>1, <1>3, <2>1, BegunStays
<1>5. SentLogged(new, c)' /\ (c \notin truncated' => InTurn(c)' /\ SnapshotsCovered(new, c)')
    <2>1. CASE Moves(c, 0, <<>>)
        <3> DEFINE none == <<>>
        <3>1. Len(none) = 0 /\ Moves(c, 0, none) /\ 0 <= Len(toClient[c])
            BY <1>1, <2>1
        <3>2. RepliesFit(log, c, none)
            BY <3>1 DEF RepliesFit
        <3> HIDE DEF none
        <3> QED
            BY <1>1, <3>1, <3>2, QueueMoves
    <2>2. CASE Moves(c, Len(toClient[c]), <<>>)
        <3>1. Len(toClient'[c]) = 0
            BY <1>1, <2>2 DEF Moves
        <3> QED
            BY <3>1 DEF SentLogged, InTurn, SnapshotsCovered
    <2> QED
        BY <2>1, <2>2 DEF Rests
<1> QED
    BY <1>2, <1>4, <1>5 DEF ClientLogged

LEMMA SignsInLogged ==
    ASSUME TypeInv, TypeInv', truncated \subseteq truncated', NEW c \in Clients,
           NEW log, LogInv(log), NEW queued, Logs(queued),
           NEW new, Extends(log, queued, new), SignsIn(c)
    PROVE  ClientLogged(new, c)'
<1>1. /\ DOMAIN log = 0 .. messageSerial - 1 /\ HasBegun(c)
      /\ c \notin truncated' => RosterCovered(log, c)
      /\ client'[c] = client[c]
      /\ toClient[c] \in Seq(Responses) /\ Len(toClient[c]) \in Nat
      /\ client'[c].messageSerial \in Nat
      /\ messageSerial' > 0
    BY DEF LogInv, ClientLogged, SignsIn, TypeInv, ClientTyped, ClientRecords
<1>2. c \notin truncated' => RosterCovered(new, c)'
    BY <1>1, RosterCoveredGrows
<1>3. messageSerial' \in Nat /\ messageSerial <= messageSerial'
    BY LogsGrow DEF TypeInv
<1>4. HasBegun(c)'
    BY <1>1, <1>3, BegunStays
<1>5. SentLogged(new, c)' /\ (c \notin truncated' => InTurn(c)' /\ SnapshotsCovered(new, c)')
    <2>1. PICK id \in Ids : Moves(c, 0, <<[path |-> "chatSignInComplete", id |-> id]>>)
        BY DEF SignsIn
    <2> DEFINE replies == <<[path |-> "chatSignInComplete", id |-> id]>>
    <2>2. /\ \A k \in 1 .. Len(replies) : replies[k].path = "chatSignInComplete"
          /\ Moves(c, 0, replies) /\ 0 <= Len(toClient[c])
        BY <1>1, <2>1
    <2>3. RepliesFit(log, c, replies)
        BY <2>2 DEF RepliesFit
    <2> HIDE DEF replies
    <2> QED
        BY <1>1, <2>2, <2>3, QueueMoves
<1> QED
    BY <1>2, <1>4, <1>5 DEF ClientLogged

LEMMA PollsLogged ==
    ASSUME TypeInv, TypeInv', truncated \subseteq truncated', NEW c \in Clients,
           NEW log, LogInv(log), NEW queued, Logs(queued),
           NEW new, Extends(log, queued, new), Polls(c)
    PROVE  ClientLogged(new, c)'
<1> DEFINE id == client[c].messageSerial
           replies == Answer(id)
           from == StartAfter(id)
<1>1. /\ DOMAIN log = 0 .. messageSerial - 1 /\ HasBegun(c)
      /\ c \notin truncated' => RosterCovered(log, c)
      /\ client'[c] = client[c] /\ client[c].polling
      /\ toClient[c] \in Seq(Responses) /\ Len(toClient[c]) \in Nat
      /\ client'[c].messageSerial \in Nat /\ id \in Nat
      /\ messageSerial \in Nat
    BY DEF LogInv, ClientLogged, Polls, TypeInv, ServerTyped, ClientTyped,
           ClientRecords
<1>2. c \notin truncated' => RosterCovered(new, c)'
    BY <1>1, RosterCoveredGrows
<1>3. messageSerial' \in Nat /\ messageSerial <= messageSerial'
    BY LogsGrow DEF TypeInv
<1>4. HasBegun(c)'
    BY <1>1, <1>3, BegunStays
<1>5. SentLogged(new, c)' /\ (c \notin truncated' => InTurn(c)' /\ SnapshotsCovered(new, c)')
    <2>1. Moves(c, 0, replies) /\ 0 <= Len(toClient[c])
        BY <1>1 DEF Polls
    <2>2. c \notin truncated' => from <= id
        <3>1. from \in Nat /\ (from > id => c \in truncated')
            BY <1>1, StartsInRing DEF Polls
        <3> HIDE DEF from, id
        <3> QED
            BY <1>1, <3>1
    <2>3. from \in Nat
        BY <1>1, StartsInRing
    <2>4. ASSUME NEW k \in 1 .. Len(replies)
          PROVE  /\ replies[k].path = "message"
                 /\ replies[k].message.serial \in 1 .. messageSerial - 1
                 /\ replies[k].message.serial = from + k
                 /\ replies[k].message.msg = log[replies[k].message.serial]
        <3> DEFINE s == from + k
        <3>1. /\ s \in 1 .. messageSerial - 1
              /\ s + MessageArraySize >= messageSerial
              /\ replies[k].path = "message"
              /\ replies[k].message = messages[s % MessageArraySize]
              /\ replies[k].message.serial = s
            BY <1>1, Answers DEF TypeInv
        <3> HIDE DEF s
        <3>2. messages[s % MessageArraySize].msg = log[s]
            BY <1>1, <3>1 DEF LogInv, RingLogged
        <3> QED
            BY <3>1, <3>2 DEF s
    <2>5. ASSUME NEW k \in 1 .. Len(replies), c \notin truncated'
          PROVE  \/ replies[k].message.serial <= id + 1
                 \/ /\ k > 1
                    /\ replies[k - 1].path = "message"
                    /\ replies[k - 1].message.serial = replies[k].message.serial - 1
        <3>0. Len(replies) \in Nat
            BY <2>1 DEF Moves
        <3> HIDE DEF replies, from, id
        <3>1. CASE k = 1
            BY <1>1, <2>2, <2>3, <2>4, <2>5, <3>1
        <3>2. CASE k > 1
            <4>1. k - 1 \in 1 .. Len(replies)
                BY <3>0, <3>2
            <4>2. /\ replies[k - 1].path = "message"
                  /\ replies[k - 1].message.serial = from + (k - 1)
                BY <2>4, <4>1
            <4>3. replies[k].message.serial = from + k
                BY <2>4
            <4> QED
                BY <2>3, <3>2, <4>2, <4>3
        <3> QED
            BY <3>0, <3>1, <3>2
    <2> HIDE DEF replies, from
    <2>6. RepliesFit(log, c, replies)
        BY <1>1, <2>4, <2>5 DEF RepliesFit
    <2> QED
        BY <1>1, <2>1, <2>6, QueueMoves
<1> QED
    BY <1>2, <1>4, <1>5 DEF ClientLogged

LEMMA FirstQueued ==
    ASSUME NEW c, NEW path, toClient[c] \in Seq(Responses), First(c, path)
    PROVE  /\ 1 \in 1 .. Len(toClient[c]) /\ 1 <= Len(toClient[c])
           /\ Path(c, 1) = path /\ toClient[c] # <<>>
BY EmptySeq DEF First

LEMMA AsksForRosterLogged ==
    ASSUME TypeInv, TypeInv', truncated \subseteq truncated', NEW c \in Clients,
           NEW log, LogInv(log), NEW queued, Logs(queued),
           NEW new, Extends(log, queued, new), AsksForRoster(c)
    PROVE  ClientLogged(new, c)'
<1>1. /\ DOMAIN log = 0 .. messageSerial - 1 /\ HasBegun(c)
      /\ c \notin truncated' => RosterCovered(log, c)
      /\ toClient[c] \in Seq(Responses) /\ Len(toClient[c]) \in Nat
      /\ client[c] \in ClientRecords
      /\ nameMap' = nameMap /\ messageSerial' = messageSerial
      /\ messageSerial \in Nat
      /\ client'[c] = [client[c] EXCEPT !.userId = toClient[c][1].id]
      /\ Moves(c, 1, <<AllClients>>)
      /\ First(c, "chatSignInComplete")
    BY DEF LogInv, ClientLogged, AsksForRoster, TypeInv, ServerTyped, ClientTyped
<1>2. /\ client'[c].polling = client[c].polling
      /\ client'[c].nameMap = client[c].nameMap
      /\ client'[c].messageSerial = client[c].messageSerial
      /\ client'[c].messageSerial \in Nat
    BY <1>1 DEF ClientRecords
<1>3. c \notin truncated' => RosterCovered(new, c)'
    BY <1>1, <1>2, RosterCoveredGrows
<1>4. /\ 1 \in 1 .. Len(toClient[c]) /\ 1 <= Len(toClient[c])
      /\ Path(c, 1) = "chatSignInComplete" /\ toClient[c] # <<>>
    BY <1>1, FirstQueued
<1>5. HasBegun(c)'
    <2>1. messageSerial' \in Nat /\ messageSerial <= messageSerial'
        BY <1>1
    <2> QED
        BY <1>1, <1>2, <1>4, <2>1, BegunStays
<1>6. SentLogged(new, c)' /\ (c \notin truncated' => InTurn(c)' /\ SnapshotsCovered(new, c)')
    <2> DEFINE replies == <<AllClients>>
    <2>1. /\ \A k \in 1 .. Len(replies) :
                replies[k].path = "chatSetAllClients" /\ replies[k].nameMap = nameMap'
          /\ Moves(c, 1, replies)
        BY <1>1 DEF AllClients
    <2>2. \A j \in 1 .. 1 : Path(c, j) = "message" =>
              SerialOf(c, j) <= client'[c].messageSerial
        BY <1>4
    <2>3. RepliesFit(log, c, replies)
        BY <2>1 DEF RepliesFit
    <2> HIDE DEF replies
    <2> QED
        BY <1>2, <1>4, <2>1, <2>2, <2>3, QueueMoves
<1> QED
    BY <1>3, <1>5, <1>6 DEF ClientLogged

LEMMA IgnoresLogged ==
    ASSUME TypeInv, TypeInv', truncated \subseteq truncated', NEW c \in Clients,
           NEW log, LogInv(log), NEW queued, Logs(queued),
           NEW new, Extends(log, queued, new), Ignores(c)
    PROVE  ClientLogged(new, c)'
<1>1. /\ DOMAIN log = 0 .. messageSerial - 1 /\ HasBegun(c)
      /\ c \notin truncated' => RosterCovered(log, c)
      /\ toClient[c] \in Seq(Responses) /\ Len(toClient[c]) \in Nat
      /\ client[c] \in ClientRecords
      /\ nameMap' = nameMap /\ messageSerial' = messageSerial
      /\ messageSerial \in Nat
      /\ client'[c] = client[c]
      /\ Moves(c, 1, <<>>)
    BY DEF LogInv, ClientLogged, Ignores, TypeInv, ServerTyped, ClientTyped
<1>2. client'[c].messageSerial \in Nat
    BY <1>1 DEF ClientRecords
<1>3. c \notin truncated' => RosterCovered(new, c)'
    BY <1>1, <1>2, RosterCoveredGrows
<1>4. /\ 1 <= Len(toClient[c]) /\ toClient[c] # <<>>
      /\ Path(c, 1) = "message" => SerialOf(c, 1) <= client'[c].messageSerial
    BY <1>1, FirstQueued DEF Ignores
<1>5. HasBegun(c)'
    <2>1. messageSerial' \in Nat /\ messageSerial <= messageSerial'
        BY <1>1
    <2> QED
        BY <1>1, <1>2, <1>4, <2>1, BegunStays
<1>6. SentLogged(new, c)' /\ (c \notin truncated' => InTurn(c)' /\ SnapshotsCovered(new, c)')
    <2> DEFINE none == <<>>
    <2>1. Len(none) = 0 /\ Moves(c, 1, none)
        BY <1>1
    <2>2. \A j \in 1 .. 1 : Path(c, j) = "message" =>
              SerialOf(c, j) <= client'[c].messageSerial
        BY <1>4
    <2>3. RepliesFit(log, c, none)
        BY <2>1 DEF RepliesFit
    <2> HIDE DEF none
    <2> QED
        BY <1>1, <1>4, <2>1, <2>2, <2>3, QueueMoves
<1> QED
    BY <1>3, <1>5, <1>6 DEF ClientLogged

LEMMA TakesRosterLogged ==
    ASSUME TypeInv, TypeInv', truncated \subseteq truncated', NEW c \in Clients,
           NEW log, LogInv(log), NEW queued, Logs(queued),
           NEW new, Extends(log, queued, new), TakesRoster(c)
    PROVE  ClientLogged(new, c)'
<1>1. /\ DOMAIN log = 0 .. messageSerial - 1 /\ HasBegun(c)
      /\ c \notin truncated' => SnapshotsCovered(log, c)
      /\ toClient[c] \in Seq(Responses) /\ Len(toClient[c]) \in Nat
      /\ client[c] \in ClientRecords
      /\ nameMap' = nameMap /\ messageSerial' = messageSerial
      /\ messageSerial \in Nat
      /\ client'[c] = [client[c] EXCEPT !.nameMap = toClient[c][1].nameMap,
                                        !.polling = TRUE]
      /\ Moves(c, 1, <<>>)
      /\ First(c, "chatSetAllClients")
    BY DEF LogInv, ClientLogged, TakesRoster, TypeInv, ServerTyped, ClientTyped
<1>2. /\ client'[c].nameMap = toClient[c][1].nameMap
      /\ client'[c].messageSerial = client[c].messageSerial
      /\ client'[c].messageSerial \in Nat
    BY <1>1 DEF ClientRecords
<1>3. /\ 1 \in 1 .. Len(toClient[c]) /\ 1 <= Len(toClient[c])
      /\ Path(c, 1) = "chatSetAllClients" /\ toClient[c] # <<>>
    BY <1>1, FirstQueued
<1>4. HasBegun(c)'
    <2>1. messageSerial' \in Nat /\ messageSerial <= messageSerial'
        BY <1>1
    <2> QED
        BY <1>1, <1>2, <1>3, <2>1, BegunStays
<1>5. ASSUME c \notin truncated' PROVE RosterCovered(new, c)'
    <2>1. Covered(log, Late(c, 0), toClient[c][1].nameMap, nameMap)
        <3>1. SnapshotsCovered(log, c)
            BY <1>1, <1>5
        <3>2. Covered(log, Late(c, 1 - 1), toClient[c][1].nameMap, nameMap)
            BY <1>3, <3>1 DEF SnapshotsCovered
        <3> QED
            BY <3>2
    <2>2. client[c].messageSerial < messageSerial /\ client[c].messageSerial \in Nat
        BY <1>1, <1>3 DEF HasBegun, ClientRecords
    <2>3. Late(c, 0)' = Late(c, 0) /\ Late(c, 0) = {s \in Nat : s > client[c].messageSerial}
        BY <1>2 DEF Late
    <2>4. \A s \in Nat : s >= messageSerial => s \in Late(c, 0)'
        BY <1>1, <2>2, <2>3
    <2>5. Covered(new, Late(c, 0)', toClient[c][1].nameMap, nameMap')
        BY <1>1, <2>1, <2>3, <2>4, GrowthCovers
    <2> QED
        BY <1>2, <2>5 DEF RosterCovered
<1>6. SentLogged(new, c)' /\ (c \notin truncated' => InTurn(c)' /\ SnapshotsCovered(new, c)')
    <2> DEFINE none == <<>>
    <2>1. Len(none) = 0 /\ Moves(c, 1, none)
        BY <1>1
    <2>2. \A j \in 1 .. 1 : Path(c, j) = "message" =>
              SerialOf(c, j) <= client'[c].messageSerial
        BY <1>3
    <2>3. RepliesFit(log, c, none)
        BY <2>1 DEF RepliesFit
    <2> HIDE DEF none
    <2> QED
        BY <1>2, <1>3, <2>1, <2>2, <2>3, QueueMoves
<1> QED
    BY <1>4, <1>5, <1>6 DEF ClientLogged

(* The first message of a queue that a client acts on is the one after the *)
(* last, if the server has told the client everything.                     *)
LEMMA ActsInTurn ==
    ASSUME TypeInv, NEW c \in Clients, InTurn(c), Acts(c)
    PROVE  SerialOf(c, 1) = client[c].messageSerial + 1
<1>1. /\ 1 \in 1 .. Len(toClient[c]) /\ Path(c, 1) = "message"
      /\ SerialOf(c, 1) > client[c].messageSerial
    BY FirstQueued DEF Acts, TypeInv, ClientTyped
<1>2. /\ client[c].messageSerial \in Nat /\ messageSerial \in Nat
      /\ SerialOf(c, 1) \in 1 .. messageSerial - 1
    BY <1>1 DEF TypeInv, ServerTyped, ClientTyped, ClientRecords, Path, SerialOf
<1>3. ~ (SerialOf(c, 1) > client[c].messageSerial + 1)
    <2>1. 1 .. 1 - 1 = {}
        OBVIOUS
    <2> QED
        BY <1>1, <2>1 DEF InTurn
<1> QED
    BY <1>1, <1>2, <1>3

LEMMA ActsCovered ==
    ASSUME TypeInv, NEW c \in Clients, NEW log,
           DOMAIN log = 0 .. messageSerial - 1,
           \A s \in DOMAIN log : log[s] \in Bodies,
           SentLogged(log, c), RosterLogged(log), InTurn(c), RosterCovered(log, c),
           Acts(c)
    PROVE  RosterCovered(log, c)'
<1> DEFINE cs == client[c].messageSerial
           f == client[c].nameMap
           m == toClient[c][1].message.msg
           s == cs + 1
<1>1. /\ 1 \in 1 .. Len(toClient[c]) /\ Path(c, 1) = "message"
    BY FirstQueued DEF Acts, TypeInv, ClientTyped
<1>2. /\ cs \in Nat /\ messageSerial \in Nat
      /\ SerialOf(c, 1) \in 1 .. messageSerial - 1 /\ SerialOf(c, 1) = s
    BY <1>1, ActsInTurn DEF TypeInv, ServerTyped, ClientTyped, ClientRecords, Path,
                            SerialOf
<1>3. /\ client'[c].messageSerial = s /\ client'[c].nameMap = Changed(f, m)
      /\ client'[c].polling = client[c].polling /\ nameMap' = nameMap
    <2>1. client[c] \in ClientRecords
        BY DEF TypeInv, ClientTyped
    <2> QED
        BY <1>2, <2>1 DEF Acts, ClientRecords
<1>4. m = log[s] /\ s \in DOMAIN log /\ m \in Bodies
    BY <1>1, <1>2 DEF SentLogged
<1>5. /\ Late(c, 0) = {u \in Nat : u > cs}
      /\ Late(c, 0)' = {u \in Nat : u > s}
    BY <1>3 DEF Late
<1> SUFFICES ASSUME client'[c].polling, NEW id \in Ids,
                    ~ \E u \in DOMAIN log \cap Late(c, 0)' : About(log[u], id)
             PROVE  Agree(client'[c].nameMap, nameMap', id)
    BY DEF RosterCovered, Covered
<1>6. Covered(log, Late(c, 0), f, nameMap)
    BY <1>3 DEF RosterCovered
<1>7. \A u \in DOMAIN log : u > s => ~ About(log[u], id)
    <2>1. \A u \in DOMAIN log : u \in Nat
        OBVIOUS
    <2> QED
        BY <1>5, <2>1
<1> HIDE DEF cs, f, m, s
<1>8. CASE About(m, id)
    <2>1. m.path = "chatChangeClient" /\ m.id = id
        BY <1>8 DEF About
    <2>2. Settled(nameMap, m)
        BY <1>4, <1>7, <2>1 DEF RosterLogged
    <2>3. Agree(Changed(f, m), nameMap, m.id)
        BY <1>4, <2>1, <2>2, ChangedSettles
    <2> QED
        BY <1>3, <2>1, <2>3
<1>9. CASE ~ About(m, id)
    <2>1. ASSUME NEW u \in DOMAIN log \cap Late(c, 0) PROVE ~ About(log[u], id)
        <3>1. u \in Nat /\ u > cs
            BY <1>5, <2>1
        <3>2. u = s \/ u > s
            BY <1>2, <3>1 DEF s
        <3> QED
            BY <1>4, <1>7, <1>9, <3>2
    <2>2. Agree(f, nameMap, id)
        BY <1>6, <2>1 DEF Covered
    <2>3. Agree(Changed(f, m), f, id)
        BY <1>4, <1>9, ChangedSettles
    <2>4. Agree(Changed(f, m), nameMap, id)
        BY <2>2, <2>3 DEF Agree
    <2> QED
        BY <1>3, <2>4
<1> QED
    BY <1>8, <1>9

LEMMA ActsLogged ==
    ASSUME TypeInv, TypeInv', truncated \subseteq truncated', NEW c \in Clients,
           NEW log, LogInv(log), NEW queued, Logs(queued),
           NEW new, Extends(log, queued, new), Acts(c)
    PROVE  ClientLogged(new, c)'
<1>1. /\ DOMAIN log = 0 .. messageSerial - 1 /\ HasBegun(c)
      /\ SentLogged(log, c)
      /\ c \notin truncated' => InTurn(c) /\ RosterCovered(log, c)
      /\ toClient[c] \in Seq(Responses) /\ Len(toClient[c]) \in Nat
      /\ client[c] \in ClientRecords /\ client'[c] \in ClientRecords
      /\ messageSerial' = messageSerial /\ messageSerial \in Nat
      /\ Moves(c, 1, <<>>) /\ nameMap' = nameMap
    BY DEF LogInv, ClientLogged, Acts, TypeInv, ServerTyped, ClientTyped
<1>2. /\ 1 \in 1 .. Len(toClient[c]) /\ 1 <= Len(toClient[c])
      /\ Path(c, 1) = "message" /\ toClient[c] # <<>>
    BY <1>1, FirstQueued DEF Acts
<1>3. /\ client'[c].messageSerial = SerialOf(c, 1)
      /\ SerialOf(c, 1) > client[c].messageSerial
      /\ SerialOf(c, 1) \in 1 .. messageSerial - 1
    BY <1>1, <1>2 DEF Acts, ClientRecords, TypeInv, ClientTyped, Path, SerialOf
<1>4. client'[c].messageSerial \in Nat /\ client'[c].messageSerial < messageSerial
    BY <1>1, <1>3
<1>5. HasBegun(c)'
    <2>1. messageSerial' \in Nat /\ messageSerial <= messageSerial'
        BY <1>1
    <2> QED
        BY <1>1, <1>2, <1>4, <2>1, BegunStays
<1>6. ASSUME c \notin truncated' PROVE RosterCovered(new, c)'
    <2>1. RosterCovered(log, c)'
        BY <1>1, <1>6, ActsCovered DEF LogInv
    <2>2. \A s \in DOMAIN log : s \in DOMAIN new /\ new[s] = log[s]
        BY DEF Extends
    <2>3. ASSUME client'[c].polling
          PROVE  Covered(new, Late(c, 0)', client'[c].nameMap, nameMap')
        <3>1. Covered(log, Late(c, 0)', client'[c].nameMap, nameMap')
            BY <2>1, <2>3 DEF RosterCovered
        <3>2. \A id \in Ids : Agree(nameMap', nameMap', id)
            BY DEF Agree
        <3>3. \A s \in DOMAIN log \cap Late(c, 0)' :
                  s \in DOMAIN new \cap Late(c, 0)' /\ new[s] = log[s]
            BY <2>2
        <3> QED
            BY <3>1, <3>2, <3>3, CoveredGrows
    <2> QED
        BY <2>3 DEF RosterCovered
<1>7. SentLogged(new, c)' /\ (c \notin truncated' => InTurn(c)' /\ SnapshotsCovered(new, c)')
    <2> DEFINE none == <<>>
    <2>1. Len(none) = 0 /\ Moves(c, 1, none)
        BY <1>1
    <2>2. \A j \in 1 .. 1 : Path(c, j) = "message" =>
              SerialOf(c, j) <= client'[c].messageSerial
        BY <1>3, <1>4
    <2>3. RepliesFit(log, c, none)
        BY <2>1 DEF RepliesFit
    <2> HIDE DEF none
    <2> QED
        BY <1>2, <1>3, <2>1, <2>2, <2>3, QueueMoves
<1> QED
    BY <1>5, <1>6, <1>7 DEF ClientLogged

----------------------------------------------------------------------------
(***************************************************************************)
(* The theorems                                                            *)
(***************************************************************************)
LEMMA StepsLogged ==
    ASSUME TypeInv, TypeInv', Steps, NEW log, LogInv(log)
    PROVE  \E new : LogInv(new)'
<1>1. PICK queued : Logs(queued)
    BY DEF Steps
<1>2. PICK new : new = [s \in 0 .. messageSerial' - 1 |->
                           IF s < messageSerial THEN log[s]
                           ELSE queued[s - messageSerial + 1]]
    OBVIOUS
<1>3. messageSerial \in Nat /\ DOMAIN log = 0 .. messageSerial - 1
    BY DEF LogInv, TypeInv, ServerTyped
<1>4. /\ DOMAIN new = 0 .. messageSerial' - 1
      /\ Extends(log, queued, new)
      /\ \A s \in DOMAIN new : new[s] \in Bodies
    BY <1>1, <1>2, <1>3, LogExtends DEF LogInv
<1>5. RingLogged(new)'
    BY <1>1, <1>3, <1>4, RingLoggedGrows DEF LogInv
<1>6. RosterLogged(new)'
    BY <1>1, <1>3, <1>4, RosterLoggedGrows DEF LogInv
<1>7. \A c \in Clients : ClientLogged(new, c)'
    BY <1>1, <1>4, RestsLogged, SignsInLogged, PollsLogged, AsksForRosterLogged,
       TakesRosterLogged, ActsLogged, IgnoresLogged DEF Steps, ClientSteps
<1>8. LogInv(new)'
    BY <1>4, <1>5, <1>6, <1>7 DEF LogInv
<1> QED
    BY <1>8

LEMMA InitIInv == Init => IInv
<1> SUFFICES ASSUME Init PROVE IInv
    OBVIOUS
<1>1. TypeInv
    BY InitTyped
<1> DEFINE log == <<>>
<1>2. DOMAIN log = {} /\ DOMAIN log = 0 .. messageSerial - 1
    BY DEF Init, ServerInit
<1>3. RingLogged(log) /\ RosterLogged(log)
    BY <1>2 DEF RingLogged, RosterLogged
<1>4. ASSUME NEW c \in Clients PROVE ClientLogged(log, c)
    <2>1. toClient[c] = <<>> /\ client[c] = NewClient
        BY DEF Init, TCPInit
    <2>2. Len(toClient[c]) = 0 /\ ~ client[c].polling /\ client[c].messageSerial = 0
        BY <2>1 DEF NewClient
    <2>3. SentLogged(log, c) /\ InTurn(c) /\ SnapshotsCovered(log, c)
        BY <2>2 DEF SentLogged, InTurn, SnapshotsCovered
    <2> QED
        BY <2>1, <2>2, <2>3 DEF ClientLogged, HasBegun, RosterCovered
<1>5. LogInv(log)
    BY <1>2, <1>3, <1>4 DEF LogInv
<1> QED
    BY <1>1, <1>5 DEF IInv, Init

LEMMA NextIInv == IInv /\ [Next]_vars => IInv'
<1> SUFFICES ASSUME IInv, [Next]_vars PROVE IInv'
    OBVIOUS
<1>1. TypeInv /\ TypeInv'
    BY NextTyped DEF IInv
<1>2. CASE ServerRestart
    BY <1>1, <1>2 DEF IInv, ServerRestart
<1>3. CASE Steps
    <2> SUFFICES ASSUME ~ restarted
                 PROVE  (\E new : LogInv(new)') /\ outOfTurn' \subseteq truncated'
        BY <1>1, <1>3 DEF IInv, Steps
    <2>1. PICK log : LogInv(log)
        BY DEF IInv
    <2>2. \E new : LogInv(new)'
        BY <1>1, <1>3, <2>1, StepsLogged
    <2>3. ASSUME NEW c \in outOfTurn' PROVE c \in truncated'
        <3>1. CASE c \in outOfTurn
            BY <1>3, <3>1 DEF IInv, Steps
        <3>2. CASE c \in Clients /\ Acts(c)
                   /\ SerialOf(c, 1) # client[c].messageSerial + 1
            <4>1. ~ InTurn(c)
                BY <1>1, <3>2, ActsInTurn
            <4>2. c \in truncated
                BY <2>1, <3>2, <4>1 DEF LogInv, ClientLogged
            <4> QED
                BY <1>3, <4>2 DEF Steps
        <3> QED
            BY <1>3, <3>1, <3>2 DEF Steps
    <2> QED
        BY <2>2, <2>3
<1> QED
    BY <1>1, <1>2, <1>3, NextSteps

LEMMA Invariance == Spec => []IInv
BY InitIInv, NextIInv, PTL DEF Spec

(* A client the server has told everything acts on every message after the *)
(* first, in order and once: the filter of changeClientFunc and            *)
(* chatReceiveFunc drops what overlapping polls repeat, and nothing else.  *)
THEOREM HearsInOrder == Spec => []HearsAll
<1>1. IInv => HearsAll
    BY DEF IInv, HearsAll
<1> QED
    BY <1>1, Invariance, PTL

(* Once it has caught up its roster is the server's, whatever mixture of   *)
(* setAllClientsFunc's snapshots and changeClientFunc's changes made it.   *)
THEOREM RostersAgree == Spec => []RosterAgrees
<1>1. IInv => RosterAgrees
    <2> SUFFICES ASSUME IInv, ~ restarted, NEW c \in Clients \ truncated,
                        client[c].polling, CaughtUp(c)
                 PROVE  client[c].nameMap = nameMap
        BY DEF RosterAgrees
    <2>1. PICK log : LogInv(log)
        BY DEF IInv
    <2>2. /\ DOMAIN log = 0 .. messageSerial - 1 /\ messageSerial \in Nat
          /\ Covered(log, Late(c, 0), client[c].nameMap, nameMap)
          /\ client[c].nameMap \in Rosters /\ nameMap \in Rosters
          /\ client[c].messageSerial = messageSerial - 1
        BY <2>1 DEF LogInv, ClientLogged, RosterCovered, IInv, TypeInv, ServerTyped,
                    ClientTyped, ClientRecords, CaughtUp
    <2>3. DOMAIN log \cap Late(c, 0) = {}
        BY <2>2 DEF Late
    <2>4. \A id \in Ids : Agree(client[c].nameMap, nameMap, id)
        BY <2>2, <2>3 DEF Covered
    <2>5. DOMAIN client[c].nameMap \subseteq Ids /\ DOMAIN nameMap \subseteq Ids
        BY <2>2, RosterValues
    <2>6. DOMAIN client[c].nameMap = DOMAIN nameMap
        BY <2>4, <2>5 DEF Agree
    <2>7. \A id \in DOMAIN nameMap : client[c].nameMap[id] = nameMap[id]
        BY <2>4, <2>5, <2>6 DEF Agree
    <2> QED
        BY <2>2, <2>6, <2>7 DEF Rosters
<1> QED
    BY <1>1, Invariance, PTL

(* A poll is answered from the ring: the truncation of kGetMessages keeps  *)
(* behind what queueMessage overwrites and frees.                          *)
THEOREM PollsAnswered == Spec => []PollsReadTheRing
<1>1. IInv => PollsReadTheRing
    <2> SUFFICES ASSUME IInv, NEW c \in Clients,
                        NEW s \in StartAfter(client[c].messageSerial) + 1
                                    .. messageSerial - 1
                 PROVE  messages[s % MessageArraySize].serial = s /\ s \notin freed
        BY DEF PollsReadTheRing
    <2> DEFINE id == client[c].messageSerial
               from == StartAfter(id)
    <2>1. /\ id \in Nat /\ messageSerial \in Nat /\ RingHolds /\ FreedBefore
        BY DEF IInv, TypeInv, ServerTyped, ClientTyped, ClientRecords
    <2> HIDE DEF id
    <2>2. from \in Nat /\ from + MessageArraySize + 1 >= messageSerial
        BY <2>1, StartsInRing
    <2> HIDE DEF from
    <2>3. s \in 0 .. messageSerial - 1 /\ s + MessageArraySize >= messageSerial
        BY <2>1, <2>2, SizesTyped DEF id, from
    <2>4. messages[s % MessageArraySize].serial = s
        BY <2>3 DEF RingHolds, IInv, TypeInv
    <2>5. s \notin freed
        BY <2>1, <2>3, SizesTyped DEF FreedBefore
    <2> QED
        BY <2>4, <2>5
<1> QED
    BY <1>1, Invariance, PTL
=============================================================================
