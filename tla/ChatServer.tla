----------------------------- MODULE ChatServer -----------------------------
(***************************************************************************)
(* confab-server's ChatServer: the roster of users, the ring of recent     *)
(* messages clients poll, and the timeouts of users who stop polling.      *)
(*                                                                         *)
(* One liblo thread calls handleMessage, so each message is handled        *)
(* atomically.  Clients reach the server over TCP: a connection keeps the  *)
(* order of what is sent on it, and loses what is in flight when it breaks.*)
(* A request is handled when it is sent: what a client may do while its    *)
(* request travels, it may do as well while the reply travels.             *)
(***************************************************************************)
EXTENDS Integers, Sequences, FiniteSets, FiniteSetsExt, Functions

CONSTANTS
    Clients,                 \* the chat clients, one connection each
    Names,                   \* the nicknames users choose
    Nil,
    MessageArraySize,        \* kMessageArraySize
    MaxMessagesPerRequest,   \* the flag maxMessagesPerRequest
    Timeout                  \* the flag timeout, in ticks of the clock

ASSUME SizesAssumption ==
    /\ MessageArraySize \in Nat \ {0}
    /\ MaxMessagesPerRequest \in 1 .. MessageArraySize
    /\ Timeout \in Nat \ {0}

VARIABLES
    userSerial,      \* the user ids issued so far
    nameMap,         \* user id -> nickname, of the users signed in
    clientPings,     \* user id -> ticks since its last poll
    messageSerial,   \* the serial of the next message
    messages,        \* the ring: slot -> message
    freed,           \* the serials of the messages freed, their slots taken
    open,            \* which clients have a connection
    toClient,        \* client -> what the server has sent it, not yet read
    truncated        \* history: the clients a poll has not told everything

serverVars == <<userSerial, nameMap, clientPings, messageSerial, messages,
                freed>>
tcpVars == <<open, toClient>>

Slots == 0 .. MessageArraySize - 1

ServerInit ==
    /\ userSerial = 0
    /\ nameMap = <<>>
    /\ clientPings = <<>>
    /\ messageSerial = 0
    /\ messages = [i \in Slots |-> Nil]
    /\ freed = {}
    /\ truncated = {}

TCPInit ==
    /\ open = {}
    /\ toClient = [c \in Clients |-> <<>>]

With(f, x, y) == [z \in DOMAIN f \cup {x} |-> IF z = x THEN y ELSE f[z]]
Without(f, S) == Restrict(f, DOMAIN f \ S)

ChangeClient(change, id, name) ==
    [path |-> "chatChangeClient", change |-> change, id |-> id, name |-> name]
Receive(id) == [path |-> "chatReceive", id |-> id]

(* queueMessage, for each message of a sequence in turn.  The ring         *)
(* overwrites its oldest message, which is freed, but for the message its  *)
(* first comparison misses: that one is leaked.                            *)
Frees(serial) == serial > MessageArraySize

QueueMessages(queued) ==
    LET serials == messageSerial .. messageSerial + Len(queued) - 1
        numbered == [s \in serials |->
                        [serial |-> s, msg |-> queued[s - messageSerial + 1]]]
        Newest(i) == {s \in serials : s % MessageArraySize = i}
    IN
    /\ messageSerial' = messageSerial + Len(queued)
    /\ messages' = [i \in Slots |-> IF Newest(i) = {} THEN messages[i]
                                    ELSE numbered[Max(Newest(i))]]
    /\ freed' = freed \cup {s - MessageArraySize : s \in {t \in serials : Frees(t)}}

Reply(c, replies) == toClient' = [toClient EXCEPT ![c] = @ \o replies]

----------------------------------------------------------------------------
(* handleMessage, by its cases.  A new user is not yet in clientPings.     *)
SignIn(c, name) ==
    LET id == userSerial + 1 IN
    /\ userSerial' = id
    /\ nameMap' = With(nameMap, id, name)
    /\ Reply(c, <<[path |-> "chatSignInComplete", id |-> id]>>)
    /\ QueueMessages(<<ChangeClient("add", id, name)>>)
    /\ UNCHANGED <<clientPings, truncated>>

AllClients == [path |-> "chatSetAllClients", nameMap |-> nameMap]

Behind(messageID) == messageSerial - messageID

(* The poll is answered with the messages after this one.                  *)
StartAfterNext(messageID) ==                                \* mutant
    IF Behind(messageID) > MaxMessagesPerRequest
    THEN messageSerial - MaxMessagesPerRequest
    ELSE messageID + 1
StartAfterAny(messageID) == messageID                       \* mutant
StartAfter(messageID) ==
    IF Behind(messageID) > MaxMessagesPerRequest
    THEN Max({0, messageSerial - MaxMessagesPerRequest - 1})
    ELSE messageID

StaleUnlessSignedIn(pings) ==                               \* mutant
    {id \in DOMAIN pings \ DOMAIN nameMap : pings[id] >= Timeout}
Stale(pings) == {id \in DOMAIN pings : pings[id] >= Timeout}

(* A poll also counts as a ping, and is when stale users are noticed.  The *)
(* order in which an unordered_map yields them is not specified.           *)
GetMessages(c, userID, messageID) ==
    LET from  == StartAfter(messageID)
        pings == With(clientPings, userID, 0)
        stale == Stale(pings)
        gone  == stale \cap DOMAIN nameMap
    IN
    /\ Reply(c, [i \in 1 .. messageSerial - 1 - from |->
                    [path |-> "message",
                     message |-> messages[(from + i) % MessageArraySize]]])
    /\ truncated' = IF from > messageID THEN truncated \cup {c} ELSE truncated
    /\ clientPings' = Without(pings, stale)
    /\ nameMap' = Without(nameMap, gone)
    /\ \E order \in Bijection(1 .. Cardinality(gone), gone) :
          QueueMessages([i \in DOMAIN order |->
                            ChangeClient("timeout", order[i], nameMap[order[i]])])
    /\ UNCHANGED userSerial

(* An id the client does not have yet reaches the server as a value of no  *)
(* type it expects.  The other requests are refused; the message made for  *)
(* this one is neither queued nor freed.                                   *)
Refuse == UNCHANGED <<userSerial, nameMap, clientPings, messageSerial, messages,
                      freed, truncated>>

SendMessage(userID) ==
    IF userID = Nil THEN Refuse
    ELSE /\ QueueMessages(<<Receive(userID)>>)
         /\ UNCHANGED <<userSerial, nameMap, clientPings, truncated>>

ChangeName(userID, name) ==
    IF userID = Nil THEN Refuse
    ELSE /\ nameMap' = With(nameMap, userID, name)
         /\ QueueMessages(<<ChangeClient("rename", userID, name)>>)
         /\ UNCHANGED <<userSerial, clientPings, truncated>>

SignOut(userID) ==
    IF userID = Nil \/ userID \notin DOMAIN nameMap THEN Refuse
    ELSE /\ QueueMessages(<<ChangeClient("remove", userID, nameMap[userID])>>)
         /\ nameMap' = Without(nameMap, {userID})
         /\ UNCHANGED <<userSerial, clientPings, truncated>>

(* steady_clock.  A ping older than the timeout need not grow older.       *)
Elapse ==
    /\ \E id \in DOMAIN clientPings : clientPings[id] < Timeout
    /\ clientPings' = [id \in DOMAIN clientPings |->
                          Min({clientPings[id] + 1, Timeout})]
    /\ UNCHANGED <<userSerial, nameMap, messageSerial, messages, freed,
                   tcpVars, truncated>>
=============================================================================
