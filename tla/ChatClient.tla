----------------------------- MODULE ChatClient -----------------------------
(***************************************************************************)
(* SCLOrkChatClient, several of them, and the ChatServer they talk to.     *)
(*                                                                         *)
(* A client signs in, asks for the roster, and then polls for messages     *)
(* twice a second.  OSC responders, the poll task and the calls of the     *)
(* user interface run in the interpreter, one at a time.  Who a message is *)
(* addressed to, and what it says, only matters to the display and is left *)
(* out.                                                                    *)
(***************************************************************************)
EXTENDS ChatServer

CONSTANTS
    MaxUsers,      \* bound: how often clients sign in
    MaxLog,        \* bound: messages on the server before users fall silent
    MaxInFlight,   \* bound: what a connection carries when more is sent
    MaxFailures    \* bound: broken connections, Cmd-periods and restarts

ASSUME BoundsAssumption ==
    MaxUsers \in Nat /\ MaxLog \in Nat /\ MaxInFlight \in Nat /\ MaxFailures \in Nat

VARIABLES
    client,        \* the instance variables of each client
    failures,      \* what has gone wrong so far, counted
    restarted,     \* history: the server has been restarted
    outOfTurn      \* history: the clients that have acted on a message other
                   \* than the one after the last

clientVars == <<client, failures, restarted, outOfTurn>>
vars == <<serverVars, tcpVars, truncated, client, failures, restarted, outOfTurn>>

NewClientPolling ==                                         \* mutant
    [userId |-> Nil, messageSerial |-> 0, nameMap |-> <<>>,
     polling |-> TRUE, signInFunc |-> TRUE]
NewClient ==
    [userId |-> Nil, messageSerial |-> 0, nameMap |-> <<>>,
     polling |-> FALSE,          \* pollTask has been started
     signInFunc |-> TRUE]        \* signInCompleteFunc is still installed

Init ==
    /\ ServerInit
    /\ TCPInit
    /\ client = [c \in Clients |-> NewClient]
    /\ failures = 0
    /\ restarted = FALSE
    /\ outOfTurn = {}

Busy(c) == Len(toClient[c]) >= MaxInFlight

----------------------------------------------------------------------------
(* What the user interface and the poll task do.                           *)

(* tryConnectTCP and, once it has succeeded, /chatSignIn.                  *)
Connect(c, name) ==
    /\ c \notin open
    /\ userSerial < MaxUsers
    /\ open' = open \cup {c}
    /\ SignIn(c, name)
    /\ UNCHANGED clientVars

Poll(c) ==
    /\ client[c].polling
    /\ c \in open
    /\ ~Busy(c)
    /\ GetMessages(c, client[c].userId, client[c].messageSerial)
    /\ UNCHANGED <<open, clientVars>>

(* A client speaks, renames itself and leaves with the id it has: one of   *)
(* an earlier connection, or none, until it has signed in.                 *)
MaySpeak(c) == c \in open /\ messageSerial < MaxLog

ClientSendMessage(c) ==
    /\ MaySpeak(c)
    /\ SendMessage(client[c].userId)
    /\ UNCHANGED <<tcpVars, clientVars>>

Rename(c, name) ==
    /\ MaySpeak(c)
    /\ ChangeName(client[c].userId, name)
    /\ UNCHANGED <<tcpVars, clientVars>>

Disconnect(c) ==
    /\ c \in open
    /\ client' = [client EXCEPT ![c].polling = FALSE]
    /\ SignOut(client[c].userId)
    /\ open' = open \ {c}
    /\ toClient' = [toClient EXCEPT ![c] = <<>>]
    /\ UNCHANGED <<failures, restarted, outOfTurn>>

----------------------------------------------------------------------------
(* What goes wrong.                                                        *)

(* The connection breaks, or the client's computer does.  The poll task    *)
(* stays as it is and waits for the connection to come back.               *)
LoseConnection(c) ==
    /\ failures < MaxFailures
    /\ failures' = failures + 1
    /\ c \in open
    /\ open' = open \ {c}
    /\ toClient' = [toClient EXCEPT ![c] = <<>>]
    /\ UNCHANGED <<serverVars, truncated, client, restarted, outOfTurn>>

(* Cmd-period frees the one responder that is not permanent.               *)
CmdPeriod(c) ==
    /\ failures < MaxFailures
    /\ failures' = failures + 1
    /\ client[c].signInFunc
    /\ client' = [client EXCEPT ![c].signInFunc = FALSE]
    /\ UNCHANGED <<serverVars, truncated, tcpVars, restarted, outOfTurn>>

(* The server is started again: it has forgotten users and messages.       *)
ServerRestart ==
    /\ failures < MaxFailures
    /\ failures' = failures + 1
    /\ userSerial' = 0 /\ messageSerial' = 0
    /\ nameMap' = <<>> /\ clientPings' = <<>>
    /\ messages' = [i \in Slots |-> Nil]
    /\ freed' = {}
    /\ truncated' = {}
    /\ open' = {}
    /\ toClient' = [c \in Clients |-> <<>>]
    /\ restarted' = TRUE
    /\ UNCHANGED <<client, outOfTurn>>

----------------------------------------------------------------------------
(* The responders.                                                         *)

Response(c, path) == toClient[c] # <<>> /\ Head(toClient[c]).path = path
Unread(c) == Tail(toClient[c])

(* The user id comes first; the roster is asked for, and answered at once. *)
OnSignInComplete(c) ==
    /\ Response(c, "chatSignInComplete")
    /\ IF client[c].signInFunc
       THEN /\ client' = [client EXCEPT ![c].userId = Head(toClient[c]).id]
            /\ toClient' = [toClient EXCEPT ![c] = Append(Unread(c), AllClients)]
       ELSE /\ toClient' = [toClient EXCEPT ![c] = Unread(c)]
            /\ UNCHANGED client
    /\ UNCHANGED <<serverVars, truncated, open, failures, restarted, outOfTurn>>

OnSetAllClients(c) ==
    /\ Response(c, "chatSetAllClients")
    /\ toClient' = [toClient EXCEPT ![c] = Unread(c)]
    /\ client' = [client EXCEPT ![c].nameMap = Head(toClient[c]).nameMap,
                                ![c].polling = TRUE]
    /\ UNCHANGED <<serverVars, truncated, open, failures, restarted, outOfTurn>>

IsNotOlder(c, message) ==                                   \* mutant
    message.serial >= client[c].messageSerial
IsNew(c, message) == message.serial > client[c].messageSerial

(* The roster of a client after a change.                                  *)
ChangedForGood(roster, msg) ==                              \* mutant
    IF msg.path = "chatChangeClient" /\ msg.change # "timeout"
    THEN With(roster, msg.id, msg.name) ELSE roster
Changed(roster, msg) ==
    CASE msg.path # "chatChangeClient" -> roster
      [] msg.path = "chatChangeClient" /\ msg.change \in {"add", "rename"} ->
            With(roster, msg.id, msg.name)
      [] msg.path = "chatChangeClient" /\ msg.change \in {"remove", "timeout"} ->
            Without(roster, {msg.id})

(* changeClientFunc and chatReceiveFunc, which share the serial numbers.   *)
OnMessage(c) ==
    LET message == Head(toClient[c]).message IN
    /\ Response(c, "message")
    /\ toClient' = [toClient EXCEPT ![c] = Unread(c)]
    /\ IF IsNew(c, message)
       THEN /\ client' = [client EXCEPT
                  ![c].messageSerial = message.serial,
                  ![c].nameMap = Changed(@, message.msg)]
            /\ outOfTurn' = IF message.serial = client[c].messageSerial + 1
                            THEN outOfTurn ELSE outOfTurn \cup {c}
       ELSE UNCHANGED <<client, outOfTurn>>
    /\ UNCHANGED <<serverVars, truncated, open, failures, restarted>>

Handle(c) == OnSignInComplete(c) \/ OnSetAllClients(c) \/ OnMessage(c)

----------------------------------------------------------------------------
Tick == Elapse /\ UNCHANGED clientVars

Next ==
    \/ Tick
    \/ ServerRestart
    \/ \E c \in Clients :
          \/ \E name \in Names : Connect(c, name) \/ Rename(c, name)
          \/ Poll(c)
          \/ ClientSendMessage(c)
          \/ Disconnect(c)
          \/ LoseConnection(c)
          \/ CmdPeriod(c)
          \/ Handle(c)

(* The clock, the poll task and both ends of a connection make progress.   *)
Fairness ==
    /\ WF_vars(Tick)
    /\ \A c \in Clients : WF_vars(Poll(c)) /\ WF_vars(Handle(c))

Spec == Init /\ [][Next]_vars /\ Fairness

----------------------------------------------------------------------------
(* Properties.                                                             *)

Ids == Nat \ {0}

TypeOK ==
    /\ userSerial \in Nat /\ messageSerial \in Nat /\ freed \subseteq Nat
    /\ DOMAIN nameMap \subseteq Ids /\ Range(nameMap) \subseteq Names
    /\ DOMAIN clientPings \subseteq Ids /\ Range(clientPings) \subseteq 0 .. Timeout
    /\ open \subseteq Clients
    /\ \A c \in Clients :
          /\ client[c].userId \in Ids \cup {Nil}
          /\ client[c].messageSerial \in Nat
          /\ \A i \in DOMAIN toClient[c] :
                toClient[c][i].path = "message" =>
                    toClient[c][i].message.serial \in 1 .. messageSerial - 1

(* A client the server has told everything acts on every message after the *)
(* first, in order and once, however its polls overlap and its connections *)
(* break.  (Message 0 is never sent: polls ask for what comes after.)      *)
HearsAll == ~restarted => outOfTurn \subseteq truncated

(* And when it has caught up, its roster is the server's, although it is   *)
(* put together from a snapshot and from changes older and newer than it.  *)
CaughtUp(c) == client[c].messageSerial = messageSerial - 1

RosterAgrees ==
    ~restarted =>
        \A c \in Clients \ truncated :
            client[c].polling /\ CaughtUp(c) => client[c].nameMap = nameMap

(* What the next poll of a client would be answered with is in the ring,   *)
(* each message in its own slot, not overwritten and not freed, however    *)
(* far behind the client is and however often the ring has gone round.     *)
PollsReadTheRing ==
    \A c \in Clients :
        \A s \in StartAfter(client[c].messageSerial) + 1 .. messageSerial - 1 :
            /\ messages[s % MessageArraySize].serial = s
            /\ s \notin freed

Online(c) == c \in open /\ client[c].polling

(* A client that stays online catches up.                                  *)
CatchesUp ==
    []~restarted =>
        \A c \in Clients : <>[]Online(c) => <>[]CaughtUp(c)

(* A user who has polled, and whose client is gone, leaves the roster when *)
(* somebody stays to poll.  (One who has not polled yet never leaves it.)  *)
DepartedTimeOut ==
    (<>[]\E c \in Clients : Online(c)) =>
        \A id \in 1 .. MaxUsers :
            []<>(id \in DOMAIN nameMap \cap DOMAIN clientPings =>
                    \E c \in open : client[c].userId = id)
=============================================================================
