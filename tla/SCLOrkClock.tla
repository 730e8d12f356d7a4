---------------------------- MODULE SCLOrkClock ----------------------------
(***************************************************************************)
(* SCLOrkClockServer and the SCLOrkClocks of one cohort: how clocks are    *)
(* made and joined, and how tempo changes, applied at a beat, spread.      *)
(*                                                                         *)
(* Every client has a wire to the server, which keeps the order of what it *)
(* carries (modules WireSession and ReliableChannel).  Client time is      *)
(* server time: timeDiff is taken to be exact, and the beats of the        *)
(* underlying TempoClock to be those of currentState, to which             *)
(* beatSyncTask resets them.  Meters never change and are left out, and so *)
(* is Cmd-period.                                                          *)
(*                                                                         *)
(* Times are ticks and beats are whole; a state has the ticks of its beat, *)
(* the inverse of its tempo, so that no time of a beat is a fraction.      *)
(***************************************************************************)
EXTENDS Integers, Sequences, FiniteSets, FiniteSetsExt, SequencesExt

CONSTANTS
    Clients,
    Nil,
    BeatTicks,      \* the tempos: ticks of a beat
    FirstTicks,     \* bound: the tempos that clocks are made with
    MaxBeat,        \* bound: changes are made for beats up to this one
    MaxTime,        \* bound: the time at which the clock stops
    MaxEvents       \* bound: tempo changes and wires that fail

ASSUME TemposAssumption == FirstTicks \subseteq BeatTicks /\ BeatTicks \subseteq Nat \ {0}
States == [beat : Int, time : Int, ticks : BeatTicks]

(* Nil is neither what a clock nor what the server keeps.                  *)
ASSUME NilAssumption ==
    /\ Nil \notin [current : States, queue : Seq(States)]
    /\ Nil \notin [current : States, queue : Seq(States), timers : SUBSET Int]
ASSUME BoundsAssumption == MaxBeat \in Nat /\ MaxTime \in Nat /\ MaxEvents \in Nat

VARIABLES
    now,            \* Main.elapsedTime
    cohort,         \* the server's cohortStateMap, at this cohort
    clock,          \* client -> its clockMap, at this cohort
    wire,           \* client -> its wire: "knocking", "accepted" (the server
                    \* is connected), "connected", "failed"
    wireMap,        \* the clients whose wire is connected at the server
    toServer,       \* client -> messages on its wire to the server
    toClient,       \* client -> messages on its wire from the server
    events,         \* tempo changes made and wires that have failed so far
    clash           \* history: changes have met, see Clashes and Overtakes

wires == <<wire, wireMap, toServer, toClient>>
vars == <<now, cohort, clock, wires, events, clash>>

----------------------------------------------------------------------------
(* SCLOrkClockState: from this beat, which falls on this time, a beat lasts*)
(* this many ticks.                                                        *)
State(beat, time, ticks) == [beat |-> beat, time |-> time, ticks |-> ticks]

beats2secs(s, beat) == s.time + (beat - s.beat) * s.ticks

(* beat <= secs2beats(now), and secs2beats(now) rounded up.                *)
HasCome(s, beat) == beats2secs(s, beat) <= now
NextBeat(s) == s.beat - ((s.time - now) \div s.ticks)

(* The state that makes a beat, of s, start to last this many ticks.       *)
TempoAt(s, beat, ticks) == State(beat, beats2secs(s, beat), ticks)

(* PriorityQueue: by beat, and first in first out among equals.  A queue   *)
(* is kept in this order.                                                  *)
NotAfter(queue, s) == {i \in DOMAIN queue : queue[i].beat <= s.beat}
Queued(queue, s) == InsertAt(queue, Cardinality(NotAfter(queue, s)) + 1, s)

Promoted(k, n) ==
    [k EXCEPT !.current = IF n = 0 THEN @ ELSE k.queue[n],
              !.queue = SubSeq(@, n + 1, Len(@))]

(* prGroomState.  Each state that becomes current decides on the next.     *)
Groomed(co) ==
    LET chain == <<co.current>> \o co.queue
        Due(n) == \A i \in 1 .. n : HasCome(chain[i], chain[i + 1].beat)
    IN  Promoted(co, Max({n \in 0 .. Len(co.queue) : Due(n)}))

----------------------------------------------------------------------------
Init ==
    /\ now = 0
    /\ cohort = Nil
    /\ clock = [c \in Clients |-> Nil]
    /\ wire = [c \in Clients |-> "knocking"]
    /\ wireMap = {}
    /\ toServer = [c \in Clients |-> <<>>]
    /\ toClient = [c \in Clients |-> <<>>]
    /\ events = 0
    /\ clash = FALSE

(* Mutant: a wire that is not connected yet sends, too.                    *)
TellUnconnected(c, msg) ==
    toServer' = IF wire[c] # "failed"
                THEN [toServer EXCEPT ![c] = Append(@, msg)] ELSE toServer

(* sendMsg of a wire does nothing unless the wire is connected.            *)
Tell(c, msg) ==
    toServer' = IF wire[c] = "connected"
                THEN [toServer EXCEPT ![c] = Append(@, msg)] ELSE toServer

----------------------------------------------------------------------------
(* The client.                                                             *)

(* A clock with its first state, as new and /clockUpdate make it.          *)
NewClock(s) == [current |-> s, queue |-> <<>>, timers |-> {}]

(* SCLOrkClock.new: the clock runs at once and the server is told.         *)
New(c, ticks) ==
    LET s == State(0, now, ticks) IN
    /\ clock[c] = Nil
    /\ clock' = [clock EXCEPT ![c] = NewClock(s)]
    /\ Tell(c, [type |-> "clockCreate", state |-> s])
    /\ UNCHANGED <<now, cohort, wire, wireMap, toClient, events, clash>>

(* setTempoAtBeat: the change is sent, and comes back as an update.        *)
setTempoAtBeat(c, ticks, beat) ==
    /\ events < MaxEvents
    /\ events' = events + 1
    /\ Tell(c, [type |-> "clockChange",
                state |-> TempoAt(clock[c].current, beat, ticks)])
    /\ UNCHANGED <<now, cohort, clock, wire, wireMap, toClient, clash>>

(* tempo_ is for the next beat; other changes are scheduled for later.     *)
ChangeTempo(c, ticks) ==
    /\ clock[c] # Nil
    /\ \/ /\ ticks # clock[c].current.ticks
          /\ setTempoAtBeat(c, ticks, NextBeat(clock[c].current))
       \/ \E beat \in NextBeat(clock[c].current) .. MaxBeat :
             setTempoAtBeat(c, ticks, beat)

(* prUpdate.                                                               *)
IsBehindOneShort(k, s) == s.beat < k.current.beat - 1         \* mutant
IsBehind(k, s) == s.beat < k.current.beat

(* Mutant: only a queue that was empty needs a call to be scheduled.       *)
UpdatedScheduledOnce(k, s) ==
    IF HasCome(k.current, s.beat) THEN [k EXCEPT !.current = s]
    ELSE [k EXCEPT !.queue = Queued(@, s),
                   !.timers = IF k.queue # <<>> THEN @
                              ELSE @ \cup {beats2secs(k.current, s.beat)}]

Updated(k, s) ==
    LET k1 == IF HasCome(k.current, s.beat) THEN [k EXCEPT !.current = s]
              ELSE [k EXCEPT !.queue = Queued(@, s)]
    IN  [k1 EXCEPT !.timers = IF k1.queue = <<>> THEN @
              ELSE @ \cup {beats2secs(k1.current, Head(k1.queue).beat)}]

(* A state becomes current while one that was due before it is queued, and *)
(* will become current after it.                                           *)
Overtakes(k, s) ==
    /\ k # Nil
    /\ ~IsBehind(k, s) /\ HasCome(k.current, s.beat)
    /\ k.queue # <<>> /\ HasCome(k.current, Head(k.queue).beat)

OnUpdate(c) ==
    LET s == Head(toClient[c]) IN
    /\ toClient[c] # <<>>
    /\ toClient' = [toClient EXCEPT ![c] = Tail(@)]
    /\ clock' = [clock EXCEPT ![c] =
          IF @ = Nil THEN NewClock(s)
          ELSE IF IsBehind(@, s) THEN @
          ELSE Updated(@, s)]
    /\ clash' = (clash \/ Overtakes(clock[c], s))
    /\ UNCHANGED <<now, cohort, wire, wireMap, toServer, events>>

(* prAdvanceState, at the time it was scheduled for.  What is due is due   *)
(* by the beats of the old state; what is not is waited for anew.          *)
Due(k) == {t \in k.timers : t <= now}

AdvanceState(c) ==
    LET k == clock[c]
        n == Cardinality({i \in DOMAIN k.queue :
                             HasCome(k.current, k.queue[i].beat)})
        p == Promoted(k, n)
    IN
    /\ k # Nil
    /\ \E t \in Due(k) :
          clock' = [clock EXCEPT ![c] = [p EXCEPT !.timers =
              IF p.queue = <<>> THEN @ \ {t}
              ELSE (@ \ {t}) \cup
                   {Max({now, beats2secs(p.current, Head(p.queue).beat)})}]]
    /\ UNCHANGED <<now, cohort, wires, events, clash>>

----------------------------------------------------------------------------
(* The server.                                                             *)

(* prSendState: the current state and then the queue, which is a heap: the *)
(* first is in front, the others in any order.                             *)
HeapOrders(queue) ==
    IF queue = <<>> THEN {<<>>}
    ELSE {<<Head(queue)>> \o [i \in DOMAIN p |-> queue[p[i]]] :
             p \in SetToSeqs(2 .. Len(queue))}

(* Mutant: the queue is not sent.                                          *)
SendCurrent(c, co) ==
    toClient' = IF c \notin wireMap THEN toClient
                ELSE [toClient EXCEPT ![c] = Append(@, co.current)]

SendState(c, co) ==
    IF c \notin wireMap THEN UNCHANGED toClient
    ELSE \E order \in HeapOrders(co.queue) :
            toClient' = [toClient EXCEPT ![c] = @ \o <<co.current>> \o order]

SendAll(s) ==
    toClient' = [c \in Clients |-> IF c \in wireMap THEN Append(toClient[c], s)
                                   ELSE toClient[c]]

(* A wire that has failed goes on receiving.                               *)
Received(c, type) ==
    /\ toServer[c] # <<>>
    /\ Head(toServer[c]).type = type
    /\ toServer' = [toServer EXCEPT ![c] = Tail(@)]
    /\ UNCHANGED <<now, clock, wire, wireMap, events>>

OnGetAll(c) ==
    /\ Received(c, "clockGetAll")
    /\ IF cohort = Nil THEN UNCHANGED <<cohort, toClient>>
       ELSE /\ cohort' = Groomed(cohort)
            /\ SendState(c, cohort')
    /\ UNCHANGED clash

OnCreate(c) ==
    /\ Received(c, "clockCreate")
    /\ IF cohort = Nil
       THEN LET s == Head(toServer[c]).state IN
            /\ cohort' = [current |-> s, queue |-> <<>>]
            /\ SendAll(s)
       ELSE /\ cohort' = Groomed(cohort)
            /\ SendState(c, cohort')
    /\ UNCHANGED clash

(* A change for the beat of the current state or before replaces it.       *)
Replaces(co, s) == s.beat <= co.current.beat

(* It comes too late, or for a beat that another change has taken.         *)
Clashes(co, s) ==
    \/ Replaces(co, s)
    \/ \E q \in Range(co.queue) : q.beat = s.beat

(* For an unknown cohort the handler throws, since a SCLOrkClockState has  *)
(* no name to print, and the state stays as it is; a client has created    *)
(* the cohort before it changes it, so this does not come about.           *)
OnChange(c) ==
    LET s == Head(toServer[c]).state IN
    /\ Received(c, "clockChange")
    /\ IF cohort = Nil THEN UNCHANGED <<cohort, toClient, clash>>
       ELSE /\ SendAll(s)
            /\ cohort' = Groomed(IF Replaces(cohort, s)
                                 THEN [cohort EXCEPT !.current = s]
                                 ELSE [cohort EXCEPT !.queue = Queued(@, s)])
            /\ clash' = (clash \/ Clashes(cohort, s))

----------------------------------------------------------------------------
(* The wires and the time.                                                 *)

(* The server's wire is connected first and put in the wireMap.            *)
ServerConnects(c) ==
    /\ wire[c] = "knocking"
    /\ wire' = [wire EXCEPT ![c] = "accepted"]
    /\ wireMap' = wireMap \cup {c}
    /\ UNCHANGED <<now, cohort, clock, toServer, toClient, events,
                   clash>>

(* The client, when it is connected, asks for the clocks there are.        *)
ClientConnects(c) ==
    /\ wire[c] = "accepted"
    /\ wire' = [wire EXCEPT ![c] = "connected"]
    /\ toServer' = [toServer EXCEPT ![c] = Append(@, [type |-> "clockGetAll"])]
    /\ UNCHANGED <<now, cohort, clock, wireMap, toClient, events,
                   clash>>

(* The client gives up: the clocks are cleared, and nothing knocks again.  *)
(* Some of what it was sending may be lost.                                *)
ClientFails(c) ==
    /\ events < MaxEvents
    /\ events' = events + 1
    /\ wire[c] # "failed"
    /\ wire' = [wire EXCEPT ![c] = "failed"]
    /\ clock' = [clock EXCEPT ![c] = Nil]
    /\ \E kept \in Prefixes(toServer[c]) : toServer' = [toServer EXCEPT ![c] = kept]
    /\ UNCHANGED <<now, cohort, wireMap, toClient, clash>>

(* The server gives up, which the client is not told.                      *)
ServerFails(c) ==
    /\ events < MaxEvents
    /\ events' = events + 1
    /\ c \in wireMap
    /\ wireMap' = wireMap \ {c}
    /\ \E kept \in Prefixes(toClient[c]) : toClient' = [toClient EXCEPT ![c] = kept]
    /\ UNCHANGED <<now, cohort, clock, wire, toServer, clash>>

(* SystemClock runs what is due before time passes.                        *)
Tick ==
    /\ now < MaxTime
    /\ \A c \in Clients : clock[c] # Nil => Due(clock[c]) = {}
    /\ now' = now + 1
    /\ UNCHANGED <<cohort, clock, wires, events, clash>>

Next ==
    \/ Tick
    \/ \E c \in Clients :
          \/ \E ticks \in FirstTicks : New(c, ticks)
          \/ \E ticks \in BeatTicks : ChangeTempo(c, ticks)
          \/ OnUpdate(c) \/ AdvanceState(c)
          \/ OnGetAll(c) \/ OnCreate(c) \/ OnChange(c)
          \/ ServerConnects(c) \/ ClientConnects(c)
          \/ ClientFails(c) \/ ServerFails(c)

Spec == Init /\ [][Next]_vars

----------------------------------------------------------------------------
(* The type of the state: what every clock keeps is what the code puts     *)
(* there, and only a connected client has asked the server for anything.   *)
TypeOK ==
    /\ now \in 0 .. MaxTime /\ events \in 0 .. MaxEvents /\ clash \in BOOLEAN
    /\ cohort # Nil => cohort.current \in States /\ Range(cohort.queue) \subseteq States
    /\ wire \in [Clients -> {"knocking", "accepted", "connected", "failed"}]
    /\ wireMap \subseteq Clients
    /\ \A c \in Clients :
          /\ clock[c] # Nil => clock[c].current \in States
                              /\ Range(clock[c].queue) \subseteq States
          /\ Range(toClient[c]) \subseteq States
          /\ wire[c] \in {"knocking", "accepted"} => toServer[c] = <<>>

(* A tempo change that a clock holds for later is not forgotten: whatever  *)
(* replaces the current state meanwhile, a call of prAdvanceState is       *)
(* scheduled no later than its beat will come (prScheduleStateChange).     *)
NoChangeForgotten ==
    \A c \in Clients :
        clock[c] # Nil /\ clock[c].queue # <<>> =>
            \E t \in clock[c].timers :
                t <= Max({now, beats2secs(clock[c].current, Head(clock[c].queue).beat)})

Online == {c \in wireMap : wire[c] = "connected"}

Settled ==
    /\ \A c \in Online : /\ toServer[c] = <<>> /\ toClient[c] = <<>>
                         /\ clock[c] # Nil => clock[c].queue = <<>>
    /\ Groomed(cohort).queue = <<>>

(* Once every message is read and every change has come, all clocks of the *)
(* cohort and the server have the same state, and so count the same beats: *)
(* HelpSource/Reference/SCLOrkClock-Design-Document.schelp:10, "all clocks *)
(* in the cohort will have the same concept of where they are in a piece". *)
AgreeAtLast ==
    cohort # Nil /\ Settled =>
        \A c \in Online : clock[c] # Nil /\ clock[c].current = Groomed(cohort).current

(* The same, of changes that do not meet: each reaches the server in time  *)
(* and for a beat that no other has taken (/clockChange), and no client    *)
(* makes one current over an earlier one that is due (prUpdate).           *)
AgreeWithoutClash == ~clash => AgreeAtLast

(* Unless changes have met, a clock never goes from its current state to   *)
(* one of an earlier beat: what comes late is dropped (prUpdate, "before   *)
(* current state beat"), and nothing queued is left behind the state that  *)
(* is current, for prAdvanceState, which does not compare them, to apply.  *)
NeverBack ==
    [][\A c \in Clients :
          clock[c] # Nil /\ clock'[c] # Nil /\ ~clash' =>
              clock'[c].current.beat >= clock[c].current.beat]_vars

(* Of changes that do not meet, the one whose beat has come has the time   *)
(* of that beat, and the beats of the clock run on when it is applied:     *)
(* src/classes/SCLOrkClockState.sc:4, the time of a state "only needs to   *)
(* be valid for the initial and current state".                            *)
AppliedOnTime ==
    \A c \in Online :
        LET k == clock[c] IN
        ~clash /\ k # Nil /\ k.queue # <<>> /\ HasCome(k.current, Head(k.queue).beat) =>
            Head(k.queue).time = beats2secs(k.current, Head(k.queue).beat)
=============================================================================
