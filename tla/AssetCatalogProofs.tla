------------------------- MODULE AssetCatalogProofs -------------------------
(***************************************************************************)
(* Proofs about module AssetCatalog, for any number of clients, any keys,  *)
(* drafts, page sizes, sizes of a byte and numbers of faults: its types,   *)
(* that the database has no dangling references, that what is found is     *)
(* current and what was added is findable, that a walk through a list is   *)
(* complete, and that only an answer to a repeated question can stray.     *)
(***************************************************************************)
EXTENDS AssetCatalog, AssetDatabaseProofs, SequenceTheorems

Ids == {"id"} \X (Key \cup {NoKey})
Names == {"name"} \X Key

Messages ==
    [cmd : {"assetAddString"}, arg : DOMAIN Draft, n : Nat]
    \cup [cmd : {"assetFind"}, arg : Key \cup {NoKey}, n : {0}]
    \cup [cmd : {"assetFindName", "listAdd", "listFind"}, arg : Key, n : {0}]
    \cup [cmd : {"listNext"}, arg : Key \cup {0}, n : Nat]

IsMessage(m, serial) ==
    /\ m \in Messages
    /\ m.cmd = "assetAddString" => m.n < serial

IsAnswer(a) ==
    /\ a.reply \in {"assetFound", "assetError"} => a.to \in Ids \cup Names
    /\ a.reply \in {"listFound", "listError"} => a.to \in Names
    /\ a.reply = "listItems" => AreKeys(a.data)

IsSequence(q) == \E S : q \in Seq(S)

(* The state of the two queues of a client.                                *)
Flow(running, in, out, serial, max) ==
    /\ IsSequence(in) /\ IsSequence(out)
    /\ Len(in) + Len(out) <= max
    /\ ~ running => in = <<>>
    /\ \A m \in Range(in) : IsMessage(m, serial)
    /\ \A a \in Range(out) : IsAnswer(a)

IsCallbacks(cbs, serial) ==
    /\ cbs \in [add : SUBSET (Nat \X DOMAIN Draft), find : SUBSET (Ids \cup Names),
                list : SUBSET (({"id"} \X Key) \cup Names)]
    /\ \A cb \in cbs.add : cb[1] < serial

IsWalk(w) ==
    /\ w = [state |-> w.state, list |-> w.list, there |-> w.there, due |-> w.due,
            seen |-> w.seen]
    /\ w.state \in {"none", "on", "done", "failed"}
    /\ w.list \in Key \cup {0}
    /\ w.there \in BOOLEAN

IsLeft(l, asks) ==
    /\ l = [r \in DOMAIN asks |-> l[r]]
    /\ \A r \in DOMAIN asks : l[r] \in Nat /\ l[r] <= asks[r]

(* The keys that are still drawn are new ones.                             *)
AreDraws(drawn) ==
    /\ drawn \in Seq(Key) /\ IsInjective(drawn)
    /\ \A i \in DOMAIN drawn : /\ drawn[i] # OldList
                               /\ drawn[i] # OldAsset.key
                               /\ \A d \in DOMAIN Draft : drawn[i] \notin Draft[d].lists

ServerTypes ==
    /\ serverUp \in BOOLEAN
    /\ now \in Time \cup {OldTime}
    /\ faults \in 0 .. MaxFaults
    /\ AreKeys(DOMAIN db)
    /\ AreDraws(keys)

FlowTypes ==
    /\ up \in [Client -> BOOLEAN]
    /\ addSerial \in [Client -> Nat \ {0}]
    /\ inbox = [c \in Client |-> inbox[c]]
    /\ outbox = [c \in Client |-> outbox[c]]
    /\ \A c \in Client :
          Flow(up[c], inbox[c], outbox[c], addSerial[c], MaxInFlight[c])

CallTypes ==
    /\ callbacks = [c \in Client |-> callbacks[c]]
    /\ walk = [c \in Client |-> walk[c]]
    /\ left = [c \in Client |-> left[c]]
    /\ \A c \in Client : /\ IsCallbacks(callbacks[c], addSerial[c])
                         /\ IsWalk(walk[c])
                         /\ IsLeft(left[c], Asks[c])

IsMap(f) == f = [c \in Client |-> f[c]]
MapTypes == IsMap(local) /\ IsMap(added) /\ IsMap(strays)

TypeInv == ServerTypes /\ FlowTypes /\ CallTypes /\ MapTypes

----------------------------------------------------------------------------
(***************************************************************************)
(* Sequences                                                               *)
(***************************************************************************)
LEMMA Appended ==
    ASSUME NEW q, IsSequence(q), NEW x
    PROVE  /\ IsSequence(Append(q, x))
           /\ Len(q) \in Nat /\ DOMAIN q = 1 .. Len(q)
           /\ Len(Append(q, x)) = Len(q) + 1
           /\ DOMAIN Append(q, x) = 1 .. Len(q) + 1
           /\ \A i \in DOMAIN q : Append(q, x)[i] = q[i]
           /\ Append(q, x)[Len(q) + 1] = x
           /\ Range(Append(q, x)) = Range(q) \cup {x}
<1>1. PICK S : q \in Seq(S)
    BY DEF IsSequence
<1>2. PICK T : T = S \cup {x}
    OBVIOUS
<1>3. q \in Seq(T) /\ x \in T
    <2>1. S \subseteq T
        BY <1>2
    <2> QED
        BY <1>1, <1>2, <2>1, SeqMonotonic
<1>4. /\ Append(q, x) \in Seq(T)
      /\ Len(Append(q, x)) = Len(q) + 1
      /\ \A i \in 1 .. Len(q) : Append(q, x)[i] = q[i]
      /\ Append(q, x)[Len(q) + 1] = x
    BY <1>3, AppendProperties
<1>5. Len(q) \in Nat /\ DOMAIN q = 1 .. Len(q) /\ DOMAIN Append(q, x) = 1 .. Len(q) + 1
    BY <1>3, <1>4, LenProperties
<1>6. Range(Append(q, x)) = Range(q) \cup {x}
    <2>1. Range(q) = {q[i] : i \in DOMAIN q}
        BY DEF Range
    <2>2. Range(Append(q, x)) = {Append(q, x)[i] : i \in DOMAIN Append(q, x)}
        BY DEF Range
    <2>3. PICK l \in Nat : l = Len(q)
        BY <1>5
    <2>4. 1 .. l + 1 = (1 .. l) \cup {l + 1}
        OBVIOUS
    <2> QED
        BY <1>4, <1>5, <2>1, <2>2, <2>3, <2>4
<1> QED
    BY <1>4, <1>5, <1>6 DEF IsSequence

LEMMA Removed ==
    ASSUME NEW q, IsSequence(q), q # <<>>
    PROVE  /\ IsSequence(Tail(q))
           /\ Len(q) \in Nat /\ DOMAIN q = 1 .. Len(q) /\ 1 \in DOMAIN q
           /\ Len(Tail(q)) = Len(q) - 1
           /\ DOMAIN Tail(q) = 1 .. Len(q) - 1
           /\ \A i \in DOMAIN Tail(q) : i + 1 \in DOMAIN q /\ Tail(q)[i] = q[i + 1]
           /\ Head(q) = q[1] /\ Head(q) \in Range(q)
           /\ Range(Tail(q)) \subseteq Range(q)
<1>1. PICK S : q \in Seq(S)
    BY DEF IsSequence
<1>2. /\ Tail(q) \in Seq(S) /\ Len(Tail(q)) = Len(q) - 1
      /\ \A i \in 1 .. Len(Tail(q)) : Tail(q)[i] = q[i + 1]
    BY <1>1, HeadTailProperties
<1>3. Len(q) \in Nat /\ DOMAIN q = 1 .. Len(q) /\ DOMAIN Tail(q) = 1 .. Len(q) - 1
    BY <1>1, <1>2, LenProperties
<1>4. Len(q) # 0
    BY <1>1, EmptySeq
<1>5. Head(q) = q[1]
    OBVIOUS
<1>6. 1 \in DOMAIN q /\ \A i \in DOMAIN Tail(q) : i + 1 \in DOMAIN q
    BY <1>3, <1>4
<1>7. \A i \in DOMAIN Tail(q) : Tail(q)[i] = q[i + 1]
    <2>1. DOMAIN Tail(q) = 1 .. Len(Tail(q))
        BY <1>2, <1>3
    <2> QED
        BY <1>2, <2>1, Zenon
<1>8. Head(q) \in Range(q)
    BY <1>5, <1>6 DEF Range
<1>9. Range(Tail(q)) \subseteq Range(q)
    BY <1>6, <1>7, Zenon DEF Range
<1>10. IsSequence(Tail(q))
    BY <1>2 DEF IsSequence
<1> QED
    BY <1>2, <1>3, <1>5, <1>6, <1>7, <1>8, <1>9, <1>10

LEMMA NoElements == IsSequence(<<>>) /\ Len(<<>>) = 0 /\ Range(<<>>) = {} /\ DOMAIN <<>> = {}
<1>1. <<>> \in Seq({})
    BY EmptySeq
<1>2. DOMAIN <<>> = {}
    OBVIOUS
<1> QED
    BY <1>1, <1>2, Zenon DEF IsSequence, Range

(***************************************************************************)
(* What can happen to the queues of a client                               *)
(***************************************************************************)
LEMMA FlowAsks ==
    ASSUME NEW in, NEW out, NEW serial \in Nat, NEW serial1 \in Nat, NEW max \in Nat,
           Flow(TRUE, in, out, serial, max), serial <= serial1,
           Len(in) + Len(out) < max, NEW m, IsMessage(m, serial1)
    PROVE  Flow(TRUE, Append(in, m), out, serial1, max)
<1>1. /\ IsSequence(in) /\ IsSequence(out)
      /\ \A x \in Range(in) : IsMessage(x, serial)
      /\ \A a \in Range(out) : IsAnswer(a)
    BY DEF Flow
<1>2. /\ IsSequence(Append(in, m)) /\ Len(Append(in, m)) = Len(in) + 1 /\ Len(in) \in Nat
      /\ Range(Append(in, m)) = Range(in) \cup {m}
    BY <1>1, Appended
<1>3. Len(out) \in Nat
    BY <1>1, Appended
<1>4. Len(Append(in, m)) + Len(out) <= max
    BY <1>2, <1>3
<1>5. \A x \in Range(in) : IsMessage(x, serial1)
    <2> TAKE x \in Range(in)
    <2>1. x \in Messages /\ (x.cmd = "assetAddString" => x.n < serial)
        BY <1>1 DEF IsMessage
    <2>2. x.n \in Nat
        BY <2>1 DEF Messages
    <2> QED
        BY <2>1, <2>2 DEF IsMessage
<1> QED
    BY <1>1, <1>2, <1>4, <1>5 DEF Flow

LEMMA FlowTakes ==
    ASSUME NEW running \in BOOLEAN, NEW in, NEW out, NEW serial, NEW max \in Nat,
           Flow(running, in, out, serial, max), in # <<>>
    PROVE  /\ Flow(running, Tail(in), out, serial, max)
           /\ \A a : IsAnswer(a) => Flow(running, Tail(in), Append(out, a), serial, max)
           /\ Flow(FALSE, <<>>, out, serial, max)
           /\ running /\ IsMessage(Head(in), serial)
<1>1. /\ IsSequence(in) /\ IsSequence(out) /\ running
      /\ \A x \in Range(in) : IsMessage(x, serial)
      /\ \A a \in Range(out) : IsAnswer(a)
      /\ Len(in) + Len(out) <= max
    BY DEF Flow
<1>2. /\ IsSequence(Tail(in)) /\ Len(Tail(in)) = Len(in) - 1 /\ Len(in) \in Nat
      /\ Range(Tail(in)) \subseteq Range(in) /\ Head(in) \in Range(in)
    BY <1>1, Removed
<1>3. Len(out) \in Nat
    BY <1>1, Appended
<1>4. /\ Len(Tail(in)) + Len(out) <= max
      /\ Len(Tail(in)) + (Len(out) + 1) <= max
      /\ 0 + Len(out) <= max
    BY <1>1, <1>2, <1>3
<1>5. Flow(running, Tail(in), out, serial, max)
    BY <1>1, <1>2, <1>4 DEF Flow
<1>6. ASSUME NEW a, IsAnswer(a) PROVE Flow(running, Tail(in), Append(out, a), serial, max)
    <2>1. /\ IsSequence(Append(out, a)) /\ Len(Append(out, a)) = Len(out) + 1
          /\ Range(Append(out, a)) = Range(out) \cup {a}
        BY <1>1, Appended
    <2> QED
        BY <1>1, <1>2, <1>4, <1>6, <2>1 DEF Flow
<1>7. Flow(FALSE, <<>>, out, serial, max)
    BY <1>1, <1>4, NoElements DEF Flow
<1> QED
    BY <1>1, <1>2, <1>5, <1>6, <1>7

LEMMA FlowHears ==
    ASSUME NEW running, NEW in, NEW out, NEW serial, NEW max \in Nat,
           Flow(running, in, out, serial, max), out # <<>>
    PROVE  /\ Flow(running, in, Tail(out), serial, max)
           /\ Len(in) + Len(Tail(out)) < max
           /\ IsAnswer(Head(out))
<1>1. /\ IsSequence(in) /\ IsSequence(out)
      /\ \A a \in Range(out) : IsAnswer(a)
      /\ Len(in) + Len(out) <= max
    BY DEF Flow
<1>2. /\ IsSequence(Tail(out)) /\ Len(Tail(out)) = Len(out) - 1 /\ Len(out) \in Nat
      /\ Range(Tail(out)) \subseteq Range(out) /\ Head(out) \in Range(out)
    BY <1>1, Removed
<1>3. Len(in) \in Nat
    BY <1>1, Appended
<1>4. Len(in) + Len(Tail(out)) <= max /\ Len(in) + Len(Tail(out)) < max
    BY <1>1, <1>2, <1>3
<1> QED
    BY <1>1, <1>2, <1>4 DEF Flow

LEMMA BoundTyped == \A c \in Client : MaxInFlight[c] \in Nat /\ MaxAsks[c] \in Nat
BY CatalogAssumption

(* Only the queues of one client change.                                   *)
LEMMA FlowChanges ==
    ASSUME FlowTypes, NEW c \in Client, NEW u \in BOOLEAN, NEW in, NEW out,
           NEW serial \in Nat \ {0},
           up' = [up EXCEPT ![c] = u],
           inbox' = [inbox EXCEPT ![c] = in],
           outbox' = [outbox EXCEPT ![c] = out],
           addSerial' = [addSerial EXCEPT ![c] = serial],
           Flow(u, in, out, serial, MaxInFlight[c])
    PROVE  FlowTypes'
<1>1. /\ up' \in [Client -> BOOLEAN]
      /\ addSerial' \in [Client -> Nat \ {0}]
    BY DEF FlowTypes
<1>2. /\ inbox' = [e \in Client |-> inbox'[e]]
      /\ outbox' = [e \in Client |-> outbox'[e]]
    <2>1. inbox = [e \in Client |-> inbox[e]] /\ outbox = [e \in Client |-> outbox[e]]
        BY DEF FlowTypes
    <2>2. DOMAIN inbox = Client /\ DOMAIN outbox = Client
        BY <2>1
    <2> QED
        BY <2>2
<1>3. ASSUME NEW e \in Client
      PROVE  Flow(up'[e], inbox'[e], outbox'[e], addSerial'[e], MaxInFlight[e])
    <2>1. /\ DOMAIN inbox = Client /\ DOMAIN outbox = Client
          /\ DOMAIN up = Client /\ DOMAIN addSerial = Client
        BY Zenon DEF FlowTypes
    <2>2. CASE e = c
        <3>1. up'[e] = u /\ inbox'[e] = in /\ outbox'[e] = out /\ addSerial'[e] = serial
            BY <2>1, <2>2, Zenon
        <3> QED
            BY <3>1, <2>2, Zenon
    <2>3. CASE e # c
        <3>1. /\ up'[e] = up[e] /\ inbox'[e] = inbox[e] /\ outbox'[e] = outbox[e]
              /\ addSerial'[e] = addSerial[e]
            BY <2>1, <2>3, Zenon
        <3>2. Flow(up[e], inbox[e], outbox[e], addSerial[e], MaxInFlight[e])
            BY DEF FlowTypes
        <3> QED
            BY <3>1, <3>2, Zenon
    <2> QED
        BY <2>2, <2>3
<1> QED
    BY <1>1, <1>2, <1>3 DEF FlowTypes

LEMMA FlowHere ==
    ASSUME FlowTypes, NEW c \in Client
    PROVE  /\ Flow(up[c], inbox[c], outbox[c], addSerial[c], MaxInFlight[c])
           /\ up[c] \in BOOLEAN /\ addSerial[c] \in Nat \ {0} /\ addSerial[c] \in Nat
           /\ MaxInFlight[c] \in Nat
           /\ up = [up EXCEPT ![c] = up[c]]
           /\ inbox = [inbox EXCEPT ![c] = inbox[c]]
           /\ outbox = [outbox EXCEPT ![c] = outbox[c]]
           /\ addSerial = [addSerial EXCEPT ![c] = addSerial[c]]
<1>1. inbox = [e \in Client |-> inbox[e]] /\ outbox = [e \in Client |-> outbox[e]]
    BY DEF FlowTypes
<1>2. up \in [Client -> BOOLEAN] /\ addSerial \in [Client -> Nat \ {0}]
    BY DEF FlowTypes
<1>3. Flow(up[c], inbox[c], outbox[c], addSerial[c], MaxInFlight[c])
    BY DEF FlowTypes
<1>4. up = [up EXCEPT ![c] = up[c]] /\ addSerial = [addSerial EXCEPT ![c] = addSerial[c]]
    BY <1>2, Zenon
<1>5. inbox = [inbox EXCEPT ![c] = inbox[c]]
    BY <1>1, Zenon
<1>6. outbox = [outbox EXCEPT ![c] = outbox[c]]
    BY <1>1, Zenon
<1> QED
    BY <1>2, <1>3, <1>4, <1>5, <1>6, BoundTyped

(* A confab answers, drops its message, or ends.                           *)
LEMMA AnswersFlow ==
    ASSUME FlowTypes, NEW c \in Client, inbox[c] # <<>>, NEW reply, NEW to, NEW data,
           IsAnswer([reply |-> reply, to |-> to, data |-> data]),
           Answers(c, reply, to, data), UNCHANGED addSerial
    PROVE  FlowTypes'
<1>1. PICK a : a = [reply |-> reply, to |-> to, data |-> data]
    OBVIOUS
<1>2. /\ outbox' = [outbox EXCEPT ![c] = Append(outbox[c], a)]
      /\ inbox' = [inbox EXCEPT ![c] = Tail(inbox[c])]
      /\ up' = up
    BY <1>1, Zenon DEF Answers
<1>6. up[c] = TRUE
    BY FlowHere, FlowTakes
<1>3. Flow(TRUE, Tail(inbox[c]), Append(outbox[c], a), addSerial[c], MaxInFlight[c])
    <2>1. /\ Flow(TRUE, inbox[c], outbox[c], addSerial[c], MaxInFlight[c])
          /\ TRUE \in BOOLEAN /\ MaxInFlight[c] \in Nat
        BY <1>6, FlowHere
    <2>2. IsAnswer(a)
        BY <1>1
    <2> QED
        BY <2>1, <2>2, FlowTakes, Zenon
<1>4. up' = [up EXCEPT ![c] = TRUE] /\ addSerial' = [addSerial EXCEPT ![c] = addSerial[c]]
    BY <1>2, <1>6, FlowHere, Zenon
<1>5. TRUE \in BOOLEAN /\ addSerial[c] \in Nat \ {0}
    BY FlowHere
<1> QED
    BY <1>2, <1>3, <1>4, <1>5, FlowChanges, Zenon

Drops(c) ==
    /\ inbox' = [inbox EXCEPT ![c] = Tail(@)]
    /\ UNCHANGED <<up, outbox>>

LEMMA DropsFlow ==
    ASSUME FlowTypes, NEW c \in Client, inbox[c] # <<>>, Drops(c), UNCHANGED addSerial
    PROVE  FlowTypes'
<1>4. up[c] = TRUE
    BY FlowHere, FlowTakes
<1>1. /\ outbox' = [outbox EXCEPT ![c] = outbox[c]]
      /\ inbox' = [inbox EXCEPT ![c] = Tail(inbox[c])]
      /\ up' = [up EXCEPT ![c] = TRUE] /\ addSerial' = [addSerial EXCEPT ![c] = addSerial[c]]
    BY <1>4, FlowHere, Zenon DEF Drops
<1>2. Flow(TRUE, Tail(inbox[c]), outbox[c], addSerial[c], MaxInFlight[c])
    <2>1. /\ Flow(TRUE, inbox[c], outbox[c], addSerial[c], MaxInFlight[c])
          /\ TRUE \in BOOLEAN /\ MaxInFlight[c] \in Nat
        BY <1>4, FlowHere
    <2> QED
        BY <2>1, FlowTakes, Zenon
<1>3. TRUE \in BOOLEAN /\ addSerial[c] \in Nat \ {0}
    BY FlowHere
<1> QED
    BY <1>1, <1>2, <1>3, FlowChanges

LEMMA DiesFlow ==
    ASSUME FlowTypes, NEW c \in Client, inbox[c] # <<>>, Dies(c), UNCHANGED addSerial
    PROVE  FlowTypes'
<1>1. /\ outbox' = [outbox EXCEPT ![c] = outbox[c]]
      /\ inbox' = [inbox EXCEPT ![c] = <<>>]
      /\ up' = [up EXCEPT ![c] = FALSE] /\ addSerial' = [addSerial EXCEPT ![c] = addSerial[c]]
    BY FlowHere, Zenon DEF Dies
<1>2. Flow(FALSE, <<>>, outbox[c], addSerial[c], MaxInFlight[c])
    <2>1. /\ Flow(up[c], inbox[c], outbox[c], addSerial[c], MaxInFlight[c])
          /\ up[c] \in BOOLEAN /\ MaxInFlight[c] \in Nat
        BY FlowHere
    <2> QED
        BY <2>1, FlowTakes, Zenon
<1>3. FALSE \in BOOLEAN /\ addSerial[c] \in Nat \ {0}
    BY FlowHere
<1> QED
    BY <1>1, <1>2, <1>3, FlowChanges, Zenon

(* SuperCollider asks.                                                     *)
LEMMA AsksFlow ==
    ASSUME FlowTypes, NEW c \in Client, up[c],
           Len(inbox[c]) + Len(outbox[c]) < MaxInFlight[c],
           NEW m, NEW serial \in Nat \ {0}, IsMessage(m, serial), addSerial[c] <= serial,
           Send(c, m), addSerial' = [addSerial EXCEPT ![c] = serial],
           UNCHANGED <<up, outbox>>
    PROVE  FlowTypes'
<1>1. /\ outbox' = [outbox EXCEPT ![c] = outbox[c]]
      /\ inbox' = [inbox EXCEPT ![c] = Append(inbox[c], m)]
      /\ up' = [up EXCEPT ![c] = up[c]]
    BY FlowHere, Zenon DEF Send
<1>2. Flow(TRUE, Append(inbox[c], m), outbox[c], serial, MaxInFlight[c])
    <2>1. /\ Flow(TRUE, inbox[c], outbox[c], addSerial[c], MaxInFlight[c])
          /\ addSerial[c] \in Nat /\ MaxInFlight[c] \in Nat
        BY FlowHere
    <2> QED
        BY <2>1, FlowAsks, Zenon
<1>3. up[c] = TRUE
    BY FlowHere
<1> QED
    BY <1>1, <1>2, <1>3, FlowChanges, Zenon

(* It hears an answer, and perhaps asks again.                             *)
Listens(c) ==
    /\ outbox[c] # <<>>
    /\ outbox' = [outbox EXCEPT ![c] = Tail(@)]
    /\ UNCHANGED <<up, addSerial>>

LEMMA HearsFlow ==
    ASSUME FlowTypes, NEW c \in Client, Listens(c),
           \/ UNCHANGED inbox
           \/ (\E m : Send(c, m) /\ IsMessage(m, addSerial[c]))
    PROVE  FlowTypes'
<1>0. PICK u \in BOOLEAN : u = up[c]
    BY FlowHere
<1>1. /\ outbox' = [outbox EXCEPT ![c] = Tail(outbox[c])]
      /\ up' = [up EXCEPT ![c] = u] /\ addSerial' = [addSerial EXCEPT ![c] = addSerial[c]]
    BY <1>0, FlowHere, Zenon DEF Listens
<1>2. /\ Flow(u, inbox[c], Tail(outbox[c]), addSerial[c], MaxInFlight[c])
      /\ Len(inbox[c]) + Len(Tail(outbox[c])) < MaxInFlight[c]
    BY <1>0, FlowHere, FlowHears, Zenon DEF Listens
<1>3. up[c] \in BOOLEAN /\ addSerial[c] \in Nat \ {0} /\ MaxInFlight[c] \in Nat
    BY FlowHere
<1>6. ASSUME NEW in, inbox' = [inbox EXCEPT ![c] = in],
             Flow(u, in, Tail(outbox[c]), addSerial[c], MaxInFlight[c])
      PROVE  FlowTypes'
    BY <1>1, <1>3, <1>6, FlowChanges, Zenon
<1>4. CASE UNCHANGED inbox
    <2>1. inbox' = [inbox EXCEPT ![c] = inbox[c]]
        BY <1>4, FlowHere, Zenon
    <2> QED
        BY <1>2, <1>6, <2>1, Zenon
<1>5. ASSUME NEW m, Send(c, m), IsMessage(m, addSerial[c]) PROVE FlowTypes'
    <2>1. CASE ~ up[c]
        BY <1>4, <1>5, <2>1 DEF Send
    <2>2. CASE up[c]
        <3>1. inbox' = [inbox EXCEPT ![c] = Append(inbox[c], m)]
            BY <1>5, <2>2, Zenon DEF Send
        <3>2. u = TRUE
            BY <1>0, <2>2
        <3>3. addSerial[c] <= addSerial[c] /\ addSerial[c] \in Nat
            BY <1>3
        <3>4. Flow(TRUE, Append(inbox[c], m), Tail(outbox[c]), addSerial[c], MaxInFlight[c])
            BY <1>2, <1>3, <1>5, <3>2, <3>3, FlowAsks, Zenon
        <3> QED
            BY <1>1, <1>3, <3>1, <3>2, <3>4, FlowChanges, Zenon
    <2> QED
        BY <2>1, <2>2
<1> QED
    BY <1>4, <1>5

----------------------------------------------------------------------------
(***************************************************************************)
(* What a message asks for, and what an answer is about                    *)
(***************************************************************************)
Walking == <<"walk", 0>>

Topic(m) ==
    CASE m.cmd = "assetAddString"         -> <<"add", m.n>>
      [] m.cmd = "assetFind"              -> Id(m.arg)
      [] m.cmd = "assetFindName"          -> Named(m.arg)
      [] m.cmd \in {"listAdd", "listFind"} -> <<"list", m.arg>>
      [] m.cmd = "listNext"               -> Walking

Subject(a) ==
    CASE a.reply = "assetAdded"                   -> <<"add", a.to>>
      [] a.reply \in {"assetFound", "assetError"} -> a.to
      [] a.reply \in {"listFound", "listError"}   -> <<"list", a.to[2]>>
      [] a.reply = "listItems"                    -> Walking

LEMMA Topics ==
    /\ \A arg, n : /\ Topic(Message("assetAddString", arg, n)) = <<"add", n>>
                   /\ Topic(Message("assetFind", arg, n)) = Id(arg)
                   /\ Topic(Message("assetFindName", arg, n)) = Named(arg)
                   /\ Topic(Message("listAdd", arg, n)) = <<"list", arg>>
                   /\ Topic(Message("listFind", arg, n)) = <<"list", arg>>
                   /\ Topic(Message("listNext", arg, n)) = Walking
BY SMT DEF Topic, Message

LEMMA MessagesTyped ==
    ASSUME NEW serial \in Nat \ {0}
    PROVE  /\ \A d \in DOMAIN Draft, n \in Nat :
                 n < serial => IsMessage(Message("assetAddString", d, n), serial)
           /\ \A k \in Key \cup {NoKey} : IsMessage(Message("assetFind", k, 0), serial)
           /\ \A k \in Key : /\ IsMessage(Message("assetFindName", k, 0), serial)
                             /\ IsMessage(Message("listAdd", k, 0), serial)
                             /\ IsMessage(Message("listFind", k, 0), serial)
           /\ \A k \in Key \cup {0}, n \in Nat : IsMessage(Message("listNext", k, n), serial)
<1>1. \A d \in DOMAIN Draft, n \in Nat :
                 n < serial => IsMessage(Message("assetAddString", d, n), serial)
    BY DEF Message, IsMessage, Messages
<1>2. \A k \in Key \cup {NoKey} : IsMessage(Message("assetFind", k, 0), serial)
    BY DEF Message, IsMessage, Messages
<1>3. \A k \in Key : /\ IsMessage(Message("assetFindName", k, 0), serial)
                     /\ IsMessage(Message("listAdd", k, 0), serial)
                     /\ IsMessage(Message("listFind", k, 0), serial)
    BY DEF Message, IsMessage, Messages
<1>4. \A k \in Key \cup {0}, n \in Nat : IsMessage(Message("listNext", k, n), serial)
    BY DEF Message, IsMessage, Messages
<1> QED
    BY <1>1, <1>2, <1>3, <1>4

(* The arguments of the messages.                                          *)
LEMMA Arguments ==
    ASSUME NEW m \in Messages
    PROVE  /\ m = Message(m.cmd, m.arg, m.n)
           /\ m.cmd \in {"assetAddString", "assetFind", "assetFindName", "listAdd",
                         "listFind", "listNext"}
           /\ m.cmd = "assetAddString" => m.arg \in DOMAIN Draft
           /\ m.cmd = "assetFind" => m.arg \in Key \cup {NoKey}
           /\ m.cmd \in {"assetFindName", "listAdd", "listFind"} => m.arg \in Key
           /\ m.cmd = "listNext" => m.arg \in Key \cup {0}
           /\ m.n \in Nat
BY DEF Messages, Message

(* What a confab does with its next message.                               *)
Serve(c) ==
    \/ Drops(c)
    \/ Dies(c)
    \/ \E reply, to, data :
          /\ Answers(c, reply, to, data)
          /\ IsAnswer([reply |-> reply, to |-> to, data |-> data])
          /\ Subject([reply |-> reply, to |-> to, data |-> data]) = Topic(Head(inbox[c]))

LEMMA AnswersServe ==
    ASSUME NEW c \in Client, NEW m \in Messages, m = Head(inbox[c])
    PROVE  /\ \A data : m.cmd = "assetAddString" /\ Answers(c, "assetAdded", m.n, data)
                 => Serve(c)
           /\ \A data, reply :
                 /\ m.cmd = "assetFind" /\ Answers(c, reply, Id(m.arg), data)
                 /\ reply \in {"assetFound", "assetError"}
                 => Serve(c)
           /\ \A data, reply :
                 /\ m.cmd = "assetFindName" /\ Answers(c, reply, Named(m.arg), data)
                 /\ reply \in {"assetFound", "assetError"}
                 => Serve(c)
           /\ \A data, reply :
                 /\ m.cmd \in {"listAdd", "listFind"} /\ Answers(c, reply, Named(m.arg), data)
                 /\ reply \in {"listFound", "listError"}
                 => Serve(c)
           /\ \A data : /\ m.cmd = "listNext" /\ Answers(c, "listItems", Id(m.arg), data)
                        /\ AreKeys(data)
                        => Serve(c)
<1>1. ASSUME NEW data, m.cmd = "assetAddString", Answers(c, "assetAdded", m.n, data)
      PROVE  Serve(c)
    <2>1. PICK a : a = [reply |-> "assetAdded", to |-> m.n, data |-> data]
        OBVIOUS
    <2>2. IsAnswer(a) /\ Subject(a) = Topic(m)
        BY <1>1, <2>1, SMT DEF IsAnswer, Subject, Topic
    <2> QED
        BY <1>1, <2>1, <2>2, Zenon DEF Serve
<1>2. ASSUME NEW data, NEW reply \in {"assetFound", "assetError"},
             m.cmd = "assetFind", Answers(c, reply, Id(m.arg), data)
      PROVE  Serve(c)
    <2>1. PICK a : a = [reply |-> reply, to |-> Id(m.arg), data |-> data]
        OBVIOUS
    <2>2. Id(m.arg) \in Ids
        BY <1>2, Arguments DEF Id, Ids
    <2>3. IsAnswer(a) /\ Subject(a) = Topic(m)
        BY <1>2, <2>1, <2>2, SMT DEF IsAnswer, Subject, Topic
    <2> QED
        BY <1>2, <2>1, <2>3, Zenon DEF Serve
<1>3. ASSUME NEW data, NEW reply \in {"assetFound", "assetError"},
             m.cmd = "assetFindName", Answers(c, reply, Named(m.arg), data)
      PROVE  Serve(c)
    <2>1. PICK a : a = [reply |-> reply, to |-> Named(m.arg), data |-> data]
        OBVIOUS
    <2>2. Named(m.arg) \in Names
        BY <1>3, Arguments DEF Named, Names
    <2>3. IsAnswer(a) /\ Subject(a) = Topic(m)
        BY <1>3, <2>1, <2>2, SMT DEF IsAnswer, Subject, Topic
    <2> QED
        BY <1>3, <2>1, <2>3, Zenon DEF Serve
<1>4. ASSUME NEW data, NEW reply \in {"listFound", "listError"},
             m.cmd \in {"listAdd", "listFind"}, Answers(c, reply, Named(m.arg), data)
      PROVE  Serve(c)
    <2>1. PICK a : a = [reply |-> reply, to |-> Named(m.arg), data |-> data]
        OBVIOUS
    <2>2. Named(m.arg) \in Names /\ Named(m.arg)[2] = m.arg
        BY <1>4, Arguments DEF Named, Names
    <2>3. IsAnswer(a) /\ Subject(a) = Topic(m)
        BY <1>4, <2>1, <2>2, SMT DEF IsAnswer, Subject, Topic
    <2> QED
        BY <1>4, <2>1, <2>3, Zenon DEF Serve
<1>5. ASSUME NEW data, m.cmd = "listNext", Answers(c, "listItems", Id(m.arg), data),
             AreKeys(data)
      PROVE  Serve(c)
    <2>1. PICK a : a = [reply |-> "listItems", to |-> Id(m.arg), data |-> data]
        OBVIOUS
    <2>2. IsAnswer(a) /\ Subject(a) = Topic(m)
        BY <1>5, <2>1, SMT DEF IsAnswer, Subject, Topic
    <2> QED
        BY <1>5, <2>1, <2>2, Zenon DEF Serve
<1> QED
    BY <1>1, <1>2, <1>3, <1>4, <1>5, Zenon

LEMMA KeyNumbers ==
    /\ \A k \in Key : k \in Nat /\ k \in Word /\ k # kBeginList /\ k # kEndList
    /\ \A t \in Time \cup {OldTime} : t \in Nat /\ t \in Word /\ t # kEndList
<1>1. kEndList \in Nat /\ kEndList >= 3
    BY EndIsLast
<1>2. \A k \in Key : k \in 1 .. kEndList - 1
    BY CatalogAssumption
<1>3. \A t \in Time : t \in OldTime + 1 .. kEndList - 1
    BY CatalogAssumption
<1> QED
    BY <1>1, <1>2, <1>3 DEF Word, OldTime, kBeginList

LEMMA PageKeys ==
    ASSUME AreKeys(DOMAIN db), NEW l \in Key \cup {0}, NEW token \in Nat
    PROVE  AreKeys(getListItems(db, l, token, MaxPairs).page)
<1>1. getListItems(db, l, token, MaxPairs).page = getListNext(db, l, token, MaxPairs)
    BY DEF getListItems
<1>2. l \in Nat /\ MaxPairs \in Nat \ {0}
    BY KeyNumbers, CatalogAssumption
<1>3. CASE token # kEndList
    <2>1. getListNext(db, l, token, MaxPairs) \subseteq {k \in DOMAIN db : EntryOf(k, l)}
        BY <1>2, <1>3, PageFollows
    <2>2. getListNext(db, l, token, MaxPairs) \in SUBSET DOMAIN db
        BY <2>1
    <2> QED
        BY <1>1, <2>2, FS_Subset DEF AreKeys
<1>4. CASE token = kEndList
    <2>1. getListNext(db, l, token, MaxPairs) = {ListEntryKey(l, kEndList, kEndList)}
        BY <1>4 DEF getListNext
    <2>2. IsKey(ListEntryKey(l, kEndList, kEndList))
        BY <1>2, EndIsLast DEF IsKey, ListEntryKey, kListEntry
    <2> QED
        BY <1>1, <2>1, <2>2, FS_Singleton DEF AreKeys
<1> QED
    BY <1>3, <1>4

LEMMA HandleServes ==
    ASSUME FlowTypes, ServerTypes, NEW c \in Client, Handle(c)
    PROVE  /\ inbox[c] # <<>> /\ up[c] = TRUE
           /\ Head(inbox[c]) \in Messages
           /\ Head(inbox[c]).cmd = "assetAddString" => Head(inbox[c]).n < addSerial[c]
           /\ Serve(c)
           /\ UNCHANGED scVars
<1>1. inbox[c] # <<>> /\ UNCHANGED scVars
    BY Zenon DEF Handle, HandleAddString, HandleFind, HandleFindName, HandleListAdd,
                 HandleListFind, HandleListNext, Rejected, Serves
<1>2. up[c] = TRUE /\ IsMessage(Head(inbox[c]), addSerial[c])
    BY <1>1, FlowHere, FlowTakes
<1> SUFFICES Serve(c)
    BY <1>1, <1>2 DEF IsMessage
<1>3. PICK m \in Messages : m = Head(inbox[c])
    BY <1>2 DEF IsMessage
<1>4. CASE HandleAddString(c)
    <2>1. m.cmd = "assetAddString"
        BY <1>3, <1>4, Zenon DEF HandleAddString, Serves
    <2>2. \/ Dies(c)
          \/ \E data : Answers(c, "assetAdded", m.n, data)
        BY <1>3, <1>4, Zenon DEF HandleAddString
    <2> QED
        BY <1>3, <2>1, <2>2, AnswersServe, Zenon DEF Serve
<1>5. ASSUME NEW identity, NEW asset, SendAsset(c, identity, asset)
      PROVE  Dies(c) \/ \E to \in {identity} : \E data : Answers(c, "assetFound", to, data)
    BY <1>5, Zenon DEF SendAsset
<1>6. ASSUME NEW identity, NEW response, Retrieved(c, identity, response)
      PROVE  \/ Dies(c)
             \/ \E reply \in {"assetFound", "assetError"} : \E data :
                   Answers(c, reply, identity, data)
    <2>1. CASE Answers(c, "assetError", identity, NoValue)
        BY <2>1
    <2>2. CASE SendAsset(c, identity, db[response.record])
        BY <1>5, <2>2
    <2> QED
        BY <1>6, <2>1, <2>2, Zenon DEF Retrieved
<1>7. CASE HandleFind(c)
    <2>1. m.cmd = "assetFind"
        BY <1>3, <1>7, Zenon DEF HandleFind, Serves
    <2>2. \/ SendAsset(c, Id(m.arg), local[c][findAsset(local[c], m.arg)])
          \/ (inbox' = [inbox EXCEPT ![c] = Tail(@)] /\ UNCHANGED <<up, local, outbox>>)
          \/ Retrieved(c, Id(m.arg), getAsset(db, m.arg))
        BY <1>3, <1>7, Zenon DEF HandleFind
    <2>3. \/ Dies(c) \/ Drops(c)
          \/ \E reply \in {"assetFound", "assetError"} : \E data :
                Answers(c, reply, Id(m.arg), data)
        <3>1. CASE SendAsset(c, Id(m.arg), local[c][findAsset(local[c], m.arg)])
            BY <1>5, <3>1
        <3>2. CASE inbox' = [inbox EXCEPT ![c] = Tail(@)] /\ UNCHANGED <<up, local, outbox>>
            BY <3>2 DEF Drops
        <3>3. CASE Retrieved(c, Id(m.arg), getAsset(db, m.arg))
            BY <1>6, <3>3
        <3> QED
            BY <2>2, <3>1, <3>2, <3>3
    <2> QED
        BY <1>3, <2>1, <2>3, AnswersServe, Zenon DEF Serve
<1>8. CASE HandleFindName(c)
    <2>1. m.cmd = "assetFindName"
        BY <1>3, <1>8, Zenon DEF HandleFindName, Serves
    <2>2. Retrieved(c, Named(m.arg), getNamedAsset(db, m.arg))
        BY <1>3, <1>8, Zenon DEF HandleFindName
    <2> QED
        BY <1>3, <1>6, <2>1, <2>2, AnswersServe, Zenon DEF Serve
<1>9. CASE HandleListAdd(c)
    <2>1. m.cmd = "listAdd"
        BY <1>3, <1>9, Zenon DEF HandleListAdd, Serves
    <2>2. \E reply \in {"listFound", "listError"} : \E data :
                Answers(c, reply, Named(m.arg), data)
        BY <1>3, <1>9, Zenon DEF HandleListAdd
    <2> QED
        BY <1>3, <2>1, <2>2, AnswersServe, Zenon DEF Serve
<1>10. CASE HandleListFind(c)
    <2>1. m.cmd = "listFind"
        BY <1>3, <1>10, Zenon DEF HandleListFind, Serves
    <2>2. \E reply \in {"listFound", "listError"} : \E data :
                Answers(c, reply, Named(m.arg), data)
        BY <1>3, <1>10, Zenon DEF HandleListFind
    <2> QED
        BY <1>3, <2>1, <2>2, AnswersServe, Zenon DEF Serve
<1>11. CASE HandleListNext(c)
    <2>1. m.cmd = "listNext"
        BY <1>3, <1>11, Zenon DEF HandleListNext, Serves
    <2>2. Answers(c, "listItems", Id(m.arg), getListItems(db, m.arg, m.n, MaxPairs).page)
        BY <1>3, <1>11, Zenon DEF HandleListNext
    <2>3. AreKeys(getListItems(db, m.arg, m.n, MaxPairs).page)
        <3>1. m.arg \in Key \cup {0} /\ m.n \in Nat
            BY <2>1, Arguments
        <3> QED
            BY <3>1, PageKeys DEF ServerTypes
    <2> QED
        BY <1>3, <2>1, <2>2, <2>3, AnswersServe, Zenon
<1>12. CASE Rejected(c)
    BY <1>12 DEF Rejected, Serve
<1> QED
    BY <1>4, <1>7, <1>8, <1>9, <1>10, <1>11, <1>12 DEF Handle

LEMMA ServeFlow ==
    ASSUME FlowTypes, ServerTypes, NEW c \in Client, Handle(c)
    PROVE  FlowTypes'
<1>1. inbox[c] # <<>> /\ Serve(c) /\ UNCHANGED addSerial
    BY HandleServes DEF scVars
<1>2. CASE Drops(c)
    BY <1>1, <1>2, DropsFlow
<1>3. CASE Dies(c)
    BY <1>1, <1>3, DiesFlow
<1>4. ASSUME NEW reply, NEW to, NEW data, Answers(c, reply, to, data),
             IsAnswer([reply |-> reply, to |-> to, data |-> data])
      PROVE  FlowTypes'
    BY <1>1, <1>4, AnswersFlow
<1> QED
    BY <1>1, <1>2, <1>3, <1>4, Zenon DEF Serve

LEMMA AskMeans ==
    ASSUME NEW c, NEW cmd, NEW arg, Ask(c, cmd, arg)
    PROVE  /\ up[c] /\ Len(inbox[c]) + Len(outbox[c]) < MaxInFlight[c]
           /\ <<cmd, arg>> \in DOMAIN left[c] /\ left[c][<<cmd, arg>>] > 0
           /\ left' = [left EXCEPT ![c][<<cmd, arg>>] = @ - 1]
BY Zenon DEF Ask

(* The calls, and what they send.                                          *)
Adds(c, d) ==
    /\ Ask(c, "assetAddString", d)
    /\ Send(c, Message("assetAddString", d, addSerial[c]))
    /\ callbacks' = [callbacks EXCEPT ![c].add = @ \cup {<<addSerial[c], d>>}]
    /\ addSerial' = [addSerial EXCEPT ![c] = @ + 1]
    /\ UNCHANGED <<confabVars, outbox, walk, added, strays>>

Walks(c, l) ==
    /\ walk[c].state # "on"
    /\ Ask(c, "listNext", l)
    /\ Send(c, Message("listNext", l, kBeginList))
    /\ callbacks' = [callbacks EXCEPT ![c].list = @ \cup {Id(l)}]
    /\ walk' = [walk EXCEPT ![c] =
          [state |-> "on", list |-> l, there |-> ListKey(l) \in DOMAIN db,
           due |-> Members(l), seen |-> {}]]
    /\ UNCHANGED <<confabVars, outbox, addSerial, added, strays>>

LEMMA CallsAre ==
    ASSUME NEW c, Calls(c)
    PROVE  \/ \E d \in DOMAIN Draft : Adds(c, d)
           \/ \E k \in Key \cup {NoKey} : Find(c, "assetFind", k, Id(k))
           \/ \E n \in Key : Find(c, "assetFindName", n, Named(n))
           \/ \E cmd \in {"listAdd", "listFind"}, n \in Key : NameList(c, cmd, n)
           \/ \E l \in Key : Walks(c, l)
<1>1. CASE AddAssetString(c)
    BY <1>1 DEF AddAssetString, Adds
<1>2. CASE FindAssetById(c)
    BY <1>2 DEF FindAssetById, NoKey
<1>3. CASE FindAssetByName(c)
    BY <1>3 DEF FindAssetByName
<1>4. CASE CreateList(c)
    BY <1>4 DEF CreateList
<1>5. CASE FindListByName(c)
    BY <1>5 DEF FindListByName
<1>6. CASE GetListNext(c)
    BY <1>6 DEF GetListNext, Walks
<1> QED
    BY <1>1, <1>2, <1>3, <1>4, <1>5, <1>6 DEF Calls

LEMMA CallsFlow ==
    ASSUME FlowTypes, NEW c \in Client, Calls(c)
    PROVE  FlowTypes'
<1>1. PICK s \in Nat \ {0} : s = addSerial[c]
    BY FlowHere
<1>2. ASSUME NEW cmd, NEW arg, NEW m, Ask(c, cmd, arg), Send(c, m), IsMessage(m, s),
             UNCHANGED <<up, outbox, addSerial>>
      PROVE  FlowTypes'
    <2>1. up[c] /\ Len(inbox[c]) + Len(outbox[c]) < MaxInFlight[c]
        BY <1>2, AskMeans
    <2>2. addSerial' = [addSerial EXCEPT ![c] = s]
        BY <1>1, <1>2, FlowHere
    <2>3. addSerial[c] <= s
        BY <1>1
    <2> QED
        BY <1>2, <2>1, <2>2, <2>3, AsksFlow
<1>3. ASSUME NEW d \in DOMAIN Draft, Adds(c, d) PROVE FlowTypes'
    <2>1. PICK m : m = Message("assetAddString", d, s)
        OBVIOUS
    <2>2. up[c] /\ Len(inbox[c]) + Len(outbox[c]) < MaxInFlight[c]
        BY <1>3, AskMeans, Zenon DEF Adds
    <2>3. Send(c, m) /\ UNCHANGED <<up, outbox>>
        BY <1>1, <1>3, <2>1, Zenon DEF Adds, confabVars
    <2>4. s + 1 \in Nat \ {0} /\ addSerial[c] <= s + 1 /\ s < s + 1
        BY <1>1
    <2>5. addSerial' = [addSerial EXCEPT ![c] = s + 1]
        BY <1>1, <1>3 DEF Adds
    <2>6. IsMessage(m, s + 1)
        BY <2>1, <2>4, MessagesTyped
    <2> QED
        BY <2>2, <2>3, <2>4, <2>5, <2>6, AsksFlow
<1>4. ASSUME NEW k \in Key \cup {NoKey}, Find(c, "assetFind", k, Id(k)) PROVE FlowTypes'
    <2>1. PICK m : m = Message("assetFind", k, 0)
        OBVIOUS
    <2>2. Ask(c, "assetFind", k) /\ Send(c, m) /\ UNCHANGED <<up, outbox, addSerial>>
        BY <1>4, <2>1, Zenon DEF Find, confabVars
    <2> QED
        BY <1>2, <2>1, <2>2, MessagesTyped
<1>5. ASSUME NEW n \in Key, Find(c, "assetFindName", n, Named(n)) PROVE FlowTypes'
    <2>1. PICK m : m = Message("assetFindName", n, 0)
        OBVIOUS
    <2>2. Ask(c, "assetFindName", n) /\ Send(c, m) /\ UNCHANGED <<up, outbox, addSerial>>
        BY <1>5, <2>1, Zenon DEF Find, confabVars
    <2> QED
        BY <1>2, <2>1, <2>2, MessagesTyped
<1>6. ASSUME NEW cmd \in {"listAdd", "listFind"}, NEW n \in Key, NameList(c, cmd, n)
      PROVE  FlowTypes'
    <2>1. PICK m : m = Message(cmd, n, 0)
        OBVIOUS
    <2>2. Ask(c, cmd, n) /\ Send(c, m) /\ UNCHANGED <<up, outbox, addSerial>>
        BY <1>6, <2>1, Zenon DEF NameList, confabVars
    <2> QED
        BY <1>2, <2>1, <2>2, MessagesTyped
<1>7. ASSUME NEW l \in Key, Walks(c, l) PROVE FlowTypes'
    <2>1. PICK m : m = Message("listNext", l, kBeginList)
        OBVIOUS
    <2>2. Ask(c, "listNext", l) /\ Send(c, m) /\ UNCHANGED <<up, outbox, addSerial>>
        BY <1>7, <2>1, Zenon DEF Walks, confabVars
    <2>3. kBeginList \in Nat
        BY DEF kBeginList
    <2> QED
        BY <1>2, <2>1, <2>2, <2>3, MessagesTyped
<1> QED
    BY <1>3, <1>4, <1>5, <1>6, <1>7, CallsAre

LEMMA HearsListens ==
    ASSUME NEW c, NEW reply, Hears(c, reply), UNCHANGED addSerial
    PROVE  Listens(c) /\ Head(outbox[c]).reply = reply
BY Zenon DEF Hears, Listens, confabVars

(* Asking again from the callback of an answer.                            *)
Again(to) == IF to[1] = "id" THEN "assetFind" ELSE "assetFindName"

LEMMA AgainTyped ==
    ASSUME NEW to \in Ids \cup Names, NEW serial \in Nat \ {0}
    PROVE  /\ IsMessage(Message(Again(to), to[2], 0), serial)
           /\ Topic(Message(Again(to), to[2], 0)) = to
<1>1. CASE to \in Ids
    <2>1. to[2] \in Key \cup {NoKey} /\ to = Id(to[2]) /\ Again(to) = "assetFind"
        BY <1>1 DEF Ids, Id, Again
    <2>2. PICK k \in Key \cup {NoKey} : k = to[2]
        BY <2>1
    <2>3. IsMessage(Message("assetFind", k, 0), serial)
        BY MessagesTyped
    <2>4. Topic(Message("assetFind", k, 0)) = Id(k)
        BY Topics
    <2> QED
        BY <2>1, <2>2, <2>3, <2>4, Zenon
<1>2. CASE to \in Names
    <2>1. to[2] \in Key /\ to = Named(to[2]) /\ Again(to) = "assetFindName"
        BY <1>2 DEF Names, Named, Again
    <2>2. PICK k \in Key : k = to[2]
        BY <2>1
    <2>3. IsMessage(Message("assetFindName", k, 0), serial)
        BY MessagesTyped
    <2>4. Topic(Message("assetFindName", k, 0)) = Named(k)
        BY Topics
    <2> QED
        BY <2>1, <2>2, <2>3, <2>4, Zenon
<1> QED
    BY <1>1, <1>2

(* The last entry of a page that came.                                     *)
LastOf(page) == CHOOSE k \in page : \A other \in page : ~ Before(k, other)

LEMMA LastTyped ==
    ASSUME NEW page, AreKeys(page), page # {}
    PROVE  /\ LastOf(page) \in page /\ IsKey(LastOf(page))
           /\ \A other \in page : ~ Before(LastOf(page), other)
<1>1. \E k \in page : \A other \in page : ~ Before(k, other)
    BY LastKey
<1>2. LastOf(page) \in page /\ \A other \in page : ~ Before(LastOf(page), other)
    BY <1>1 DEF LastOf
<1> QED
    BY <1>2 DEF AreKeys

LEMMA ItemsMeans ==
    ASSUME NEW c, OnListItems(c)
    PROVE  LET page == Head(outbox[c]).data
               To(state) == walk' = [walk EXCEPT ![c].state = state,
                                         ![c].seen = walk[c].seen \cup {k[4] : k \in page}]
           IN  /\ Hears(c, "listItems")
               /\ UNCHANGED <<addSerial, callbacks, left, added, strays>>
               /\ \/ page = {} /\ To("failed") /\ UNCHANGED inbox
                  \/ page # {} /\ LastOf(page)[3] = kEndList /\ To("done") /\ UNCHANGED inbox
                  \/ /\ page # {} /\ LastOf(page)[3] # kEndList /\ To("on")
                     /\ Send(c, Message("listNext", walk[c].list, LastOf(page)[3]))
BY Zenon DEF OnListItems, LastOf

LEMMA FoundMeans ==
    ASSUME NEW c, NEW reply, OnFound(c, reply)
    PROVE  LET to == Head(outbox[c]).to
           IN  /\ Hears(c, reply)
               /\ UNCHANGED <<addSerial, walk, added>>
               /\ callbacks' = [callbacks EXCEPT ![c].find = @ \ {to}]
               /\ \/ to \in callbacks[c].find /\ UNCHANGED <<inbox, left, strays>>
                  \/ /\ to \in callbacks[c].find /\ UNCHANGED strays
                     /\ Ask(c, Again(to), to[2]) /\ Send(c, Message(Again(to), to[2], 0))
                  \/ to \notin callbacks[c].find /\ Strayed(c) /\ UNCHANGED <<inbox, left>>
BY Zenon DEF OnFound, Again

LEMMA ListFoundMeans ==
    ASSUME NEW c, OnListFound(c)
    PROVE  LET to == Head(outbox[c]).to
           IN  /\ Hears(c, "listFound")
               /\ UNCHANGED <<addSerial, walk, added>>
               /\ callbacks' = [callbacks EXCEPT ![c].list = @ \ {to}]
               /\ \/ to \in callbacks[c].list /\ UNCHANGED <<inbox, left, strays>>
                  \/ /\ to \in callbacks[c].list /\ UNCHANGED strays
                     /\ \E cmd \in {"listAdd", "listFind"} :
                           Ask(c, cmd, to[2]) /\ Send(c, Message(cmd, to[2], 0))
                  \/ to \notin callbacks[c].list /\ Strayed(c) /\ UNCHANGED <<inbox, left>>
BY Zenon DEF OnListFound

LEMMA ListAgainTyped ==
    ASSUME NEW to \in Names, NEW cmd \in {"listAdd", "listFind"}, NEW serial \in Nat \ {0}
    PROVE  /\ IsMessage(Message(cmd, to[2], 0), serial)
           /\ Topic(Message(cmd, to[2], 0)) = <<"list", to[2]>>
<1>1. to[2] \in Key
    BY DEF Names
<1>2. PICK k \in Key : k = to[2]
    BY <1>1
<1>3. CASE cmd = "listAdd"
    BY <1>2, <1>3, MessagesTyped, Topics, Zenon
<1>4. CASE cmd = "listFind"
    BY <1>2, <1>4, MessagesTyped, Topics, Zenon
<1> QED
    BY <1>3, <1>4

LEMMA ReceivesAre ==
    ASSUME NEW c, Receives(c)
    PROVE  \/ OnAssetAdded(c)
           \/ \E reply \in {"assetFound", "assetError"} : OnFound(c, reply)
           \/ OnListFound(c) \/ OnListError(c) \/ OnListItems(c)
BY Zenon DEF Receives, OnAssetFound, OnAssetError

LEMMA ReceivesFlow ==
    ASSUME FlowTypes, CallTypes, NEW c \in Client, Receives(c)
    PROVE  FlowTypes'
<1>1. addSerial[c] \in Nat \ {0}
    BY FlowHere
<1>2. ASSUME Listens(c) PROVE IsAnswer(Head(outbox[c]))
    BY <1>2, FlowHere, FlowHears DEF Listens
<1>3. CASE OnAssetAdded(c)
    <2>1. Hears(c, "assetAdded") /\ UNCHANGED <<inbox, addSerial>>
        BY <1>3, Zenon DEF OnAssetAdded
    <2> QED
        BY <2>1, HearsListens, HearsFlow
<1>4. ASSUME NEW reply \in {"assetFound", "assetError"}, OnFound(c, reply) PROVE FlowTypes'
    <2>1. PICK to : to = Head(outbox[c]).to
        OBVIOUS
    <2>2. Listens(c) /\ Head(outbox[c]).reply = reply
        BY <1>4, FoundMeans, HearsListens, Zenon
    <2>3. to \in Ids \cup Names
        BY <1>2, <2>1, <2>2 DEF IsAnswer
    <2>4. UNCHANGED inbox \/ Send(c, Message(Again(to), to[2], 0))
        BY <1>4, <2>1, FoundMeans, Zenon
    <2>5. PICK m : m = Message(Again(to), to[2], 0)
        OBVIOUS
    <2>6. IsMessage(m, addSerial[c])
        BY <1>1, <2>3, <2>5, AgainTyped
    <2> QED
        BY <2>2, <2>4, <2>5, <2>6, HearsFlow
<1>5. CASE OnListFound(c)
    <2>1. PICK to : to = Head(outbox[c]).to
        OBVIOUS
    <2>2. Listens(c) /\ Head(outbox[c]).reply = "listFound" /\ UNCHANGED addSerial
        BY <1>5, ListFoundMeans, HearsListens, Zenon
    <2>3. to \in Names
        BY <1>2, <2>1, <2>2 DEF IsAnswer
    <2>4. \/ UNCHANGED inbox
          \/ \E cmd \in {"listAdd", "listFind"} : Send(c, Message(cmd, to[2], 0))
        BY <1>5, <2>1, ListFoundMeans, Zenon
    <2>5. ASSUME NEW cmd \in {"listAdd", "listFind"}, Send(c, Message(cmd, to[2], 0))
          PROVE  FlowTypes'
        <3>1. PICK m : m = Message(cmd, to[2], 0)
            OBVIOUS
        <3>2. IsMessage(m, addSerial[c])
            BY <1>1, <2>3, <3>1, ListAgainTyped
        <3>3. Send(c, m)
            BY <2>5, <3>1
        <3> QED
            BY <2>2, <3>2, <3>3, HearsFlow
    <2>6. CASE UNCHANGED inbox
        BY <2>2, <2>6, HearsFlow
    <2> QED
        BY <2>4, <2>5, <2>6
<1>6. CASE OnListError(c)
    <2>1. Hears(c, "listError") /\ UNCHANGED <<inbox, addSerial>>
        BY <1>6, Zenon DEF OnListError
    <2> QED
        BY <2>1, HearsListens, HearsFlow
<1>7. CASE OnListItems(c)
    <2>1. PICK page : page = Head(outbox[c]).data
        OBVIOUS
    <2>2. Hears(c, "listItems") /\ UNCHANGED addSerial
        BY <1>7, ItemsMeans, Zenon
    <2>3. Listens(c) /\ Head(outbox[c]).reply = "listItems"
        BY <2>2, HearsListens
    <2>4. AreKeys(page)
        BY <1>2, <2>1, <2>3 DEF IsAnswer
    <2>5. PICK m : m = Message("listNext", walk[c].list, LastOf(page)[3])
        OBVIOUS
    <2>6. UNCHANGED inbox \/ (page # {} /\ Send(c, m))
        BY <1>7, <2>1, <2>5, ItemsMeans, Zenon
    <2>7. page # {} => IsMessage(m, addSerial[c])
        <3>1. page # {} => LastOf(page)[3] \in Nat
            BY <2>4, LastTyped DEF IsKey
        <3>2. walk[c].list \in Key \cup {0}
            BY DEF CallTypes, IsWalk
        <3> QED
            BY <1>1, <2>5, <3>1, <3>2, MessagesTyped
    <2> QED
        BY <2>3, <2>6, <2>7, HearsFlow
<1> QED
    BY <1>3, <1>4, <1>5, <1>6, <1>7, ReceivesAre

----------------------------------------------------------------------------
(***************************************************************************)
(* Callbacks, walks and what is left to ask                                *)
(***************************************************************************)
LEMMA MapKept ==
    ASSUME NEW f, IsMap(f), NEW c \in Client, NEW x
    PROVE  /\ IsMap([f EXCEPT ![c] = x])
           /\ [f EXCEPT ![c] = x][c] = x
           /\ \A e \in Client \ {c} : [f EXCEPT ![c] = x][e] = f[e]
           /\ f = [f EXCEPT ![c] = f[c]]
<1>1. f = [e \in Client |-> f[e]]
    BY DEF IsMap
<1>2. PICK g : g = [f EXCEPT ![c] = x]
    OBVIOUS
<1>3. DOMAIN f = Client
    BY <1>1, Zenon
<1>4. g = [e \in Client |-> IF e = c THEN x ELSE f[e]]
    BY <1>2, <1>3, Zenon
<1>5. g[c] = x /\ \A e \in Client \ {c} : g[e] = f[e]
    BY <1>4
<1>6. g = [e \in Client |-> g[e]]
    BY <1>4
<1>7. f = [f EXCEPT ![c] = f[c]]
    BY <1>1, Zenon
<1> QED
    BY <1>2, <1>5, <1>6, <1>7, Zenon DEF IsMap

LEMMA CallMaps ==
    ASSUME CallTypes
    PROVE  IsMap(callbacks) /\ IsMap(walk) /\ IsMap(left)
BY DEF CallTypes, IsMap

LEMMA CallChanges ==
    ASSUME CallTypes, FlowTypes, NEW c \in Client, NEW cbs, NEW w, NEW l, NEW serial,
           callbacks' = [callbacks EXCEPT ![c] = cbs],
           walk' = [walk EXCEPT ![c] = w],
           left' = [left EXCEPT ![c] = l],
           addSerial' = [addSerial EXCEPT ![c] = serial],
           IsCallbacks(cbs, serial), IsWalk(w), IsLeft(l, Asks[c])
    PROVE  CallTypes'
<1>1. IsMap(callbacks') /\ IsMap(walk') /\ IsMap(left')
    BY CallMaps, MapKept
<1>2. ASSUME NEW e \in Client
      PROVE  /\ IsCallbacks(callbacks'[e], addSerial'[e])
             /\ IsWalk(walk'[e])
             /\ IsLeft(left'[e], Asks[e])
    <2>1. IsMap(addSerial)
        <3>1. addSerial \in [Client -> Nat \ {0}]
            BY DEF FlowTypes
        <3> QED
            BY <3>1, Zenon DEF IsMap
    <2>2. CASE e = c
        <3>1. callbacks'[e] = cbs /\ walk'[e] = w /\ left'[e] = l /\ addSerial'[e] = serial
            <4>0. DOMAIN callbacks = Client /\ DOMAIN walk = Client /\ DOMAIN left = Client
                BY Zenon DEF CallTypes
            <4>1. callbacks'[e] = cbs
                BY <2>2, <4>0
            <4>2. walk'[e] = w
                BY <2>2, <4>0
            <4>3. left'[e] = l
                BY <2>2, <4>0
            <4>4. addSerial'[e] = serial
                BY <2>1, <2>2, MapKept
            <4> QED
                BY <4>1, <4>2, <4>3, <4>4
        <3> QED
            BY <3>1, <2>2, Zenon
    <2>3. CASE e # c
        <3>1. /\ callbacks'[e] = callbacks[e] /\ walk'[e] = walk[e] /\ left'[e] = left[e]
              /\ addSerial'[e] = addSerial[e]
            <4>0. e \in Client \ {c}
                BY <2>3
            <4>1. callbacks'[e] = callbacks[e]
                BY <4>0, CallMaps, MapKept
            <4>2. walk'[e] = walk[e]
                BY <4>0, CallMaps, MapKept
            <4>3. left'[e] = left[e]
                BY <4>0, CallMaps, MapKept
            <4>4. addSerial'[e] = addSerial[e]
                BY <4>0, <2>1, MapKept
            <4> QED
                BY <4>1, <4>2, <4>3, <4>4
        <3>2. /\ IsCallbacks(callbacks[e], addSerial[e])
              /\ IsWalk(walk[e])
              /\ IsLeft(left[e], Asks[e])
            BY Zenon DEF CallTypes
        <3> QED
            BY <3>1, <3>2, Zenon
    <2> QED
        BY <2>2, <2>3
<1> QED
    BY <1>1, <1>2, Zenon DEF CallTypes, IsMap

LEMMA CallHere ==
    ASSUME CallTypes, NEW c \in Client
    PROVE  /\ IsCallbacks(callbacks[c], addSerial[c])
           /\ IsWalk(walk[c])
           /\ IsLeft(left[c], Asks[c])
           /\ callbacks = [callbacks EXCEPT ![c] = callbacks[c]]
           /\ walk = [walk EXCEPT ![c] = walk[c]]
           /\ left = [left EXCEPT ![c] = left[c]]
<1>1. /\ callbacks = [callbacks EXCEPT ![c] = callbacks[c]]
      /\ walk = [walk EXCEPT ![c] = walk[c]]
      /\ left = [left EXCEPT ![c] = left[c]]
    BY CallMaps, MapKept, Zenon
<1> QED
    BY <1>1, Zenon DEF CallTypes

(* Callbacks are added and removed.                                        *)
LEMMA CallbacksChange ==
    ASSUME NEW cbs, NEW serial \in Nat, IsCallbacks(cbs, serial)
    PROVE  /\ \A d \in DOMAIN Draft :
                 IsCallbacks([cbs EXCEPT !.add = @ \cup {<<serial, d>>}], serial + 1)
           /\ \A x \in Ids \cup Names : IsCallbacks([cbs EXCEPT !.find = @ \cup {x}], serial)
           /\ \A x \in ({"id"} \X Key) \cup Names :
                 IsCallbacks([cbs EXCEPT !.list = @ \cup {x}], serial)
           /\ \A S : IsCallbacks([cbs EXCEPT !.add = @ \ S], serial)
           /\ \A S : IsCallbacks([cbs EXCEPT !.find = @ \ S], serial)
           /\ \A S : IsCallbacks([cbs EXCEPT !.list = @ \ S], serial)
<1> DEFINE Lists == ({"id"} \X Key) \cup Names
           All == [add : SUBSET (Nat \X DOMAIN Draft), find : SUBSET (Ids \cup Names),
                   list : SUBSET Lists]
<1>1. cbs \in All /\ \A cb \in cbs.add : cb[1] < serial
    BY DEF IsCallbacks
<1>2. cbs.add \subseteq Nat \X DOMAIN Draft
    BY <1>1
<1>3. ASSUME NEW d \in DOMAIN Draft
      PROVE  IsCallbacks([cbs EXCEPT !.add = @ \cup {<<serial, d>>}], serial + 1)
    <2>1. PICK add : add = cbs.add \cup {<<serial, d>>}
        OBVIOUS
    <2>2. add \in SUBSET (Nat \X DOMAIN Draft)
        BY <1>2, <2>1
    <2>3. \A cb \in add : cb[1] < serial + 1
        <3> TAKE cb \in add
        <3>1. CASE cb = <<serial, d>>
            BY <3>1
        <3>2. CASE cb \in cbs.add
            <4>1. cb[1] < serial /\ cb[1] \in Nat
                BY <1>1, <1>2, <3>2
            <4> QED
                BY <4>1
        <3> QED
            BY <2>1, <3>1, <3>2
    <2>4. [cbs EXCEPT !.add = add] \in All /\ [cbs EXCEPT !.add = add].add = add
        BY <1>1, <2>2
    <2> QED
        BY <2>1, <2>3, <2>4 DEF IsCallbacks
<1>4. ASSUME NEW find \in SUBSET (Ids \cup Names)
      PROVE  IsCallbacks([cbs EXCEPT !.find = find], serial)
    BY <1>1 DEF IsCallbacks
<1>5. ASSUME NEW list \in SUBSET Lists
      PROVE  IsCallbacks([cbs EXCEPT !.list = list], serial)
    BY <1>1 DEF IsCallbacks
<1>6. ASSUME NEW add \in SUBSET cbs.add
      PROVE  IsCallbacks([cbs EXCEPT !.add = add], serial)
    BY <1>1 DEF IsCallbacks
<1>7. cbs.find \in SUBSET (Ids \cup Names) /\ cbs.list \in SUBSET Lists
    BY <1>1
<1> HIDE DEF Lists
<1>8. \A x \in Ids \cup Names : IsCallbacks([cbs EXCEPT !.find = @ \cup {x}], serial)
    <2> TAKE x \in Ids \cup Names
    <2>1. PICK find \in SUBSET (Ids \cup Names) : find = cbs.find \cup {x}
        BY <1>7
    <2> QED
        BY <1>4, <2>1
<1>9. \A x \in Lists : IsCallbacks([cbs EXCEPT !.list = @ \cup {x}], serial)
    <2> TAKE x \in Lists
    <2>1. PICK list \in SUBSET Lists : list = cbs.list \cup {x}
        BY <1>7
    <2> QED
        BY <1>5, <2>1
<1>10. \A S : /\ IsCallbacks([cbs EXCEPT !.add = @ \ S], serial)
              /\ IsCallbacks([cbs EXCEPT !.find = @ \ S], serial)
              /\ IsCallbacks([cbs EXCEPT !.list = @ \ S], serial)
    <2> TAKE S
    <2>1. PICK add \in SUBSET cbs.add : add = cbs.add \ S
        OBVIOUS
    <2>2. PICK find \in SUBSET (Ids \cup Names) : find = cbs.find \ S
        BY <1>7
    <2>3. PICK list \in SUBSET Lists : list = cbs.list \ S
        BY <1>7
    <2> QED
        BY <1>4, <1>5, <1>6, <2>1, <2>2, <2>3
<1> QED
    BY <1>3, <1>8, <1>9, <1>10 DEF Lists

(* One question less.                                                      *)
LEMMA LeftLess ==
    ASSUME NEW l, NEW asks, IsLeft(l, asks), NEW r \in DOMAIN l, l[r] > 0,
           \A q \in DOMAIN asks : asks[q] \in Nat
    PROVE  IsLeft([l EXCEPT ![r] = @ - 1], asks)
<1>1. /\ l = [q \in DOMAIN asks |-> l[q]]
      /\ \A q \in DOMAIN asks : l[q] \in Nat /\ l[q] <= asks[q]
    BY DEF IsLeft
<1>2. DOMAIN l = DOMAIN asks
    BY <1>1
<1>3. PICK l1 : l1 = [l EXCEPT ![r] = l[r] - 1]
    OBVIOUS
<1>4. l1 = [q \in DOMAIN asks |-> IF q = r THEN l[r] - 1 ELSE l[q]]
    BY <1>2, <1>3, Zenon
<1>5. \A q \in DOMAIN asks : l1[q] \in Nat /\ l1[q] <= asks[q]
    <2> TAKE q \in DOMAIN asks
    <2>1. l1[q] = IF q = r THEN l[r] - 1 ELSE l[q]
        BY <1>4
    <2>2. l[q] \in Nat /\ l[q] <= asks[q] /\ asks[q] \in Nat
        BY <1>1
    <2> QED
        BY <2>1, <2>2
<1>6. l1 = [q \in DOMAIN asks |-> l1[q]]
    BY <1>4
<1> QED
    BY <1>3, <1>5, <1>6 DEF IsLeft

LEMMA AskLeft ==
    ASSUME CallTypes, NEW c \in Client, NEW cmd, NEW arg, Ask(c, cmd, arg)
    PROVE  \E l : left' = [left EXCEPT ![c] = l] /\ IsLeft(l, Asks[c])
<1>1. PICK r : r = <<cmd, arg>>
    OBVIOUS
<1>2. r \in DOMAIN left[c] /\ left[c][r] > 0 /\ left' = [left EXCEPT ![c][r] = @ - 1]
    <2>1. /\ <<cmd, arg>> \in DOMAIN left[c] /\ left[c][<<cmd, arg>>] > 0
          /\ left' = [left EXCEPT ![c][<<cmd, arg>>] = @ - 1]
        BY Zenon DEF Ask
    <2> QED
        BY <1>1, <2>1, Zenon
<1>3. PICK l : l = [left[c] EXCEPT ![r] = left[c][r] - 1]
    OBVIOUS
<1>4. left' = [left EXCEPT ![c] = l]
    BY <1>2, <1>3, Zenon
<1>5. IsLeft(l, Asks[c])
    <2>1. \A q \in DOMAIN Asks[c] : Asks[c][q] \in Nat
        BY CatalogAssumption
    <2>2. IsLeft(left[c], Asks[c])
        BY CallHere
    <2> QED
        BY <1>2, <1>3, <2>1, <2>2, LeftLess, Zenon
<1> QED
    BY <1>4, <1>5

LEMMA CallsTyped ==
    ASSUME CallTypes, FlowTypes, NEW c \in Client, Calls(c)
    PROVE  CallTypes'
<1>1. PICK cbs, w, l, s :
          /\ cbs = callbacks[c] /\ w = walk[c] /\ l = left[c] /\ s = addSerial[c]
    OBVIOUS
<1>2. /\ IsCallbacks(cbs, s) /\ IsWalk(w) /\ s \in Nat
      /\ walk = [walk EXCEPT ![c] = w]
      /\ addSerial = [addSerial EXCEPT ![c] = s]
    BY <1>1, CallHere, FlowHere
<1>3. ASSUME NEW cmd, NEW arg, NEW cbs1, NEW w1, NEW s1, Ask(c, cmd, arg),
             IsCallbacks(cbs1, s1), IsWalk(w1),
             callbacks' = [callbacks EXCEPT ![c] = cbs1],
             walk' = [walk EXCEPT ![c] = w1],
             addSerial' = [addSerial EXCEPT ![c] = s1]
      PROVE  CallTypes'
    <2>1. PICK l1 : left' = [left EXCEPT ![c] = l1] /\ IsLeft(l1, Asks[c])
        BY <1>3, AskLeft
    <2> QED
        BY <1>3, <2>1, CallChanges, Zenon
<1>4. ASSUME NEW d \in DOMAIN Draft, Adds(c, d) PROVE CallTypes'
    <2>1. PICK cbs1 : cbs1 = [cbs EXCEPT !.add = @ \cup {<<s, d>>}]
        OBVIOUS
    <2>2. callbacks' = [callbacks EXCEPT ![c] = cbs1]
        BY <1>1, <1>4, <2>1, Zenon DEF Adds
    <2>3. walk' = [walk EXCEPT ![c] = w] /\ addSerial' = [addSerial EXCEPT ![c] = s + 1]
        BY <1>1, <1>2, <1>4, Zenon DEF Adds
    <2>4. IsCallbacks(cbs1, s + 1)
        BY <1>2, <2>1, CallbacksChange
    <2>5. Ask(c, "assetAddString", d)
        BY <1>4 DEF Adds
    <2> QED
        BY <1>2, <1>3, <2>2, <2>3, <2>4, <2>5, Zenon
<1>5. ASSUME NEW cmd, NEW arg, NEW x \in Ids \cup Names, Find(c, cmd, arg, x) PROVE CallTypes'
    <2>1. PICK cbs1 : cbs1 = [cbs EXCEPT !.find = @ \cup {x}]
        OBVIOUS
    <2>2. callbacks' = [callbacks EXCEPT ![c] = cbs1]
        BY <1>1, <1>5, <2>1, Zenon DEF Find
    <2>3. walk' = [walk EXCEPT ![c] = w] /\ addSerial' = [addSerial EXCEPT ![c] = s]
        BY <1>1, <1>2, <1>5, Zenon DEF Find
    <2>4. IsCallbacks(cbs1, s)
        BY <1>2, <2>1, CallbacksChange
    <2>5. Ask(c, cmd, arg)
        BY <1>5 DEF Find
    <2> QED
        BY <1>2, <1>3, <2>2, <2>3, <2>4, <2>5, Zenon
<1>6. ASSUME NEW cmd, NEW n \in Key, NameList(c, cmd, n) PROVE CallTypes'
    <2>1. PICK cbs1 : cbs1 = [cbs EXCEPT !.list = @ \cup {Named(n)}]
        OBVIOUS
    <2>2. callbacks' = [callbacks EXCEPT ![c] = cbs1]
        BY <1>1, <1>6, <2>1, Zenon DEF NameList
    <2>3. walk' = [walk EXCEPT ![c] = w] /\ addSerial' = [addSerial EXCEPT ![c] = s]
        BY <1>1, <1>2, <1>6, Zenon DEF NameList
    <2>4. IsCallbacks(cbs1, s)
        <3>1. Named(n) \in Names
            BY DEF Named, Names
        <3> QED
            BY <1>2, <2>1, <3>1, CallbacksChange
    <2>5. Ask(c, cmd, n)
        BY <1>6 DEF NameList
    <2> QED
        BY <1>2, <1>3, <2>2, <2>3, <2>4, <2>5, Zenon
<1>7. ASSUME NEW li \in Key, Walks(c, li) PROVE CallTypes'
    <2>1. PICK cbs1 : cbs1 = [cbs EXCEPT !.list = @ \cup {Id(li)}]
        OBVIOUS
    <2>0. PICK w1 : w1 = [state |-> "on", list |-> li, there |-> ListKey(li) \in DOMAIN db,
                           due |-> Members(li), seen |-> {}]
        OBVIOUS
    <2>2. callbacks' = [callbacks EXCEPT ![c] = cbs1]
        BY <1>1, <1>7, <2>1, Zenon DEF Walks
    <2>3. walk' = [walk EXCEPT ![c] = w1] /\ addSerial' = [addSerial EXCEPT ![c] = s]
        BY <1>1, <1>2, <1>7, <2>0, Zenon DEF Walks
    <2>4. IsCallbacks(cbs1, s)
        <3>1. Id(li) \in {"id"} \X Key
            BY DEF Id
        <3> QED
            BY <1>2, <2>1, <3>1, CallbacksChange
    <2>5. Ask(c, "listNext", li)
        BY <1>7 DEF Walks
    <2>6. IsWalk(w1)
        <3>1. /\ w1.state = "on" /\ w1.list = li /\ w1.there \in BOOLEAN
              /\ w1 = [state |-> w1.state, list |-> w1.list, there |-> w1.there,
                       due |-> w1.due, seen |-> w1.seen]
            BY <2>0
        <3> QED
            BY <3>1, Zenon DEF IsWalk
    <2> QED
        BY <1>3, <2>2, <2>3, <2>4, <2>5, <2>6, Zenon
<1>8. \A k \in Key \cup {NoKey} : Id(k) \in Ids
    BY DEF Id, Ids
<1>9. \A n \in Key : Named(n) \in Names
    BY DEF Named, Names
<1> QED
    BY <1>4, <1>5, <1>6, <1>7, <1>8, <1>9, CallsAre

LEMMA ReceivesTyped ==
    ASSUME CallTypes, FlowTypes, NEW c \in Client, Receives(c)
    PROVE  CallTypes'
<1>1. PICK cbs, w, l, s :
          /\ cbs = callbacks[c] /\ w = walk[c] /\ l = left[c] /\ s = addSerial[c]
    OBVIOUS
<1>2. /\ IsCallbacks(cbs, s) /\ IsWalk(w) /\ IsLeft(l, Asks[c]) /\ s \in Nat
      /\ callbacks = [callbacks EXCEPT ![c] = cbs]
      /\ walk = [walk EXCEPT ![c] = w]
      /\ left = [left EXCEPT ![c] = l]
      /\ addSerial = [addSerial EXCEPT ![c] = s]
    BY <1>1, CallHere, FlowHere
<1>3. ASSUME NEW cbs1, IsCallbacks(cbs1, s), callbacks' = [callbacks EXCEPT ![c] = cbs1],
             walk' = walk, addSerial' = addSerial,
             left' = left \/ \E cmd, arg : Ask(c, cmd, arg)
      PROVE  CallTypes'
    <2>1. PICK l1 : left' = [left EXCEPT ![c] = l1] /\ IsLeft(l1, Asks[c])
        BY <1>2, <1>3, AskLeft, Zenon
    <2>2. walk' = [walk EXCEPT ![c] = w] /\ addSerial' = [addSerial EXCEPT ![c] = s]
        BY <1>2, <1>3, Zenon
    <2> HIDE <1>3
    <2> QED
        BY <1>2, <1>3, <2>1, <2>2, CallChanges
<1>4. CASE OnAssetAdded(c)
    <2>1. PICK S : callbacks' = [callbacks EXCEPT ![c].add = @ \ S]
                   /\ UNCHANGED <<addSerial, walk, left>>
        BY <1>4, Zenon DEF OnAssetAdded
    <2>2. PICK cbs1 : cbs1 = [cbs EXCEPT !.add = @ \ S]
        OBVIOUS
    <2>3. callbacks' = [callbacks EXCEPT ![c] = cbs1]
        BY <1>1, <2>1, <2>2, Zenon
    <2>4. IsCallbacks(cbs1, s)
        BY <1>2, <2>2, CallbacksChange
    <2> QED
        BY <1>3, <2>1, <2>3, <2>4
<1>5. ASSUME NEW reply, OnFound(c, reply) PROVE CallTypes'
    <2>1. PICK to : to = Head(outbox[c]).to
        OBVIOUS
    <2>2. /\ callbacks' = [callbacks EXCEPT ![c].find = @ \ {to}]
          /\ UNCHANGED <<addSerial, walk>>
          /\ left' = left \/ \E cmd, arg : Ask(c, cmd, arg)
        BY <1>5, <2>1, FoundMeans, Zenon
    <2>3. PICK cbs1 : cbs1 = [cbs EXCEPT !.find = @ \ {to}]
        OBVIOUS
    <2>4. callbacks' = [callbacks EXCEPT ![c] = cbs1]
        BY <1>1, <2>2, <2>3, Zenon
    <2>5. IsCallbacks(cbs1, s)
        BY <1>2, <2>3, CallbacksChange
    <2> QED
        BY <1>3, <2>2, <2>4, <2>5
<1>6. CASE OnListFound(c)
    <2>0. PICK to : to = Head(outbox[c]).to
        OBVIOUS
    <2>1. /\ callbacks' = [callbacks EXCEPT ![c].list = @ \ {to}]
          /\ UNCHANGED <<addSerial, walk>>
          /\ left' = left \/ \E cmd, arg : Ask(c, cmd, arg)
        BY <1>6, <2>0, ListFoundMeans, Zenon
    <2>2. PICK cbs1 : cbs1 = [cbs EXCEPT !.list = @ \ {to}]
        OBVIOUS
    <2>3. callbacks' = [callbacks EXCEPT ![c] = cbs1]
        BY <1>1, <2>1, <2>2, Zenon
    <2>4. IsCallbacks(cbs1, s)
        BY <1>2, <2>2, CallbacksChange
    <2> QED
        BY <1>3, <2>1, <2>3, <2>4
<1>7. CASE OnListError(c)
    <2>1. UNCHANGED <<callbacks, addSerial, walk, left>>
        BY <1>7, Zenon DEF OnListError
    <2>2. callbacks' = [callbacks EXCEPT ![c] = cbs]
        BY <1>2, <2>1
    <2> QED
        BY <1>2, <1>3, <2>1, <2>2
<1>8. CASE OnListItems(c)
    <2>0. PICK state \in {"failed", "done", "on"} : \E seen :
             /\ walk' = [walk EXCEPT ![c].state = state, ![c].seen = seen]
             /\ UNCHANGED <<callbacks, addSerial, left>>
        BY <1>8, ItemsMeans, Zenon
    <2>1. PICK seen :
             /\ walk' = [walk EXCEPT ![c].state = state, ![c].seen = seen]
             /\ UNCHANGED <<callbacks, addSerial, left>>
        BY <2>0, Zenon
    <2> HIDE <2>0
    <2>2. PICK w1 : w1 = [w EXCEPT !.state = state, !.seen = seen]
        OBVIOUS
    <2>3. w = [state |-> w.state, list |-> w.list, there |-> w.there, due |-> w.due,
                seen |-> w.seen]
        BY <1>2, Zenon DEF IsWalk
    <2>4. walk' = [walk EXCEPT ![c] = w1]
        <3>1. DOMAIN walk = Client
            BY Zenon DEF CallTypes
        <3>2. PICK v : v = [walk EXCEPT ![c].state = state]
            OBVIOUS
        <3>3. v[c] = [w EXCEPT !.state = state] /\ DOMAIN v = Client
            BY <1>1, <3>1, <3>2, Zenon
        <3>4. walk' = [v EXCEPT ![c] = [v[c] EXCEPT !.seen = seen]]
            BY <2>1, <3>2, Zenon
        <3>5. w1 = [v[c] EXCEPT !.seen = seen]
            BY <2>2, <3>3, Zenon
        <3>6. v = [walk EXCEPT ![c] = [walk[c] EXCEPT !.state = state]]
            BY <3>2, Zenon
        <3>7. [v EXCEPT ![c] = w1] = [walk EXCEPT ![c] = w1]
            BY <3>1, <3>6
        <3> QED
            BY <3>4, <3>5, <3>7
    <2>5. w1 = [state |-> state, list |-> w.list, there |-> w.there, due |-> w.due,
                seen |-> seen]
        BY <2>2, <2>3
    <2>6. IsWalk(w1)
        <3>1. w.list \in Key \cup {0} /\ w.there \in BOOLEAN
            BY <1>2 DEF IsWalk
        <3>2. w1.state = state /\ w1.list = w.list /\ w1.there = w.there /\ w1.due = w.due /\ w1.seen = seen
            BY <2>5, Zenon
        <3>3. w1 = [state |-> w1.state, list |-> w1.list, there |-> w1.there, due |-> w1.due,
                    seen |-> w1.seen]
            BY <2>5, <3>2, Zenon
        <3> QED
            BY <3>1, <3>2, <3>3, Zenon DEF IsWalk
    <2>7. /\ callbacks' = [callbacks EXCEPT ![c] = cbs] /\ left' = [left EXCEPT ![c] = l]
          /\ addSerial' = [addSerial EXCEPT ![c] = s]
        BY <1>2, <2>1, Zenon
    <2>8. /\ IsCallbacks(cbs, s) /\ IsLeft(l, Asks[c])
        BY <1>2
    <2> HIDE <2>1
    <2> QED
        BY <2>4, <2>6, <2>7, <2>8, CallChanges, Zenon
<1> QED
    BY <1>4, <1>5, <1>6, <1>7, <1>8, ReceivesAre

----------------------------------------------------------------------------
(***************************************************************************)
(* What a handler does to the database                                     *)
(***************************************************************************)
StoresAsset(c, d, content, t) ==
    /\ keys # <<>> /\ keys' = Tail(keys)
    /\ d \in DOMAIN Draft /\ t \in Time
    /\ db' = storeAsset(db, Head(keys), AssetOf(d, Head(keys), content), t)

StoresList(n) ==
    /\ keys # <<>> /\ keys' = Tail(keys)
    /\ n \in Key
    /\ db' = storeList(db, Head(keys), [key |-> Head(keys), name |-> n])

Stores(c) ==
    \/ UNCHANGED db /\ (UNCHANGED keys \/ (keys # <<>> /\ keys' = Tail(keys)))
    \/ \E d, content, t : StoresAsset(c, d, content, t)
    \/ \E n : StoresList(n)

(* The handler of assetAddString.                                          *)
LEMMA AddStringMeans ==
    ASSUME FlowTypes, ServerTypes, NEW c \in Client, HandleAddString(c)
    PROVE  LET d == Head(inbox[c]).arg
               serial == Head(inbox[c]).n
           IN  /\ d \in DOMAIN Draft
               /\ \/ /\ Answers(c, "assetAdded", serial, 0) \/ Dies(c)
                     /\ UNCHANGED db
                     /\ UNCHANGED keys \/ (keys # <<>> /\ keys' = Tail(keys))
                  \/ \E t \in Time :
                        /\ StoresAsset(c, d, <<c, serial>>, t)
                        /\ Answers(c, "assetAdded", serial, Head(keys))
               /\ now' \in Time \cup {OldTime} /\ faults' \in 0 .. MaxFaults
               /\ serverUp' \in BOOLEAN /\ UNCHANGED local
<1>1. inbox[c] # <<>> /\ Head(inbox[c]).cmd = "assetAddString" /\ UNCHANGED local
    BY Zenon DEF HandleAddString, Serves
<1>2. IsMessage(Head(inbox[c]), addSerial[c])
    BY <1>1, FlowHere, FlowTakes
<1>0. PICK d \in DOMAIN Draft : d = Head(inbox[c]).arg
    BY <1>1, <1>2, Arguments DEF IsMessage
<1>3. PICK serial : d = Head(inbox[c]).arg /\ serial = Head(inbox[c]).n
    BY <1>0
<1>4. \/ (Answers(c, "assetAdded", serial, 0) /\ UNCHANGED <<db, serverUp, now, keys, faults>>)
      \/ (Dies(c) /\ UNCHANGED <<db, now, keys, faults>> /\ serverUp' = FALSE)
      \/ \E t \in Time, written \in BOOLEAN :
            LET asset == AssetOf(d, Head(keys), <<c, serial>>)
                response == postAsset(db, Head(keys), asset, t, written)
            IN  /\ Stamps(t) /\ Status(written)
                /\ db' = response.db /\ Draw /\ UNCHANGED serverUp
                /\ Answers(c, "assetAdded", serial, IF response.code = Ok THEN Head(keys) ELSE 0)
    BY <1>3, Zenon DEF HandleAddString
<1>5. /\ now \in Time \cup {OldTime} /\ faults \in 0 .. MaxFaults /\ serverUp \in BOOLEAN
    BY DEF ServerTypes
<1>6. ASSUME NEW t \in Time, NEW written \in BOOLEAN,
             Stamps(t), Status(written), Draw, UNCHANGED serverUp,
             db' = postAsset(db, Head(keys), AssetOf(d, Head(keys), <<c, serial>>), t, written).db,
             Answers(c, "assetAdded", serial,
                     IF postAsset(db, Head(keys), AssetOf(d, Head(keys), <<c, serial>>), t,
                                  written).code = Ok
                     THEN Head(keys) ELSE 0)
      PROVE  /\ \/ /\ Answers(c, "assetAdded", serial, 0)
                   /\ UNCHANGED db /\ keys # <<>> /\ keys' = Tail(keys)
                \/ /\ StoresAsset(c, d, <<c, serial>>, t)
                   /\ Answers(c, "assetAdded", serial, Head(keys))
             /\ now' \in Time \cup {OldTime} /\ faults' \in 0 .. MaxFaults
             /\ serverUp' \in BOOLEAN
    <2>1. keys # <<>> /\ keys' = Tail(keys)
        BY <1>6 DEF Draw
    <2>2. now' \in Time \cup {OldTime} /\ serverUp' \in BOOLEAN
        BY <1>5, <1>6 DEF Stamps
    <2>3. faults' \in 0 .. MaxFaults
        <3>1. MaxFaults \in Nat
            BY CatalogAssumption
        <3> QED
            BY <1>5, <1>6, <3>1 DEF Status
    <2>4. PICK stored : stored = storeAsset(db, Head(keys), AssetOf(d, Head(keys), <<c, serial>>), t)
        OBVIOUS
    <2>5. postAsset(db, Head(keys), AssetOf(d, Head(keys), <<c, serial>>), t, written)
             = [code |-> IF written THEN Ok ELSE Internal_Server_Error,
                db   |-> IF written THEN stored ELSE db]
        BY <2>4 DEF postAsset, Posted
    <2>6. CASE written
        <3>2. PICK r : r = postAsset(db, Head(keys), AssetOf(d, Head(keys), <<c, serial>>), t,
                                     written)
            OBVIOUS
        <3>4. r = [code |-> IF written THEN Ok ELSE Internal_Server_Error,
                   db   |-> IF written THEN stored ELSE db]
            BY <2>5, <3>2, Zenon
        <3>3. r.db = stored /\ r.code = Ok
            <4> HIDE <3>2, <2>5, <2>4
            <4> QED
                BY <2>6, <3>4, Zenon
        <3>1. db' = stored /\ Answers(c, "assetAdded", serial, Head(keys))
            BY <1>6, <3>2, <3>3, Zenon
        <3> QED
            BY <2>1, <2>2, <2>3, <2>4, <3>1, Zenon DEF StoresAsset
    <2>7. CASE ~ written
        <3>1. db' = db /\ Answers(c, "assetAdded", serial, 0)
            BY <1>6, <2>5, <2>7 DEF Ok, Internal_Server_Error
        <3> QED
            BY <2>1, <2>2, <2>3, <3>1, Zenon
    <2> QED
        BY <2>6, <2>7
<1>7. CASE \/ (Answers(c, "assetAdded", serial, 0) /\ UNCHANGED <<db, serverUp, now, keys, faults>>)
           \/ (Dies(c) /\ UNCHANGED <<db, now, keys, faults>> /\ serverUp' = FALSE)
    BY <1>1, <1>3, <1>5, <1>7
<1>8. CASE \E t \in Time, written \in BOOLEAN :
            LET asset == AssetOf(d, Head(keys), <<c, serial>>)
                response == postAsset(db, Head(keys), asset, t, written)
            IN  /\ Stamps(t) /\ Status(written)
                /\ db' = response.db /\ Draw /\ UNCHANGED serverUp
                /\ Answers(c, "assetAdded", serial, IF response.code = Ok THEN Head(keys) ELSE 0)
    BY <1>1, <1>3, <1>6, <1>8, Zenon
<1> QED
    BY <1>4, <1>7, <1>8

(* The handler of listAdd.                                                 *)
LEMMA ListAddMeans ==
    ASSUME FlowTypes, ServerTypes, NEW c \in Client, HandleListAdd(c)
    PROVE  LET n == Head(inbox[c]).arg
           IN  /\ n \in Key
               /\ \/ StoresList(n)
                  \/ UNCHANGED db /\ keys # <<>> /\ keys' = Tail(keys)
               /\ faults' \in 0 .. MaxFaults
               /\ UNCHANGED <<serverUp, now, local>>
<1>1. /\ inbox[c] # <<>> /\ Head(inbox[c]).cmd = "listAdd"
      /\ UNCHANGED <<serverUp, now, local>> /\ Draw
    BY Zenon DEF HandleListAdd, Serves
<1>2. IsMessage(Head(inbox[c]), addSerial[c])
    BY <1>1, FlowHere, FlowTakes
<1>3. PICK n \in Key : n = Head(inbox[c]).arg
    BY <1>1, <1>2, Arguments DEF IsMessage
<1>4. PICK written \in BOOLEAN :
         /\ Status(written)
         /\ db' = postList(db, Head(keys), [key |-> Head(keys), name |-> n], written).db
    BY <1>3, Zenon DEF HandleListAdd
<1>5. faults' \in 0 .. MaxFaults
    <2>1. MaxFaults \in Nat /\ faults \in 0 .. MaxFaults
        BY CatalogAssumption DEF ServerTypes
    <2> QED
        BY <1>4, <2>1 DEF Status
<1>6. keys # <<>> /\ keys' = Tail(keys)
    BY <1>1 DEF Draw
<1>7. StoresList(n) \/ UNCHANGED db
    <2>1. PICK stored : stored = storeList(db, Head(keys), [key |-> Head(keys), name |-> n])
        OBVIOUS
    <2>2. db' = IF written THEN stored ELSE db
        BY <1>4, <2>1 DEF postList, Posted
    <2> QED
        BY <1>6, <2>1, <2>2, Zenon DEF StoresList
<1> QED
    BY <1>1, <1>3, <1>5, <1>6, <1>7

LEMMA HandleStores ==
    ASSUME FlowTypes, ServerTypes, NEW c \in Client, Handle(c)
    PROVE  /\ Stores(c)
           /\ now' \in Time \cup {OldTime} /\ faults' \in 0 .. MaxFaults
           /\ serverUp' \in BOOLEAN
<1>1. /\ now \in Time \cup {OldTime} /\ faults \in 0 .. MaxFaults /\ serverUp \in BOOLEAN
    BY DEF ServerTypes
<1>2. CASE HandleAddString(c)
    BY <1>2, AddStringMeans, Zenon DEF Stores
<1>3. CASE HandleListAdd(c)
    <2>1. UNCHANGED <<serverUp, now>>
        BY <1>3, ListAddMeans, Zenon
    <2>2. faults' \in 0 .. MaxFaults /\ Stores(c)
        BY <1>3, ListAddMeans, Zenon DEF Stores
    <2> QED
        BY <1>1, <2>1, <2>2
<1>4. CASE UNCHANGED <<db, serverUp, now, keys>> /\ faults' \in 0 .. MaxFaults
    BY <1>1, <1>4 DEF Stores
<1>5. ASSUME NEW identity, NEW response, Retrieved(c, identity, response)
      PROVE  faults' \in 0 .. MaxFaults
    <2>1. UNCHANGED faults \/ \E written \in BOOLEAN : Status(written)
        BY <1>5, Zenon DEF Retrieved
    <2>2. MaxFaults \in Nat
        BY CatalogAssumption
    <2> QED
        BY <1>1, <2>1, <2>2 DEF Status
<1>6. CASE HandleFind(c)
    <2>1. UNCHANGED <<db, serverUp, now, keys>>
        BY <1>6, Zenon DEF HandleFind
    <2>2. UNCHANGED faults \/ \E identity, response : Retrieved(c, identity, response)
        BY <1>6, Zenon DEF HandleFind
    <2> QED
        BY <1>1, <1>4, <1>5, <2>1, <2>2
<1>7. CASE HandleFindName(c)
    <2>1. UNCHANGED <<db, serverUp, now, keys>>
        BY <1>7, Zenon DEF HandleFindName
    <2>2. \E identity, response : Retrieved(c, identity, response)
        BY <1>7, Zenon DEF HandleFindName
    <2> QED
        BY <1>4, <1>5, <2>1, <2>2
<1>8. CASE HandleListFind(c) \/ HandleListNext(c) \/ Rejected(c)
    <2>1. UNCHANGED <<db, serverUp, now, keys, faults>>
        BY <1>8, Zenon DEF HandleListFind, HandleListNext, Rejected
    <2> QED
        BY <1>1, <1>4, <2>1
<1> QED
    BY <1>2, <1>3, <1>6, <1>7, <1>8, Zenon DEF Handle

LEMMA DraftTyped ==
    ASSUME NEW d \in DOMAIN Draft
    PROVE  /\ Draft[d].name \in Nat
           /\ Draft[d].lists \subseteq Key /\ Draft[d].lists \subseteq Nat
           /\ IsFiniteSet(Draft[d].lists)
<1>1. Draft[d] \in [name : Key \cup {NoName}, lists : SUBSET Key, fits : BOOLEAN]
    BY CatalogAssumption
<1>2. Draft[d].name \in Key \cup {0} /\ Draft[d].lists \in SUBSET Key
    BY <1>1 DEF NoName
<1>3. IsFiniteSet(Key)
    <2>1. IsFiniteSet(1 .. kEndList - 1)
        BY EndIsLast, FS_Interval
    <2>2. Key \in SUBSET (1 .. kEndList - 1)
        BY CatalogAssumption
    <2> QED
        BY <2>1, <2>2, FS_Subset
<1>4. IsFiniteSet(Draft[d].lists)
    BY <1>2, <1>3, FS_Subset
<1> QED
    BY <1>2, <1>4, KeyNumbers

(* The key that is drawn is new, and so are those that remain.             *)
LEMMA DrawTyped ==
    ASSUME NEW drawn, AreDraws(drawn), drawn # <<>>
    PROVE  /\ AreDraws(Tail(drawn))
           /\ Head(drawn) \in Key /\ Head(drawn) = drawn[1] /\ 1 \in DOMAIN drawn
           /\ \A i \in DOMAIN Tail(drawn) : /\ i + 1 \in DOMAIN drawn
                                            /\ Tail(drawn)[i] = drawn[i + 1]
                                            /\ Tail(drawn)[i] # Head(drawn)
<1>1. /\ drawn \in Seq(Key) /\ IsInjective(drawn)
      /\ \A i \in DOMAIN drawn : /\ drawn[i] # OldList
                                 /\ drawn[i] # OldAsset.key
                                 /\ \A d \in DOMAIN Draft : drawn[i] \notin Draft[d].lists
    BY DEF AreDraws
<1>2. IsSequence(drawn)
    BY <1>1 DEF IsSequence
<1>3. /\ DOMAIN drawn = 1 .. Len(drawn) /\ 1 \in DOMAIN drawn /\ Len(drawn) \in Nat
      /\ DOMAIN Tail(drawn) = 1 .. Len(drawn) - 1
      /\ \A i \in DOMAIN Tail(drawn) : i + 1 \in DOMAIN drawn /\ Tail(drawn)[i] = drawn[i + 1]
      /\ Head(drawn) = drawn[1]
    BY <1>2, Removed
<1>4. Tail(drawn) \in Seq(Key) /\ Head(drawn) \in Key
    BY <1>1, HeadTailProperties
<1>5. \A i, j \in DOMAIN drawn : drawn[i] = drawn[j] => i = j
    BY <1>1 DEF IsInjective
<1>6. \A i, j \in DOMAIN Tail(drawn) : Tail(drawn)[i] = Tail(drawn)[j] => i = j
    <2> TAKE i, j \in DOMAIN Tail(drawn)
    <2>1. Tail(drawn)[i] = Tail(drawn)[j] => i + 1 = j + 1
        BY <1>3, <1>5
    <2>2. i \in Int /\ j \in Int
        BY <1>3
    <2> QED
        BY <2>1, <2>2
<1>7. \A i \in DOMAIN Tail(drawn) : Tail(drawn)[i] # Head(drawn)
    <2> TAKE i \in DOMAIN Tail(drawn)
    <2>1. Tail(drawn)[i] = Head(drawn) => i + 1 = 1
        BY <1>3, <1>5
    <2>2. i \in 1 .. Len(drawn) - 1
        BY <1>3
    <2> QED
        BY <2>1, <2>2, <1>3
<1>8. \A i \in DOMAIN Tail(drawn) :
          /\ Tail(drawn)[i] # OldList
          /\ Tail(drawn)[i] # OldAsset.key
          /\ \A d \in DOMAIN Draft : Tail(drawn)[i] \notin Draft[d].lists
    <2> TAKE i \in DOMAIN Tail(drawn)
    <2>1. i + 1 \in DOMAIN drawn /\ Tail(drawn)[i] = drawn[i + 1]
        BY <1>3
    <2> QED
        BY <1>1, <2>1, Zenon
<1>9. AreDraws(Tail(drawn))
    BY <1>4, <1>6, <1>8 DEF AreDraws, IsInjective
<1> QED
    BY <1>3, <1>4, <1>7, <1>9

LEMMA ServerTyped ==
    ASSUME ServerTypes, FlowTypes, NEW c \in Client, Handle(c)
    PROVE  ServerTypes'
<1>1. /\ Stores(c)
      /\ now' \in Time \cup {OldTime} /\ faults' \in 0 .. MaxFaults
      /\ serverUp' \in BOOLEAN
    BY HandleStores
<1>2. AreKeys(DOMAIN db) /\ AreDraws(keys)
    BY DEF ServerTypes
<1>3. AreDraws(keys')
    BY <1>1, <1>2, DrawTyped DEF Stores, StoresAsset, StoresList
<1>4. AreKeys(DOMAIN db')
    <2>1. keys # <<>> => Head(keys) \in Nat
        BY <1>2, DrawTyped, KeyNumbers
    <2>2. ASSUME NEW d, NEW content, NEW t, StoresAsset(c, d, content, t)
          PROVE  AreKeys(DOMAIN db')
        <3>1. PICK asset : asset = AssetOf(d, Head(keys), content)
            OBVIOUS
        <3>2. asset.name = Draft[d].name /\ asset.lists = Draft[d].lists
            BY <3>1 DEF AssetOf
        <3>3. d \in DOMAIN Draft /\ t \in Time /\ keys # <<>>
              /\ db' = storeAsset(db, Head(keys), asset, t)
            BY <2>2, <3>1 DEF StoresAsset
        <3>4. t \in Nat
            BY <3>3, KeyNumbers
        <3>5. asset.name \in Nat /\ asset.lists \subseteq Nat /\ IsFiniteSet(asset.lists)
            BY <3>2, <3>3, DraftTyped
        <3> QED
            BY <1>2, <2>1, <3>3, <3>4, <3>5, AssetStoredKeys
    <2>3. ASSUME NEW n, StoresList(n) PROVE AreKeys(DOMAIN db')
        <3>1. PICK record : record = [key |-> Head(keys), name |-> n]
            OBVIOUS
        <3>2. record.name = n
            BY <3>1
        <3>3. n \in Nat /\ keys # <<>> /\ db' = storeList(db, Head(keys), record)
            BY <2>3, <3>1, KeyNumbers DEF StoresList
        <3> QED
            BY <1>2, <2>1, <3>2, <3>3, ListStoredKeys
    <2> QED
        BY <1>1, <1>2, <2>2, <2>3, Zenon DEF Stores
<1> QED
    BY <1>1, <1>3, <1>4 DEF ServerTypes

(***************************************************************************)
(* The local databases and the histories                                   *)
(***************************************************************************)
FindsHere(c, identity, k) ==
    /\ k \in DOMAIN db
    /\ SendAsset(c, identity, db[k])
    /\ \/ UNCHANGED local
       \/ local' = [local EXCEPT ![c] = storeAsset(local[c], db[k].key, db[k], now)]

FindsNothing(c, identity) ==
    Answers(c, "assetError", identity, NoValue) /\ UNCHANGED local

LEMMA RetrievedMeans ==
    ASSUME NEW c, NEW identity, NEW record, Retrieved(c, identity, Found(record)),
           record # EmptyRecord => record \in DOMAIN db
    PROVE  FindsNothing(c, identity) \/ (record # EmptyRecord /\ FindsHere(c, identity, record))
<1>1. PICK r : r = Found(record)
    OBVIOUS
<1>2. r.record = record /\ (r.code = Ok => record # EmptyRecord)
    BY <1>1 DEF Found, Ok, Not_Found
<1>3. CASE r.code # Ok
    <2>1. Answers(c, "assetError", identity, NoValue) /\ UNCHANGED local
        BY <1>1, <1>3, Zenon DEF Retrieved
    <2> QED
        BY <2>1 DEF FindsNothing
<1>4. CASE r.code = Ok
    <2>0. /\ SendAsset(c, identity, db[r.record])
          /\ \E written : Keeps(c, db[r.record].key, db[r.record], written)
        BY <1>1, <1>4, Zenon DEF Retrieved
    <2>1. /\ SendAsset(c, identity, db[r.record])
          /\ \/ UNCHANGED local
             \/ local' = [local EXCEPT ![c] = storeAsset(local[c], db[r.record].key,
                                                         db[r.record], now)]
        BY <2>0 DEF Keeps
    <2>2. record # EmptyRecord /\ record \in DOMAIN db
        BY <1>2, <1>4
    <2>3. FindsHere(c, identity, record)
        BY <1>2, <2>1, <2>2, Zenon DEF FindsHere
    <2> QED
        BY <2>2, <2>3
<1> QED
    BY <1>3, <1>4

(* What the two handlers of finds do.                                      *)
FindsLocally(c, k) ==
    /\ AssetKey(k) \in DOMAIN local[c]
    /\ SendAsset(c, Id(k), local[c][AssetKey(k)])
    /\ UNCHANGED local

NameLeads(n, k) ==
    /\ AssetNameKey(n) \in DOMAIN db
    /\ k = AssetKey(db[AssetNameKey(n)])

LEMMA KeyIsRecord ==
    ASSUME NEW k
    PROVE  AssetKey(k) # EmptyRecord
<1>1. AssetKey(k)[1] = 1 /\ DOMAIN AssetKey(k) = 1 .. 4
    BY DEF AssetKey, kAsset
<1>2. DOMAIN EmptyRecord = {}
    BY DEF EmptyRecord
<1> QED
    BY <1>1, <1>2

LEMMA FindMeans ==
    ASSUME NEW c, HandleFind(c)
    PROVE  LET k == Head(inbox[c]).arg
           IN  \/ FindsLocally(c, k)
               \/ Drops(c) /\ UNCHANGED local
               \/ FindsNothing(c, Id(k))
               \/ FindsHere(c, Id(k), AssetKey(k))
<1>1. PICK k : k = Head(inbox[c]).arg
    OBVIOUS
<1>2. AssetKey(k) # EmptyRecord
    BY KeyIsRecord
<1>3. \/ /\ findAsset(local[c], k) # EmptyRecord
         /\ SendAsset(c, Id(k), local[c][findAsset(local[c], k)])
         /\ UNCHANGED local
      \/ inbox' = [inbox EXCEPT ![c] = Tail(@)] /\ UNCHANGED <<up, local, outbox>>
      \/ Retrieved(c, Id(k), Found(findAsset(db, k)))
    BY <1>1, Zenon DEF HandleFind, InLocal, getAsset
<1>4. CASE /\ findAsset(local[c], k) # EmptyRecord
           /\ SendAsset(c, Id(k), local[c][findAsset(local[c], k)])
           /\ UNCHANGED local
    <2>1. AssetKey(k) \in DOMAIN local[c] /\ findAsset(local[c], k) = AssetKey(k)
        BY <1>4, Zenon DEF findAsset
    <2> QED
        BY <1>1, <1>4, <2>1, Zenon DEF FindsLocally
<1>5. CASE inbox' = [inbox EXCEPT ![c] = Tail(@)] /\ UNCHANGED <<up, local, outbox>>
    BY <1>5, Zenon DEF Drops
<1>6. CASE Retrieved(c, Id(k), Found(findAsset(db, k)))
    <2>1. PICK record : record = findAsset(db, k)
        OBVIOUS
    <2>2. record # EmptyRecord => record = AssetKey(k) /\ record \in DOMAIN db
        BY <2>1 DEF findAsset
    <2>3. Retrieved(c, Id(k), Found(record))
        BY <1>6, <2>1
    <2>4. FindsNothing(c, Id(k)) \/ (record # EmptyRecord /\ FindsHere(c, Id(k), record))
        BY <2>2, <2>3, RetrievedMeans
    <2> QED
        BY <1>1, <2>2, <2>4
<1> QED
    BY <1>3, <1>4, <1>5, <1>6

LEMMA FindNameMeans ==
    ASSUME NEW c, HandleFindName(c)
    PROVE  LET n == Head(inbox[c]).arg
           IN  \/ FindsNothing(c, Named(n))
               \/ \E k : NameLeads(n, k) /\ FindsHere(c, Named(n), k)
<1>1. PICK n : n = Head(inbox[c]).arg
    OBVIOUS
<1>2. PICK record : record = findNamedAsset(db, n)
    OBVIOUS
<1>3. Retrieved(c, Named(n), Found(record))
    BY <1>1, <1>2, Zenon DEF HandleFindName, getNamedAsset
<1>4. record # EmptyRecord => NameLeads(n, record) /\ record \in DOMAIN db
    BY <1>2 DEF findNamedAsset, findAsset, NameLeads
<1>5. FindsNothing(c, Named(n)) \/ (record # EmptyRecord /\ FindsHere(c, Named(n), record))
    BY <1>3, <1>4, RetrievedMeans
<1> QED
    BY <1>1, <1>4, <1>5

LEMMA LocalMeans ==
    ASSUME FlowTypes, ServerTypes, NEW c \in Client, Handle(c)
    PROVE  \/ UNCHANGED local
           \/ \E asset : local' = [local EXCEPT ![c] = storeAsset(local[c], asset.key, asset, now)]
<1>1. CASE HandleAddString(c) \/ HandleListAdd(c) \/ HandleListFind(c) \/ HandleListNext(c)
           \/ Rejected(c)
    BY <1>1, Zenon DEF HandleAddString, HandleListAdd, HandleListFind, HandleListNext, Rejected
<1>2. CASE HandleFind(c)
    BY <1>2, FindMeans, Zenon DEF FindsLocally, FindsNothing, FindsHere
<1>3. CASE HandleFindName(c)
    BY <1>3, FindNameMeans, Zenon DEF FindsNothing, FindsHere
<1> QED
    BY <1>1, <1>2, <1>3 DEF Handle

LEMMA ReceivesHistory ==
    ASSUME NEW c, Receives(c)
    PROVE  /\ UNCHANGED confabVars
           /\ UNCHANGED added \/ \E S : added' = [added EXCEPT ![c] = @ \cup S]
           /\ UNCHANGED strays \/ Strayed(c)
<1>1. CASE OnAssetAdded(c)
    BY <1>1, Zenon DEF OnAssetAdded, Hears
<1>2. ASSUME NEW reply, OnFound(c, reply)
      PROVE  UNCHANGED confabVars /\ UNCHANGED added /\ (UNCHANGED strays \/ Strayed(c))
    BY <1>2, FoundMeans, Zenon DEF Hears
<1>3. CASE OnListFound(c)
    BY <1>3, Zenon DEF OnListFound, Hears
<1>4. CASE OnListError(c)
    BY <1>4, Zenon DEF OnListError, Hears
<1>5. CASE OnListItems(c)
    BY <1>5, ItemsMeans, Zenon DEF Hears
<1> QED
    BY <1>1, <1>2, <1>3, <1>4, <1>5, ReceivesAre

LEMMA CallsHistory ==
    ASSUME NEW c, Calls(c)
    PROVE  UNCHANGED <<confabVars, outbox, added, strays>>
BY CallsAre, Zenon DEF Adds, Find, NameList, Walks

LEMMA MapsTyped ==
    ASSUME TypeInv, NEW c \in Client, Calls(c) \/ Handle(c) \/ Receives(c)
    PROVE  MapTypes'
<1>1. IsMap(local) /\ IsMap(added) /\ IsMap(strays) /\ FlowTypes /\ ServerTypes
    BY DEF TypeInv, MapTypes
<1>2. \A x : /\ IsMap([local EXCEPT ![c] = x]) /\ IsMap([added EXCEPT ![c] = x])
             /\ IsMap([strays EXCEPT ![c] = x])
    BY <1>1, MapKept
<1>3. CASE Calls(c)
    <2>1. UNCHANGED <<local, added, strays>>
        BY <1>3, CallsHistory DEF confabVars
    <2> QED
        BY <1>1, <2>1, Zenon DEF MapTypes
<1>4. CASE Handle(c)
    <2>1. UNCHANGED <<added, strays>>
        BY <1>4, Zenon DEF Handle, scVars
    <2>2. IsMap(local')
        BY <1>1, <1>2, <1>4, LocalMeans, Zenon
    <2> QED
        BY <1>1, <2>1, <2>2, Zenon DEF MapTypes
<1>5. CASE Receives(c)
    <2>1. UNCHANGED local
        BY <1>5, ReceivesHistory DEF confabVars
    <2>2. IsMap(added')
        <3>1. UNCHANGED added \/ \E x : added' = [added EXCEPT ![c] = x]
            BY <1>5, ReceivesHistory
        <3> QED
            BY <1>1, <1>2, <3>1, Zenon
    <2>3. IsMap(strays')
        <3>1. UNCHANGED strays \/ \E x : strays' = [strays EXCEPT ![c] = x]
            BY <1>5, ReceivesHistory DEF Strayed
        <3> QED
            BY <1>1, <1>2, <3>1, Zenon
    <2> QED
        BY <1>1, <2>1, <2>2, <2>3, Zenon DEF MapTypes
<1> QED
    BY <1>3, <1>4, <1>5

----------------------------------------------------------------------------
(***************************************************************************)
(* The types                                                               *)
(***************************************************************************)
LEMMA TypesKept ==
    ASSUME TypeInv, [Next]_vars
    PROVE  TypeInv'
<1>1. CASE UNCHANGED vars
    BY <1>1, Zenon DEF vars, TypeInv, ServerTypes, FlowTypes, CallTypes, MapTypes, IsMap
<1>2. ASSUME NEW c \in Client, Calls(c) \/ Handle(c) \/ Receives(c) PROVE TypeInv'
    <2>1. ServerTypes /\ FlowTypes /\ CallTypes /\ MapTypes
        BY DEF TypeInv
    <2>2. MapTypes'
        BY <1>2, MapsTyped
    <2>3. FlowTypes'
        BY <1>2, <2>1, CallsFlow, ServeFlow, ReceivesFlow
    <2>5. ServerTypes'
        <3>1. Calls(c) => UNCHANGED confabVars
            BY CallsHistory
        <3>2. Receives(c) => UNCHANGED confabVars
            BY ReceivesHistory
        <3>3. UNCHANGED confabVars => ServerTypes'
            BY <2>1, Zenon DEF ServerTypes, confabVars
        <3>4. Handle(c) => ServerTypes'
            BY <2>1, ServerTyped
        <3> QED
            BY <1>2, <3>1, <3>2, <3>3, <3>4
    <2>6. CallTypes'
        <3>1. Handle(c) => UNCHANGED scVars
            BY DEF Handle
        <3>2. UNCHANGED scVars => CallTypes'
            BY <2>1, Zenon DEF scVars, CallTypes
        <3> QED
            BY <1>2, <2>1, <3>1, <3>2, CallsTyped, ReceivesTyped
    <2> QED
        BY <2>2, <2>3, <2>5, <2>6 DEF TypeInv
<1> QED
    BY <1>1, <1>2 DEF Next

(* The database of the earlier session.                                    *)
OldRecord == [key |-> OldList, name |-> OldName]

LEMMA OldDatabase ==
    /\ AreKeys(DOMAIN storeAsset(storeList(<<>>, OldList, OldRecord), OldAsset.key, OldAsset, OldTime))
    /\ OldList = 1 /\ OldName = 1 /\ OldTime = 1 /\ OldAsset.key = 2
    /\ OldAsset.name = 0 /\ OldAsset.lists = {1} /\ OldRecord.key = 1 /\ OldRecord.name = 1
<1>1. /\ OldList = 1 /\ OldName = 1 /\ OldTime = 1 /\ OldAsset.key = 2
      /\ OldAsset.name = 0 /\ OldAsset.lists = {1} /\ OldRecord.key = 1 /\ OldRecord.name = 1
    BY DEF OldList, OldName, OldTime, OldAsset, OldRecord, NoName
<1>2. AreKeys(DOMAIN <<>>)
    BY NoElements, FS_EmptySet DEF AreKeys
<1>3. PICK none, d, key, asset, time, list, record :
          /\ none = <<>> /\ list = OldList /\ record = OldRecord
          /\ d = storeList(none, list, record)
          /\ key = OldAsset.key /\ asset = OldAsset /\ time = OldTime
    OBVIOUS
<1>4. list \in Nat /\ record.name \in Nat
    BY <1>1, <1>3
<1>5. AreKeys(DOMAIN none)
    BY <1>2, <1>3
<1>6. AreKeys(DOMAIN storeList(none, list, record))
    BY <1>4, <1>5, ListStoredKeys
<1>7. AreKeys(DOMAIN d)
    BY <1>3, <1>6
<1>8. key \in Nat /\ time \in Nat /\ asset.name \in Nat /\ asset.lists \subseteq Nat
      /\ IsFiniteSet(asset.lists)
    <2>1. key = 2 /\ time = 1 /\ asset.name = 0 /\ asset.lists = {1}
        BY <1>1, <1>3
    <2>2. IsFiniteSet({1})
        BY FS_Singleton
    <2> QED
        BY <2>1, <2>2
<1>9. AreKeys(DOMAIN storeAsset(d, key, asset, time))
    BY <1>7, <1>8, AssetStoredKeys
<1> QED
    BY <1>1, <1>3, <1>9, Zenon

LEMMA TypesInit ==
    ASSUME Init
    PROVE  TypeInv
<1>1. MaxFaults \in Nat /\ 0 \in 0 .. MaxFaults
    BY CatalogAssumption
<1>2. ServerTypes
    <2>1. AreKeys(DOMAIN db)
        BY OldDatabase, Zenon DEF Init, OldRecord
    <2>2. AreDraws(keys)
        <3>1. keys \in Draws
            BY Zenon DEF Init
        <3>2. /\ keys \in Seq(Key) /\ IsInjective(keys)
              /\ {OldList, OldAsset.key} \cap Range(keys) = {}
              /\ \A d \in DOMAIN Draft : Draft[d].lists \cap Range(keys) = {}
            BY <3>1, CatalogAssumption
        <3>3. \A i \in DOMAIN keys : keys[i] \in Range(keys)
            BY DEF Range
        <3> QED
            BY <3>2, <3>3 DEF AreDraws
    <2>3. serverUp = TRUE /\ now = OldTime /\ faults = 0
        BY Zenon DEF Init
    <2> QED
        BY <1>1, <2>1, <2>2, <2>3 DEF ServerTypes
<1>3. FlowTypes
    <2>1. /\ up = [c \in Client |-> TRUE] /\ inbox = [c \in Client |-> <<>>]
          /\ outbox = [c \in Client |-> <<>>] /\ addSerial = [c \in Client |-> 1]
        BY Zenon DEF Init
    <2>2. \A c \in Client : up[c] = TRUE /\ inbox[c] = <<>> /\ outbox[c] = <<>>
        BY <2>1
    <2>3. ASSUME NEW max \in Nat, NEW serial PROVE Flow(TRUE, <<>>, <<>>, serial, max)
        BY NoElements DEF Flow
    <2>4. \A c \in Client : Flow(up[c], inbox[c], outbox[c], addSerial[c], MaxInFlight[c])
        BY <2>2, <2>3, BoundTyped, Zenon
    <2>5. inbox = [c \in Client |-> inbox[c]] /\ outbox = [c \in Client |-> outbox[c]]
        BY <2>1
    <2>6. up \in [Client -> BOOLEAN] /\ addSerial \in [Client -> Nat \ {0}]
        BY <2>1
    <2> QED
        BY <2>4, <2>5, <2>6 DEF FlowTypes
<1>4. CallTypes
    <2>1. /\ callbacks = [c \in Client |-> [add |-> {}, find |-> {}, list |-> {}]]
          /\ walk = [c \in Client |-> NoWalk] /\ left = Asks
        BY Zenon DEF Init
    <2>2. IsMap(Asks) /\ \A c \in Client : IsLeft(Asks[c], Asks[c])
        <3>1. IsMap(Asks)
            BY CatalogAssumption, Zenon DEF IsMap
        <3>2. ASSUME NEW c \in Client PROVE IsLeft(Asks[c], Asks[c])
            <4>1. PICK asks : asks = Asks[c]
                OBVIOUS
            <4>2. asks \in [DOMAIN asks -> Nat]
                BY <4>1, CatalogAssumption
            <4>3. asks = [r \in DOMAIN asks |-> asks[r]] /\ \A r \in DOMAIN asks : asks[r] \in Nat
                BY <4>2
            <4>4. \A r \in DOMAIN asks : asks[r] <= asks[r]
                BY <4>3
            <4> QED
                BY <4>1, <4>3, <4>4 DEF IsLeft
        <3> QED
            BY <3>1, <3>2
    <2>3. \A c \in Client : callbacks[c] = [add |-> {}, find |-> {}, list |-> {}] /\ walk[c] = NoWalk
        BY <2>1
    <2>4. IsMap(callbacks) /\ IsMap(walk)
        BY <2>1 DEF IsMap
    <2>5. IsWalk(NoWalk)
        BY DEF IsWalk, NoWalk
    <2>6. \A serial : IsCallbacks([add |-> {}, find |-> {}, list |-> {}], serial)
        BY DEF IsCallbacks
    <2> QED
        BY <2>1, <2>2, <2>3, <2>4, <2>5, <2>6, Zenon DEF CallTypes, IsMap
<1>5. MapTypes
    BY Zenon DEF Init, MapTypes, IsMap
<1> QED
    BY <1>2, <1>3, <1>4, <1>5 DEF TypeInv

(* The variables have their types, and the clients their bounds: TypeOK.   *)
THEOREM TypeCorrect == Spec => []TypeOK
<1>1. TypeInv => TypeOK
    <2> SUFFICES ASSUME TypeInv PROVE TypeOK
        OBVIOUS
    <2>1. ServerTypes /\ FlowTypes /\ CallTypes
        BY DEF TypeInv
    <2>2. ASSUME NEW c \in Client
          PROVE  /\ Len(inbox[c]) + Len(outbox[c]) <= MaxInFlight[c]
                 /\ ~ up[c] => inbox[c] = <<>>
                 /\ \A cb \in callbacks[c].add : cb[1] < addSerial[c]
                 /\ callbacks[c].find \subseteq {"id", "name"} \X (Key \cup {NoKey})
                 /\ callbacks[c].list \subseteq {"id", "name"} \X Key
                 /\ walk[c].state \in {"none", "on", "done", "failed"}
        <3>1. Flow(up[c], inbox[c], outbox[c], addSerial[c], MaxInFlight[c])
            BY <2>1, FlowHere
        <3>2. IsCallbacks(callbacks[c], addSerial[c]) /\ IsWalk(walk[c])
            BY <2>1, CallHere
        <3>3. callbacks[c].find \in SUBSET (Ids \cup Names)
              /\ callbacks[c].list \in SUBSET (({"id"} \X Key) \cup Names)
            BY <3>2 DEF IsCallbacks
        <3>4. Ids \cup Names \subseteq {"id", "name"} \X (Key \cup {NoKey})
            BY DEF Ids, Names
        <3>5. ({"id"} \X Key) \cup Names \subseteq {"id", "name"} \X Key
            BY DEF Names
        <3> QED
            BY <3>1, <3>2, <3>3, <3>4, <3>5 DEF Flow, IsCallbacks, IsWalk
    <2>3. /\ serverUp \in BOOLEAN /\ now \in Time \cup {OldTime} /\ faults \in 0 .. MaxFaults
          /\ up \in [Client -> BOOLEAN] /\ addSerial \in [Client -> Nat \ {0}]
        BY <2>1 DEF ServerTypes, FlowTypes
    <2> QED
        BY <2>2, <2>3 DEF TypeOK
<1> QED
    BY <1>1, TypesInit, TypesKept, PTL DEF Spec

----------------------------------------------------------------------------
(***************************************************************************)
(* A database without dangling references                                  *)
(***************************************************************************)
IsSound(d, k) ==
    /\ k[1] = kAsset => k = AssetKey(k[2]) /\ d[k].key = k[2]
    /\ k[1] = kAssetName => /\ k = AssetNameKey(k[2])
                            /\ AssetKey(d[k]) \in DOMAIN d
                            /\ d[AssetKey(d[k])].name = k[2]
    /\ k[1] = kListName => ListKey(d[k]) \in DOMAIN d
    /\ k[1] = kListEntry /\ k[4] \notin {kBeginList, kEndList} =>
          AssetKey(k[4]) \in DOMAIN d

Sound(d) == \A k \in DOMAIN d : IsSound(d, k)

AreNew(d, drawn) == \A i \in DOMAIN drawn : AssetKey(drawn[i]) \notin DOMAIN d

(* The database only grows, and no asset of it changes.                    *)
Grows(d, d1) ==
    /\ DOMAIN d \subseteq DOMAIN d1
    /\ \A k \in DOMAIN d : k[1] = kAsset => d1[k] = d[k]

LEMMA KeyParts ==
    /\ \A n : /\ AssetKey(n)[1] = kAsset /\ AssetKey(n)[2] = n
              /\ AssetNameKey(n)[1] = kAssetName /\ AssetNameKey(n)[2] = n
              /\ ListKey(n)[1] = kList /\ ListKey(n)[2] = n
              /\ ListNameKey(n)[1] = kListName /\ ListNameKey(n)[2] = n
    /\ \A l, t, n : /\ ListEntryKey(l, t, n)[1] = kListEntry /\ ListEntryKey(l, t, n)[2] = l
                    /\ ListEntryKey(l, t, n)[3] = t /\ ListEntryKey(l, t, n)[4] = n
    /\ kAsset = 1 /\ kListEntry = 3 /\ kList = 4 /\ kAssetName = 5 /\ kListName = 6
BY DEF AssetKey, AssetNameKey, ListKey, ListNameKey, ListEntryKey,
       kAsset, kListEntry, kList, kAssetName, kListName

LEMMA StoredKeyParts ==
    /\ \A asset : \A k \in NameKeys(asset) :
          k = AssetNameKey(asset.name) /\ k[1] = 5 /\ k[2] = asset.name
    /\ \A asset, t, key : \A k \in EntryKeys(asset, t, key) : k[1] = 3 /\ k[3] = t /\ k[4] = key
    /\ \A list : \A k \in SentinelKeys(list) :
          k[1] = 3 /\ k[2] = list /\ k[4] \in {kBeginList, kEndList}
    /\ \A record : \A k \in ListNameKeys(record) : k[1] = 6
<1>1. \A asset : \A k \in NameKeys(asset) :
          k = AssetNameKey(asset.name) /\ k[1] = 5 /\ k[2] = asset.name
    BY KeyParts DEF NameKeys
<1>2. \A asset, t, key : \A k \in EntryKeys(asset, t, key) :
          k[1] = 3 /\ k[3] = t /\ k[4] = key
    BY KeyParts DEF EntryKeys
<1>3. \A list : \A k \in SentinelKeys(list) :
          k[1] = 3 /\ k[2] = list /\ k[4] \in {kBeginList, kEndList}
    BY KeyParts DEF SentinelKeys
<1>4. \A record : \A k \in ListNameKeys(record) : k[1] = 6
    BY KeyParts DEF ListNameKeys
<1> QED
    BY <1>1, <1>2, <1>3, <1>4

LEMMA AssetStoredSound ==
    ASSUME NEW d, Sound(d), NEW key, NEW asset, asset.key = key,
           NEW time, AssetKey(key) \notin DOMAIN d,
           NEW d1, IsAssetStored(d1, d, key, asset, time)
    PROVE  Sound(d1) /\ Grows(d, d1)
<1> DEFINE entries == EntryKeys(asset, time, key)
           names == NameKeys(asset)
           a == AssetKey(key)
<1>1. /\ DOMAIN d1 = DOMAIN d \cup {a} \cup entries \cup names
      /\ d1[a] = asset
      /\ \A k \in names : d1[k] = key
      /\ \A k \in DOMAIN d : k \notin {a} \cup entries \cup names => d1[k] = d[k]
    BY Zenon DEF IsAssetStored
<1>2. /\ a[1] = 1 /\ a[2] = key /\ a \notin DOMAIN d /\ a = AssetKey(key)
      /\ \A k \in entries : k[1] = 3 /\ k[4] = key
      /\ \A k \in names : k = AssetNameKey(asset.name) /\ k[1] = 5 /\ k[2] = asset.name
    BY KeyParts, StoredKeyParts
<1>3. \A n : AssetKey(n)[1] = 1
    BY KeyParts
<1> HIDE DEF entries, names, a
<1>4. \A k \in DOMAIN d : k[1] = 1 => d1[k] = d[k]
    BY <1>1, <1>2
<1>5. \A n : AssetKey(n) \in DOMAIN d => d1[AssetKey(n)] = d[AssetKey(n)]
    BY <1>3, <1>4
<1>6. Grows(d, d1)
    BY <1>1, <1>4, KeyParts DEF Grows
<1>7. ASSUME NEW k \in DOMAIN d1 PROVE IsSound(d1, k)
    <2>1. CASE k = a
        BY <1>1, <1>2, <2>1, KeyParts DEF IsSound
    <2>2. CASE k \in entries
        BY <1>1, <1>2, <2>2, KeyParts DEF IsSound
    <2>3. CASE k \in names
        BY <1>1, <1>2, <2>3, KeyParts DEF IsSound
    <2>4. CASE k \in DOMAIN d /\ k \notin {a} \cup entries \cup names
        <3>1. d1[k] = d[k]
            BY <1>1, <2>4
        <3>2. IsSound(d, k)
            BY <2>4 DEF Sound
        <3>3. \A x \in DOMAIN d : x \in DOMAIN d1
            BY <1>1
        <3> QED
            BY <1>5, <3>1, <3>2, <3>3 DEF IsSound
    <2> QED
        BY <1>1, <2>1, <2>2, <2>3, <2>4
<1> QED
    BY <1>6, <1>7 DEF Sound

LEMMA ListStoredSound ==
    ASSUME NEW d, Sound(d), NEW list, NEW record,
           NEW d1, IsListStored(d1, d, list, record)
    PROVE  Sound(d1) /\ Grows(d, d1)
<1> DEFINE sentinels == SentinelKeys(list)
           names == ListNameKeys(record)
           a == ListKey(list)
<1>1. /\ DOMAIN d1 = DOMAIN d \cup {a} \cup sentinels \cup names
      /\ \A k \in names : d1[k] = list
      /\ \A k \in DOMAIN d : k \notin {a} \cup sentinels \cup names => d1[k] = d[k]
    BY Zenon DEF IsListStored
<1>2. /\ a[1] = 4 /\ a = ListKey(list)
      /\ \A k \in sentinels : k[1] = 3 /\ k[4] \in {kBeginList, kEndList}
      /\ \A k \in names : k[1] = 6
    BY KeyParts, StoredKeyParts
<1>3. \A n : AssetKey(n)[1] = 1
    BY KeyParts
<1> HIDE DEF sentinels, names, a
<1>4. \A k \in DOMAIN d : k[1] = 1 => d1[k] = d[k]
    BY <1>1, <1>2
<1>5. \A n : AssetKey(n) \in DOMAIN d => d1[AssetKey(n)] = d[AssetKey(n)]
    BY <1>3, <1>4
<1>6. Grows(d, d1)
    BY <1>1, <1>4, KeyParts DEF Grows
<1>7. ASSUME NEW k \in DOMAIN d1 PROVE IsSound(d1, k)
    <2>1. CASE k = a
        BY <1>1, <1>2, <2>1, KeyParts DEF IsSound
    <2>2. CASE k \in sentinels
        BY <1>1, <1>2, <2>2, KeyParts DEF IsSound
    <2>3. CASE k \in names
        BY <1>1, <1>2, <2>3, KeyParts DEF IsSound
    <2>4. CASE k \in DOMAIN d /\ k \notin {a} \cup sentinels \cup names
        <3>1. d1[k] = d[k]
            BY <1>1, <2>4
        <3>2. IsSound(d, k)
            BY <2>4 DEF Sound
        <3>3. \A x \in DOMAIN d : x \in DOMAIN d1
            BY <1>1
        <3> QED
            BY <1>5, <3>1, <3>2, <3>3 DEF IsSound
    <2> QED
        BY <1>1, <2>1, <2>2, <2>3, <2>4
<1> QED
    BY <1>6, <1>7 DEF Sound

(* Keys that are new stay new, but for the one that is drawn.              *)
LEMMA StoredNew ==
    ASSUME NEW d, NEW drawn, AreDraws(drawn), drawn # <<>>, AreNew(d, drawn), NEW d1,
           \A n : AssetKey(n) \in DOMAIN d1 => AssetKey(n) \in DOMAIN d \/ n = Head(drawn)
    PROVE  AreNew(d1, Tail(drawn)) /\ AssetKey(Head(drawn)) \notin DOMAIN d
<1>1. /\ Head(drawn) = drawn[1] /\ 1 \in DOMAIN drawn
      /\ \A i \in DOMAIN Tail(drawn) : /\ i + 1 \in DOMAIN drawn
                                       /\ Tail(drawn)[i] = drawn[i + 1]
                                       /\ Tail(drawn)[i] # Head(drawn)
    BY DrawTyped
<1>2. AssetKey(Head(drawn)) \notin DOMAIN d
    BY <1>1, Zenon DEF AreNew
<1>3. ASSUME NEW i \in DOMAIN Tail(drawn) PROVE AssetKey(Tail(drawn)[i]) \notin DOMAIN d1
    <2>0. PICK n : n = Tail(drawn)[i]
        OBVIOUS
    <2>1. PICK j \in DOMAIN drawn : n = drawn[j] /\ n # Head(drawn)
        BY <1>1, <2>0
    <2>2. AssetKey(n) \notin DOMAIN d
        BY <2>1, Zenon DEF AreNew
    <2> QED
        BY <2>0, <2>1, <2>2
<1> QED
    BY <1>2, <1>3 DEF AreNew

IsCatalog == Sound(db) /\ AreNew(db, keys)

LEMMA GrowsItself == \A d : Grows(d, d)
BY DEF Grows

LEMMA StoresAssetGrows ==
    ASSUME ServerTypes, IsCatalog, NEW c, NEW d, NEW content, NEW t,
           StoresAsset(c, d, content, t)
    PROVE  IsCatalog' /\ Grows(db, db')
<1>0. PICK key, asset : key = Head(keys) /\ asset = AssetOf(d, key, content)
    OBVIOUS
<1>1. key = Head(keys) /\ asset = AssetOf(d, key, content) /\ asset.key = key
    BY <1>0 DEF AssetOf
<1>2. PICK d1 : d1 = db'
    OBVIOUS
<1>3. d1 = storeAsset(db, key, asset, t) /\ keys # <<>> /\ keys' = Tail(keys)
    BY <1>1, <1>2, Zenon DEF StoresAsset
<1>4. IsAssetStored(d1, db, key, asset, t)
    BY <1>3, AssetStored
<1>5. \A n : AssetKey(n) \in DOMAIN d1 => AssetKey(n) \in DOMAIN db \/ n = Head(keys)
    <2> SUFFICES ASSUME NEW n, AssetKey(n) \in DOMAIN d1
                 PROVE  AssetKey(n) \in DOMAIN db \/ n = key
        BY <1>1
    <2>1. DOMAIN d1 = DOMAIN db \cup {AssetKey(key)} \cup EntryKeys(asset, t, key)
                        \cup NameKeys(asset)
        BY <1>4, Zenon DEF IsAssetStored
    <2>2. AssetKey(n)[1] = 1 /\ AssetKey(n)[2] = n /\ AssetKey(key)[2] = key
        BY KeyParts
    <2>3. AssetKey(n) \notin EntryKeys(asset, t, key) /\ AssetKey(n) \notin NameKeys(asset)
        BY <2>2, StoredKeyParts
    <2> QED
        BY <2>1, <2>2, <2>3
<1>6. AreNew(d1, Tail(keys)) /\ AssetKey(key) \notin DOMAIN db
    BY <1>1, <1>3, <1>5, StoredNew DEF ServerTypes, IsCatalog
<1>7. Sound(d1) /\ Grows(db, d1)
    BY <1>1, <1>4, <1>6, AssetStoredSound DEF IsCatalog
<1> QED
    BY <1>2, <1>3, <1>6, <1>7 DEF IsCatalog

LEMMA StoresListGrows ==
    ASSUME ServerTypes, IsCatalog, NEW n, StoresList(n)
    PROVE  IsCatalog' /\ Grows(db, db')
<1>1. PICK key, record : key = Head(keys) /\ record = [key |-> key, name |-> n]
    OBVIOUS
<1>2. PICK d1 : d1 = db'
    OBVIOUS
<1>3. d1 = storeList(db, key, record) /\ keys # <<>> /\ keys' = Tail(keys)
    BY <1>1, <1>2, Zenon DEF StoresList
<1>4. IsListStored(d1, db, key, record)
    BY <1>3, ListStored
<1>5. \A m : AssetKey(m) \in DOMAIN d1 => AssetKey(m) \in DOMAIN db \/ m = Head(keys)
    <2> TAKE m
    <2>1. DOMAIN d1 = DOMAIN db \cup {ListKey(key)} \cup SentinelKeys(key) \cup ListNameKeys(record)
        BY <1>4, Zenon DEF IsListStored
    <2>2. AssetKey(m)[1] = 1 /\ ListKey(key)[1] = 4
        BY KeyParts
    <2>3. AssetKey(m) \notin SentinelKeys(key) /\ AssetKey(m) \notin ListNameKeys(record)
        BY <2>2, StoredKeyParts
    <2> QED
        BY <2>1, <2>2, <2>3
<1>6. AreNew(d1, Tail(keys))
    BY <1>3, <1>5, StoredNew DEF ServerTypes, IsCatalog
<1>7. Sound(d1) /\ Grows(db, d1)
    BY <1>4, ListStoredSound DEF IsCatalog
<1> QED
    BY <1>2, <1>3, <1>6, <1>7 DEF IsCatalog

LEMMA HandleGrows ==
    ASSUME FlowTypes, ServerTypes, IsCatalog, NEW c \in Client, Handle(c)
    PROVE  IsCatalog' /\ Grows(db, db')
<1>1. CASE UNCHANGED db /\ UNCHANGED keys
    BY <1>1, GrowsItself, Zenon DEF IsCatalog
<1>2. CASE UNCHANGED db /\ keys # <<>> /\ keys' = Tail(keys)
    <2>1. AreNew(db, Tail(keys))
        <3>1. AreDraws(keys) /\ AreNew(db, keys)
            BY DEF ServerTypes, IsCatalog
        <3> QED
            BY <1>2, <3>1, StoredNew
    <2> QED
        BY <1>2, <2>1, GrowsItself, Zenon DEF IsCatalog
<1> QED
    BY <1>1, <1>2, HandleStores, StoresAssetGrows, StoresListGrows DEF Stores

----------------------------------------------------------------------------
(***************************************************************************)
(* What is in the local databases, and what is said about assets           *)
(***************************************************************************)
(* The assets in a local database are as they are on the server.           *)
Copies(l, d) ==
    \A k \in DOMAIN l : k[1] = kAsset =>
        k = AssetKey(k[2]) /\ k \in DOMAIN d /\ l[k] = d[k]

(* The asset of a draft was added, under this key.                         *)
AddedTo(d, c, serial, name, key) ==
    /\ key \in Key /\ AssetKey(key) \in DOMAIN d
    /\ d[AssetKey(key)].content = <<c, serial>>
    /\ \A l \in Draft[name].lists : \E k \in DOMAIN d : EntryOf(k, l) /\ k[4] = key
    /\ Draft[name].name # NoName => AssetNameKey(Draft[name].name) \in DOMAIN d

IsAbout(identity, asset) == identity \in {Id(asset.key), Named(asset.name)}

IsTrue(a, c, d, adds, serial) ==
    /\ a.reply = "assetFound" => /\ AssetKey(a.data.key) \in DOMAIN d
                                 /\ a.data = d[AssetKey(a.data.key)]
                                 /\ IsAbout(a.to, a.data)
    /\ a.reply = "assetAdded" =>
          /\ a.to \in Nat /\ a.to < serial
          /\ a.data # 0 => \A cb \in adds : cb[1] = a.to => AddedTo(d, c, a.to, cb[2], a.data)

(* The callback of a serial is that of the asset it was given to.          *)
Matches(m, adds) == m.cmd = "assetAddString" => \A cb \in adds : cb[1] = m.n => cb[2] = m.arg

Catalogued(c, d, l, in, out, adds, serial, told) ==
    /\ Copies(l, d)
    /\ \A m \in Range(in) : Matches(m, adds)
    /\ \A a \in Range(out) : IsTrue(a, c, d, adds, serial)
    /\ \A t \in told : t[3] # 0 => AddedTo(d, c, t[1], t[2], t[3])

CatalogInv ==
    /\ TypeInv
    /\ IsCatalog
    /\ \A c \in Client : Catalogued(c, db, local[c], inbox[c], outbox[c], callbacks[c].add,
                                    addSerial[c], added[c])

LEMMA AddedStays ==
    ASSUME NEW d, NEW d1, Grows(d, d1), NEW c, NEW serial, NEW name, NEW key,
           AddedTo(d, c, serial, name, key)
    PROVE  AddedTo(d1, c, serial, name, key)
<1>1. d1[AssetKey(key)] = d[AssetKey(key)]
    BY KeyParts DEF Grows, AddedTo
<1> QED
    BY <1>1, Zenon DEF Grows, AddedTo

LEMMA TrueStays ==
    ASSUME NEW d, NEW d1, Grows(d, d1), NEW a, NEW c, NEW adds, NEW adds1, adds1 \subseteq adds,
           NEW serial \in Nat, NEW serial1 \in Nat, serial <= serial1,
           IsTrue(a, c, d, adds, serial)
    PROVE  IsTrue(a, c, d1, adds1, serial1)
<1>1. CASE a.reply = "assetFound"
    <2>1. PICK k : k = AssetKey(a.data.key)
        OBVIOUS
    <2>2. k \in DOMAIN d /\ a.data = d[k] /\ IsAbout(a.to, a.data) /\ k[1] = kAsset
        BY <1>1, <2>1, KeyParts DEF IsTrue
    <2>3. k \in DOMAIN d1 /\ d1[k] = d[k]
        BY <2>2 DEF Grows
    <2> QED
        BY <1>1, <2>1, <2>2, <2>3 DEF IsTrue
<1>2. CASE a.reply = "assetAdded"
    <2>1. a.to \in Nat /\ a.to < serial1
        BY <1>2 DEF IsTrue
    <2>2. ASSUME a.data # 0, NEW cb \in adds1, cb[1] = a.to
          PROVE  AddedTo(d1, c, a.to, cb[2], a.data)
        <3>1. AddedTo(d, c, a.to, cb[2], a.data)
            BY <1>2, <2>2 DEF IsTrue
        <3> QED
            BY <3>1, AddedStays
    <2> QED
        BY <1>2, <2>1, <2>2 DEF IsTrue
<1> QED
    BY <1>1, <1>2 DEF IsTrue

LEMMA CopiesStay ==
    ASSUME NEW l, NEW d, NEW d1, Copies(l, d), Grows(d, d1)
    PROVE  Copies(l, d1)
BY Zenon DEF Copies, Grows

(* Storing an asset of the server in the local database.                   *)
LEMMA CopyStored ==
    ASSUME NEW l, NEW d, Copies(l, d), Sound(d), NEW k \in DOMAIN d, k[1] = kAsset,
           NEW t, NEW l1, l1 = storeAsset(l, d[k].key, d[k], t)
    PROVE  Copies(l1, d)
<1>1. PICK key, asset : key = d[k].key /\ asset = d[k]
    OBVIOUS
<1>2. k = AssetKey(key)
    BY <1>1 DEF Sound, IsSound
<1>3. IsAssetStored(l1, l, key, asset, t)
    BY <1>1, AssetStored
<1>4. /\ DOMAIN l1 = DOMAIN l \cup {AssetKey(key)} \cup EntryKeys(asset, t, key) \cup NameKeys(asset)
      /\ l1[AssetKey(key)] = asset
      /\ \A x \in DOMAIN l :
            x \notin {AssetKey(key)} \cup EntryKeys(asset, t, key) \cup NameKeys(asset)
               => l1[x] = l[x]
    BY <1>3, Zenon DEF IsAssetStored
<1>5. ASSUME NEW x \in DOMAIN l1, x[1] = 1
      PROVE  x = AssetKey(x[2]) /\ x \in DOMAIN d /\ l1[x] = d[x]
    <2>1. x \notin EntryKeys(asset, t, key) /\ x \notin NameKeys(asset)
        BY <1>5, StoredKeyParts
    <2>2. CASE x = AssetKey(key)
        BY <1>1, <1>2, <1>4, <2>2, KeyParts
    <2>3. CASE x \in DOMAIN l /\ x # AssetKey(key)
        <3>1. l1[x] = l[x]
            BY <1>4, <2>1, <2>3
        <3>2. x = AssetKey(x[2]) /\ x \in DOMAIN d /\ l[x] = d[x]
            BY <1>5, <2>3, KeyParts, Zenon DEF Copies
        <3> QED
            BY <3>1, <3>2
    <2> QED
        BY <1>4, <2>1, <2>2, <2>3
<1> QED
    BY <1>5, KeyParts DEF Copies

(* What a confab does with its next message, and what it says about assets. *)
Says(c) ==
    \/ Drops(c)
    \/ Dies(c)
    \/ \E reply, to, data :
          /\ Answers(c, reply, to, data)
          /\ IsTrue([reply |-> reply, to |-> to, data |-> data], c, db', callbacks[c].add,
                    addSerial[c])

LEMMA CatalogHere ==
    ASSUME CatalogInv, NEW c \in Client
    PROVE  /\ FlowTypes /\ ServerTypes /\ CallTypes /\ IsCatalog /\ Sound(db)
           /\ IsMap(local) /\ IsMap(added)
           /\ Catalogued(c, db, local[c], inbox[c], outbox[c], callbacks[c].add,
                         addSerial[c], added[c])
BY Zenon DEF CatalogInv, TypeInv, MapTypes, IsCatalog

LEMMA OtherSays ==
    ASSUME NEW c, NEW reply, NEW to, NEW data, Answers(c, reply, to, data),
           reply \notin {"assetFound", "assetAdded"}
    PROVE  Says(c)
<1>1. PICK a : a = [reply |-> reply, to |-> to, data |-> data]
    OBVIOUS
<1>2. \A d, adds, serial : IsTrue(a, c, d, adds, serial)
    BY <1>1, SMT DEF IsTrue
<1> QED
    BY <1>1, <1>2, Zenon DEF Says

LEMMA SendSays ==
    ASSUME NEW c, NEW identity, NEW k \in DOMAIN db, Sound(db), k[1] = kAsset,
           SendAsset(c, identity, db[k]), IsAbout(identity, db[k]), UNCHANGED db
    PROVE  Says(c)
<1>1. PICK asset : asset = db[k]
    OBVIOUS
<1>2. k = AssetKey(asset.key)
    BY <1>1 DEF Sound, IsSound
<1>3. CASE Dies(c)
    BY <1>3 DEF Says
<1>4. CASE Answers(c, "assetFound", identity, asset)
    <2>1. PICK a : a = [reply |-> "assetFound", to |-> identity, data |-> asset]
        OBVIOUS
    <2>2. a.reply = "assetFound" /\ a.to = identity /\ a.data = asset
        BY <2>1
    <2>3. \A adds, serial : IsTrue(a, c, db', adds, serial)
        <3>2. AssetKey(a.data.key) = k /\ a.data = db[k] /\ IsAbout(a.to, a.data)
            BY <1>1, <1>2, <2>2
        <3>3. a.reply # "assetAdded"
            BY <2>2
        <3>1. \A adds, serial : IsTrue(a, c, db, adds, serial)
            BY <3>2, <3>3, Zenon DEF IsTrue
        <3> QED
            BY <3>1, Zenon
    <2> QED
        BY <1>4, <2>1, <2>3, Zenon DEF Says
<1> QED
    BY <1>1, <1>3, <1>4, Zenon DEF SendAsset

LEMMA NothingSays ==
    ASSUME CatalogInv, NEW c \in Client, UNCHANGED local,
           Says(c), Grows(db, db')
    PROVE  Says(c) /\ \E l1 : local' = [local EXCEPT ![c] = l1] /\ Copies(l1, db')
<1>1. Copies(local[c], db) /\ IsMap(local)
    BY CatalogHere DEF Catalogued
<1>2. Copies(local[c], db')
    BY <1>1, CopiesStay
<1>3. local = [local EXCEPT ![c] = local[c]]
    BY <1>1, MapKept
<1> QED
    BY <1>2, <1>3, Zenon

LEMMA FoundSays ==
    ASSUME CatalogInv, NEW c \in Client, NEW identity, NEW k, FindsHere(c, identity, k),
           k[1] = kAsset, k \in DOMAIN db => IsAbout(identity, db[k]), UNCHANGED db
    PROVE  Says(c) /\ \E l1 : local' = [local EXCEPT ![c] = l1] /\ Copies(l1, db')
<1>1. Sound(db) /\ Copies(local[c], db)
    BY CatalogHere DEF Catalogued
<1>2. k \in DOMAIN db /\ SendAsset(c, identity, db[k])
    BY DEF FindsHere
<1>3. Says(c)
    BY <1>1, <1>2, SendSays
<1>4. PICK l1 : l1 = storeAsset(local[c], db[k].key, db[k], now)
    OBVIOUS
<1>5. CASE UNCHANGED local
    BY <1>3, <1>5, GrowsItself, NothingSays
<1>6. CASE local' = [local EXCEPT ![c] = storeAsset(local[c], db[k].key, db[k], now)]
    <2>1. local' = [local EXCEPT ![c] = l1]
        BY <1>4, <1>6, Zenon
    <2>2. PICK l : l = local[c]
        OBVIOUS
    <2>3. l1 = storeAsset(l, db[k].key, db[k], now) /\ Copies(l, db)
        BY <1>1, <1>4, <2>2, Zenon
    <2>4. Copies(l1, db)
        BY <1>1, <1>2, <2>3, CopyStored
    <2> QED
        BY <1>3, <2>1, <2>4, Zenon
<1> QED
    BY <1>5, <1>6, Zenon DEF FindsHere

LEMMA FindSays ==
    ASSUME CatalogInv, NEW c \in Client, HandleFind(c)
    PROVE  Says(c) /\ \E l1 : local' = [local EXCEPT ![c] = l1] /\ Copies(l1, db')
<1>1. UNCHANGED db /\ Grows(db, db')
    BY GrowsItself, Zenon DEF HandleFind
<1>2. PICK k : k = Head(inbox[c]).arg
    OBVIOUS
<1>3. Sound(db) /\ Copies(local[c], db)
    BY CatalogHere DEF Catalogued
<1>4. AssetKey(k)[1] = kAsset /\ (AssetKey(k) \in DOMAIN db => IsAbout(Id(k), db[AssetKey(k)]))
    <2>1. ASSUME NEW n, n = AssetKey(k), n \in DOMAIN db PROVE db[n].key = k
        BY <1>3, <2>1, KeyParts DEF Sound, IsSound
    <2>2. AssetKey(k) \in DOMAIN db => db[AssetKey(k)].key = k
        BY <2>1
    <2> QED
        BY <2>2, KeyParts DEF IsAbout
<1>5. CASE FindsLocally(c, k)
    <2>1. PICK n : n = AssetKey(k)
        OBVIOUS
    <2>2. n \in DOMAIN local[c] /\ SendAsset(c, Id(k), local[c][n]) /\ UNCHANGED local
        BY <1>5, <2>1 DEF FindsLocally
    <2>3. n \in DOMAIN db /\ local[c][n] = db[n]
        <3>1. PICK l : l = local[c]
            OBVIOUS
        <3>2. Copies(l, db) /\ n \in DOMAIN l /\ n[1] = kAsset
            BY <1>3, <2>1, <2>2, <3>1, KeyParts
        <3> QED
            BY <3>1, <3>2, Zenon DEF Copies
    <2>4. SendAsset(c, Id(k), db[n])
        BY <2>2, <2>3
    <2>5. Says(c)
        BY <1>1, <1>3, <1>4, <2>1, <2>3, <2>4, SendSays
    <2> QED
        BY <1>1, <2>2, <2>5, NothingSays
<1>6. CASE Drops(c) /\ UNCHANGED local
    BY <1>1, <1>6, NothingSays DEF Says
<1>7. CASE FindsNothing(c, Id(k))
    <2>1. UNCHANGED local /\ Answers(c, "assetError", Id(k), NoValue)
        BY <1>7 DEF FindsNothing
    <2>2. Says(c)
        BY <2>1, OtherSays
    <2> QED
        BY <1>1, <2>1, <2>2, NothingSays
<1>8. CASE FindsHere(c, Id(k), AssetKey(k))
    BY <1>1, <1>4, <1>8, FoundSays
<1> QED
    BY <1>2, <1>5, <1>6, <1>7, <1>8, FindMeans

LEMMA FindNameSays ==
    ASSUME CatalogInv, NEW c \in Client, HandleFindName(c)
    PROVE  Says(c) /\ \E l1 : local' = [local EXCEPT ![c] = l1] /\ Copies(l1, db')
<1>1. UNCHANGED db /\ Grows(db, db')
    BY GrowsItself, Zenon DEF HandleFindName
<1>2. PICK n : n = Head(inbox[c]).arg
    OBVIOUS
<1>3. CASE FindsNothing(c, Named(n))
    <2>1. UNCHANGED local /\ Answers(c, "assetError", Named(n), NoValue)
        BY <1>3 DEF FindsNothing
    <2>2. Says(c)
        BY <2>1, OtherSays
    <2> QED
        BY <1>1, <2>1, <2>2, NothingSays
<1>4. ASSUME NEW k, NameLeads(n, k), FindsHere(c, Named(n), k)
      PROVE  Says(c) /\ \E l1 : local' = [local EXCEPT ![c] = l1] /\ Copies(l1, db')
    <2>1. PICK x : x = AssetNameKey(n)
        OBVIOUS
    <2>2. x \in DOMAIN db /\ k = AssetKey(db[x]) /\ x[1] = kAssetName /\ x[2] = n
        BY <1>4, <2>1, KeyParts DEF NameLeads
    <2>3. db[k].name = n /\ k[1] = kAsset
        <3>1. IsSound(db, x)
            BY <2>2, CatalogHere DEF Sound
        <3> QED
            BY <2>2, <3>1, KeyParts DEF IsSound
    <2>4. IsAbout(Named(n), db[k])
        BY <2>3 DEF IsAbout
    <2> QED
        BY <1>1, <1>4, <2>3, <2>4, FoundSays
<1> QED
    BY <1>2, <1>3, <1>4, FindNameMeans

LEMMA AddSays ==
    ASSUME CatalogInv, NEW c \in Client, HandleAddString(c), Grows(db, db')
    PROVE  Says(c)
<1>0. FlowTypes /\ ServerTypes
    BY CatalogHere
<1>1. PICK d, serial, adds, m :
         /\ m = Head(inbox[c]) /\ d = m.arg /\ serial = m.n /\ adds = callbacks[c].add
    OBVIOUS
<1>2. m.cmd = "assetAddString" /\ inbox[c] # <<>>
    BY <1>1, Zenon DEF HandleAddString, Serves
<1>3. serial \in Nat /\ serial < addSerial[c] /\ \A cb \in adds : cb[1] = serial => cb[2] = d
    <2>1. IsMessage(m, addSerial[c])
        BY <1>0, <1>1, <1>2, FlowHere, FlowTakes
    <2>2. Matches(m, adds)
        <3>1. m \in Range(inbox[c])
            <4>1. IsSequence(inbox[c])
                BY <1>0, FlowHere DEF Flow
            <4> QED
                BY <1>1, <1>2, <4>1, Removed
        <3>2. \A x \in Range(inbox[c]) : Matches(x, callbacks[c].add)
            BY CatalogHere DEF Catalogued
        <3> QED
            BY <1>1, <3>1, <3>2, Zenon
    <2> QED
        BY <1>1, <1>2, <2>1, <2>2, Arguments DEF IsMessage, Matches
<1>4. \/ Answers(c, "assetAdded", serial, 0)
      \/ Dies(c)
      \/ \E t \in Time : /\ StoresAsset(c, d, <<c, serial>>, t)
                         /\ Answers(c, "assetAdded", serial, Head(keys))
    BY <1>0, <1>1, AddStringMeans, Zenon
<1>5. CASE Answers(c, "assetAdded", serial, 0)
    <2>1. PICK a : a = [reply |-> "assetAdded", to |-> serial, data |-> 0]
        OBVIOUS
    <2>2. \A d1 : IsTrue(a, c, d1, adds, addSerial[c])
        BY <1>3, <2>1, SMT DEF IsTrue
    <2> QED
        BY <1>1, <1>5, <2>1, <2>2, Zenon DEF Says
<1>6. CASE Dies(c)
    BY <1>6 DEF Says
<1>7. ASSUME NEW t \in Time, StoresAsset(c, d, <<c, serial>>, t),
             Answers(c, "assetAdded", serial, Head(keys))
      PROVE  Says(c)
    <2>1. PICK key, asset, d1 :
             key = Head(keys) /\ asset = AssetOf(d, key, <<c, serial>>) /\ d1 = db'
        OBVIOUS
    <2>2. keys # <<>> /\ d1 = storeAsset(db, key, asset, t)
        BY <1>7, <2>1, Zenon DEF StoresAsset
    <2>3. IsAssetStored(d1, db, key, asset, t)
        BY <2>2, AssetStored
    <2>4. /\ DOMAIN d1 = DOMAIN db \cup {AssetKey(key)} \cup EntryKeys(asset, t, key)
                           \cup NameKeys(asset)
          /\ d1[AssetKey(key)] = asset
        BY <2>3, Zenon DEF IsAssetStored
    <2>5. /\ asset.content = <<c, serial>> /\ asset.lists = Draft[d].lists
          /\ asset.name = Draft[d].name
        BY <2>1 DEF AssetOf
    <2>6. key \in Key
        BY <1>0, <2>1, <2>2, DrawTyped DEF ServerTypes
    <2>7. ASSUME NEW l \in Draft[d].lists PROVE \E k \in DOMAIN d1 : EntryOf(k, l) /\ k[4] = key
        <3>1. PICK k : k = ListEntryKey(l, t, key)
            OBVIOUS
        <3>2. k \in DOMAIN d1
            BY <2>4, <2>5, <3>1, Zenon DEF EntryKeys
        <3>3. EntryOf(k, l) /\ k[4] = key
            BY <3>1, KeyParts DEF EntryOf
        <3> QED
            BY <3>2, <3>3
    <2>8. Draft[d].name # NoName => AssetNameKey(Draft[d].name) \in DOMAIN d1
        BY <2>4, <2>5 DEF NameKeys
    <2>9. AddedTo(d1, c, serial, d, key)
        BY <2>4, <2>5, <2>6, <2>7, <2>8, Zenon DEF AddedTo
    <2>10. PICK a : a = [reply |-> "assetAdded", to |-> serial, data |-> key]
        OBVIOUS
    <2>11. IsTrue(a, c, d1, adds, addSerial[c])
        <3>1. a.reply = "assetAdded" /\ a.to = serial /\ a.data = key
            BY <2>10
        <3>2. \A cb \in adds : cb[1] = serial => AddedTo(d1, c, serial, cb[2], key)
            BY <1>3, <2>9, Zenon
        <3> QED
            BY <1>3, <3>1, <3>2, Zenon DEF IsTrue
    <2> QED
        BY <1>1, <1>7, <2>1, <2>10, <2>11, Zenon DEF Says
<1> QED
    BY <1>4, <1>5, <1>6, <1>7, Zenon

LEMMA HandleSays ==
    ASSUME CatalogInv, NEW c \in Client, Handle(c)
    PROVE  /\ IsCatalog' /\ Grows(db, db')
           /\ Says(c)
           /\ \E l1 : local' = [local EXCEPT ![c] = l1] /\ Copies(l1, db')
<1>1. IsCatalog' /\ Grows(db, db')
    BY CatalogHere, HandleGrows
<1>2. CASE HandleFind(c)
    BY <1>1, <1>2, FindSays
<1>3. CASE HandleFindName(c)
    BY <1>1, <1>3, FindNameSays
<1>4. CASE HandleAddString(c)
    <2>1. UNCHANGED local
        BY <1>4, Zenon DEF HandleAddString
    <2> QED
        BY <1>1, <1>4, <2>1, AddSays, NothingSays
<1>5. CASE Rejected(c)
    <2>1. UNCHANGED local /\ Says(c)
        BY <1>5, Zenon DEF Rejected, Says
    <2> QED
        BY <1>1, <2>1, NothingSays
<1>6. CASE HandleListAdd(c) \/ HandleListFind(c) \/ HandleListNext(c)
    <2>1. /\ UNCHANGED local
          /\ \E reply \in {"listFound", "listError", "listItems"} : \E to, data :
                Answers(c, reply, to, data)
        BY <1>6, Zenon DEF HandleListAdd, HandleListFind, HandleListNext
    <2>2. Says(c)
        <3>0. PICK reply \in {"listFound", "listError", "listItems"} :
                 \E to, data : Answers(c, reply, to, data)
            BY <2>1
        <3>1. PICK to, data : Answers(c, reply, to, data)
            BY <3>0
        <3>2. reply \notin {"assetFound", "assetAdded"}
            OBVIOUS
        <3> QED
            BY <3>1, <3>2, OtherSays
    <2> QED
        BY <1>1, <2>1, <2>2, NothingSays
<1> QED
    BY <1>2, <1>3, <1>4, <1>5, <1>6 DEF Handle

(***************************************************************************)
(* The invariant is kept                                                   *)
(***************************************************************************)
LEMMA CataloguedStays ==
    ASSUME NEW c, NEW d, NEW d1, NEW l, NEW l1, NEW in, NEW in1, NEW out, NEW out1,
           NEW adds, NEW adds1, NEW serial \in Nat, NEW told,
           Catalogued(c, d, l, in, out, adds, serial, told), Grows(d, d1), Copies(l1, d1),
           Range(in1) \subseteq Range(in), adds1 \subseteq adds,
           \A a \in Range(out1) : a \in Range(out) \/ IsTrue(a, c, d1, adds1, serial)
    PROVE  Catalogued(c, d1, l1, in1, out1, adds1, serial, told)
<1>1. /\ \A m \in Range(in) : Matches(m, adds)
      /\ \A a \in Range(out) : IsTrue(a, c, d, adds, serial)
      /\ \A t \in told : t[3] # 0 => AddedTo(d, c, t[1], t[2], t[3])
    BY DEF Catalogued
<1>2. \A m \in Range(in1) : Matches(m, adds1)
    BY <1>1, Zenon DEF Matches
<1>3. \A a \in Range(out1) : IsTrue(a, c, d1, adds1, serial)
    <2>1. \A a \in Range(out) : IsTrue(a, c, d1, adds1, serial)
        BY <1>1, TrueStays
    <2> QED
        BY <2>1
<1>4. \A t \in told : t[3] # 0 => AddedTo(d1, c, t[1], t[2], t[3])
    BY <1>1, AddedStays
<1> QED
    BY <1>2, <1>3, <1>4 DEF Catalogued

(* Only one client changes, and the database only grows.                   *)
LEMMA CatalogChanges ==
    ASSUME CatalogInv, TypeInv', IsCatalog', Grows(db, db'), NEW c \in Client,
           Catalogued(c, db', local'[c], inbox'[c], outbox'[c], callbacks'[c].add,
                      addSerial'[c], added'[c]),
           \A e \in Client \ {c} :
              /\ local'[e] = local[e] /\ inbox'[e] = inbox[e] /\ outbox'[e] = outbox[e]
              /\ callbacks'[e] = callbacks[e] /\ addSerial'[e] = addSerial[e]
              /\ added'[e] = added[e]
    PROVE  CatalogInv'
<1>1. ASSUME NEW e \in Client \ {c}
      PROVE  Catalogued(e, db', local'[e], inbox'[e], outbox'[e], callbacks'[e].add,
                        addSerial'[e], added'[e])
    <2>1. PICK l, in, out, cbs, serial, told :
             /\ l = local[e] /\ in = inbox[e] /\ out = outbox[e]
             /\ cbs = callbacks[e] /\ serial = addSerial[e] /\ told = added[e]
        OBVIOUS
    <2>2. Catalogued(e, db, l, in, out, cbs.add, serial, told) /\ serial \in Nat
        <3>1. e \in Client
            OBVIOUS
        <3>2. addSerial[e] \in Nat
            BY <3>1, CatalogHere, FlowHere
        <3> QED
            BY <2>1, <3>1, <3>2, CatalogHere
    <2>3. Copies(l, db')
        BY <2>2, CopiesStay DEF Catalogued
    <2>4. Catalogued(e, db', l, in, out, cbs.add, serial, told)
        BY <2>2, <2>3, CataloguedStays
    <2>5. /\ local'[e] = l /\ inbox'[e] = in /\ outbox'[e] = out
          /\ callbacks'[e] = cbs /\ addSerial'[e] = serial /\ added'[e] = told
        BY <2>1, Zenon
    <2> QED
        BY <2>4, <2>5, Zenon
<1>2. \A e \in Client :
         Catalogued(e, db', local'[e], inbox'[e], outbox'[e], callbacks'[e].add,
                    addSerial'[e], added'[e])
    BY <1>1, Zenon
<1> QED
    BY <1>2, Zenon DEF CatalogInv

LEMMA Others ==
    ASSUME NEW f, IsMap(f), NEW c \in Client, NEW x, NEW f1, f1 = [f EXCEPT ![c] = x]
    PROVE  f1[c] = x /\ \A e \in Client \ {c} : f1[e] = f[e]
BY MapKept

LEMMA FlowMaps ==
    ASSUME FlowTypes
    PROVE  IsMap(inbox) /\ IsMap(outbox) /\ IsMap(up) /\ IsMap(addSerial)
<1>1. IsMap(inbox) /\ IsMap(outbox)
    BY DEF FlowTypes, IsMap
<1>2. up \in [Client -> BOOLEAN] /\ addSerial \in [Client -> Nat \ {0}]
    BY DEF FlowTypes
<1> QED
    BY <1>1, <1>2, Zenon DEF IsMap

LEMMA HandleCatalog ==
    ASSUME CatalogInv, TypeInv', NEW c \in Client, Handle(c)
    PROVE  CatalogInv'
<1>1. FlowTypes /\ ServerTypes /\ IsMap(local) /\ IsMap(inbox) /\ IsMap(outbox)
    BY CatalogHere, FlowMaps
<1>2. IsCatalog' /\ Grows(db, db') /\ Says(c)
    BY HandleSays
<1>3. PICK l1 : local' = [local EXCEPT ![c] = l1] /\ Copies(l1, db')
    BY HandleSays
<1>4. inbox[c] # <<>> /\ UNCHANGED <<callbacks, addSerial, added>>
    BY <1>1, HandleServes DEF scVars
<1>5. PICK in, out, adds, serial, d1 :
         /\ in = inbox[c] /\ out = outbox[c] /\ adds = callbacks[c].add
         /\ serial = addSerial[c] /\ d1 = db'
    OBVIOUS
<1>6. IsSequence(in) /\ IsSequence(out) /\ serial \in Nat
    BY <1>1, <1>5, FlowHere DEF Flow
<1>7. PICK in1, out1 :
         /\ inbox' = [inbox EXCEPT ![c] = in1]
         /\ outbox' = [outbox EXCEPT ![c] = out1]
         /\ Range(in1) \subseteq Range(in)
         /\ \A a \in Range(out1) : a \in Range(out) \/ IsTrue(a, c, d1, adds, serial)
    <2>1. CASE Drops(c)
        <3>1. inbox' = [inbox EXCEPT ![c] = Tail(in)] /\ outbox' = [outbox EXCEPT ![c] = out]
            BY <1>1, <1>5, <2>1, MapKept, Zenon DEF Drops
        <3>2. Range(Tail(in)) \subseteq Range(in)
            BY <1>4, <1>5, <1>6, Removed
        <3> QED
            BY <3>1, <3>2
    <2>2. CASE Dies(c)
        <3>1. inbox' = [inbox EXCEPT ![c] = <<>>] /\ outbox' = [outbox EXCEPT ![c] = out]
            BY <1>1, <1>5, <2>2, MapKept, Zenon DEF Dies
        <3>2. Range(<<>>) \subseteq Range(in)
            BY NoElements
        <3> QED
            BY <3>1, <3>2
    <2>3. ASSUME NEW reply, NEW to, NEW data, Answers(c, reply, to, data),
                 IsTrue([reply |-> reply, to |-> to, data |-> data], c, db', callbacks[c].add,
                        addSerial[c])
          PROVE  \E in1, out1 :
                    /\ inbox' = [inbox EXCEPT ![c] = in1]
                    /\ outbox' = [outbox EXCEPT ![c] = out1]
                    /\ Range(in1) \subseteq Range(in)
                    /\ \A a \in Range(out1) : a \in Range(out) \/ IsTrue(a, c, d1, adds, serial)
        <3>1. PICK b : b = [reply |-> reply, to |-> to, data |-> data]
            OBVIOUS
        <3>2. IsTrue(b, c, d1, adds, serial)
            BY <1>5, <2>3, <3>1, Zenon
        <3>3. /\ inbox' = [inbox EXCEPT ![c] = Tail(in)]
              /\ outbox' = [outbox EXCEPT ![c] = Append(out, b)]
            BY <1>5, <2>3, <3>1, Zenon DEF Answers
        <3>4. Range(Tail(in)) \subseteq Range(in) /\ Range(Append(out, b)) = Range(out) \cup {b}
            BY <1>4, <1>5, <1>6, Removed, Appended
        <3>5. \A a \in Range(Append(out, b)) : a \in Range(out) \/ IsTrue(a, c, d1, adds, serial)
            BY <3>2, <3>4
        <3> QED
            BY <3>3, <3>4, <3>5
    <2> QED
        BY <1>2, <2>1, <2>2, <2>3, Zenon DEF Says
<1>8. PICK l, told : l = local[c] /\ told = added[c]
    OBVIOUS
<1>9. Catalogued(c, d1, l1, in1, out1, adds, serial, told)
    <2>1. Catalogued(c, db, l, in, out, adds, serial, told)
        BY <1>5, <1>8, CatalogHere
    <2>2. Grows(db, d1) /\ Copies(l1, d1)
        BY <1>2, <1>3, <1>5
    <2> QED
        BY <1>6, <1>7, <2>1, <2>2, CataloguedStays
<1>10. /\ local'[c] = l1 /\ \A e \in Client \ {c} : local'[e] = local[e]
       /\ inbox'[c] = in1 /\ \A e \in Client \ {c} : inbox'[e] = inbox[e]
       /\ outbox'[c] = out1 /\ \A e \in Client \ {c} : outbox'[e] = outbox[e]
    <2>1. local'[c] = l1 /\ \A e \in Client \ {c} : local'[e] = local[e]
        <3>1. PICK g : g = [local EXCEPT ![c] = l1]
            OBVIOUS
        <3>2. g[c] = l1 /\ \A e \in Client \ {c} : g[e] = local[e]
            <4>1. IsMap(local)
                BY <1>1
            <4> HIDE <1>1, <1>3, <1>7
            <4> QED
                BY <4>1, <3>1, Others
        <3>3. local' = g
            BY <1>3, <3>1, Zenon
        <3> QED
            BY <3>2, <3>3, Zenon
    <2>2. inbox'[c] = in1 /\ \A e \in Client \ {c} : inbox'[e] = inbox[e]
        <3>1. PICK g : g = [inbox EXCEPT ![c] = in1]
            OBVIOUS
        <3>2. g[c] = in1 /\ \A e \in Client \ {c} : g[e] = inbox[e]
            BY <1>1, <3>1, Others
        <3>3. inbox' = g
            BY <1>7, <3>1, Zenon
        <3> QED
            BY <3>2, <3>3, Zenon
    <2>3. outbox'[c] = out1 /\ \A e \in Client \ {c} : outbox'[e] = outbox[e]
        <3>1. PICK g : g = [outbox EXCEPT ![c] = out1]
            OBVIOUS
        <3>2. g[c] = out1 /\ \A e \in Client \ {c} : g[e] = outbox[e]
            BY <1>1, <3>1, Others
        <3>3. outbox' = g
            BY <1>7, <3>1, Zenon
        <3> QED
            BY <3>2, <3>3, Zenon
    <2> QED
        BY <2>1, <2>2, <2>3
<1>11. /\ callbacks' = callbacks /\ addSerial' = addSerial /\ added' = added
    BY <1>4
<1>12. Catalogued(c, db', local'[c], inbox'[c], outbox'[c], callbacks'[c].add,
                  addSerial'[c], added'[c])
    BY <1>5, <1>8, <1>9, <1>10, <1>11, Zenon
<1> QED
    BY <1>2, <1>10, <1>11, <1>12, CatalogChanges, Zenon

(* SuperCollider calls, or hears an answer.                                *)
Sets(f1, f, c, x) == f1 = [f EXCEPT ![c] = x]

LEMMA SetsMeans ==
    ASSUME NEW f, IsMap(f), NEW c \in Client, NEW x, NEW f1, Sets(f1, f, c, x)
    PROVE  f1[c] = x /\ \A e \in Client \ {c} : f1[e] = f[e]
BY MapKept DEF Sets

LEMMA ClientCatalog ==
    ASSUME CatalogInv, TypeInv', NEW c \in Client, UNCHANGED confabVars,
           NEW in1, Sets(inbox', inbox, c, in1),
           NEW out1, Sets(outbox', outbox, c, out1),
           NEW cbs1, Sets(callbacks', callbacks, c, cbs1),
           NEW s1, Sets(addSerial', addSerial, c, s1),
           NEW told1, Sets(added', added, c, told1),
           Catalogued(c, db, local[c], in1, out1, cbs1.add, s1, told1)
    PROVE  CatalogInv'
<1>1. /\ IsMap(inbox) /\ IsMap(outbox) /\ IsMap(callbacks) /\ IsMap(addSerial)
      /\ IsMap(added) /\ IsCatalog
    BY CatalogHere, FlowMaps, CallMaps
<1>2. inbox'[c] = in1 /\ \A e \in Client \ {c} : inbox'[e] = inbox[e]
    BY <1>1, SetsMeans
<1>3. outbox'[c] = out1 /\ \A e \in Client \ {c} : outbox'[e] = outbox[e]
    BY <1>1, SetsMeans
<1>4. callbacks'[c] = cbs1 /\ \A e \in Client \ {c} : callbacks'[e] = callbacks[e]
    BY <1>1, SetsMeans
<1>5. addSerial'[c] = s1 /\ \A e \in Client \ {c} : addSerial'[e] = addSerial[e]
    BY <1>1, SetsMeans
<1>6. added'[c] = told1 /\ \A e \in Client \ {c} : added'[e] = added[e]
    BY <1>1, SetsMeans
<1>7. local' = local /\ db' = db /\ keys' = keys
    BY DEF confabVars
<1>8. IsCatalog' /\ Grows(db, db')
    BY <1>1, <1>7, GrowsItself, Zenon DEF IsCatalog
<1>9. Catalogued(c, db', local'[c], inbox'[c], outbox'[c], callbacks'[c].add,
                 addSerial'[c], added'[c])
    BY <1>2, <1>3, <1>4, <1>5, <1>6, <1>7, Zenon
<1>10. \A e \in Client \ {c} :
          /\ local'[e] = local[e] /\ inbox'[e] = inbox[e] /\ outbox'[e] = outbox[e]
          /\ callbacks'[e] = callbacks[e] /\ addSerial'[e] = addSerial[e]
          /\ added'[e] = added[e]
    BY <1>2, <1>3, <1>4, <1>5, <1>6, <1>7, Zenon
<1> QED
    BY <1>8, <1>9, <1>10, CatalogChanges, Zenon

(* A new message is given the next serial, which nothing in flight has.    *)
LEMMA CataloguedAdds ==
    ASSUME NEW c, NEW d, NEW l, NEW in, NEW out, NEW adds, NEW serial \in Nat, NEW told,
           Catalogued(c, d, l, in, out, adds, serial, told), IsSequence(in),
           \A m \in Range(in) : IsMessage(m, serial),
           \A cb \in adds : cb[1] < serial /\ cb[1] \in Nat,
           NEW name
    PROVE  Catalogued(c, d, l, Append(in, Message("assetAddString", name, serial)), out,
                      adds \cup {<<serial, name>>}, serial + 1, told)
<1>1. PICK new, adds1, m1, in1 :
         /\ new = <<serial, name>> /\ adds1 = adds \cup {new}
         /\ m1 = Message("assetAddString", name, serial) /\ in1 = Append(in, m1)
    OBVIOUS
<1>2. /\ \A m \in Range(in) : Matches(m, adds)
      /\ \A a \in Range(out) : IsTrue(a, c, d, adds, serial)
    BY DEF Catalogued
<1>3. /\ new[1] = serial /\ new[2] = name
      /\ m1.cmd = "assetAddString" /\ m1.arg = name /\ m1.n = serial
    BY <1>1 DEF Message
<1>4. ASSUME NEW m \in Range(in1) PROVE Matches(m, adds1)
    <2>1. CASE m = m1
        <3>1. \A cb \in adds1 : cb[1] = serial => cb[2] = name
            BY <1>1, <1>3
        <3> QED
            BY <1>3, <2>1, <3>1, Zenon DEF Matches
    <2>2. CASE m \in Range(in)
        <3>1. m.cmd = "assetAddString" => m.n < serial /\ m.n \in Nat
            <4>1. IsMessage(m, serial)
                BY <2>2
            <4> QED
                BY <4>1, Arguments DEF IsMessage
        <3>2. m.cmd = "assetAddString" => new[1] # m.n
            BY <1>3, <3>1
        <3>3. Matches(m, adds)
            BY <1>2, <2>2
        <3> QED
            BY <1>1, <3>2, <3>3 DEF Matches
    <2>3. Range(in1) = Range(in) \cup {m1}
        BY <1>1, Appended
    <2> QED
        BY <2>1, <2>2, <2>3
<1>5. ASSUME NEW a \in Range(out) PROVE IsTrue(a, c, d, adds1, serial + 1)
    <2>1. IsTrue(a, c, d, adds, serial)
        BY <1>2
    <2>2. CASE a.reply = "assetAdded"
        <3>1. a.to \in Nat /\ a.to < serial
            BY <2>1, <2>2 DEF IsTrue
        <3>2. a.to < serial + 1 /\ new[1] # a.to
            BY <1>3, <3>1
        <3>3. a.data # 0 => \A cb \in adds1 : cb[1] = a.to => AddedTo(d, c, a.to, cb[2], a.data)
            <4>1. a.data # 0 => \A cb \in adds : cb[1] = a.to => AddedTo(d, c, a.to, cb[2], a.data)
                BY <2>1, <2>2, Zenon DEF IsTrue
            <4> QED
                BY <1>1, <3>2, <4>1
        <3>4. a.reply # "assetFound"
            BY <2>2
        <3> QED
            BY <3>1, <3>2, <3>3, <3>4, Zenon DEF IsTrue
    <2>3. CASE a.reply # "assetAdded"
        BY <2>1, <2>3, Zenon DEF IsTrue
    <2> QED
        BY <2>2, <2>3
<1>6. Catalogued(c, d, l, in1, out, adds1, serial + 1, told)
    BY <1>4, <1>5 DEF Catalogued
<1> QED
    BY <1>1, <1>6, Zenon

(* Any other message.                                                      *)
LEMMA CataloguedAsks ==
    ASSUME NEW c, NEW d, NEW l, NEW in, NEW out, NEW adds, NEW serial, NEW told,
           Catalogued(c, d, l, in, out, adds, serial, told), IsSequence(in),
           NEW m1, m1.cmd # "assetAddString"
    PROVE  Catalogued(c, d, l, Append(in, m1), out, adds, serial, told)
<1>1. Range(Append(in, m1)) = Range(in) \cup {m1}
    BY Appended
<1>2. Matches(m1, adds)
    BY DEF Matches
<1> QED
    BY <1>1, <1>2 DEF Catalogued

LEMMA StaysSet ==
    ASSUME NEW f, IsMap(f), NEW c \in Client, NEW f1, f1 = f
    PROVE  Sets(f1, f, c, f[c])
BY MapKept DEF Sets

LEMMA CallsCatalog ==
    ASSUME CatalogInv, TypeInv', NEW c \in Client, Calls(c)
    PROVE  CatalogInv'
<1>1. PICK in, out, cbs, s, told, l :
         /\ in = inbox[c] /\ out = outbox[c] /\ cbs = callbacks[c]
         /\ s = addSerial[c] /\ told = added[c] /\ l = local[c]
    OBVIOUS
<1>2. /\ Catalogued(c, db, l, in, out, cbs.add, s, told)
      /\ IsSequence(in) /\ s \in Nat /\ \A m \in Range(in) : IsMessage(m, s)
    BY <1>1, CatalogHere, FlowHere DEF Flow
<1>3. /\ IsMap(inbox) /\ IsMap(outbox) /\ IsMap(callbacks) /\ IsMap(addSerial)
      /\ IsMap(added) /\ IsCallbacks(cbs, s)
    BY <1>1, CatalogHere, FlowMaps, CallMaps, CallHere
<1>4. cbs.add \in SUBSET (Nat \X DOMAIN Draft) /\ \A cb \in cbs.add : cb[1] < s
      /\ cbs \in [add : SUBSET (Nat \X DOMAIN Draft), find : SUBSET (Ids \cup Names),
                  list : SUBSET (({"id"} \X Key) \cup Names)]
    BY <1>3 DEF IsCallbacks
<1>5. /\ UNCHANGED confabVars
      /\ Sets(outbox', outbox, c, out) /\ Sets(added', added, c, told)
    <2>1. UNCHANGED <<confabVars, outbox, added>>
        BY CallsHistory
    <2>2. outbox' = outbox /\ added' = added
        BY <2>1
    <2>3. Sets(outbox', outbox, c, outbox[c]) /\ Sets(added', added, c, added[c])
        BY <1>3, <2>2, StaysSet
    <2> QED
        BY <1>1, <2>1, <2>3
<1>6. ASSUME NEW cmd, NEW arg, NEW m, Ask(c, cmd, arg), Send(c, m)
      PROVE  Sets(inbox', inbox, c, Append(in, m))
    <2>1. up[c]
        BY <1>6, AskMeans, Zenon
    <2> QED
        BY <1>1, <1>6, <2>1, Zenon DEF Send, Sets
<1>7. ASSUME NEW d \in DOMAIN Draft, Adds(c, d) PROVE CatalogInv'
    <2>1. PICK adds1, cbs1 :
             /\ adds1 = cbs.add \cup {<<s, d>>} /\ cbs1 = [cbs EXCEPT !.add = adds1]
        OBVIOUS
    <2>2. PICK m : m = Message("assetAddString", d, s)
        OBVIOUS
    <2>3. Sets(inbox', inbox, c, Append(in, m))
        BY <1>1, <1>6, <1>7, <2>2, Zenon DEF Adds
    <2>4. Sets(callbacks', callbacks, c, cbs1)
        BY <1>1, <1>7, <2>1, Zenon DEF Adds, Sets
    <2>5. Sets(addSerial', addSerial, c, s + 1)
        BY <1>1, <1>7, Zenon DEF Adds, Sets
    <2>6. cbs1.add = adds1
        BY <1>4, <2>1
    <2>7. Catalogued(c, db, l, Append(in, m), out, adds1, s + 1, told)
        <3>1. \A cb \in cbs.add : cb[1] < s /\ cb[1] \in Nat
            BY <1>4
        <3> QED
            BY <1>2, <2>1, <2>2, <3>1, CataloguedAdds
    <2>8. Catalogued(c, db, local[c], Append(in, m), out, cbs1.add, s + 1, told)
        BY <1>1, <2>6, <2>7, Zenon
    <2> HIDE <1>1, <2>1, <2>2, <1>7
    <2> QED
        BY <1>5, <2>3, <2>4, <2>5, <2>8, ClientCatalog
<1>8. ASSUME NEW cmd, NEW arg, NEW m, Ask(c, cmd, arg), Send(c, m),
             m.cmd # "assetAddString", addSerial' = addSerial,
             NEW cbs1, cbs1.add = cbs.add, Sets(callbacks', callbacks, c, cbs1)
      PROVE  CatalogInv'
    <2>1. Sets(inbox', inbox, c, Append(in, m))
        BY <1>6, <1>8
    <2>2. Catalogued(c, db, l, Append(in, m), out, cbs.add, s, told)
        BY <1>2, <1>8, CataloguedAsks
    <2>3. Catalogued(c, db, local[c], Append(in, m), out, cbs1.add, s, told)
        BY <1>1, <1>8, <2>2, Zenon
    <2>4. Sets(addSerial', addSerial, c, s)
        BY <1>1, <1>3, <1>8, StaysSet
    <2>5. Sets(callbacks', callbacks, c, cbs1)
        BY <1>8
    <2> HIDE <1>1, <1>8
    <2> QED
        BY <1>5, <2>1, <2>3, <2>4, <2>5, ClientCatalog
<1>9. ASSUME NEW find PROVE [cbs EXCEPT !.find = find].add = cbs.add
    BY <1>4
<1>10. ASSUME NEW list PROVE [cbs EXCEPT !.list = list].add = cbs.add
    BY <1>4
<1>11. ASSUME NEW cmd, NEW arg, NEW x, Find(c, cmd, arg, x), cmd # "assetAddString"
       PROVE  CatalogInv'
    <2>1. PICK m, cbs1 : m = Message(cmd, arg, 0) /\ cbs1 = [cbs EXCEPT !.find = cbs.find \cup {x}]
        OBVIOUS
    <2>2. Ask(c, cmd, arg) /\ Send(c, m) /\ addSerial' = addSerial
        BY <1>11, <2>1, Zenon DEF Find
    <2>3. Sets(callbacks', callbacks, c, cbs1)
        BY <1>1, <1>11, <2>1, Zenon DEF Find, Sets
    <2>4. cbs1.add = cbs.add
        BY <1>9, <2>1
    <2>5. m.cmd # "assetAddString"
        BY <1>11, <2>1 DEF Message
    <2> QED
        BY <1>8, <2>2, <2>3, <2>4, <2>5
<1>12. ASSUME NEW cmd, NEW n, NameList(c, cmd, n), cmd # "assetAddString"
       PROVE  CatalogInv'
    <2>1. PICK m, cbs1 :
             /\ m = Message(cmd, n, 0) /\ cbs1 = [cbs EXCEPT !.list = cbs.list \cup {Named(n)}]
        OBVIOUS
    <2>2. Ask(c, cmd, n) /\ Send(c, m) /\ addSerial' = addSerial
        BY <1>12, <2>1, Zenon DEF NameList
    <2>3. Sets(callbacks', callbacks, c, cbs1)
        BY <1>1, <1>12, <2>1, Zenon DEF NameList, Sets
    <2>4. cbs1.add = cbs.add
        BY <1>10, <2>1
    <2>5. m.cmd # "assetAddString"
        BY <1>12, <2>1 DEF Message
    <2> QED
        BY <1>8, <2>2, <2>3, <2>4, <2>5
<1>13. ASSUME NEW n, Walks(c, n) PROVE CatalogInv'
    <2>1. PICK m, cbs1 :
             /\ m = Message("listNext", n, kBeginList)
             /\ cbs1 = [cbs EXCEPT !.list = cbs.list \cup {Id(n)}]
        OBVIOUS
    <2>2. Ask(c, "listNext", n) /\ Send(c, m) /\ addSerial' = addSerial
        BY <1>13, <2>1, Zenon DEF Walks
    <2>3. Sets(callbacks', callbacks, c, cbs1)
        BY <1>1, <1>13, <2>1, Zenon DEF Walks, Sets
    <2>4. cbs1.add = cbs.add
        BY <1>10, <2>1
    <2>5. m.cmd # "assetAddString"
        BY <2>1 DEF Message
    <2> QED
        BY <1>8, <2>2, <2>3, <2>4, <2>5
<1> QED
    BY <1>7, <1>11, <1>12, <1>13, CallsAre

(* Every answer but that to an addition leaves what was added as it is.    *)
LEMMA OtherReceives ==
    ASSUME NEW c, Receives(c), ~ OnAssetAdded(c),
           \A find : [callbacks[c] EXCEPT !.find = find].add = callbacks[c].add,
           \A list : [callbacks[c] EXCEPT !.list = list].add = callbacks[c].add
    PROVE  /\ Listens(c) /\ UNCHANGED added
           /\ \/ callbacks' = callbacks
              \/ \E cbs1 : /\ Sets(callbacks', callbacks, c, cbs1)
                           /\ cbs1.add = callbacks[c].add
           /\ \/ inbox' = inbox
              \/ \E m : Send(c, m) /\ m.cmd # "assetAddString"
<1>1. \A arg, n : /\ Message("assetFind", arg, n).cmd # "assetAddString"
                  /\ Message("assetFindName", arg, n).cmd # "assetAddString"
                  /\ Message("listNext", arg, n).cmd # "assetAddString"
    BY DEF Message
<1>2. ASSUME NEW reply, OnFound(c, reply)
      PROVE  /\ Listens(c) /\ UNCHANGED added
             /\ \E cbs1 : /\ Sets(callbacks', callbacks, c, cbs1)
                          /\ cbs1.add = callbacks[c].add
             /\ \/ inbox' = inbox
                \/ \E m : Send(c, m) /\ m.cmd # "assetAddString"
    <2>1. PICK to : to = Head(outbox[c]).to
        OBVIOUS
    <2>2. /\ Hears(c, reply) /\ UNCHANGED <<addSerial, walk, added>>
          /\ callbacks' = [callbacks EXCEPT ![c].find = @ \ {to}]
          /\ \/ inbox' = inbox
             \/ Send(c, Message(Again(to), to[2], 0))
        BY <1>2, <2>1, FoundMeans, Zenon
    <2>3. PICK cbs1 : cbs1 = [callbacks[c] EXCEPT !.find = callbacks[c].find \ {to}]
        OBVIOUS
    <2>4. Sets(callbacks', callbacks, c, cbs1) /\ cbs1.add = callbacks[c].add
        BY <2>2, <2>3, Zenon DEF Sets
    <2>5. Listens(c)
        BY <2>2, HearsListens
    <2>6. Message(Again(to), to[2], 0).cmd # "assetAddString"
        BY <1>1 DEF Again
    <2> QED
        BY <2>2, <2>4, <2>5, <2>6, Zenon
<1>3. CASE OnListFound(c)
    <2>1. PICK to : to = Head(outbox[c]).to
        OBVIOUS
    <2>2. /\ Hears(c, "listFound") /\ UNCHANGED <<addSerial, added>>
          /\ callbacks' = [callbacks EXCEPT ![c].list = @ \ {to}]
          /\ \/ inbox' = inbox
             \/ \E cmd \in {"listAdd", "listFind"} : Send(c, Message(cmd, to[2], 0))
        BY <1>3, <2>1, ListFoundMeans, Zenon
    <2>6. \A cmd \in {"listAdd", "listFind"} :
             Message(cmd, to[2], 0).cmd # "assetAddString"
        BY DEF Message
    <2>3. PICK cbs1 : cbs1 = [callbacks[c] EXCEPT !.list = callbacks[c].list \ {to}]
        OBVIOUS
    <2>4. Sets(callbacks', callbacks, c, cbs1) /\ cbs1.add = callbacks[c].add
        BY <2>2, <2>3, Zenon DEF Sets
    <2>5. Listens(c)
        BY <2>2, HearsListens
    <2> QED
        BY <2>2, <2>4, <2>5, <2>6, Zenon
<1>4. CASE OnListError(c)
    <2>1. Hears(c, "listError") /\ UNCHANGED <<addSerial, added, inbox, callbacks>>
        BY <1>4, Zenon DEF OnListError
    <2> QED
        BY <2>1, HearsListens
<1>5. CASE OnListItems(c)
    <2>1. PICK page : page = Head(outbox[c]).data
        OBVIOUS
    <2>2. /\ Hears(c, "listItems") /\ UNCHANGED <<addSerial, added, callbacks>>
          /\ inbox' = inbox \/ Send(c, Message("listNext", walk[c].list, LastOf(page)[3]))
        BY <1>5, <2>1, ItemsMeans, Zenon
    <2>3. Listens(c)
        BY <2>2, HearsListens
    <2> QED
        BY <1>1, <2>2, <2>3, Zenon
<1> QED
    BY <1>2, <1>3, <1>4, <1>5, ReceivesAre, Zenon

LEMMA ReceivesCatalog ==
    ASSUME CatalogInv, TypeInv', NEW c \in Client, Receives(c)
    PROVE  CatalogInv'
<1>1. PICK in, out, cbs, s, told, l :
         /\ in = inbox[c] /\ out = outbox[c] /\ cbs = callbacks[c]
         /\ s = addSerial[c] /\ told = added[c] /\ l = local[c]
    OBVIOUS
<1>2. /\ Catalogued(c, db, l, in, out, cbs.add, s, told)
      /\ IsSequence(in) /\ IsSequence(out) /\ s \in Nat
    BY <1>1, CatalogHere, FlowHere DEF Flow
<1>3. /\ IsMap(inbox) /\ IsMap(outbox) /\ IsMap(callbacks) /\ IsMap(addSerial)
      /\ IsMap(added) /\ IsCallbacks(cbs, s)
    BY <1>1, CatalogHere, FlowMaps, CallMaps, CallHere
<1>4. cbs \in [add : SUBSET (Nat \X DOMAIN Draft), find : SUBSET (Ids \cup Names),
               list : SUBSET (({"id"} \X Key) \cup Names)]
    BY <1>3 DEF IsCallbacks
<1>5. UNCHANGED confabVars
    BY ReceivesHistory
<1>6. ASSUME Listens(c)
      PROVE  /\ Sets(outbox', outbox, c, Tail(out)) /\ Sets(addSerial', addSerial, c, s)
             /\ Range(Tail(out)) \subseteq Range(out) /\ Head(out) \in Range(out)
    <2>1. outbox' = [outbox EXCEPT ![c] = Tail(out)] /\ addSerial' = addSerial /\ out # <<>>
        BY <1>1, <1>6, Zenon DEF Listens
    <2>2. Sets(addSerial', addSerial, c, addSerial[c])
        BY <1>3, <2>1, StaysSet
    <2> QED
        BY <1>1, <1>2, <2>1, <2>2, Removed, Zenon DEF Sets
<1>7. CASE OnAssetAdded(c)
    <2>1. PICK serial, data, mine :
             /\ serial = Head(out).to /\ data = Head(out).data
             /\ mine = {cb \in cbs.add : cb[1] = serial}
        OBVIOUS
    <2>2. PICK cbs1, told1 :
             /\ cbs1 = [cbs EXCEPT !.add = cbs.add \ mine]
             /\ told1 = told \cup {<<cb[1], cb[2], data>> : cb \in mine}
        OBVIOUS
    <2>3. /\ Hears(c, "assetAdded") /\ UNCHANGED <<inbox, addSerial>>
          /\ callbacks' = [callbacks EXCEPT ![c].add = @ \ mine]
          /\ added' = [added EXCEPT ![c] = @ \cup {<<cb[1], cb[2], data>> : cb \in mine}]
        BY <1>1, <1>7, <2>1, Zenon DEF OnAssetAdded
    <2>4. Listens(c) /\ Head(out).reply = "assetAdded"
        BY <1>1, <2>3, HearsListens
    <2>5. /\ Sets(callbacks', callbacks, c, cbs1) /\ Sets(added', added, c, told1)
        BY <1>1, <2>2, <2>3, Zenon DEF Sets
    <2>6. Sets(inbox', inbox, c, in)
        BY <1>1, <1>3, <2>3, StaysSet
    <2>7. cbs1.add \subseteq cbs.add
        BY <1>4, <2>2
    <2>8. Catalogued(c, db, l, in, Tail(out), cbs1.add, s, told)
        <3>1. Grows(db, db) /\ Copies(l, db)
            BY <1>2, GrowsItself DEF Catalogued
        <3>2. \A a \in Range(Tail(out)) : a \in Range(out)
            BY <1>6, <2>4
        <3> QED
            BY <1>2, <2>7, <3>1, <3>2, CataloguedStays
    <2>9. \A x \in told1 : x[3] # 0 => AddedTo(db, c, x[1], x[2], x[3])
        <3>1. IsTrue(Head(out), c, db, cbs.add, s)
            BY <1>2, <1>6, <2>4 DEF Catalogued
        <3>2. data # 0 => \A cb \in cbs.add : cb[1] = serial => AddedTo(db, c, serial, cb[2], data)
            BY <2>1, <2>4, <3>1, Zenon DEF IsTrue
        <3>3. ASSUME NEW cb \in mine, data # 0
              PROVE  AddedTo(db, c, cb[1], cb[2], data)
            BY <2>1, <3>2, <3>3
        <3>4. ASSUME NEW x, NEW cb \in mine, x = <<cb[1], cb[2], data>>, x[3] # 0
              PROVE  AddedTo(db, c, x[1], x[2], x[3])
            <4>1. x[1] = cb[1] /\ x[2] = cb[2] /\ x[3] = data
                BY <3>4
            <4> QED
                BY <3>3, <3>4, <4>1, Zenon
        <3>5. \A x \in told : x[3] # 0 => AddedTo(db, c, x[1], x[2], x[3])
            BY <1>2 DEF Catalogued
        <3> QED
            BY <2>2, <3>4, <3>5, Zenon
    <2>10. Catalogued(c, db, local[c], in, Tail(out), cbs1.add, s, told1)
        BY <1>1, <2>8, <2>9, Zenon DEF Catalogued
    <2>11. Sets(outbox', outbox, c, Tail(out)) /\ Sets(addSerial', addSerial, c, s)
        BY <1>6, <2>4
    <2> HIDE <1>1, <2>1, <2>2, <2>3, <1>7
    <2> QED
        BY <1>5, <2>5, <2>6, <2>10, <2>11, ClientCatalog
<1>8. CASE ~ OnAssetAdded(c)
    <2>0. /\ \A find : [callbacks[c] EXCEPT !.find = find].add = callbacks[c].add
          /\ \A list : [callbacks[c] EXCEPT !.list = list].add = callbacks[c].add
        <3>1. /\ \A find : [cbs EXCEPT !.find = find].add = cbs.add
              /\ \A list : [cbs EXCEPT !.list = list].add = cbs.add
            BY <1>4
        <3> QED
            BY <1>1, <3>1, Zenon
    <2>1. /\ Listens(c) /\ UNCHANGED added
          /\ \/ callbacks' = callbacks
             \/ \E cbs1 : /\ Sets(callbacks', callbacks, c, cbs1)
                          /\ cbs1.add = callbacks[c].add
          /\ \/ inbox' = inbox
             \/ \E m : Send(c, m) /\ m.cmd # "assetAddString"
        BY <1>8, <2>0, OtherReceives
    <2>2. PICK cbs1 : Sets(callbacks', callbacks, c, cbs1) /\ cbs1.add = cbs.add
        <3>1. CASE callbacks' = callbacks
            <4>1. Sets(callbacks', callbacks, c, callbacks[c])
                BY <1>3, <3>1, StaysSet
            <4> QED
                BY <1>1, <4>1
        <3> QED
            BY <1>1, <2>1, <3>1
    <2>3. Catalogued(c, db, l, in, Tail(out), cbs.add, s, told)
        <3>1. Grows(db, db) /\ Copies(l, db)
            BY <1>2, GrowsItself DEF Catalogued
        <3>2. \A a \in Range(Tail(out)) : a \in Range(out)
            BY <1>6, <2>1
        <3> QED
            BY <1>2, <3>1, <3>2, CataloguedStays
    <2>4. PICK in1 : Sets(inbox', inbox, c, in1) /\ Catalogued(c, db, l, in1, Tail(out), cbs.add, s, told)
        <3>1. CASE inbox' = inbox
            <4>1. Sets(inbox', inbox, c, inbox[c])
                BY <1>3, <3>1, StaysSet
            <4> QED
                BY <1>1, <2>3, <4>1
        <3>2. ASSUME NEW m, Send(c, m), m.cmd # "assetAddString", inbox' # inbox
              PROVE  \E in1 : /\ Sets(inbox', inbox, c, in1)
                              /\ Catalogued(c, db, l, in1, Tail(out), cbs.add, s, told)
            <4>1. inbox' = [inbox EXCEPT ![c] = Append(in, m)]
                BY <1>1, <3>2, Zenon DEF Send
            <4>2. Catalogued(c, db, l, Append(in, m), Tail(out), cbs.add, s, told)
                BY <1>2, <2>3, <3>2, CataloguedAsks
            <4> QED
                BY <4>1, <4>2 DEF Sets
        <3> QED
            BY <2>1, <3>1, <3>2
    <2>5. Catalogued(c, db, local[c], in1, Tail(out), cbs1.add, s, told)
        BY <1>1, <2>2, <2>4, Zenon
    <2>6. Sets(outbox', outbox, c, Tail(out)) /\ Sets(addSerial', addSerial, c, s)
        BY <1>6, <2>1
    <2>7. Sets(added', added, c, told)
        <3>1. added' = added
            BY <2>1
        <3>2. Sets(added', added, c, added[c])
            BY <1>3, <3>1, StaysSet
        <3> QED
            BY <1>1, <3>2
    <2> HIDE <1>1, <2>1
    <2> QED
        BY <1>5, <2>2, <2>4, <2>5, <2>6, <2>7, ClientCatalog
<1> QED
    BY <1>7, <1>8

LEMMA CatalogInit ==
    ASSUME Init
    PROVE  CatalogInv
<1>1. TypeInv
    BY TypesInit
<1>2. PICK none, list, record, d, key, asset, time :
         /\ none = <<>> /\ list = OldList /\ record = OldRecord
         /\ d = storeList(none, list, record)
         /\ key = OldAsset.key /\ asset = OldAsset /\ time = OldTime
    OBVIOUS
<1>3. db = storeAsset(d, key, asset, time)
    BY <1>2, Zenon DEF Init, OldRecord
<1>4. IsListStored(d, none, list, record)
    BY <1>2, ListStored
<1>5. Sound(none) /\ DOMAIN none = {}
    BY <1>2, NoElements DEF Sound
<1>6. Sound(d)
    BY <1>4, <1>5, ListStoredSound
<1>7. \A n : AssetKey(n) \notin DOMAIN d
    <2> TAKE n
    <2>1. DOMAIN d = {ListKey(list)} \cup SentinelKeys(list) \cup ListNameKeys(record)
        BY <1>4, <1>5 DEF IsListStored
    <2>2. AssetKey(n)[1] = 1 /\ ListKey(list)[1] = 4
        BY KeyParts
    <2>3. AssetKey(n) \notin SentinelKeys(list) /\ AssetKey(n) \notin ListNameKeys(record)
        BY <2>2, StoredKeyParts
    <2> QED
        BY <2>1, <2>2, <2>3
<1>8. IsAssetStored(db, d, key, asset, time)
    <2>1. PICK d1 : d1 = db
        OBVIOUS
    <2>2. d1 = storeAsset(d, key, asset, time)
        BY <1>3, <2>1
    <2>3. IsAssetStored(d1, d, key, asset, time)
        BY <2>2, AssetStored
    <2> QED
        BY <2>1, <2>3
<1>9. asset.key = key
    BY <1>2
<1>10. Sound(db)
    <2>1. PICK d1 : d1 = db
        OBVIOUS
    <2>2. IsAssetStored(d1, d, key, asset, time)
        BY <1>8, <2>1
    <2>3. Sound(d1)
        BY <1>6, <1>7, <1>9, <2>2, AssetStoredSound
    <2> QED
        BY <2>1, <2>3
<1>11. AreNew(db, keys)
    <2> SUFFICES ASSUME NEW i \in DOMAIN keys PROVE AssetKey(keys[i]) \notin DOMAIN db
        BY DEF AreNew
    <2>1. PICK n : n = keys[i]
        OBVIOUS
    <2>2. n # key
        BY <1>1, <1>2, <2>1 DEF TypeInv, ServerTypes, AreDraws
    <2>3. DOMAIN db = DOMAIN d \cup {AssetKey(key)} \cup EntryKeys(asset, time, key)
                        \cup NameKeys(asset)
        BY <1>8, Zenon DEF IsAssetStored
    <2>4. AssetKey(n)[1] = 1 /\ AssetKey(n)[2] = n /\ AssetKey(key)[2] = key
        BY KeyParts
    <2>5. AssetKey(n) \notin EntryKeys(asset, time, key) /\ AssetKey(n) \notin NameKeys(asset)
        BY <2>4, StoredKeyParts
    <2> QED
        BY <1>7, <2>1, <2>2, <2>3, <2>4, <2>5
<1>12. ASSUME NEW c \in Client
       PROVE  Catalogued(c, db, local[c], inbox[c], outbox[c], callbacks[c].add,
                         addSerial[c], added[c])
    <2>1. local[c] = <<>> /\ inbox[c] = <<>> /\ outbox[c] = <<>> /\ added[c] = {}
        BY Zenon DEF Init
    <2>2. \A x \in Range(<<>>) : FALSE
        BY NoElements
    <2>3. Copies(<<>>, db)
        BY NoElements DEF Copies
    <2>4. \A adds, serial : Catalogued(c, db, <<>>, <<>>, <<>>, adds, serial, {})
        BY <2>2, <2>3 DEF Catalogued
    <2> QED
        BY <2>1, <2>4, Zenon
<1> QED
    BY <1>1, <1>10, <1>11, <1>12 DEF CatalogInv, IsCatalog

LEMMA CatalogKept ==
    ASSUME CatalogInv, [Next]_vars
    PROVE  CatalogInv'
<1>1. TypeInv'
    BY TypesKept DEF CatalogInv
<1>2. CASE UNCHANGED vars
    <2>1. UNCHANGED <<db, keys, local, inbox, outbox, callbacks, addSerial, added>>
        BY <1>2 DEF vars
    <2> QED
        BY <1>1, <2>1, Zenon DEF CatalogInv, IsCatalog
<1> QED
    BY <1>1, <1>2, CallsCatalog, HandleCatalog, ReceivesCatalog DEF Next

(* No name or list entry of the database leads nowhere: ReferencesResolve  *)
(* (AssetDatabase.cpp:243-286, 318-357).                                   *)
THEOREM ReferencesAlwaysResolve == Spec => []ReferencesResolve
<1>1. CatalogInv => ReferencesResolve
    <2> SUFFICES ASSUME CatalogInv PROVE ReferencesResolve
        OBVIOUS
    <2>1. \A k \in DOMAIN db : IsSound(db, k)
        BY Zenon DEF CatalogInv, IsCatalog, Sound
    <2>2. ASSUME NEW l \in Key, NEW n \in Members(l) PROVE AssetKey(n) \in DOMAIN db
        <3>1. PICK k \in DOMAIN db : k[1] = kListEntry /\ k[4] = n
            BY <2>2 DEF Members, Entries
        <3>2. n \notin {kBeginList, kEndList}
            BY <2>2 DEF Members
        <3> QED
            BY <2>1, <3>1, <3>2 DEF IsSound
    <2> QED
        BY <2>1, <2>2 DEF ReferencesResolve, IsSound
<1> QED
    BY <1>1, CatalogInit, CatalogKept, PTL DEF Spec

(* What a find answers is the asset that was asked for, as it is on the    *)
(* server: FoundIsCurrent (OscHandler.cpp:231, 259).                       *)
THEOREM FoundStaysCurrent == Spec => []FoundIsCurrent
<1>1. CatalogInv => FoundIsCurrent
    <2> SUFFICES ASSUME CatalogInv, NEW c \in Client, NEW i \in 1 .. Len(outbox[c]),
                        outbox[c][i].reply = "assetFound"
                 PROVE  /\ outbox[c][i].data = db[AssetKey(outbox[c][i].data.key)]
                        /\ outbox[c][i].to \in {Id(outbox[c][i].data.key),
                                                Named(outbox[c][i].data.name)}
        BY Zenon DEF FoundIsCurrent
    <2>1. PICK a : a = outbox[c][i]
        OBVIOUS
    <2>2. a \in Range(outbox[c])
        <3>1. IsSequence(outbox[c])
            BY CatalogHere, FlowHere DEF Flow
        <3>2. DOMAIN outbox[c] = 1 .. Len(outbox[c])
            BY <3>1, Appended
        <3> QED
            BY <2>1, <3>2 DEF Range
    <2>3. IsTrue(a, c, db, callbacks[c].add, addSerial[c])
        BY <2>2, CatalogHere DEF Catalogued
    <2> QED
        BY <2>1, <2>3, Zenon DEF IsTrue, IsAbout
<1> QED
    BY <1>1, CatalogInit, CatalogKept, PTL DEF Spec

(* An asset whose key came to the callback of its addition is there, in    *)
(* its lists and under its name: AddedIsFindable (SCLOrkConfab.sc:88,      *)
(* HttpClient.cpp:233).                                                    *)
THEOREM AddedStaysFindable == Spec => []AddedIsFindable
<1>1. CatalogInv => AddedIsFindable
    <2> SUFFICES ASSUME CatalogInv, NEW c \in Client, NEW told \in added[c], told[3] # 0
                 PROVE  /\ AssetKey(told[3]) \in DOMAIN db
                        /\ db[AssetKey(told[3])].content = <<c, told[1]>>
                        /\ \A l \in Draft[told[2]].lists : told[3] \in Members(l)
                        /\ Draft[told[2]].name # NoName =>
                             LET found == findNamedAsset(db, Draft[told[2]].name)
                             IN  /\ found # EmptyRecord
                                 /\ db[found].name = Draft[told[2]].name
        BY Zenon DEF AddedIsFindable
    <2>1. PICK key, serial, d : key = told[3] /\ serial = told[1] /\ d = told[2]
        OBVIOUS
    <2>2. AddedTo(db, c, serial, d, key)
        BY <2>1, CatalogHere, Zenon DEF Catalogued
    <2>3. key \in Key /\ key # kBeginList /\ key # kEndList
        BY <2>2, KeyNumbers DEF AddedTo
    <2>4. ASSUME NEW l \in Draft[d].lists PROVE key \in Members(l)
        <3>1. PICK k \in DOMAIN db : EntryOf(k, l) /\ k[4] = key
            BY <2>2 DEF AddedTo
        <3>2. k \in Entries(l)
            BY <3>1 DEF EntryOf, Entries
        <3> QED
            BY <2>3, <3>1, <3>2 DEF Members
    <2>5. ASSUME Draft[d].name # NoName
          PROVE  /\ findNamedAsset(db, Draft[d].name) # EmptyRecord
                 /\ db[findNamedAsset(db, Draft[d].name)].name = Draft[d].name
        <3>1. PICK n, k : n = Draft[d].name /\ k = AssetNameKey(n)
            OBVIOUS
        <3>2. k \in DOMAIN db /\ k[1] = kAssetName /\ k[2] = n
            BY <2>2, <2>5, <3>1, KeyParts DEF AddedTo
        <3>3. AssetKey(db[k]) \in DOMAIN db /\ db[AssetKey(db[k])].name = n
            <4>1. IsSound(db, k)
                BY <3>2, Zenon DEF CatalogInv, IsCatalog, Sound
            <4> QED
                BY <3>2, <4>1 DEF IsSound
        <3>4. findNamedAsset(db, n) = AssetKey(db[k])
            BY <3>1, <3>2, <3>3, Zenon DEF findNamedAsset, findAsset
        <3>5. AssetKey(db[k]) # EmptyRecord
            BY KeyIsRecord
        <3> QED
            BY <3>1, <3>3, <3>4, <3>5
    <2> QED
        BY <2>1, <2>2, <2>4, <2>5, Zenon DEF AddedTo
<1> QED
    BY <1>1, CatalogInit, CatalogKept, PTL DEF Spec

----------------------------------------------------------------------------
(***************************************************************************)
(* Messages and answers in flight about one question                       *)
(***************************************************************************)
NotAsked(q, g) == \A i \in DOMAIN q : Topic(q[i]) # g
AskedOnce(q, g) ==
    \A i, j \in DOMAIN q : Topic(q[i]) = g /\ Topic(q[j]) = g => i = j

NotAnswered(q, g) == \A i \in DOMAIN q : Subject(q[i]) # g
AnsweredOnce(q, g) ==
    \A i, j \in DOMAIN q : Subject(q[i]) = g /\ Subject(q[j]) = g => i = j

NoneAbout(in, out, g) == NotAsked(in, g) /\ NotAnswered(out, g)
OneAbout(in, out, g) ==
    /\ AskedOnce(in, g) /\ AnsweredOnce(out, g)
    /\ NotAsked(in, g) \/ NotAnswered(out, g)


LEMMA AskedAppended ==
    ASSUME NEW q, IsSequence(q), NEW x, NEW g
    PROVE  /\ NotAsked(q, g) => AskedOnce(Append(q, x), g)
           /\ NotAsked(q, g) /\ Topic(x) # g => NotAsked(Append(q, x), g)
           /\ AskedOnce(q, g) /\ Topic(x) # g => AskedOnce(Append(q, x), g)
<1>1. /\ DOMAIN q = 1 .. Len(q) /\ Len(q) \in Nat /\ DOMAIN Append(q, x) = 1 .. Len(q) + 1
      /\ \A i \in DOMAIN q : Append(q, x)[i] = q[i]
      /\ Append(q, x)[Len(q) + 1] = x
    BY Appended
<1>2. PICK q1, n : q1 = Append(q, x) /\ n = Len(q) + 1
    OBVIOUS
<1>3. /\ \A i \in DOMAIN q1 : i \in DOMAIN q \/ i = n
      /\ \A i \in DOMAIN q : q1[i] = q[i]
      /\ q1[n] = x
    BY <1>1, <1>2
<1>4. ASSUME NotAsked(q, g) PROVE AskedOnce(q1, g)
    BY <1>3, <1>4, Zenon DEF NotAsked, AskedOnce
<1>5. ASSUME NotAsked(q, g), Topic(x) # g PROVE NotAsked(q1, g)
    BY <1>3, <1>5, Zenon DEF NotAsked
<1>6. ASSUME AskedOnce(q, g), Topic(x) # g PROVE AskedOnce(q1, g)
    BY <1>3, <1>6, Zenon DEF AskedOnce
<1> QED
    BY <1>2, <1>4, <1>5, <1>6, Zenon

LEMMA AskedRemoved ==
    ASSUME NEW q, IsSequence(q), q # <<>>, NEW g
    PROVE  /\ NotAsked(q, g) => NotAsked(Tail(q), g) /\ Topic(Head(q)) # g
           /\ AskedOnce(q, g) => AskedOnce(Tail(q), g)
           /\ AskedOnce(q, g) /\ Topic(Head(q)) = g => NotAsked(Tail(q), g)
<1>1. /\ DOMAIN q = 1 .. Len(q) /\ 1 \in DOMAIN q /\ Head(q) = q[1]
      /\ DOMAIN Tail(q) = 1 .. Len(q) - 1
      /\ \A i \in DOMAIN Tail(q) : i + 1 \in DOMAIN q /\ Tail(q)[i] = q[i + 1]
    BY Removed
<1>2. PICK q1 : q1 = Tail(q)
    OBVIOUS
<1>3. \A i \in DOMAIN q1 : i \in Int /\ i + 1 # 1 /\ i + 1 \in DOMAIN q /\ q1[i] = q[i + 1]
    <2>1. Len(q) \in Nat
        BY Removed
    <2> QED
        BY <1>1, <1>2, <2>1
<1>4. ASSUME NotAsked(q, g) PROVE NotAsked(q1, g) /\ Topic(Head(q)) # g
    BY <1>1, <1>3, <1>4, Zenon DEF NotAsked
<1>5. ASSUME AskedOnce(q, g) PROVE AskedOnce(q1, g)
    <2> SUFFICES ASSUME NEW i \in DOMAIN q1, NEW j \in DOMAIN q1,
                        Topic(q1[i]) = g, Topic(q1[j]) = g
                 PROVE  i = j
        BY DEF AskedOnce
    <2>1. Topic(q[i + 1]) = g /\ Topic(q[j + 1]) = g /\ i + 1 \in DOMAIN q /\ j + 1 \in DOMAIN q
        BY <1>3, Zenon
    <2>2. i + 1 = j + 1
        BY <1>5, <2>1, Zenon DEF AskedOnce
    <2>3. i \in Int /\ j \in Int
        BY <1>3
    <2> QED
        BY <2>2, <2>3
<1>6. ASSUME AskedOnce(q, g), Topic(Head(q)) = g PROVE NotAsked(q1, g)
    <2> SUFFICES ASSUME NEW i \in DOMAIN q1, Topic(q1[i]) = g PROVE FALSE
        BY DEF NotAsked
    <2>1. Topic(q[i + 1]) = g /\ i + 1 \in DOMAIN q /\ Topic(q[1]) = g /\ i + 1 # 1
        BY <1>1, <1>3, <1>6, Zenon
    <2> QED
        BY <1>1, <1>6, <2>1, Zenon DEF AskedOnce
<1> QED
    BY <1>2, <1>4, <1>5, <1>6, Zenon


LEMMA AnsweredAppended ==
    ASSUME NEW q, IsSequence(q), NEW x, NEW g
    PROVE  /\ NotAnswered(q, g) => AnsweredOnce(Append(q, x), g)
           /\ NotAnswered(q, g) /\ Subject(x) # g => NotAnswered(Append(q, x), g)
           /\ AnsweredOnce(q, g) /\ Subject(x) # g => AnsweredOnce(Append(q, x), g)
<1>1. /\ DOMAIN q = 1 .. Len(q) /\ Len(q) \in Nat /\ DOMAIN Append(q, x) = 1 .. Len(q) + 1
      /\ \A i \in DOMAIN q : Append(q, x)[i] = q[i]
      /\ Append(q, x)[Len(q) + 1] = x
    BY Appended
<1>2. PICK q1, n : q1 = Append(q, x) /\ n = Len(q) + 1
    OBVIOUS
<1>3. /\ \A i \in DOMAIN q1 : i \in DOMAIN q \/ i = n
      /\ \A i \in DOMAIN q : q1[i] = q[i]
      /\ q1[n] = x
    BY <1>1, <1>2
<1>4. ASSUME NotAnswered(q, g) PROVE AnsweredOnce(q1, g)
    BY <1>3, <1>4, Zenon DEF NotAnswered, AnsweredOnce
<1>5. ASSUME NotAnswered(q, g), Subject(x) # g PROVE NotAnswered(q1, g)
    BY <1>3, <1>5, Zenon DEF NotAnswered
<1>6. ASSUME AnsweredOnce(q, g), Subject(x) # g PROVE AnsweredOnce(q1, g)
    BY <1>3, <1>6, Zenon DEF AnsweredOnce
<1> QED
    BY <1>2, <1>4, <1>5, <1>6, Zenon

LEMMA AnsweredRemoved ==
    ASSUME NEW q, IsSequence(q), q # <<>>, NEW g
    PROVE  /\ NotAnswered(q, g) => NotAnswered(Tail(q), g) /\ Subject(Head(q)) # g
           /\ AnsweredOnce(q, g) => AnsweredOnce(Tail(q), g)
           /\ AnsweredOnce(q, g) /\ Subject(Head(q)) = g => NotAnswered(Tail(q), g)
<1>1. /\ DOMAIN q = 1 .. Len(q) /\ 1 \in DOMAIN q /\ Head(q) = q[1]
      /\ DOMAIN Tail(q) = 1 .. Len(q) - 1
      /\ \A i \in DOMAIN Tail(q) : i + 1 \in DOMAIN q /\ Tail(q)[i] = q[i + 1]
    BY Removed
<1>2. PICK q1 : q1 = Tail(q)
    OBVIOUS
<1>3. \A i \in DOMAIN q1 : i \in Int /\ i + 1 # 1 /\ i + 1 \in DOMAIN q /\ q1[i] = q[i + 1]
    <2>1. Len(q) \in Nat
        BY Removed
    <2> QED
        BY <1>1, <1>2, <2>1
<1>4. ASSUME NotAnswered(q, g) PROVE NotAnswered(q1, g) /\ Subject(Head(q)) # g
    BY <1>1, <1>3, <1>4, Zenon DEF NotAnswered
<1>5. ASSUME AnsweredOnce(q, g) PROVE AnsweredOnce(q1, g)
    <2> SUFFICES ASSUME NEW i \in DOMAIN q1, NEW j \in DOMAIN q1,
                        Subject(q1[i]) = g, Subject(q1[j]) = g
                 PROVE  i = j
        BY DEF AnsweredOnce
    <2>1. Subject(q[i + 1]) = g /\ Subject(q[j + 1]) = g /\ i + 1 \in DOMAIN q /\ j + 1 \in DOMAIN q
        BY <1>3, Zenon
    <2>2. i + 1 = j + 1
        BY <1>5, <2>1, Zenon DEF AnsweredOnce
    <2>3. i \in Int /\ j \in Int
        BY <1>3
    <2> QED
        BY <2>2, <2>3
<1>6. ASSUME AnsweredOnce(q, g), Subject(Head(q)) = g PROVE NotAnswered(q1, g)
    <2> SUFFICES ASSUME NEW i \in DOMAIN q1, Subject(q1[i]) = g PROVE FALSE
        BY DEF NotAnswered
    <2>1. Subject(q[i + 1]) = g /\ i + 1 \in DOMAIN q /\ Subject(q[1]) = g /\ i + 1 # 1
        BY <1>1, <1>3, <1>6, Zenon
    <2> QED
        BY <1>1, <1>6, <2>1, Zenon DEF AnsweredOnce
<1> QED
    BY <1>2, <1>4, <1>5, <1>6, Zenon


LEMMA NoneIsOne ==
    ASSUME NEW in, NEW out, NEW g, NoneAbout(in, out, g)
    PROVE  OneAbout(in, out, g)
BY Zenon DEF NoneAbout, OneAbout, NotAsked, AskedOnce, NotAnswered, AnsweredOnce

(* A question is asked.                                                    *)
LEMMA AboutAsked ==
    ASSUME NEW in, IsSequence(in), NEW out, NEW m, NEW g
    PROVE  /\ Topic(m) # g /\ NoneAbout(in, out, g) => NoneAbout(Append(in, m), out, g)
           /\ Topic(m) # g /\ OneAbout(in, out, g) => OneAbout(Append(in, m), out, g)
           /\ NoneAbout(in, out, g) => OneAbout(Append(in, m), out, g)
<1>1. \A q : NotAnswered(q, g) => AnsweredOnce(q, g)
    BY Zenon DEF NotAnswered, AnsweredOnce
<1> QED
    BY <1>1, AskedAppended, Zenon DEF NoneAbout, OneAbout

(* It is answered.                                                         *)
LEMMA AboutServed ==
    ASSUME NEW in, IsSequence(in), in # <<>>, NEW out, IsSequence(out), NEW g
    PROVE  /\ \A a : Subject(a) = Topic(Head(in)) =>
                 /\ NoneAbout(in, out, g) => NoneAbout(Tail(in), Append(out, a), g)
                 /\ OneAbout(in, out, g) => OneAbout(Tail(in), Append(out, a), g)
           /\ NoneAbout(in, out, g) => /\ NoneAbout(Tail(in), out, g)
                                       /\ NoneAbout(<<>>, out, g)
           /\ OneAbout(in, out, g) => /\ OneAbout(Tail(in), out, g)
                                      /\ OneAbout(<<>>, out, g)
<1>1. /\ NotAsked(in, g) => NotAsked(Tail(in), g) /\ Topic(Head(in)) # g
      /\ AskedOnce(in, g) => AskedOnce(Tail(in), g)
      /\ AskedOnce(in, g) /\ Topic(Head(in)) = g => NotAsked(Tail(in), g)
    BY AskedRemoved
<1>2. NotAsked(<<>>, g) /\ AskedOnce(<<>>, g)
    BY NoElements DEF NotAsked, AskedOnce
<1>3. ~ NotAsked(in, g) \/ Topic(Head(in)) # g
    BY <1>1
<1>4. ASSUME NEW a, Subject(a) = Topic(Head(in))
      PROVE  /\ NoneAbout(in, out, g) => NoneAbout(Tail(in), Append(out, a), g)
             /\ OneAbout(in, out, g) => OneAbout(Tail(in), Append(out, a), g)
    <2>1. /\ NotAnswered(out, g) => AnsweredOnce(Append(out, a), g)
          /\ NotAnswered(out, g) /\ Subject(a) # g => NotAnswered(Append(out, a), g)
          /\ AnsweredOnce(out, g) /\ Subject(a) # g => AnsweredOnce(Append(out, a), g)
        BY AnsweredAppended
    <2> QED
        BY <1>1, <1>4, <2>1, Zenon DEF NoneAbout, OneAbout
<1> QED
    BY <1>1, <1>2, <1>4, Zenon DEF NoneAbout, OneAbout

(* The answer is heard.                                                    *)
LEMMA AboutHeard ==
    ASSUME NEW in, NEW out, IsSequence(out), out # <<>>, NEW g
    PROVE  /\ NoneAbout(in, out, g) => NoneAbout(in, Tail(out), g) /\ Subject(Head(out)) # g
           /\ OneAbout(in, out, g) => OneAbout(in, Tail(out), g)
           /\ OneAbout(in, out, g) /\ Subject(Head(out)) = g => NoneAbout(in, Tail(out), g)
<1>1. /\ NotAnswered(out, g) => NotAnswered(Tail(out), g) /\ Subject(Head(out)) # g
      /\ AnsweredOnce(out, g) => AnsweredOnce(Tail(out), g)
      /\ AnsweredOnce(out, g) /\ Subject(Head(out)) = g => NotAnswered(Tail(out), g)
    BY AnsweredRemoved
<1> QED
    BY <1>1, Zenon DEF NoneAbout, OneAbout

----------------------------------------------------------------------------
(***************************************************************************)
(* How often a question was asked: while it was asked once, at most one    *)
(* message or answer about it is in flight, and its callback waits for it. *)
(***************************************************************************)
Questions == Ids \cup Names \cup ({"list"} \X Key)

Used(l, asks, cmd, arg) ==
    IF <<cmd, arg>> \in DOMAIN l THEN asks[<<cmd, arg>>] - l[<<cmd, arg>>] ELSE 0

Uses(l, asks, g) ==
    CASE g[1] = "id"   -> Used(l, asks, "assetFind", g[2])
      [] g[1] = "name" -> Used(l, asks, "assetFindName", g[2])
      [] g[1] = "list" -> Used(l, asks, "listAdd", g[2]) + Used(l, asks, "listFind", g[2])

Waiting(cbs, g) == IF g[1] = "list" THEN Named(g[2]) \in cbs.list ELSE g \in cbs.find

IsOnce(in, out, cbs, n, g) ==
    /\ n \in Nat
    /\ n = 0 => NoneAbout(in, out, g)
    /\ n = 1 => /\ OneAbout(in, out, g)
                /\ NoneAbout(in, out, g) \/ Waiting(cbs, g)

IsRepeated(l, asks, stray) ==
    \/ /\ stray[1] \in {"assetFound", "assetError"} /\ stray[2] \in Ids \cup Names
       /\ Uses(l, asks, stray[2]) > 1
    \/ /\ stray[1] \in {"listFound", "listError"} /\ stray[2] \in Names
       /\ Uses(l, asks, <<"list", stray[2][2]>>) > 1

Counted(in, out, cbs, l, asks, gone) ==
    /\ \A g \in Questions : IsOnce(in, out, cbs, Uses(l, asks, g), g)
    /\ \A stray \in gone : IsRepeated(l, asks, stray)

CountInv ==
    /\ TypeInv
    /\ \A c \in Client :
          Counted(inbox[c], outbox[c], callbacks[c], left[c], Asks[c], strays[c])

LEMMA QuestionKinds ==
    ASSUME NEW g \in Questions
    PROVE  /\ g[1] \in {"id", "name", "list"} /\ g = <<g[1], g[2]>>
           /\ g[1] = "id" <=> g \in Ids
           /\ g[1] = "name" <=> g \in Names
           /\ g[1] # "id" => g[2] \in Key
BY DEF Questions, Ids, Names

LEMMA TopicIs ==
    ASSUME NEW m \in Messages, NEW g \in Questions
    PROVE  Topic(m) = g <=> /\ g[2] = m.arg
                            /\ \/ g[1] = "id" /\ m.cmd = "assetFind"
                               \/ g[1] = "name" /\ m.cmd = "assetFindName"
                               \/ g[1] = "list" /\ m.cmd \in {"listAdd", "listFind"}
<1>1. g[1] \in {"id", "name", "list"} /\ g = <<g[1], g[2]>>
    BY QuestionKinds
<1>2. m.cmd \in {"assetAddString", "assetFind", "assetFindName", "listAdd", "listFind",
                 "listNext"}
    BY Arguments
<1>3. CASE m.cmd = "assetAddString" \/ m.cmd = "listNext"
    <2>1. Topic(m)[1] \notin {"id", "name", "list"}
        BY <1>3, SMT DEF Topic, Walking
    <2> QED
        BY <1>1, <1>3, <2>1
<1>4. CASE m.cmd = "assetFind"
    <2>1. Topic(m) = <<"id", m.arg>>
        BY <1>4, SMT DEF Topic, Id
    <2> QED
        BY <1>1, <1>4, <2>1
<1>5. CASE m.cmd = "assetFindName"
    <2>1. Topic(m) = <<"name", m.arg>>
        BY <1>5, SMT DEF Topic, Named
    <2> QED
        BY <1>1, <1>5, <2>1
<1>6. CASE m.cmd = "listAdd" \/ m.cmd = "listFind"
    <2>1. Topic(m) = <<"list", m.arg>>
        BY <1>6, SMT DEF Topic
    <2> QED
        BY <1>1, <1>6, <2>1
<1> QED
    BY <1>2, <1>3, <1>4, <1>5, <1>6

(* A call that asks counts its question and no other.                      *)
LEMMA UsesCount ==
    ASSUME NEW l, NEW asks, IsLeft(l, asks), \A q \in DOMAIN asks : asks[q] \in Nat,
           NEW g \in Questions
    PROVE  /\ Uses(l, asks, g) \in Nat
           /\ \A m \in Messages : <<m.cmd, m.arg>> \in DOMAIN l =>
                 Uses([l EXCEPT ![<<m.cmd, m.arg>>] = @ - 1], asks, g)
                    = IF Topic(m) = g THEN Uses(l, asks, g) + 1 ELSE Uses(l, asks, g)
<1>1. /\ DOMAIN l = DOMAIN asks
      /\ \A q \in DOMAIN asks : l[q] \in Nat /\ l[q] <= asks[q]
    BY DEF IsLeft
<1>2. \A cmd, arg : Used(l, asks, cmd, arg) \in Nat
    <2> TAKE cmd, arg
    <2>1. PICK q : q = <<cmd, arg>>
        OBVIOUS
    <2>2. Used(l, asks, cmd, arg) = IF q \in DOMAIN l THEN asks[q] - l[q] ELSE 0
        BY <2>1, Zenon DEF Used
    <2> QED
        BY <1>1, <2>2
<1>3. g[1] \in {"id", "name", "list"}
    BY QuestionKinds
<1>4. Uses(l, asks, g) \in Nat
    <2>1. PICK u1, u2, u3, u4 \in Nat :
             /\ u1 = Used(l, asks, "assetFind", g[2]) /\ u2 = Used(l, asks, "assetFindName", g[2])
             /\ u3 = Used(l, asks, "listAdd", g[2]) /\ u4 = Used(l, asks, "listFind", g[2])
        BY <1>2
    <2> QED
        BY <1>3, <2>1, SMT DEF Uses
<1>5. ASSUME NEW m \in Messages, <<m.cmd, m.arg>> \in DOMAIN l
      PROVE  Uses([l EXCEPT ![<<m.cmd, m.arg>>] = @ - 1], asks, g)
                    = IF Topic(m) = g THEN Uses(l, asks, g) + 1 ELSE Uses(l, asks, g)
    <2>1. PICK r : r = <<m.cmd, m.arg>>
        OBVIOUS
    <2>2. PICK l1 : l1 = [l EXCEPT ![r] = l[r] - 1]
        OBVIOUS
    <2>3. r \in DOMAIN l
        BY <1>5, <2>1
    <2>4. DOMAIN l1 = DOMAIN l /\ \A q \in DOMAIN l : l1[q] = IF q = r THEN l[r] - 1 ELSE l[q]
        BY <2>2, <2>3
    <2>5. ASSUME NEW cmd, NEW arg
          PROVE  Used(l1, asks, cmd, arg) = IF cmd = m.cmd /\ arg = m.arg
                                            THEN Used(l, asks, cmd, arg) + 1
                                            ELSE Used(l, asks, cmd, arg)
        <3>1. PICK q : q = <<cmd, arg>>
            OBVIOUS
        <3>2. /\ Used(l, asks, cmd, arg) = IF q \in DOMAIN l THEN asks[q] - l[q] ELSE 0
              /\ Used(l1, asks, cmd, arg) = IF q \in DOMAIN l1 THEN asks[q] - l1[q] ELSE 0
            BY <3>1, Zenon DEF Used
        <3>3. q = r <=> cmd = m.cmd /\ arg = m.arg
            BY <2>1, <3>1
        <3>4. CASE q = r
            <4>1. asks[q] \in Nat /\ l[q] \in Nat /\ l1[q] = l[q] - 1
                BY <1>1, <2>3, <2>4, <3>4
            <4> QED
                BY <2>3, <2>4, <3>2, <3>3, <3>4, <4>1
        <3>5. CASE q # r
            BY <2>4, <3>2, <3>3, <3>5, Zenon
        <3> QED
            BY <3>4, <3>5
    <2>6. Uses(l1, asks, g) = IF Topic(m) = g THEN Uses(l, asks, g) + 1 ELSE Uses(l, asks, g)
        <3>1. PICK u1, u2, u3, u4 \in Nat :
                 /\ u1 = Used(l, asks, "assetFind", g[2])
                 /\ u2 = Used(l, asks, "assetFindName", g[2])
                 /\ u3 = Used(l, asks, "listAdd", g[2])
                 /\ u4 = Used(l, asks, "listFind", g[2])
            BY <1>2
        <3>2. PICK v1, v2, v3, v4 :
                 /\ v1 = Used(l1, asks, "assetFind", g[2])
                 /\ v2 = Used(l1, asks, "assetFindName", g[2])
                 /\ v3 = Used(l1, asks, "listAdd", g[2])
                 /\ v4 = Used(l1, asks, "listFind", g[2])
            OBVIOUS
        <3>3. /\ v1 = IF m.cmd = "assetFind" /\ m.arg = g[2] THEN u1 + 1 ELSE u1
              /\ v2 = IF m.cmd = "assetFindName" /\ m.arg = g[2] THEN u2 + 1 ELSE u2
              /\ v3 = IF m.cmd = "listAdd" /\ m.arg = g[2] THEN u3 + 1 ELSE u3
              /\ v4 = IF m.cmd = "listFind" /\ m.arg = g[2] THEN u4 + 1 ELSE u4
            BY <2>5, <3>1, <3>2, Zenon
        <3>4. /\ Uses(l, asks, g) = IF g[1] = "id" THEN u1 ELSE IF g[1] = "name" THEN u2
                                    ELSE u3 + u4
              /\ Uses(l1, asks, g) = IF g[1] = "id" THEN v1 ELSE IF g[1] = "name" THEN v2
                                     ELSE v3 + v4
            BY <1>3, <3>1, <3>2, SMT DEF Uses
        <3>5. PICK t \in BOOLEAN : t <=> Topic(m) = g
            OBVIOUS
        <3>6. t <=> /\ g[2] = m.arg
                    /\ \/ g[1] = "id" /\ m.cmd = "assetFind"
                       \/ g[1] = "name" /\ m.cmd = "assetFindName"
                       \/ g[1] = "list" /\ m.cmd \in {"listAdd", "listFind"}
            BY <3>5, TopicIs
        <3>7. Uses(l1, asks, g) = IF t THEN Uses(l, asks, g) + 1 ELSE Uses(l, asks, g)
            BY <1>3, <3>3, <3>4, <3>6
        <3> QED
            BY <3>5, <3>7
    <2> QED
        BY <2>1, <2>2, <2>6, Zenon
<1> QED
    BY <1>4, <1>5

LEMMA OnceAsked ==
    ASSUME NEW in, IsSequence(in), NEW out, NEW cbs, NEW n, NEW g, IsOnce(in, out, cbs, n, g),
           NEW m, NEW cbs1
    PROVE  /\ Topic(m) = g /\ Waiting(cbs1, g) => IsOnce(Append(in, m), out, cbs1, n + 1, g)
           /\ Topic(m) # g /\ (Waiting(cbs, g) => Waiting(cbs1, g))
                 => IsOnce(Append(in, m), out, cbs1, n, g)
<1>1. PICK in1 : in1 = Append(in, m)
    OBVIOUS
<1>2. /\ Topic(m) # g /\ NoneAbout(in, out, g) => NoneAbout(in1, out, g)
      /\ Topic(m) # g /\ OneAbout(in, out, g) => OneAbout(in1, out, g)
      /\ NoneAbout(in, out, g) => OneAbout(in1, out, g)
    BY <1>1, AboutAsked
<1>3. /\ n \in Nat
      /\ n = 0 => NoneAbout(in, out, g)
      /\ n = 1 => OneAbout(in, out, g) /\ (NoneAbout(in, out, g) \/ Waiting(cbs, g))
    BY DEF IsOnce
<1>4. ASSUME Waiting(cbs1, g) PROVE IsOnce(in1, out, cbs1, n + 1, g)
    <2>1. n + 1 \in Nat /\ n + 1 # 0 /\ (n + 1 = 1 => n = 0)
        BY <1>3
    <2> QED
        BY <1>2, <1>3, <1>4, <2>1, Zenon DEF IsOnce
<1>5. ASSUME Topic(m) # g, Waiting(cbs, g) => Waiting(cbs1, g)
      PROVE  IsOnce(in1, out, cbs1, n, g)
    BY <1>2, <1>3, <1>5, Zenon DEF IsOnce
<1> QED
    BY <1>1, <1>4, <1>5, Zenon

LEMMA OnceServed ==
    ASSUME NEW in, IsSequence(in), in # <<>>, NEW out, IsSequence(out), NEW cbs, NEW n, NEW g,
           IsOnce(in, out, cbs, n, g)
    PROVE  /\ \A a : Subject(a) = Topic(Head(in)) =>
                 IsOnce(Tail(in), Append(out, a), cbs, n, g)
           /\ IsOnce(Tail(in), out, cbs, n, g)
           /\ IsOnce(<<>>, out, cbs, n, g)
<1>1. /\ n \in Nat
      /\ n = 0 => NoneAbout(in, out, g)
      /\ n = 1 => OneAbout(in, out, g) /\ (NoneAbout(in, out, g) \/ Waiting(cbs, g))
    BY DEF IsOnce
<1>2. ASSUME NEW a, Subject(a) = Topic(Head(in))
      PROVE  IsOnce(Tail(in), Append(out, a), cbs, n, g)
    <2>1. /\ NoneAbout(in, out, g) => NoneAbout(Tail(in), Append(out, a), g)
          /\ OneAbout(in, out, g) => OneAbout(Tail(in), Append(out, a), g)
        BY <1>2, AboutServed
    <2> QED
        BY <1>1, <2>1, Zenon DEF IsOnce
<1>3. /\ NoneAbout(in, out, g) => NoneAbout(Tail(in), out, g) /\ NoneAbout(<<>>, out, g)
      /\ OneAbout(in, out, g) => OneAbout(Tail(in), out, g) /\ OneAbout(<<>>, out, g)
    BY AboutServed
<1> QED
    BY <1>1, <1>2, <1>3, Zenon DEF IsOnce

LEMMA OnceHeard ==
    ASSUME NEW in, NEW out, IsSequence(out), out # <<>>, NEW cbs, NEW n, NEW g,
           IsOnce(in, out, cbs, n, g), NEW cbs1,
           Subject(Head(out)) # g => (Waiting(cbs, g) => Waiting(cbs1, g))
    PROVE  /\ IsOnce(in, Tail(out), cbs1, n, g)
           /\ Subject(Head(out)) = g => n # 0
           /\ Subject(Head(out)) = g /\ ~ Waiting(cbs, g) => n > 1
<1>1. /\ n \in Nat
      /\ n = 0 => NoneAbout(in, out, g)
      /\ n = 1 => OneAbout(in, out, g) /\ (NoneAbout(in, out, g) \/ Waiting(cbs, g))
    BY DEF IsOnce
<1>2. /\ NoneAbout(in, out, g) => NoneAbout(in, Tail(out), g) /\ Subject(Head(out)) # g
      /\ OneAbout(in, out, g) => OneAbout(in, Tail(out), g)
      /\ OneAbout(in, out, g) /\ Subject(Head(out)) = g => NoneAbout(in, Tail(out), g)
    BY AboutHeard
<1>3. IsOnce(in, Tail(out), cbs1, n, g)
    BY <1>1, <1>2, Zenon DEF IsOnce
<1>4. Subject(Head(out)) = g => n # 0 /\ (~ Waiting(cbs, g) => n # 1)
    BY <1>1, <1>2, Zenon
<1> QED
    BY <1>1, <1>3, <1>4

(* A client that hears about a question it asks again has asked it twice.  *)
LEMMA OnceAgain ==
    ASSUME NEW in, IsSequence(in), NEW out, IsSequence(out), out # <<>>, NEW cbs, NEW n,
           NEW g, IsOnce(in, out, cbs, n, g), NEW cbs1,
           Subject(Head(out)) # g => (Waiting(cbs, g) => Waiting(cbs1, g)),
           NEW m, Topic(m) \in {Subject(Head(out)), Walking}, g # Walking
    PROVE  IsOnce(Append(in, m), Tail(out), cbs1, IF Topic(m) = g THEN n + 1 ELSE n, g)
<1>1. /\ IsOnce(in, Tail(out), cbs1, n, g)
      /\ Subject(Head(out)) = g => n # 0
    BY OnceHeard
<1>2. CASE Topic(m) = g
    <2>1. n \in Nat /\ n # 0
        BY <1>1, <1>2, Zenon DEF IsOnce
    <2>2. n + 1 \in Nat /\ n + 1 # 0 /\ n + 1 # 1
        BY <2>1
    <2>3. IsOnce(Append(in, m), Tail(out), cbs1, n + 1, g)
        BY <2>2 DEF IsOnce
    <2> QED
        BY <1>2, <2>3
<1>3. CASE Topic(m) # g
    <2>1. IsOnce(Append(in, m), Tail(out), cbs1, n, g)
        BY <1>1, <1>3, OnceAsked
    <2> QED
        BY <1>3, <2>1
<1> QED
    BY <1>2, <1>3

LEMMA SubjectIs ==
    ASSUME NEW a, IsAnswer(a)
    PROVE  /\ a.reply \in {"assetFound", "assetError"} =>
                 /\ Subject(a) = a.to /\ a.to \in Ids \cup Names /\ a.to \in Questions
                 /\ \A cbs : Waiting(cbs, a.to) <=> a.to \in cbs.find
           /\ a.reply \in {"listFound", "listError"} =>
                 /\ Subject(a) = <<"list", a.to[2]>> /\ a.to \in Names
                 /\ <<"list", a.to[2]>> \in Questions
                 /\ \A cbs : Waiting(cbs, <<"list", a.to[2]>>) <=> a.to \in cbs.list
           /\ a.reply \in {"assetAdded", "listItems"} => Subject(a) \notin Questions
<1>1. ASSUME a.reply \in {"assetFound", "assetError"}
      PROVE  /\ Subject(a) = a.to /\ a.to \in Ids \cup Names /\ a.to \in Questions
             /\ \A cbs : Waiting(cbs, a.to) <=> a.to \in cbs.find
    <2>1. Subject(a) = a.to
        BY <1>1, SMT DEF Subject
    <2>2. a.to \in Ids \cup Names /\ a.to \in Questions
        BY <1>1, SMT DEF IsAnswer, Questions
    <2>3. a.to[1] # "list"
        BY <2>2 DEF Ids, Names
    <2> QED
        BY <2>1, <2>2, <2>3 DEF Waiting
<1>2. ASSUME a.reply \in {"listFound", "listError"}
      PROVE  /\ Subject(a) = <<"list", a.to[2]>> /\ a.to \in Names
             /\ <<"list", a.to[2]>> \in Questions
             /\ \A cbs : Waiting(cbs, <<"list", a.to[2]>>) <=> a.to \in cbs.list
    <2>1. Subject(a) = <<"list", a.to[2]>>
        BY <1>2, SMT DEF Subject
    <2>2. a.to \in Names
        BY <1>2, SMT DEF IsAnswer
    <2>3. a.to[2] \in Key /\ Named(a.to[2]) = a.to
        BY <2>2 DEF Names, Named
    <2>4. PICK g : g = <<"list", a.to[2]>>
        OBVIOUS
    <2>5. g[1] = "list" /\ g[2] = a.to[2] /\ g \in Questions
        BY <2>3, <2>4 DEF Questions
    <2>6. \A cbs : Waiting(cbs, g) <=> a.to \in cbs.list
        BY <2>3, <2>5, Zenon DEF Waiting
    <2> QED
        BY <2>1, <2>2, <2>4, <2>5, <2>6
<1>3. ASSUME a.reply \in {"assetAdded", "listItems"} PROVE Subject(a) \notin Questions
    <2>1. Subject(a)[1] \notin {"id", "name", "list"}
        BY <1>3, SMT DEF Subject, Walking
    <2> QED
        BY <2>1, QuestionKinds
<1> QED
    BY <1>1, <1>2, <1>3

LEMMA RepeatedStays ==
    ASSUME NEW l, NEW l1, NEW asks, NEW stray, IsRepeated(l, asks, stray),
           \A g \in Questions : /\ Uses(l, asks, g) \in Nat /\ Uses(l1, asks, g) \in Nat
                                /\ Uses(l, asks, g) <= Uses(l1, asks, g)
    PROVE  IsRepeated(l1, asks, stray)
<1>1. \A g \in Questions : Uses(l, asks, g) > 1 => Uses(l1, asks, g) > 1
    <2> TAKE g \in Questions
    <2>1. PICK u, u1 \in Nat : u = Uses(l, asks, g) /\ u1 = Uses(l1, asks, g)
        OBVIOUS
    <2> QED
        BY <2>1
<1>2. stray[2] \in Ids \cup Names => stray[2] \in Questions
    BY DEF Questions
<1>3. stray[2] \in Names => <<"list", stray[2][2]>> \in Questions
    BY DEF Questions, Names
<1> QED
    BY <1>1, <1>2, <1>3, Zenon DEF IsRepeated

LEMMA CountedAsks ==
    ASSUME NEW in, IsSequence(in), NEW out, NEW cbs, NEW l, NEW asks, NEW gone,
           Counted(in, out, cbs, l, asks, gone),
           IsLeft(l, asks), \A q \in DOMAIN asks : asks[q] \in Nat,
           NEW m \in Messages, <<m.cmd, m.arg>> \in DOMAIN l, NEW cbs1,
           \A g \in Questions : Topic(m) = g \/ Waiting(cbs, g) => Waiting(cbs1, g)
    PROVE  Counted(Append(in, m), out, cbs1, [l EXCEPT ![<<m.cmd, m.arg>>] = @ - 1], asks, gone)
<1>1. PICK l1 : l1 = [l EXCEPT ![<<m.cmd, m.arg>>] = @ - 1]
    OBVIOUS
<1>2. \A g \in Questions :
         /\ Uses(l, asks, g) \in Nat
         /\ Uses(l1, asks, g) = IF Topic(m) = g THEN Uses(l, asks, g) + 1 ELSE Uses(l, asks, g)
    BY <1>1, UsesCount, Zenon
<1>3. ASSUME NEW g \in Questions PROVE IsOnce(Append(in, m), out, cbs1, Uses(l1, asks, g), g)
    <2>1. PICK n \in Nat : n = Uses(l, asks, g)
        BY <1>2
    <2>2. IsOnce(in, out, cbs, n, g)
        BY <2>1 DEF Counted
    <2>3. /\ Topic(m) = g => IsOnce(Append(in, m), out, cbs1, n + 1, g)
          /\ Topic(m) # g => IsOnce(Append(in, m), out, cbs1, n, g)
        BY <2>2, OnceAsked, Zenon
    <2> QED
        BY <1>2, <2>1, <2>3, Zenon
<1>4. ASSUME NEW stray \in gone PROVE IsRepeated(l1, asks, stray)
    <2>1. \A g \in Questions : /\ Uses(l, asks, g) \in Nat /\ Uses(l1, asks, g) \in Nat
                               /\ Uses(l, asks, g) <= Uses(l1, asks, g)
        <3> TAKE g \in Questions
        <3>1. PICK n \in Nat : n = Uses(l, asks, g)
            BY <1>2
        <3>2. Uses(l1, asks, g) \in {n, n + 1}
            BY <1>2, <3>1, Zenon
        <3> QED
            BY <3>1, <3>2
    <2>2. IsRepeated(l, asks, stray)
        BY DEF Counted
    <2> QED
        BY <2>1, <2>2, RepeatedStays
<1> QED
    BY <1>1, <1>3, <1>4, Zenon DEF Counted

LEMMA CountedHears ==
    ASSUME NEW in, NEW out, IsSequence(out), out # <<>>, NEW cbs, NEW l, NEW asks, NEW gone,
           Counted(in, out, cbs, l, asks, gone), NEW cbs1,
           \A g \in Questions : Subject(Head(out)) # g /\ Waiting(cbs, g) => Waiting(cbs1, g)
    PROVE  Counted(in, Tail(out), cbs1, l, asks, gone)
<1>1. ASSUME NEW g \in Questions PROVE IsOnce(in, Tail(out), cbs1, Uses(l, asks, g), g)
    <2>1. PICK n : n = Uses(l, asks, g)
        OBVIOUS
    <2>2. IsOnce(in, out, cbs, n, g)
        BY <2>1 DEF Counted
    <2>3. IsOnce(in, Tail(out), cbs1, n, g)
        BY <2>2, OnceHeard, Zenon
    <2> QED
        BY <2>1, <2>3
<1> QED
    BY <1>1 DEF Counted

LEMMA CountedStrays ==
    ASSUME NEW in, NEW out, IsSequence(out), out # <<>>, NEW cbs, NEW l, NEW asks, NEW gone,
           Counted(in, out, cbs, l, asks, gone), IsAnswer(Head(out)),
           Subject(Head(out)) \in Questions, ~ Waiting(cbs, Subject(Head(out))),
           Head(out).reply \in {"assetFound", "assetError", "listFound", "listError"}
    PROVE  Counted(in, out, cbs, l, asks, gone \cup {<<Head(out).reply, Head(out).to>>})
<1>1. PICK a, g, stray : a = Head(out) /\ g = Subject(a) /\ stray = <<a.reply, a.to>>
    OBVIOUS
<1>2. PICK n : n = Uses(l, asks, g)
    OBVIOUS
<1>3. IsOnce(in, out, cbs, n, g)
    BY <1>1, <1>2 DEF Counted
<1>4. n > 1
    BY <1>1, <1>3, OnceHeard, Zenon
<1>5. stray[1] = a.reply /\ stray[2] = a.to
    BY <1>1
<1>6. IsRepeated(l, asks, stray)
    <2>1. CASE a.reply \in {"assetFound", "assetError"}
        <3>1. g = a.to /\ a.to \in Ids \cup Names
            BY <1>1, <2>1, SubjectIs
        <3> QED
            BY <1>2, <1>4, <1>5, <2>1, <3>1, Zenon DEF IsRepeated
    <2>2. CASE a.reply \in {"listFound", "listError"}
        <3>1. g = <<"list", a.to[2]>> /\ a.to \in Names
            BY <1>1, <2>2, SubjectIs
        <3> QED
            BY <1>2, <1>4, <1>5, <2>2, <3>1, Zenon DEF IsRepeated
    <2> QED
        BY <1>1, <2>1, <2>2
<1> QED
    BY <1>1, <1>6 DEF Counted

LEMMA CountedWalks ==
    ASSUME NEW in, IsSequence(in), NEW out, NEW cbs, NEW l, NEW asks, NEW gone,
           Counted(in, out, cbs, l, asks, gone), NEW m, Topic(m) = Walking
    PROVE  Counted(Append(in, m), out, cbs, l, asks, gone)
<1>1. ASSUME NEW g \in Questions PROVE IsOnce(Append(in, m), out, cbs, Uses(l, asks, g), g)
    <2>1. PICK n : n = Uses(l, asks, g)
        OBVIOUS
    <2>2. IsOnce(in, out, cbs, n, g)
        BY <2>1 DEF Counted
    <2>3. Topic(m) # g
        BY QuestionKinds DEF Walking
    <2>4. IsOnce(Append(in, m), out, cbs, n, g)
        BY <2>2, <2>3, OnceAsked, Zenon
    <2> QED
        BY <2>1, <2>4
<1> QED
    BY <1>1 DEF Counted

(* A question is asked again while its answer is heard.                    *)
LEMMA CountedAgain ==
    ASSUME NEW in, IsSequence(in), NEW out, IsSequence(out), out # <<>>, NEW cbs, NEW l,
           NEW asks, NEW gone, Counted(in, out, cbs, l, asks, gone),
           IsLeft(l, asks), \A q \in DOMAIN asks : asks[q] \in Nat,
           NEW m \in Messages, <<m.cmd, m.arg>> \in DOMAIN l, NEW cbs1,
           Topic(m) = Subject(Head(out)),
           \A g \in Questions : Subject(Head(out)) # g /\ Waiting(cbs, g) => Waiting(cbs1, g)
    PROVE  Counted(Append(in, m), Tail(out), cbs1, [l EXCEPT ![<<m.cmd, m.arg>>] = @ - 1],
                   asks, gone)
<1>1. PICK l1 : l1 = [l EXCEPT ![<<m.cmd, m.arg>>] = @ - 1]
    OBVIOUS
<1>2. \A g \in Questions :
         /\ Uses(l, asks, g) \in Nat
         /\ Uses(l1, asks, g) = IF Topic(m) = g THEN Uses(l, asks, g) + 1 ELSE Uses(l, asks, g)
    BY <1>1, UsesCount, Zenon
<1>3. ASSUME NEW g \in Questions
      PROVE  IsOnce(Append(in, m), Tail(out), cbs1, Uses(l1, asks, g), g)
    <2>1. PICK n \in Nat : n = Uses(l, asks, g)
        BY <1>2
    <2>2. IsOnce(in, out, cbs, n, g)
        BY <2>1 DEF Counted
    <2>3. g # Walking
        BY QuestionKinds DEF Walking
    <2>4. /\ Topic(m) \in {Subject(Head(out)), Walking}
          /\ Subject(Head(out)) # g => (Waiting(cbs, g) => Waiting(cbs1, g))
        OBVIOUS
    <2>5. IsOnce(Append(in, m), Tail(out), cbs1, IF Topic(m) = g THEN n + 1 ELSE n, g)
        BY <2>2, <2>3, <2>4, OnceAgain
    <2> QED
        BY <1>2, <2>1, <2>5, Zenon
<1>4. ASSUME NEW stray \in gone PROVE IsRepeated(l1, asks, stray)
    <2>1. \A g \in Questions : /\ Uses(l, asks, g) \in Nat /\ Uses(l1, asks, g) \in Nat
                               /\ Uses(l, asks, g) <= Uses(l1, asks, g)
        <3> TAKE g \in Questions
        <3>1. PICK n \in Nat : n = Uses(l, asks, g)
            BY <1>2
        <3>2. Uses(l1, asks, g) \in {n, n + 1}
            BY <1>2, <3>1, Zenon
        <3> QED
            BY <3>1, <3>2
    <2>2. IsRepeated(l, asks, stray)
        BY DEF Counted
    <2> QED
        BY <2>1, <2>2, RepeatedStays
<1> QED
    BY <1>1, <1>3, <1>4, Zenon DEF Counted

LEMMA CountHere ==
    ASSUME CountInv, NEW c \in Client
    PROVE  /\ TypeInv /\ FlowTypes /\ CallTypes /\ ServerTypes
           /\ IsMap(inbox) /\ IsMap(outbox) /\ IsMap(callbacks) /\ IsMap(left) /\ IsMap(strays)
           /\ Counted(inbox[c], outbox[c], callbacks[c], left[c], Asks[c], strays[c])
           /\ IsSequence(inbox[c]) /\ IsSequence(outbox[c])
           /\ IsLeft(left[c], Asks[c]) /\ \A q \in DOMAIN Asks[c] : Asks[c][q] \in Nat
<1>1. TypeInv /\ FlowTypes /\ CallTypes /\ ServerTypes /\ IsMap(strays)
    BY DEF CountInv, TypeInv, MapTypes
<1>2. IsMap(inbox) /\ IsMap(outbox) /\ IsMap(callbacks) /\ IsMap(left)
    BY <1>1, FlowMaps, CallMaps
<1>3. Counted(inbox[c], outbox[c], callbacks[c], left[c], Asks[c], strays[c])
    BY DEF CountInv
<1>4. IsSequence(inbox[c]) /\ IsSequence(outbox[c])
    BY <1>1, FlowHere DEF Flow
<1>5. IsLeft(left[c], Asks[c])
    BY <1>1, CallHere
<1>6. \A q \in DOMAIN Asks[c] : Asks[c][q] \in Nat
    BY CatalogAssumption
<1> QED
    BY <1>1, <1>2, <1>3, <1>4, <1>5, <1>6

LEMMA CountChanges ==
    ASSUME CountInv, TypeInv', NEW c \in Client,
           NEW in, Sets(inbox', inbox, c, in), NEW out, Sets(outbox', outbox, c, out),
           NEW cbs, Sets(callbacks', callbacks, c, cbs), NEW l, Sets(left', left, c, l),
           NEW gone, Sets(strays', strays, c, gone),
           Counted(in, out, cbs, l, Asks[c], gone)
    PROVE  CountInv'
<1>1. /\ IsMap(inbox) /\ IsMap(outbox) /\ IsMap(callbacks) /\ IsMap(left) /\ IsMap(strays)
      /\ \A e \in Client :
            Counted(inbox[e], outbox[e], callbacks[e], left[e], Asks[e], strays[e])
    BY CountHere
<1>2. inbox'[c] = in /\ \A e \in Client \ {c} : inbox'[e] = inbox[e]
    BY <1>1, SetsMeans
<1>3. outbox'[c] = out /\ \A e \in Client \ {c} : outbox'[e] = outbox[e]
    BY <1>1, SetsMeans
<1>4. callbacks'[c] = cbs /\ \A e \in Client \ {c} : callbacks'[e] = callbacks[e]
    BY <1>1, SetsMeans
<1>5. left'[c] = l /\ \A e \in Client \ {c} : left'[e] = left[e]
    BY <1>1, SetsMeans
<1>6. strays'[c] = gone /\ \A e \in Client \ {c} : strays'[e] = strays[e]
    BY <1>1, SetsMeans
<1>7. ASSUME NEW e \in Client
      PROVE  Counted(inbox'[e], outbox'[e], callbacks'[e], left'[e], Asks[e], strays'[e])
    <2>1. CASE e = c
        BY <1>2, <1>3, <1>4, <1>5, <1>6, <2>1, Zenon
    <2>2. CASE e # c
        <3>1. e \in Client \ {c}
            BY <2>2
        <3> QED
            BY <1>1, <1>2, <1>3, <1>4, <1>5, <1>6, <3>1, Zenon
    <2> QED
        BY <2>1, <2>2
<1> QED
    BY <1>7, Zenon DEF CountInv

LEMMA HandleCount ==
    ASSUME CountInv, TypeInv', NEW c \in Client, Handle(c)
    PROVE  CountInv'
<1>1. /\ FlowTypes /\ ServerTypes
      /\ IsMap(inbox) /\ IsMap(outbox) /\ IsMap(callbacks) /\ IsMap(left) /\ IsMap(strays)
    BY CountHere
<1>2. inbox[c] # <<>> /\ Serve(c) /\ UNCHANGED <<callbacks, left, strays>>
    BY <1>1, HandleServes DEF scVars
<1>3. PICK in, out, cbs, l, gone : /\ in = inbox[c] /\ out = outbox[c] /\ cbs = callbacks[c]
                                   /\ l = left[c] /\ gone = strays[c]
    OBVIOUS
<1>4. /\ IsSequence(in) /\ IsSequence(out) /\ in # <<>>
      /\ Counted(in, out, cbs, l, Asks[c], gone)
    BY <1>2, <1>3, CountHere
<1>5. /\ Sets(callbacks', callbacks, c, cbs) /\ Sets(left', left, c, l)
      /\ Sets(strays', strays, c, gone)
    BY <1>1, <1>2, <1>3, StaysSet
<1>6. ASSUME NEW in1, NEW out1,
             \A n, g : IsOnce(in, out, cbs, n, g) => IsOnce(in1, out1, cbs, n, g)
      PROVE  Counted(in1, out1, cbs, l, Asks[c], gone)
    BY <1>4, <1>6, Zenon DEF Counted
<1>7. ASSUME NEW in1, NEW out1, Sets(inbox', inbox, c, in1), Sets(outbox', outbox, c, out1),
             \A n, g : IsOnce(in, out, cbs, n, g) => IsOnce(in1, out1, cbs, n, g)
      PROVE  CountInv'
    <2>1. Counted(in1, out1, cbs, l, Asks[c], gone)
        BY <1>6, <1>7
    <2> HIDE <1>2
    <2> QED
        BY <1>5, <1>7, <2>1, CountChanges
<1>8. CASE Drops(c)
    <2>1. Sets(inbox', inbox, c, Tail(in)) /\ Sets(outbox', outbox, c, out)
        BY <1>1, <1>3, <1>8, MapKept, Zenon DEF Drops, Sets
    <2>2. \A n, g : IsOnce(in, out, cbs, n, g) => IsOnce(Tail(in), out, cbs, n, g)
        BY <1>4, OnceServed
    <2> QED
        BY <1>7, <2>1, <2>2
<1>9. CASE Dies(c)
    <2>1. Sets(inbox', inbox, c, <<>>) /\ Sets(outbox', outbox, c, out)
        BY <1>1, <1>3, <1>9, MapKept, Zenon DEF Dies, Sets
    <2>2. \A n, g : IsOnce(in, out, cbs, n, g) => IsOnce(<<>>, out, cbs, n, g)
        BY <1>4, OnceServed
    <2> QED
        BY <1>7, <2>1, <2>2
<1>10. ASSUME NEW reply, NEW to, NEW data, Answers(c, reply, to, data),
              Subject([reply |-> reply, to |-> to, data |-> data]) = Topic(Head(inbox[c]))
       PROVE  CountInv'
    <2>1. PICK a : a = [reply |-> reply, to |-> to, data |-> data]
        OBVIOUS
    <2>2. Sets(inbox', inbox, c, Tail(in)) /\ Sets(outbox', outbox, c, Append(out, a))
        BY <1>3, <1>10, <2>1, Zenon DEF Answers, Sets
    <2>3. Subject(a) = Topic(Head(in))
        BY <1>3, <1>10, <2>1
    <2>4. \A n, g : IsOnce(in, out, cbs, n, g) => IsOnce(Tail(in), Append(out, a), cbs, n, g)
        BY <1>4, <2>3, OnceServed
    <2> QED
        BY <1>7, <2>2, <2>4
<1> QED
    BY <1>2, <1>8, <1>9, <1>10, Zenon DEF Serve

LEMMA AskSets ==
    ASSUME NEW c, NEW cmd, NEW arg, Ask(c, cmd, arg),
           NEW l1, l1 = [left[c] EXCEPT ![<<cmd, arg>>] = @ - 1]
    PROVE  up[c] /\ <<cmd, arg>> \in DOMAIN left[c] /\ Sets(left', left, c, l1)
<1>1. PICK r : r = <<cmd, arg>>
    OBVIOUS
<1>2. up[c] /\ r \in DOMAIN left[c] /\ left' = [left EXCEPT ![c][r] = @ - 1]
    <2>1. /\ up[c] /\ <<cmd, arg>> \in DOMAIN left[c]
          /\ left' = [left EXCEPT ![c][<<cmd, arg>>] = @ - 1]
        BY Zenon DEF Ask
    <2> QED
        BY <1>1, <2>1, Zenon
<1>3. l1 = [left[c] EXCEPT ![r] = left[c][r] - 1]
    BY <1>1, Zenon
<1>4. left' = [left EXCEPT ![c] = l1]
    BY <1>2, <1>3, Zenon
<1> QED
    BY <1>1, <1>2, <1>4, Zenon DEF Sets

(* A call asks one question, whose callback waits from now on.             *)
LEMMA AsksCount ==
    ASSUME CountInv, TypeInv', NEW c \in Client, NEW m \in Messages, Ask(c, m.cmd, m.arg),
           Send(c, m), NEW cbs1, Sets(callbacks', callbacks, c, cbs1),
           \A g \in Questions : Topic(m) = g \/ Waiting(callbacks[c], g) => Waiting(cbs1, g),
           UNCHANGED <<outbox, strays>>
    PROVE  CountInv'
<1>1. IsMap(outbox) /\ IsMap(strays)
    BY CountHere
<1>2. PICK in, out, cbs, l, gone : /\ in = inbox[c] /\ out = outbox[c] /\ cbs = callbacks[c]
                                   /\ l = left[c] /\ gone = strays[c]
    OBVIOUS
<1>3. Sets(outbox', outbox, c, out) /\ Sets(strays', strays, c, gone)
    BY <1>1, <1>2, StaysSet
<1>4. PICK l1 : l1 = [l EXCEPT ![<<m.cmd, m.arg>>] = @ - 1]
    OBVIOUS
<1>5. up[c] /\ <<m.cmd, m.arg>> \in DOMAIN l /\ Sets(left', left, c, l1)
    <2>1. PICK cmd, arg : cmd = m.cmd /\ arg = m.arg
        OBVIOUS
    <2>2. Ask(c, cmd, arg) /\ l1 = [left[c] EXCEPT ![<<cmd, arg>>] = @ - 1]
        BY <1>2, <1>4, <2>1, Zenon
    <2>3. up[c] /\ <<cmd, arg>> \in DOMAIN left[c] /\ Sets(left', left, c, l1)
        BY <2>2, AskSets
    <2> QED
        BY <1>2, <2>1, <2>3, Zenon
<1>6. Sets(inbox', inbox, c, Append(in, m))
    BY <1>2, <1>5, Zenon DEF Send, Sets
<1>7. /\ Counted(in, out, cbs, l, Asks[c], gone) /\ IsSequence(in)
      /\ IsLeft(l, Asks[c]) /\ \A q \in DOMAIN Asks[c] : Asks[c][q] \in Nat
    BY <1>2, CountHere
<1>8. Counted(Append(in, m), out, cbs1, l1, Asks[c], gone)
    BY <1>2, <1>4, <1>5, <1>7, CountedAsks
<1> HIDE <1>1
<1> QED
    BY <1>3, <1>5, <1>6, <1>8, CountChanges

LEMMA CallsCount ==
    ASSUME CountInv, TypeInv', NEW c \in Client, Calls(c)
    PROVE  CountInv'
<1>1. PICK s \in Nat \ {0} : s = addSerial[c]
    BY CountHere, FlowHere
<1>2. PICK cbs : cbs = callbacks[c] /\ IsCallbacks(cbs, s)
    BY <1>1, CountHere, CallHere
<1>3. UNCHANGED <<outbox, strays>>
    BY CallsHistory
<1>4. ASSUME NEW m \in Messages, Ask(c, m.cmd, m.arg), Send(c, m), NEW cbs1,
             Sets(callbacks', callbacks, c, cbs1),
             \A g \in Questions : Topic(m) = g \/ Waiting(cbs, g) => Waiting(cbs1, g)
      PROVE  CountInv'
    BY <1>2, <1>3, <1>4, AsksCount
<1>5. /\ cbs = [add |-> cbs.add, find |-> cbs.find, list |-> cbs.list]
      /\ DOMAIN cbs = {"add", "find", "list"}
    BY <1>2 DEF IsCallbacks
<1>6. ASSUME NEW d \in DOMAIN Draft, Adds(c, d) PROVE CountInv'
    <2>1. PICK m, cbs1 : /\ m = Message("assetAddString", d, s)
                         /\ cbs1 = [cbs EXCEPT !.add = @ \cup {<<s, d>>}]
        OBVIOUS
    <2>2. m.cmd = "assetAddString" /\ m.arg = d /\ m \in Messages
        BY <2>1 DEF Message, Messages
    <2>3. Ask(c, m.cmd, m.arg) /\ Send(c, m) /\ Sets(callbacks', callbacks, c, cbs1)
        BY <1>1, <1>2, <1>6, <2>1, <2>2, Zenon DEF Adds, Sets
    <2>4. cbs1.find = cbs.find /\ cbs1.list = cbs.list
        BY <1>5, <2>1
    <2>5. \A g \in Questions : Topic(m) # g
        BY <2>2, TopicIs
    <2>6. \A g \in Questions : Topic(m) = g \/ Waiting(cbs, g) => Waiting(cbs1, g)
        BY <2>4, <2>5, Zenon DEF Waiting
    <2> QED
        BY <1>4, <2>2, <2>3, <2>6
<1>7. ASSUME NEW cmd, NEW arg, NEW x, Find(c, cmd, arg, x), Message(cmd, arg, 0) \in Messages,
             Topic(Message(cmd, arg, 0)) = x, x \in Ids \cup Names
      PROVE  CountInv'
    <2>1. PICK m, cbs1 : /\ m = Message(cmd, arg, 0)
                         /\ cbs1 = [cbs EXCEPT !.find = @ \cup {x}]
        OBVIOUS
    <2>2. m.cmd = cmd /\ m.arg = arg /\ m \in Messages /\ Topic(m) = x
        BY <1>7, <2>1 DEF Message
    <2>3. Ask(c, m.cmd, m.arg) /\ Send(c, m) /\ Sets(callbacks', callbacks, c, cbs1)
        BY <1>2, <1>7, <2>1, <2>2, Zenon DEF Find, Sets
    <2>4. cbs1.find = cbs.find \cup {x} /\ cbs1.list = cbs.list /\ x[1] # "list"
        BY <1>5, <1>7, <2>1 DEF Ids, Names
    <2>5. \A g \in Questions : Topic(m) = g \/ Waiting(cbs, g) => Waiting(cbs1, g)
        <3> TAKE g \in Questions
        <3>1. g \in cbs.find \/ g = x => g \in cbs1.find
            BY <2>4
        <3> QED
            BY <2>2, <2>4, <3>1, Zenon DEF Waiting
    <2> QED
        BY <1>4, <2>2, <2>3, <2>5
<1>8. ASSUME NEW cmd \in {"listAdd", "listFind"}, NEW n \in Key, NameList(c, cmd, n)
      PROVE  CountInv'
    <2>1. PICK m, cbs1, x : /\ m = Message(cmd, n, 0) /\ x = Named(n)
                            /\ cbs1 = [cbs EXCEPT !.list = @ \cup {x}]
        OBVIOUS
    <2>2. m.cmd = cmd /\ m.arg = n /\ m \in Messages /\ Topic(m) = <<"list", n>>
        <3>1. m.cmd = cmd /\ m.arg = n /\ m \in Messages
            BY <2>1 DEF Message, Messages
        <3>2. Topic(m) = <<"list", n>>
            BY <2>1, Topics
        <3> QED
            BY <3>1, <3>2
    <2>3. Ask(c, m.cmd, m.arg) /\ Send(c, m) /\ Sets(callbacks', callbacks, c, cbs1)
        BY <1>2, <1>8, <2>1, <2>2, Zenon DEF NameList, Sets
    <2>4. cbs1.find = cbs.find /\ cbs1.list = cbs.list \cup {x}
        BY <1>5, <2>1
    <2>5. \A g \in Questions : Topic(m) = g \/ Waiting(cbs, g) => Waiting(cbs1, g)
        <3> TAKE g \in Questions
        <3>1. CASE Topic(m) = g
            <4>1. g[1] = "list" /\ g[2] = n
                BY <2>2, <3>1
            <4>2. x \in cbs1.list
                BY <2>4
            <4> QED
                BY <2>1, <4>1, <4>2, Zenon DEF Waiting
        <3>2. CASE Waiting(cbs, g)
            <4>1. Named(g[2]) \in cbs.list => Named(g[2]) \in cbs1.list
                BY <2>4
            <4> QED
                BY <2>4, <3>2, <4>1, Zenon DEF Waiting
        <3> QED
            BY <3>1, <3>2
    <2> QED
        BY <1>4, <2>2, <2>3, <2>5
<1>9. ASSUME NEW n \in Key, Walks(c, n) PROVE CountInv'
    <2>1. PICK m, cbs1 : /\ m = Message("listNext", n, kBeginList)
                         /\ cbs1 = [cbs EXCEPT !.list = @ \cup {Id(n)}]
        OBVIOUS
    <2>2. m.cmd = "listNext" /\ m.arg = n /\ m \in Messages
        BY <2>1 DEF Message, Messages, kBeginList
    <2>3. Ask(c, m.cmd, m.arg) /\ Send(c, m) /\ Sets(callbacks', callbacks, c, cbs1)
        BY <1>2, <1>9, <2>1, <2>2, Zenon DEF Walks, Sets
    <2>4. cbs1.find = cbs.find /\ cbs1.list = cbs.list \cup {Id(n)}
        BY <1>5, <2>1
    <2>5. \A g \in Questions : Topic(m) # g
        BY <2>2, TopicIs
    <2>6. \A g \in Questions : Topic(m) = g \/ Waiting(cbs, g) => Waiting(cbs1, g)
        BY <2>4, <2>5 DEF Waiting
    <2> QED
        BY <1>4, <2>2, <2>3, <2>6
<1>10. ASSUME NEW k \in Key \cup {NoKey}
       PROVE  /\ Message("assetFind", k, 0) \in Messages
              /\ Topic(Message("assetFind", k, 0)) = Id(k) /\ Id(k) \in Ids
    BY Topics DEF Message, Messages, Id, Ids
<1>11. ASSUME NEW k \in Key
       PROVE  /\ Message("assetFindName", k, 0) \in Messages
              /\ Topic(Message("assetFindName", k, 0)) = Named(k) /\ Named(k) \in Names
    BY Topics DEF Message, Messages, Named, Names
<1>12. ASSUME NEW k \in Key \cup {NoKey}, Find(c, "assetFind", k, Id(k)) PROVE CountInv'
    <2>1. PICK x : x = Id(k)
        OBVIOUS
    <2> QED
        BY <1>7, <1>10, <1>12, <2>1, Zenon
<1>13. ASSUME NEW k \in Key, Find(c, "assetFindName", k, Named(k)) PROVE CountInv'
    <2>1. PICK x : x = Named(k)
        OBVIOUS
    <2> QED
        BY <1>7, <1>11, <1>13, <2>1, Zenon
<1> QED
    BY <1>6, <1>8, <1>9, <1>12, <1>13, CallsAre

(* An answer about a list removes no other callback.                       *)
LEMMA ListStays ==
    ASSUME NEW a, IsAnswer(a), a.reply \in {"listFound", "listError"}, NEW cbs, NEW cbs1,
           cbs1.find = cbs.find, cbs1.list = cbs.list \/ cbs1.list = cbs.list \ {a.to},
           NEW h \in Questions, Subject(a) # h, Waiting(cbs, h)
    PROVE  Waiting(cbs1, h)
<1>1. PICK to : to = a.to
    OBVIOUS
<1>2. Subject(a) = <<"list", to[2]>> /\ to \in Names
    BY <1>1, SubjectIs
<1>3. CASE h[1] = "list"
    <2>1. h = <<h[1], h[2]>>
        BY QuestionKinds
    <2>2. h[2] # to[2]
        BY <1>2, <1>3, <2>1
    <2>3. Named(h[2]) # to
        BY <1>2, <2>2 DEF Names, Named
    <2>4. Named(h[2]) \in cbs.list
        BY <1>3 DEF Waiting
    <2>5. Named(h[2]) \in cbs1.list
        BY <1>1, <2>3, <2>4
    <2> QED
        BY <1>3, <2>5 DEF Waiting
<1>4. CASE h[1] # "list"
    BY <1>4 DEF Waiting
<1> QED
    BY <1>3, <1>4

(* An answer is heard; only one that met no callback strays.               *)
LEMMA ReceivesCount ==
    ASSUME CountInv, TypeInv', NEW c \in Client, Receives(c)
    PROVE  CountInv'
<1>1. PICK in, out, cbs, l, gone, s :
         /\ in = inbox[c] /\ out = outbox[c] /\ cbs = callbacks[c]
         /\ l = left[c] /\ gone = strays[c] /\ s = addSerial[c]
    OBVIOUS
<1>2. /\ Counted(in, out, cbs, l, Asks[c], gone) /\ IsSequence(in) /\ IsSequence(out)
      /\ IsLeft(l, Asks[c]) /\ \A q \in DOMAIN Asks[c] : Asks[c][q] \in Nat
      /\ IsCallbacks(cbs, s) /\ s \in Nat \ {0}
    BY <1>1, CountHere, CallHere, FlowHere
<1>3. /\ cbs = [add |-> cbs.add, find |-> cbs.find, list |-> cbs.list]
      /\ DOMAIN cbs = {"add", "find", "list"}
    BY <1>2 DEF IsCallbacks
<1>4. /\ FlowTypes /\ CallTypes /\ IsMap(inbox) /\ IsMap(outbox) /\ IsMap(callbacks)
      /\ IsMap(left) /\ IsMap(strays)
    BY CountHere
<1>5. ASSUME NEW reply, Hears(c, reply)
      PROVE  /\ out # <<>> /\ Sets(outbox', outbox, c, Tail(out))
             /\ Head(out).reply = reply /\ IsAnswer(Head(out))
    <2>1. /\ out # <<>> /\ Sets(outbox', outbox, c, Tail(out)) /\ Head(out).reply = reply
        BY <1>1, <1>5, Zenon DEF Hears, Sets
    <2>2. IsAnswer(Head(out))
        BY <1>1, <1>4, <2>1, FlowHere, FlowHears
    <2> QED
        BY <2>1, <2>2
<1>6. /\ inbox' = inbox => Sets(inbox', inbox, c, in)
      /\ callbacks' = callbacks => Sets(callbacks', callbacks, c, cbs)
      /\ left' = left => Sets(left', left, c, l)
      /\ strays' = strays => Sets(strays', strays, c, gone)
    BY <1>1, <1>4, StaysSet
<1>7. Strayed(c) => Sets(strays', strays, c, gone \cup {<<Head(out).reply, Head(out).to>>})
    BY <1>1, Zenon DEF Strayed, Sets
<1>8. ASSUME NEW in1, Sets(inbox', inbox, c, in1), Sets(outbox', outbox, c, Tail(out)),
             NEW cbs1, Sets(callbacks', callbacks, c, cbs1), NEW l1, Sets(left', left, c, l1),
             NEW gone1, Sets(strays', strays, c, gone1),
             Counted(in1, Tail(out), cbs1, l1, Asks[c], gone1)
      PROVE  CountInv'
    BY <1>8, CountChanges
<1> HIDE <1>4
<1>9. CASE OnAssetAdded(c)
    <2>1. PICK S : /\ callbacks' = [callbacks EXCEPT ![c].add = @ \ S]
                   /\ Hears(c, "assetAdded") /\ UNCHANGED <<inbox, left, strays>>
        BY <1>9, Zenon DEF OnAssetAdded
    <2>2. PICK cbs1 : cbs1 = [cbs EXCEPT !.add = @ \ S]
        OBVIOUS
    <2>3. Sets(callbacks', callbacks, c, cbs1)
        BY <1>1, <2>1, <2>2, Zenon DEF Sets
    <2>4. cbs1.find = cbs.find /\ cbs1.list = cbs.list
        BY <1>3, <2>2
    <2>5. \A g \in Questions : Subject(Head(out)) # g /\ Waiting(cbs, g) => Waiting(cbs1, g)
        BY <2>4, Zenon DEF Waiting
    <2>6. Counted(in, Tail(out), cbs1, l, Asks[c], gone)
        BY <1>2, <1>5, <2>1, <2>5, CountedHears
    <2> QED
        BY <1>5, <1>6, <1>8, <2>1, <2>3, <2>6
<1>10. ASSUME NEW reply \in {"assetFound", "assetError"}, OnFound(c, reply) PROVE CountInv'
    <2>1. PICK to, m : to = Head(out).to /\ m = Message(Again(to), to[2], 0)
        OBVIOUS
    <2>2. /\ Hears(c, reply)
          /\ callbacks' = [callbacks EXCEPT ![c].find = @ \ {to}]
          /\ \/ to \in cbs.find /\ UNCHANGED <<inbox, left, strays>>
             \/ /\ to \in cbs.find /\ UNCHANGED strays
                /\ Ask(c, Again(to), to[2]) /\ Send(c, m)
             \/ to \notin cbs.find /\ Strayed(c) /\ UNCHANGED <<inbox, left>>
        BY <1>1, <1>10, <2>1, FoundMeans, Zenon
    <2>3. /\ out # <<>> /\ Sets(outbox', outbox, c, Tail(out))
          /\ Head(out).reply = reply /\ IsAnswer(Head(out))
        BY <1>5, <2>2
    <2>4. /\ Subject(Head(out)) = to /\ to \in Ids \cup Names /\ to \in Questions
          /\ \A any : Waiting(any, to) <=> to \in any.find
        BY <2>1, <2>3, SubjectIs
    <2>5. PICK cbs1 : cbs1 = [cbs EXCEPT !.find = @ \ {to}]
        OBVIOUS
    <2>6. Sets(callbacks', callbacks, c, cbs1)
        BY <1>1, <2>2, <2>5, Zenon DEF Sets
    <2>7. cbs1.find = cbs.find \ {to} /\ cbs1.list = cbs.list
        BY <1>3, <2>5
    <2>8. \A g \in Questions : Subject(Head(out)) # g /\ Waiting(cbs, g) => Waiting(cbs1, g)
        <3> TAKE g \in Questions
        <3>1. g # to /\ g \in cbs.find => g \in cbs1.find
            BY <2>7
        <3> QED
            BY <2>4, <2>7, <3>1, Zenon DEF Waiting
    <2>9. CASE to \in cbs.find /\ UNCHANGED <<inbox, left, strays>>
        <3>1. Counted(in, Tail(out), cbs1, l, Asks[c], gone)
            BY <1>2, <2>3, <2>8, CountedHears
        <3> QED
            BY <1>6, <1>8, <2>3, <2>6, <2>9, <3>1
    <2>10. CASE to \notin cbs.find /\ Strayed(c) /\ UNCHANGED <<inbox, left>>
        <3>1. PICK gone1 : gone1 = gone \cup {<<Head(out).reply, Head(out).to>>}
            OBVIOUS
        <3>2. Counted(in, out, cbs, l, Asks[c], gone1)
            <4>1. Subject(Head(out)) \in Questions /\ ~ Waiting(cbs, Subject(Head(out)))
                BY <2>4, <2>10
            <4>2. Head(out).reply \in {"assetFound", "assetError", "listFound", "listError"}
                BY <2>3
            <4> QED
                BY <1>2, <2>3, <3>1, <4>1, <4>2, CountedStrays
        <3>3. Counted(in, Tail(out), cbs1, l, Asks[c], gone1)
            BY <1>2, <2>3, <2>8, <3>2, CountedHears
        <3>4. Sets(strays', strays, c, gone1)
            BY <1>7, <2>10, <3>1
        <3> QED
            BY <1>6, <1>8, <2>3, <2>6, <2>10, <3>3, <3>4
    <2>11. CASE UNCHANGED strays /\ Ask(c, Again(to), to[2]) /\ Send(c, m)
        <3>1. IsMessage(m, s) /\ Topic(m) = to
            BY <1>2, <2>1, <2>4, AgainTyped
        <3>2. m \in Messages /\ m.cmd = Again(to) /\ m.arg = to[2]
            BY <2>1, <3>1 DEF IsMessage, Message
        <3>3. PICK cmd, arg, l1 : /\ cmd = Again(to) /\ arg = to[2]
                                  /\ l1 = [l EXCEPT ![<<cmd, arg>>] = @ - 1]
            OBVIOUS
        <3>4. Ask(c, cmd, arg) /\ l1 = [left[c] EXCEPT ![<<cmd, arg>>] = @ - 1]
            BY <1>1, <2>11, <3>3, Zenon
        <3>5. up[c] /\ <<cmd, arg>> \in DOMAIN left[c] /\ Sets(left', left, c, l1)
            BY <3>4, AskSets
        <3>6. Sets(inbox', inbox, c, Append(in, m))
            BY <1>1, <2>11, <3>5, Zenon DEF Send, Sets
        <3>7. Counted(Append(in, m), Tail(out), cbs1, l1, Asks[c], gone)
            <4>1. <<m.cmd, m.arg>> \in DOMAIN l /\ l1 = [l EXCEPT ![<<m.cmd, m.arg>>] = @ - 1]
                BY <1>1, <3>2, <3>3, <3>5, Zenon
            <4>2. Topic(m) = Subject(Head(out)) /\ m \in Messages
                BY <2>4, <3>1, <3>2
            <4> QED
                BY <1>2, <2>3, <2>8, <4>1, <4>2, CountedAgain
        <3> QED
            BY <1>6, <1>8, <2>3, <2>6, <2>11, <3>5, <3>6, <3>7
    <2> QED
        BY <2>2, <2>9, <2>10, <2>11
<1>11. ASSUME NEW reply \in {"listFound", "listError"}, Hears(c, reply),
              NEW cbs1, Sets(callbacks', callbacks, c, cbs1),
              cbs1.find = cbs.find,
              cbs1.list = cbs.list \/ cbs1.list = cbs.list \ {Head(out).to},
              UNCHANGED <<inbox, left>>,
              IF Head(out).to \in cbs.list THEN UNCHANGED strays ELSE Strayed(c)
       PROVE  CountInv'
    <2>1. PICK to, g : to = Head(out).to /\ g = Subject(Head(out))
        OBVIOUS
    <2>2. /\ out # <<>> /\ Sets(outbox', outbox, c, Tail(out))
          /\ Head(out).reply = reply /\ IsAnswer(Head(out))
        BY <1>5, <1>11
    <2>3. /\ g = <<"list", to[2]>> /\ to \in Names /\ g \in Questions
          /\ \A any : Waiting(any, g) <=> to \in any.list
        BY <2>1, <2>2, SubjectIs
    <2>4. \A h \in Questions : g # h /\ Waiting(cbs, h) => Waiting(cbs1, h)
        BY <1>11, <2>1, <2>2, ListStays
    <2>5. CASE to \in cbs.list
        <3>1. Counted(in, Tail(out), cbs1, l, Asks[c], gone)
            BY <1>2, <2>1, <2>2, <2>4, CountedHears
        <3>2. UNCHANGED <<inbox, left, strays>>
            BY <1>11, <2>1, <2>5
        <3> QED
            BY <1>6, <1>8, <1>11, <2>2, <3>1, <3>2
    <2>6. CASE to \notin cbs.list
        <3>1. PICK gone1 : gone1 = gone \cup {<<Head(out).reply, Head(out).to>>}
            OBVIOUS
        <3>2. Counted(in, out, cbs, l, Asks[c], gone1)
            <4>1. Subject(Head(out)) \in Questions /\ ~ Waiting(cbs, Subject(Head(out)))
                BY <2>1, <2>3, <2>6
            <4>2. Head(out).reply \in {"assetFound", "assetError", "listFound", "listError"}
                BY <2>2
            <4> QED
                BY <1>2, <2>2, <3>1, <4>1, <4>2, CountedStrays
        <3>3. Counted(in, Tail(out), cbs1, l, Asks[c], gone1)
            BY <1>2, <2>1, <2>2, <2>4, <3>2, CountedHears
        <3>4. Sets(strays', strays, c, gone1)
            BY <1>7, <1>11, <2>1, <2>6, <3>1
        <3> QED
            BY <1>6, <1>8, <1>11, <2>2, <3>3, <3>4
    <2> QED
        BY <2>5, <2>6
<1>12. CASE OnListFound(c)
    <2>1. PICK to : to = Head(out).to
        OBVIOUS
    <2>2. /\ Hears(c, "listFound")
          /\ callbacks' = [callbacks EXCEPT ![c].list = @ \ {to}]
          /\ \/ /\ UNCHANGED <<inbox, left>>
                /\ IF to \in cbs.list THEN UNCHANGED strays ELSE Strayed(c)
             \/ /\ UNCHANGED strays
                /\ \E cmd \in {"listAdd", "listFind"} :
                      Ask(c, cmd, to[2]) /\ Send(c, Message(cmd, to[2], 0))
        BY <1>1, <1>12, <2>1, ListFoundMeans, Zenon
    <2>3. PICK cbs1 : cbs1 = [cbs EXCEPT !.list = @ \ {to}]
        OBVIOUS
    <2>4. Sets(callbacks', callbacks, c, cbs1)
        BY <1>1, <2>2, <2>3, Zenon DEF Sets
    <2>5. cbs1.find = cbs.find /\ cbs1.list = cbs.list \ {to}
        BY <1>3, <2>3
    <2>6. CASE /\ UNCHANGED <<inbox, left>>
               /\ IF to \in cbs.list THEN UNCHANGED strays ELSE Strayed(c)
        BY <1>11, <2>1, <2>2, <2>4, <2>5, <2>6, Zenon
    <2>7. ASSUME UNCHANGED strays, NEW cmd \in {"listAdd", "listFind"},
                 Ask(c, cmd, to[2]), Send(c, Message(cmd, to[2], 0))
          PROVE  CountInv'
        <3>1. PICK m, arg, l1 : /\ m = Message(cmd, to[2], 0) /\ arg = to[2]
                                /\ l1 = [l EXCEPT ![<<cmd, arg>>] = @ - 1]
            OBVIOUS
        <3>2. /\ out # <<>> /\ Sets(outbox', outbox, c, Tail(out))
              /\ Head(out).reply = "listFound" /\ IsAnswer(Head(out))
            BY <1>5, <2>2
        <3>3. Subject(Head(out)) = <<"list", to[2]>> /\ to \in Names
            BY <2>1, <3>2, SubjectIs
        <3>4. IsMessage(m, s) /\ Topic(m) = Subject(Head(out))
            BY <1>2, <3>1, <3>3, ListAgainTyped
        <3>5. m \in Messages /\ m.cmd = cmd /\ m.arg = arg
            BY <3>1, <3>4 DEF IsMessage, Message
        <3>6. up[c] /\ <<cmd, arg>> \in DOMAIN left[c] /\ Sets(left', left, c, l1)
            <4>1. Ask(c, cmd, arg) /\ l1 = [left[c] EXCEPT ![<<cmd, arg>>] = @ - 1]
                BY <1>1, <2>7, <3>1, Zenon
            <4> QED
                BY <4>1, AskSets
        <3>7. Sets(inbox', inbox, c, Append(in, m))
            BY <1>1, <2>7, <3>1, <3>6, Zenon DEF Send, Sets
        <3>8. \A g \in Questions : Subject(Head(out)) # g /\ Waiting(cbs, g) => Waiting(cbs1, g)
            BY <2>1, <2>5, <3>2, ListStays
        <3>9. Counted(Append(in, m), Tail(out), cbs1, l1, Asks[c], gone)
            <4>1. <<m.cmd, m.arg>> \in DOMAIN l /\ l1 = [l EXCEPT ![<<m.cmd, m.arg>>] = @ - 1]
                BY <1>1, <3>1, <3>5, <3>6, Zenon
            <4> QED
                BY <1>2, <3>2, <3>4, <3>5, <3>8, <4>1, CountedAgain
        <3> QED
            BY <1>6, <1>8, <2>4, <2>7, <3>2, <3>6, <3>7, <3>9
    <2> QED
        BY <2>2, <2>6, <2>7
<1>13. CASE OnListError(c)
    <2>1. /\ Hears(c, "listError") /\ UNCHANGED <<inbox, left, callbacks>>
          /\ IF Head(out).to \in cbs.list THEN UNCHANGED strays ELSE Strayed(c)
        BY <1>1, <1>13, Zenon DEF OnListError
    <2>2. Sets(callbacks', callbacks, c, cbs)
        BY <1>6, <2>1
    <2> QED
        BY <1>11, <2>1, <2>2, Zenon
<1>14. CASE OnListItems(c)
    <2>1. PICK page, m : /\ page = Head(out).data
                         /\ m = Message("listNext", walk[c].list, LastOf(page)[3])
        OBVIOUS
    <2>2. /\ Hears(c, "listItems") /\ UNCHANGED <<callbacks, left, strays>>
          /\ UNCHANGED inbox \/ Send(c, m)
        BY <1>1, <1>14, <2>1, ItemsMeans, Zenon
    <2>3. /\ out # <<>> /\ Sets(outbox', outbox, c, Tail(out))
          /\ Head(out).reply = "listItems" /\ IsAnswer(Head(out))
        BY <1>5, <2>2
    <2>4. Counted(in, Tail(out), cbs, l, Asks[c], gone)
        BY <1>2, <2>3, CountedHears
    <2>5. CASE UNCHANGED inbox
        BY <1>6, <1>8, <2>2, <2>3, <2>4, <2>5
    <2>6. CASE inbox' # inbox
        <3>1. Sets(inbox', inbox, c, Append(in, m))
            BY <1>1, <2>2, <2>6, Zenon DEF Send, Sets
        <3>2. Topic(m) = Walking
            BY <2>1, Topics
        <3>3. Counted(Append(in, m), Tail(out), cbs, l, Asks[c], gone)
            BY <1>2, <2>4, <3>2, CountedWalks
        <3> QED
            BY <1>6, <1>8, <2>2, <2>3, <3>1, <3>3
    <2> QED
        BY <2>5, <2>6
<1> QED
    BY <1>9, <1>10, <1>12, <1>13, <1>14, ReceivesAre

LEMMA CountInit ==
    ASSUME Init
    PROVE  CountInv
<1>1. TypeInv
    BY TypesInit
<1>2. ASSUME NEW c \in Client
      PROVE  Counted(inbox[c], outbox[c], callbacks[c], left[c], Asks[c], strays[c])
    <2>1. /\ inbox[c] = <<>> /\ outbox[c] = <<>> /\ left[c] = Asks[c] /\ strays[c] = {}
        BY Zenon DEF Init
    <2>2. PICK asks, cbs : asks = Asks[c] /\ cbs = callbacks[c]
        OBVIOUS
    <2>3. \A q \in DOMAIN asks : asks[q] \in Nat
        BY <2>2, CatalogAssumption
    <2>4. \A cmd, arg : Used(asks, asks, cmd, arg) = 0
        <3> TAKE cmd, arg
        <3>1. PICK q : q = <<cmd, arg>>
            OBVIOUS
        <3>2. Used(asks, asks, cmd, arg) = IF q \in DOMAIN asks THEN asks[q] - asks[q] ELSE 0
            BY <3>1, Zenon DEF Used
        <3> QED
            BY <2>3, <3>2
    <2>5. \A g \in Questions : Uses(asks, asks, g) = 0
        <3> TAKE g \in Questions
        <3>1. g[1] \in {"id", "name", "list"}
            BY QuestionKinds
        <3>2. /\ Used(asks, asks, "assetFind", g[2]) = 0
              /\ Used(asks, asks, "assetFindName", g[2]) = 0
              /\ Used(asks, asks, "listAdd", g[2]) = 0
              /\ Used(asks, asks, "listFind", g[2]) = 0
            BY <2>4
        <3> QED
            BY <3>1, <3>2, SMT DEF Uses
    <2>6. \A g : NoneAbout(<<>>, <<>>, g)
        BY NoElements DEF NoneAbout, NotAsked, NotAnswered
    <2>7. \A g \in Questions : IsOnce(<<>>, <<>>, cbs, Uses(asks, asks, g), g)
        BY <2>5, <2>6 DEF IsOnce
    <2>8. Counted(<<>>, <<>>, cbs, asks, asks, {})
        BY <2>7 DEF Counted
    <2> QED
        BY <2>1, <2>2, <2>8, Zenon
<1> QED
    BY <1>1, <1>2 DEF CountInv

LEMMA CountKept ==
    ASSUME CountInv, [Next]_vars
    PROVE  CountInv'
<1>1. TypeInv'
    BY TypesKept DEF CountInv
<1>2. CASE UNCHANGED vars
    <2>1. UNCHANGED <<inbox, outbox, callbacks, left, strays>>
        BY <1>2 DEF vars
    <2> QED
        BY <1>1, <2>1, Zenon DEF CountInv
<1> QED
    BY <1>1, <1>2, CallsCount, HandleCount, ReceivesCount DEF Next

(* An answer meets no callback only if what it answers was asked for more  *)
(* than once: StrayOnlyIfRepeated (SCLOrkConfab.sc:48, 122, 149).          *)
THEOREM StraysAreRepeated == Spec => []StrayOnlyIfRepeated
<1>1. CountInv => StrayOnlyIfRepeated
    <2> SUFFICES ASSUME CountInv PROVE StrayOnlyIfRepeated
        OBVIOUS
    <2>1. ASSUME NEW c \in Client, NEW stray \in strays[c]
          PROVE  LET to == stray[2]
                 IN  IF stray[1] \in {"listFound", "listError"}
                     THEN Times(c, "listAdd", to) + Times(c, "listFind", to) > 1
                     ELSE Times(c, IF to[1] = "id" THEN "assetFind" ELSE "assetFindName", to) > 1
        <3>1. PICK l, asks, to, reply :
                 l = left[c] /\ asks = Asks[c] /\ to = stray[2] /\ reply = stray[1]
            OBVIOUS
        <3>2. IsRepeated(l, asks, stray)
            BY <2>1, <3>1, CountHere DEF Counted
        <3>3. \A cmd : Times(c, cmd, to) = Used(l, asks, cmd, to[2])
            BY <3>1, Zenon DEF Times, Used
        <3>4. CASE /\ reply \in {"assetFound", "assetError"} /\ to \in Ids \cup Names
                   /\ Uses(l, asks, to) > 1
            <4>1. to[1] \in {"id", "name"}
                BY <3>4 DEF Ids, Names
            <4>2. PICK cmd : cmd = IF to[1] = "id" THEN "assetFind" ELSE "assetFindName"
                OBVIOUS
            <4>3. Uses(l, asks, to) = Used(l, asks, cmd, to[2])
                BY <4>1, <4>2, SMT DEF Uses
            <4>4. Times(c, cmd, to) > 1
                BY <3>3, <3>4, <4>3
            <4>5. reply \notin {"listFound", "listError"}
                BY <3>4
            <4> QED
                BY <3>1, <4>2, <4>4, <4>5, Zenon
        <3>5. CASE /\ reply \in {"listFound", "listError"} /\ to \in Names
                   /\ Uses(l, asks, <<"list", to[2]>>) > 1
            <4>1. PICK g : g = <<"list", to[2]>>
                OBVIOUS
            <4>2. g[1] = "list" /\ g[2] = to[2] /\ Uses(l, asks, g) > 1
                BY <3>5, <4>1
            <4>3. Uses(l, asks, g) = Used(l, asks, "listAdd", to[2])
                                        + Used(l, asks, "listFind", to[2])
                BY <4>2, SMT DEF Uses
            <4>4. Times(c, "listAdd", to) + Times(c, "listFind", to) > 1
                BY <3>3, <4>2, <4>3
            <4> QED
                BY <3>1, <3>5, <4>4, Zenon
        <3> QED
            BY <3>1, <3>2, <3>4, <3>5, Zenon DEF IsRepeated
    <2> QED
        BY <2>1, Zenon DEF StrayOnlyIfRepeated
<1> QED
    BY <1>1, CountInit, CountKept, PTL DEF Spec

----------------------------------------------------------------------------
(***************************************************************************)
(* Lists, and walks through them                                           *)
(***************************************************************************)
EntriesOf(d, l) == {k \in DOMAIN d : EntryOf(k, l)}
FirstOf(l) == ListEntryKey(l, kBeginList, kBeginList)
EndOf(l) == ListEntryKey(l, kEndList, kEndList)

(* A list has its sentinels, only a list has an end, and there is nothing  *)
(* yet in a list whose key is still drawn.                                 *)
IsListed(d, drawn, k) ==
    /\ k[3] \in Word /\ k[4] \in Word
    /\ k[3] = kEndList => k[4] = kEndList /\ ListKey(k[2]) \in DOMAIN d
    /\ k[2] \notin Range(drawn)

Listed(d, drawn) ==
    /\ \A k \in DOMAIN d : k[1] = kListEntry => IsListed(d, drawn, k)
    /\ \A l : ListKey(l) \in DOMAIN d => FirstOf(l) \in DOMAIN d /\ EndOf(l) \in DOMAIN d

NeverThere(d, drawn, l) == ListKey(l) \notin DOMAIN d /\ l \notin Range(drawn)

(* A question for a page leaves no entry behind that the walk must see,    *)
(* and neither does a page.                                                *)
AsksOn(m, w, d) ==
    /\ m.arg = w.list /\ m.n # kEndList
    /\ w.there =>
          \E p \in EntriesOf(d, w.list) :
             /\ p[3] = m.n
             /\ \A x \in w.due : \/ x \in w.seen
                                 \/ \E e \in EntriesOf(d, w.list) : e[4] = x /\ Before(p, e)

IsPage(page, w, d) ==
    /\ page \subseteq EntriesOf(d, w.list)
    /\ w.there =>
          /\ page # {}
          /\ \A x \in w.due :
                \/ x \in w.seen
                \/ \E e \in EntriesOf(d, w.list) :
                      e[4] = x /\ (e \in page \/ \A k \in page : Before(k, e))

Leads(w, d, drawn) ==
    /\ w.there => ListKey(w.list) \in DOMAIN d
    /\ ~ w.there => w.due = {} \/ NeverThere(d, drawn, w.list)
    /\ w.state = "done" => w.due \subseteq w.seen
    /\ w.state = "failed" => ~ w.there

Walked(in, out, w, d, drawn) ==
    /\ OneAbout(in, out, Walking)
    /\ w.state # "on" => NoneAbout(in, out, Walking)
    /\ Leads(w, d, drawn)
    /\ \A m \in Range(in) : Topic(m) = Walking => AsksOn(m, w, d)
    /\ \A a \in Range(out) : Subject(a) = Walking => IsPage(a.data, w, d)

(* The database and the keys that are still drawn change so.               *)
Lists(d, drawn, d1, drawn1) ==
    /\ DOMAIN d \subseteq DOMAIN d1
    /\ Range(drawn1) \subseteq Range(drawn)
    /\ \A l : ListKey(l) \in DOMAIN d1 => ListKey(l) \in DOMAIN d \/ l \in Range(drawn)

LEMMA DrawnRange ==
    ASSUME NEW drawn, AreDraws(drawn), drawn # <<>>
    PROVE  /\ Range(Tail(drawn)) \subseteq Range(drawn)
           /\ Head(drawn) \in Range(drawn) /\ Head(drawn) \in Key
           /\ Head(drawn) \notin Range(Tail(drawn))
           /\ \A d \in DOMAIN Draft : \A l \in Draft[d].lists : l \notin Range(drawn)
<1>1. IsSequence(drawn)
    BY DEF AreDraws, IsSequence
<1>2. Range(Tail(drawn)) \subseteq Range(drawn) /\ Head(drawn) \in Range(drawn)
    BY <1>1, Removed
<1>3. Head(drawn) \in Key /\ \A i \in DOMAIN Tail(drawn) : Tail(drawn)[i] # Head(drawn)
    BY DrawTyped
<1>4. Head(drawn) \notin Range(Tail(drawn))
    BY <1>3, Zenon DEF Range
<1>5. \A d \in DOMAIN Draft : \A l \in Draft[d].lists : l \notin Range(drawn)
    BY Zenon DEF AreDraws, Range
<1> QED
    BY <1>2, <1>3, <1>4, <1>5

LEMMA AssetStoredListed ==
    ASSUME NEW d, NEW drawn, AreDraws(drawn), drawn # <<>>, Listed(d, drawn),
           NEW name \in DOMAIN Draft, NEW content, NEW t \in Time, NEW d1,
           d1 = storeAsset(d, Head(drawn), AssetOf(name, Head(drawn), content), t)
    PROVE  Listed(d1, Tail(drawn)) /\ Lists(d, drawn, d1, Tail(drawn))
<1>1. PICK key, asset, drawn1 :
         key = Head(drawn) /\ asset = AssetOf(name, key, content) /\ drawn1 = Tail(drawn)
    OBVIOUS
<1>2. IsAssetStored(d1, d, key, asset, t)
    BY <1>1, AssetStored
<1>3. DOMAIN d1 = DOMAIN d \cup {AssetKey(key)} \cup EntryKeys(asset, t, key)
                    \cup NameKeys(asset)
    BY <1>2, Zenon DEF IsAssetStored
<1>4. /\ Range(drawn1) \subseteq Range(drawn) /\ key \in Key
      /\ \A l \in Draft[name].lists : l \notin Range(drawn)
    BY <1>1, DrawnRange
<1>5. asset.lists = Draft[name].lists
    BY <1>1 DEF AssetOf
<1>6. /\ t \in Word /\ t # kEndList /\ key \in Word
    BY <1>4, KeyNumbers
<1>7. \A n : ListKey(n) \in DOMAIN d1 => ListKey(n) \in DOMAIN d
    <2> SUFFICES ASSUME NEW n, ListKey(n) \in DOMAIN d1, ListKey(n) \notin DOMAIN d PROVE FALSE
        OBVIOUS
    <2>1. ListKey(n)[1] = 4 /\ AssetKey(key)[1] = 1
        BY KeyParts
    <2>2. ListKey(n) \notin EntryKeys(asset, t, key) /\ ListKey(n) \notin NameKeys(asset)
        BY <2>1, StoredKeyParts
    <2> QED
        BY <1>3, <2>1, <2>2
<1>8. Lists(d, drawn, d1, drawn1)
    BY <1>3, <1>4, <1>7 DEF Lists
<1>9. ASSUME NEW k \in DOMAIN d1, k[1] = kListEntry PROVE IsListed(d1, drawn1, k)
    <2>1. CASE k \in DOMAIN d
        <3>1. IsListed(d, drawn, k)
            BY <1>9, <2>1 DEF Listed
        <3> QED
            BY <1>3, <1>4, <3>1 DEF IsListed
    <2>2. CASE k \in EntryKeys(asset, t, key)
        <3>1. PICK l \in asset.lists : k = ListEntryKey(l, t, key)
            BY <2>2 DEF EntryKeys
        <3>2. k[2] = l /\ k[3] = t /\ k[4] = key
            BY <3>1, KeyParts
        <3>3. l \notin Range(drawn1)
            BY <1>4, <1>5
        <3> QED
            BY <1>6, <3>2, <3>3 DEF IsListed
    <2>3. k # AssetKey(key) /\ k \notin NameKeys(asset)
        BY <1>9, KeyParts, StoredKeyParts
    <2> QED
        BY <1>3, <2>1, <2>2, <2>3
<1>10. \A l : ListKey(l) \in DOMAIN d1 => FirstOf(l) \in DOMAIN d1 /\ EndOf(l) \in DOMAIN d1
    BY <1>3, <1>7, Zenon DEF Listed
<1> QED
    BY <1>1, <1>8, <1>9, <1>10 DEF Listed

LEMMA ListStoredListed ==
    ASSUME NEW d, NEW drawn, AreDraws(drawn), drawn # <<>>, Listed(d, drawn), NEW record,
           NEW d1, d1 = storeList(d, Head(drawn), record)
    PROVE  Listed(d1, Tail(drawn)) /\ Lists(d, drawn, d1, Tail(drawn))
<1>1. PICK list, drawn1 : list = Head(drawn) /\ drawn1 = Tail(drawn)
    OBVIOUS
<1>2. IsListStored(d1, d, list, record)
    BY <1>1, ListStored
<1>3. DOMAIN d1 = DOMAIN d \cup {ListKey(list)} \cup SentinelKeys(list) \cup ListNameKeys(record)
    BY <1>2, Zenon DEF IsListStored
<1>4. /\ Range(drawn1) \subseteq Range(drawn) /\ list \in Range(drawn)
      /\ list \notin Range(drawn1)
    BY <1>1, DrawnRange
<1>5. ASSUME NEW n, ListKey(n) \in DOMAIN d1 PROVE ListKey(n) \in DOMAIN d \/ n = list
    <2>1. ListKey(n)[1] = 4 /\ ListKey(n)[2] = n /\ ListKey(list)[2] = list
        BY KeyParts
    <2>2. ListKey(n) \notin SentinelKeys(list) /\ ListKey(n) \notin ListNameKeys(record)
        BY <2>1, StoredKeyParts
    <2> QED
        BY <1>3, <1>5, <2>1, <2>2
<1>6. Lists(d, drawn, d1, drawn1)
    BY <1>3, <1>4, <1>5 DEF Lists
<1>7. SentinelKeys(list) = {FirstOf(list), EndOf(list)}
    BY DEF SentinelKeys, FirstOf, EndOf
<1>8. /\ FirstOf(list)[2] = list /\ FirstOf(list)[3] = kBeginList /\ FirstOf(list)[4] = kBeginList
      /\ EndOf(list)[2] = list /\ EndOf(list)[3] = kEndList /\ EndOf(list)[4] = kEndList
    BY KeyParts DEF FirstOf, EndOf
<1>9. kBeginList \in Word /\ kEndList \in Word /\ kBeginList # kEndList
    BY EndIsLast DEF Word, kBeginList
<1>10. ASSUME NEW k \in DOMAIN d1, k[1] = kListEntry PROVE IsListed(d1, drawn1, k)
    <2>1. CASE k \in DOMAIN d
        <3>1. IsListed(d, drawn, k)
            BY <1>10, <2>1 DEF Listed
        <3> QED
            BY <1>3, <1>4, <3>1 DEF IsListed
    <2>2. CASE k \in SentinelKeys(list)
        <3>1. k[2] = list /\ k[3] \in Word /\ k[4] \in Word /\ (k[3] = kEndList => k[4] = kEndList)
            BY <1>7, <1>8, <1>9, <2>2
        <3>2. ListKey(k[2]) \in DOMAIN d1
            BY <1>3, <3>1
        <3> QED
            BY <1>4, <3>1, <3>2 DEF IsListed
    <2>3. k # ListKey(list) /\ k \notin ListNameKeys(record)
        BY <1>10, KeyParts, StoredKeyParts
    <2> QED
        BY <1>3, <2>1, <2>2, <2>3
<1>11. \A l : ListKey(l) \in DOMAIN d1 => FirstOf(l) \in DOMAIN d1 /\ EndOf(l) \in DOMAIN d1
    BY <1>3, <1>5, <1>7 DEF Listed
<1> QED
    BY <1>1, <1>6, <1>10, <1>11 DEF Listed

(* What was said of a walk remains true while the database grows.          *)
LEMMA EntriesGrow ==
    ASSUME NEW d, NEW drawn, NEW d1, NEW drawn1, Lists(d, drawn, d1, drawn1)
    PROVE  \A l : EntriesOf(d, l) \subseteq EntriesOf(d1, l)
BY DEF EntriesOf, Lists

LEMMA AsksOnStays ==
    ASSUME NEW d, NEW drawn, NEW d1, NEW drawn1, Lists(d, drawn, d1, drawn1), NEW w, NEW m,
           AsksOn(m, w, d)
    PROVE  AsksOn(m, w, d1)
<1>1. \A p \in EntriesOf(d, w.list) : p \in EntriesOf(d1, w.list)
    BY EntriesGrow
<1> QED
    BY <1>1, Zenon DEF AsksOn

LEMMA IsPageStays ==
    ASSUME NEW d, NEW drawn, NEW d1, NEW drawn1, Lists(d, drawn, d1, drawn1), NEW w, NEW page,
           IsPage(page, w, d)
    PROVE  IsPage(page, w, d1)
<1>1. \A p \in EntriesOf(d, w.list) : p \in EntriesOf(d1, w.list)
    BY EntriesGrow
<1>2. page \subseteq EntriesOf(d1, w.list)
    BY <1>1 DEF IsPage
<1>3. w.there => page # {}
    BY DEF IsPage
<1>4. ASSUME w.there, NEW x \in w.due, x \notin w.seen
      PROVE  \E e \in EntriesOf(d1, w.list) :
                e[4] = x /\ (e \in page \/ \A k \in page : Before(k, e))
    <2>1. \E e \in EntriesOf(d, w.list) :
                e[4] = x /\ (e \in page \/ \A k \in page : Before(k, e))
        BY <1>4, Zenon DEF IsPage
    <2> QED
        BY <1>1, <2>1, Zenon
<1> QED
    BY <1>2, <1>3, <1>4, Zenon DEF IsPage

LEMMA LeadsStays ==
    ASSUME NEW d, NEW drawn, NEW d1, NEW drawn1, Lists(d, drawn, d1, drawn1), NEW w,
           Leads(w, d, drawn)
    PROVE  Leads(w, d1, drawn1)
<1>1. NeverThere(d, drawn, w.list) => NeverThere(d1, drawn1, w.list)
    BY DEF NeverThere, Lists
<1>2. ListKey(w.list) \in DOMAIN d => ListKey(w.list) \in DOMAIN d1
    BY DEF Lists
<1> QED
    BY <1>1, <1>2, Zenon DEF Leads

(* The page that answers a question.                                       *)
LEMMA PageAnswers ==
    ASSUME NEW d, NEW drawn, AreKeys(DOMAIN d), Listed(d, drawn), NEW w, NEW m,
           AsksOn(m, w, d), Leads(w, d, drawn), m.arg \in Nat, m.n \in Nat
    PROVE  IsPage(getListNext(d, m.arg, m.n, MaxPairs), w, d)
<1>1. PICK l \in Nat, token \in Nat : l = m.arg /\ token = m.n
    OBVIOUS
<1>2. PICK page : page = getListNext(d, l, token, MaxPairs)
    OBVIOUS
<1>3. l = w.list /\ token # kEndList /\ MaxPairs \in Nat \ {0}
    BY <1>1, CatalogAssumption DEF AsksOn
<1>4. EntriesOf(d, l) = {k \in DOMAIN d : EntryOf(k, l)}
    BY DEF EntriesOf
<1>5. /\ page \subseteq EntriesOf(d, l)
      /\ \A p, e \in EntriesOf(d, l) :
            p[3] = token /\ Before(p, e) /\ page # {} =>
               e \in page \/ \A k \in page : Before(k, e)
      /\ \A p \in EntriesOf(d, l) :
            /\ p[3] = token /\ EndOf(l) \in DOMAIN d /\ ListKey(l) \in DOMAIN d
            /\ Before(p, EndOf(l))
            => page # {}
    BY <1>2, <1>3, <1>4, PageFollows DEF EndOf
<1>6. ASSUME w.there
      PROVE  /\ page # {}
             /\ \A x \in w.due :
                   \/ x \in w.seen
                   \/ \E e \in EntriesOf(d, l) :
                         e[4] = x /\ (e \in page \/ \A k \in page : Before(k, e))
    <2>1. PICK p \in EntriesOf(d, l) :
             /\ p[3] = token
             /\ \A x \in w.due : \/ x \in w.seen
                                 \/ \E e \in EntriesOf(d, l) : e[4] = x /\ Before(p, e)
        BY <1>1, <1>3, <1>6, Zenon DEF AsksOn
    <2>2. ListKey(l) \in DOMAIN d
        BY <1>3, <1>6 DEF Leads
    <2>3. EndOf(l) \in DOMAIN d
        BY <2>2 DEF Listed
    <2>4. IsKey(p) /\ EntryOf(p, l) /\ p[3] \in Word /\ p[4] \in Word
        <3>1. p \in DOMAIN d /\ EntryOf(p, l)
            BY <2>1 DEF EntriesOf
        <3>2. IsListed(d, drawn, p)
            BY <3>1 DEF Listed, EntryOf
        <3> QED
            BY <3>1, <3>2 DEF AreKeys, IsListed
    <2>5. Before(p, EndOf(l))
        BY <1>3, <2>1, <2>4, Sentinels DEF EndOf
    <2>6. page # {}
        BY <1>5, <2>1, <2>2, <2>3, <2>5
    <2>7. \A x \in w.due :
             \/ x \in w.seen
             \/ \E e \in EntriesOf(d, l) :
                   e[4] = x /\ (e \in page \/ \A k \in page : Before(k, e))
        <3>1. ASSUME NEW e \in EntriesOf(d, l), Before(p, e)
              PROVE  e \in page \/ \A k \in page : Before(k, e)
            BY <1>5, <2>1, <2>6, <3>1
        <3> QED
            BY <2>1, <3>1, Zenon
    <2> QED
        BY <2>6, <2>7
<1> QED
    BY <1>1, <1>2, <1>3, <1>5, <1>6, Zenon DEF IsPage

(* A walk begins: the begin of the list is before all its entries.         *)
WalkOf(l, there, due) ==
    [state |-> "on", list |-> l, there |-> there, due |-> due, seen |-> {}]

LEMMA WalkBegins ==
    ASSUME NEW d, NEW drawn, AreKeys(DOMAIN d), Listed(d, drawn), NEW l,
           NEW due, due = {k[4] : k \in EntriesOf(d, l)} \ {kBeginList, kEndList},
           NEW w, w = WalkOf(l, ListKey(l) \in DOMAIN d, due),
           NEW m, m = Message("listNext", l, kBeginList)
    PROVE  Leads(w, d, drawn) /\ AsksOn(m, w, d)
<1>1. /\ w.state = "on" /\ w.list = l /\ w.due = due /\ w.seen = {}
      /\ w.there <=> ListKey(l) \in DOMAIN d
    BY Zenon DEF WalkOf
<1>2. m.arg = l /\ m.n = kBeginList
    BY DEF Message
<1>3. kBeginList # kEndList
    BY EndIsLast DEF kBeginList
<1>4. w.due # {} => l \notin Range(drawn)
    <2> SUFFICES ASSUME w.due # {} PROVE l \notin Range(drawn)
        OBVIOUS
    <2>1. PICK k \in EntriesOf(d, l) : TRUE
        BY <1>1
    <2>2. k \in DOMAIN d /\ k[1] = kListEntry /\ k[2] = l
        BY DEF EntriesOf, EntryOf
    <2> QED
        BY <2>2 DEF Listed, IsListed
<1>5. Leads(w, d, drawn)
    BY <1>1, <1>4, Zenon DEF Leads, NeverThere
<1>6. ASSUME w.there
      PROVE  \E p \in EntriesOf(d, l) :
                /\ p[3] = kBeginList
                /\ \A x \in w.due : \E e \in EntriesOf(d, l) : e[4] = x /\ Before(p, e)
    <2>1. PICK p : p = FirstOf(l)
        OBVIOUS
    <2>2. p[1] = kListEntry /\ p[2] = l /\ p[3] = kBeginList /\ p[4] = kBeginList
        BY <2>1, KeyParts DEF FirstOf
    <2>3. p \in EntriesOf(d, l)
        BY <1>1, <1>6, <2>1, <2>2 DEF Listed, EntriesOf, EntryOf
    <2>4. ASSUME NEW x \in w.due PROVE \E e \in EntriesOf(d, l) : e[4] = x /\ Before(p, e)
        <3>1. PICK e \in EntriesOf(d, l) : e[4] = x /\ x # kBeginList
            BY <1>1, <2>4
        <3>2. e # p
            BY <2>2, <3>1
        <3>3. IsKey(e) /\ EntryOf(e, l)
            BY DEF EntriesOf, AreKeys
        <3>4. Before(p, e)
            BY <2>1, <3>2, <3>3, Sentinels DEF FirstOf
        <3> QED
            BY <3>1, <3>4
    <2> QED
        BY <2>2, <2>3, <2>4
<1>7. PICK entries : entries = EntriesOf(d, l)
    OBVIOUS
<1>10. /\ w.there =>
            \E p \in entries :
               /\ p[3] = m.n
               /\ \A x \in w.due : \/ x \in w.seen
                                   \/ \E e \in entries : e[4] = x /\ Before(p, e)
       /\ entries = EntriesOf(d, w.list)
    <2>1. ASSUME w.there
          PROVE  \E p \in entries :
                    /\ p[3] = m.n
                    /\ \A x \in w.due : \/ x \in w.seen
                                        \/ \E e \in entries : e[4] = x /\ Before(p, e)
        <3>1. PICK p \in EntriesOf(d, l) :
                 /\ p[3] = kBeginList
                 /\ \A x \in w.due : \E e \in EntriesOf(d, l) : e[4] = x /\ Before(p, e)
            BY <1>6, <2>1
        <3>2. p \in entries /\ p[3] = m.n
            BY <1>2, <1>7, <3>1
        <3>3. \A x \in w.due : \E e \in entries : e[4] = x /\ Before(p, e)
            BY <1>7, <3>1
        <3> QED
            BY <3>2, <3>3
    <2>2. entries = EntriesOf(d, w.list)
        BY <1>1, <1>7
    <2> QED
        BY <2>1, <2>2
<1>8. m.arg = w.list /\ m.n # kEndList
    BY <1>1, <1>2, <1>3
<1>9. AsksOn(m, w, d)
    <2> HIDE <1>1, <1>2
    <2> SUFFICES ASSUME w.there
                 PROVE  \E p \in EntriesOf(d, w.list) :
                           /\ p[3] = m.n
                           /\ \A x \in w.due :
                                 \/ x \in w.seen
                                 \/ \E e \in EntriesOf(d, w.list) : e[4] = x /\ Before(p, e)
        BY <1>8 DEF AsksOn
    <2>1. PICK p \in entries :
             /\ p[3] = m.n
             /\ \A x \in w.due : x \in w.seen \/ \E e \in entries : e[4] = x /\ Before(p, e)
        BY <1>10
    <2>2. p \in EntriesOf(d, w.list)
        BY <1>10, <2>1
    <2>3. \A e \in entries : e \in EntriesOf(d, w.list)
        BY <1>10
    <2>4. \A x \in w.due : \/ x \in w.seen
                          \/ \E e \in EntriesOf(d, w.list) : e[4] = x /\ Before(p, e)
        BY <2>1, <2>3, Zenon
    <2> HIDE <1>10
    <2> QED
        BY <2>1, <2>2, <2>4
<1> QED
    BY <1>5, <1>9

(* A page is taken: the walk fails, comes to its end, or goes on.          *)
WalkTo(w, state, page) ==
    [state |-> state, list |-> w.list, there |-> w.there, due |-> w.due,
     seen |-> w.seen \cup {k[4] : k \in page}]

LEMMA WalkTakes ==
    ASSUME NEW d, NEW drawn, AreKeys(DOMAIN d), Listed(d, drawn), NEW w, Leads(w, d, drawn),
           NEW page, AreKeys(page), IsPage(page, w, d)
    PROVE  /\ page = {} => Leads(WalkTo(w, "failed", page), d, drawn)
           /\ page # {} /\ LastOf(page)[3] = kEndList => Leads(WalkTo(w, "done", page), d, drawn)
           /\ page # {} /\ LastOf(page)[3] # kEndList =>
                 /\ Leads(WalkTo(w, "on", page), d, drawn)
                 /\ AsksOn(Message("listNext", w.list, LastOf(page)[3]),
                           WalkTo(w, "on", page), d)
<1>1. PICK failed, done, on : /\ failed = WalkTo(w, "failed", page)
                              /\ done = WalkTo(w, "done", page)
                              /\ on = WalkTo(w, "on", page)
    OBVIOUS
<1>2. PICK seen : seen = w.seen \cup {k[4] : k \in page}
    OBVIOUS
<1>3. /\ failed.state = "failed" /\ failed.there = w.there /\ failed.list = w.list
      /\ failed.due = w.due /\ failed.seen = seen
      /\ done.state = "done" /\ done.there = w.there /\ done.list = w.list
      /\ done.due = w.due /\ done.seen = seen
      /\ on.state = "on" /\ on.there = w.there /\ on.list = w.list
      /\ on.due = w.due /\ on.seen = seen
    BY <1>1, <1>2, Zenon DEF WalkTo
<1>4. /\ w.there => ListKey(w.list) \in DOMAIN d
      /\ ~ w.there => w.due = {} \/ NeverThere(d, drawn, w.list)
    BY DEF Leads
<1>5. page = {} => ~ w.there
    BY DEF IsPage
<1>6. page = {} => Leads(failed, d, drawn)
    BY <1>3, <1>4, <1>5, SMT DEF Leads
<1>7. Leads(on, d, drawn)
    BY <1>3, <1>4, SMT DEF Leads
<1>8. PICK last : last = LastOf(page)
    OBVIOUS
<1>9. ASSUME page # {}
      PROVE  /\ last \in EntriesOf(d, w.list) /\ IsListed(d, drawn, last)
             /\ last[1] = kListEntry /\ last[2] = w.list /\ last = <<last[1], last[2], last[3], last[4]>>
             /\ \A x \in w.due : w.there =>
                   x \in seen \/ \E e \in EntriesOf(d, w.list) : e[4] = x /\ Before(last, e)
    <2>1. last \in page /\ IsKey(last)
        BY <1>8, <1>9, LastTyped
    <2>2. last \in EntriesOf(d, w.list)
        BY <2>1 DEF IsPage
    <2>3. last \in DOMAIN d /\ last[1] = kListEntry /\ last[2] = w.list
        BY <2>2 DEF EntriesOf, EntryOf
    <2>4. ASSUME NEW x \in w.due, w.there, x \notin seen
          PROVE  \E e \in EntriesOf(d, w.list) : e[4] = x /\ Before(last, e)
        <3>1. x \notin w.seen
            BY <1>2, <2>4
        <3>2. PICK e \in EntriesOf(d, w.list) :
                 e[4] = x /\ (e \in page \/ \A k \in page : Before(k, e))
            BY <2>4, <3>1, Zenon DEF IsPage
        <3>3. e \notin page
            BY <1>2, <2>4, <3>2
        <3> QED
            BY <2>1, <3>2, <3>3
    <2> QED
        BY <2>1, <2>2, <2>3, <2>4 DEF Listed, IsKey
<1>10. ASSUME page # {}, last[3] = kEndList PROVE Leads(done, d, drawn)
    <2>1. last[4] = kEndList /\ ListKey(w.list) \in DOMAIN d
        BY <1>9, <1>10 DEF IsListed
    <2>2. ~ NeverThere(d, drawn, w.list)
        BY <2>1 DEF NeverThere
    <2>3. last = ListEntryKey(w.list, kEndList, kEndList)
        BY <1>9, <1>10, <2>1 DEF ListEntryKey
    <2>4. ASSUME NEW x \in w.due, w.there PROVE x \in seen
        <3> SUFFICES ASSUME NEW e \in EntriesOf(d, w.list), Before(last, e) PROVE FALSE
            BY <1>9, <1>10, <2>4
        <3>1. e \in DOMAIN d /\ EntryOf(e, w.list) /\ e[1] = kListEntry
            BY DEF EntriesOf, EntryOf
        <3>2. IsKey(e) /\ e[3] \in Word /\ e[4] \in Word
            BY <3>1 DEF AreKeys, Listed, IsListed
        <3> QED
            BY <2>3, <3>1, <3>2, Sentinels
    <2>5. w.due \subseteq seen
        <3>1. CASE w.there
            BY <2>4, <3>1
        <3>2. CASE ~ w.there
            BY <1>4, <2>2, <3>2
        <3> QED
            BY <3>1, <3>2
    <2> QED
        BY <1>3, <1>4, <2>5, SMT DEF Leads
<1>11. ASSUME page # {}, last[3] # kEndList
       PROVE  AsksOn(Message("listNext", w.list, last[3]), on, d)
    <2>1. PICK m : m = Message("listNext", w.list, last[3])
        OBVIOUS
    <2>2. m.arg = w.list /\ m.n = last[3]
        BY <2>1 DEF Message
    <2>3. AsksOn(m, on, d)
        BY <1>3, <1>9, <1>11, <2>2, Zenon DEF AsksOn
    <2> QED
        BY <2>1, <2>3
<1> QED
    BY <1>1, <1>6, <1>7, <1>8, <1>10, <1>11

(***************************************************************************)
(* A message or answer of a walk is the only one that is in flight.        *)
(***************************************************************************)
WalkInv ==
    /\ TypeInv
    /\ Listed(db, keys)
    /\ \A c \in Client : Walked(inbox[c], outbox[c], walk[c], db, keys)

LEMMA WalkHere ==
    ASSUME WalkInv, NEW c \in Client
    PROVE  /\ TypeInv /\ FlowTypes /\ CallTypes /\ ServerTypes
           /\ IsMap(inbox) /\ IsMap(outbox) /\ IsMap(walk)
           /\ IsSequence(inbox[c]) /\ IsSequence(outbox[c])
           /\ Listed(db, keys) /\ AreKeys(DOMAIN db) /\ AreDraws(keys)
           /\ Walked(inbox[c], outbox[c], walk[c], db, keys)
<1>1. TypeInv /\ FlowTypes /\ CallTypes /\ ServerTypes
    BY DEF WalkInv, TypeInv
<1>2. IsMap(inbox) /\ IsMap(outbox) /\ IsMap(walk)
    BY <1>1, FlowMaps, CallMaps
<1>3. IsSequence(inbox[c]) /\ IsSequence(outbox[c])
    BY <1>1, FlowHere DEF Flow
<1>4. Walked(inbox[c], outbox[c], walk[c], db, keys) /\ Listed(db, keys)
    BY DEF WalkInv
<1> QED
    BY <1>1, <1>2, <1>3, <1>4 DEF ServerTypes

LEMMA ListsItself == \A d, drawn : Lists(d, drawn, d, drawn)
BY DEF Lists

LEMMA WalkedStays ==
    ASSUME NEW d, NEW drawn, NEW d1, NEW drawn1, Lists(d, drawn, d1, drawn1),
           NEW in, NEW out, NEW w, Walked(in, out, w, d, drawn)
    PROVE  Walked(in, out, w, d1, drawn1)
<1>1. Leads(w, d, drawn) => Leads(w, d1, drawn1)
    BY LeadsStays
<1>2. \A m : AsksOn(m, w, d) => AsksOn(m, w, d1)
    BY AsksOnStays
<1>3. \A page : IsPage(page, w, d) => IsPage(page, w, d1)
    BY IsPageStays
<1> QED
    BY <1>1, <1>2, <1>3, Zenon DEF Walked

LEMMA WalkChanges ==
    ASSUME WalkInv, TypeInv', NEW c \in Client,
           Listed(db', keys'), Lists(db, keys, db', keys'),
           NEW in, Sets(inbox', inbox, c, in), NEW out, Sets(outbox', outbox, c, out),
           NEW w, Sets(walk', walk, c, w), Walked(in, out, w, db', keys')
    PROVE  WalkInv'
<1>1. /\ IsMap(inbox) /\ IsMap(outbox) /\ IsMap(walk)
      /\ \A e \in Client : Walked(inbox[e], outbox[e], walk[e], db, keys)
    BY WalkHere
<1>2. inbox'[c] = in /\ \A e \in Client \ {c} : inbox'[e] = inbox[e]
    BY <1>1, SetsMeans
<1>3. outbox'[c] = out /\ \A e \in Client \ {c} : outbox'[e] = outbox[e]
    BY <1>1, SetsMeans
<1>4. walk'[c] = w /\ \A e \in Client \ {c} : walk'[e] = walk[e]
    BY <1>1, SetsMeans
<1>5. ASSUME NEW e \in Client
      PROVE  Walked(inbox'[e], outbox'[e], walk'[e], db', keys')
    <2>1. CASE e = c
        BY <1>2, <1>3, <1>4, <2>1, Zenon
    <2>2. CASE e # c
        <3>1. e \in Client \ {c}
            BY <2>2
        <3>2. PICK d, drawn, d1, drawn1 : /\ d = db /\ drawn = keys
                                          /\ d1 = db' /\ drawn1 = keys'
            OBVIOUS
        <3>3. Lists(d, drawn, d1, drawn1) /\ Walked(inbox[e], outbox[e], walk[e], d, drawn)
            BY <1>1, <3>2
        <3>4. Walked(inbox[e], outbox[e], walk[e], d1, drawn1)
            BY <3>3, WalkedStays
        <3> QED
            BY <1>2, <1>3, <1>4, <3>1, <3>2, <3>4, Zenon
    <2> QED
        BY <2>1, <2>2
<1> QED
    BY <1>5, Zenon DEF WalkInv

(* What a confab does to the lists.                                        *)
LEMMA HandleLists ==
    ASSUME FlowTypes, ServerTypes, Listed(db, keys), NEW c \in Client, Handle(c)
    PROVE  Listed(db', keys') /\ Lists(db, keys, db', keys')
<1>1. Stores(c) /\ AreDraws(keys)
    BY HandleStores DEF ServerTypes
<1>2. PICK d, drawn, d1, drawn1 : d = db /\ drawn = keys /\ d1 = db' /\ drawn1 = keys'
    OBVIOUS
<1>3. Listed(d, drawn) /\ AreDraws(drawn)
    BY <1>1, <1>2
<1> SUFFICES Listed(d1, drawn1) /\ Lists(d, drawn, d1, drawn1)
    BY <1>2
<1>4. CASE UNCHANGED db /\ UNCHANGED keys
    BY <1>2, <1>3, <1>4, ListsItself
<1>5. CASE UNCHANGED db /\ keys # <<>> /\ keys' = Tail(keys)
    <2>1. d1 = d /\ drawn # <<>> /\ drawn1 = Tail(drawn)
        BY <1>2, <1>5
    <2>2. Range(drawn1) \subseteq Range(drawn)
        BY <1>3, <2>1, DrawnRange
    <2> QED
        BY <1>3, <2>1, <2>2 DEF Listed, IsListed, Lists
<1>6. ASSUME NEW name, NEW content, NEW t, StoresAsset(c, name, content, t)
      PROVE  Listed(d1, drawn1) /\ Lists(d, drawn, d1, drawn1)
    <2>1. /\ drawn # <<>> /\ drawn1 = Tail(drawn) /\ name \in DOMAIN Draft /\ t \in Time
          /\ d1 = storeAsset(d, Head(drawn), AssetOf(name, Head(drawn), content), t)
        BY <1>2, <1>6, Zenon DEF StoresAsset
    <2>2. Listed(d1, Tail(drawn)) /\ Lists(d, drawn, d1, Tail(drawn))
        BY <1>3, <2>1, AssetStoredListed
    <2> QED
        BY <2>1, <2>2
<1>7. ASSUME NEW n, StoresList(n) PROVE Listed(d1, drawn1) /\ Lists(d, drawn, d1, drawn1)
    <2>1. PICK record : record = [key |-> Head(drawn), name |-> n]
        OBVIOUS
    <2>2. /\ drawn # <<>> /\ drawn1 = Tail(drawn)
          /\ d1 = storeList(d, Head(drawn), record)
        BY <1>2, <1>7, <2>1, Zenon DEF StoresList
    <2>3. Listed(d1, Tail(drawn)) /\ Lists(d, drawn, d1, Tail(drawn))
        BY <1>3, <2>2, ListStoredListed
    <2> QED
        BY <2>2, <2>3
<1> QED
    BY <1>1, <1>4, <1>5, <1>6, <1>7 DEF Stores

(* What it answers to a question for a page.                               *)
LEMMA WalkingIs ==
    ASSUME NEW m \in Messages
    PROVE  Topic(m) = Walking <=> m.cmd = "listNext"
<1>1. m.cmd \in {"assetAddString", "assetFind", "assetFindName", "listAdd", "listFind",
                 "listNext"}
    BY Arguments
<1>2. CASE m.cmd = "listNext"
    BY <1>2, SMT DEF Topic
<1>3. CASE m.cmd # "listNext"
    <2>1. Topic(m)[1] \in {"add", "id", "name", "list"}
        BY <1>1, <1>3, SMT DEF Topic, Id, Named
    <2>2. Topic(m) # Walking
        BY <2>1 DEF Walking
    <2> QED
        BY <1>3, <2>2
<1> QED
    BY <1>2, <1>3

Replies(c, a) ==
    /\ inbox' = [inbox EXCEPT ![c] = Tail(@)]
    /\ outbox' = [outbox EXCEPT ![c] = Append(@, a)]

LEMMA HandleAnswers ==
    ASSUME FlowTypes, ServerTypes, NEW c \in Client, Handle(c),
           NEW m, m = Head(inbox[c])
    PROVE  \/ Drops(c) \/ Dies(c)
           \/ \E a : /\ Replies(c, a) /\ Subject(a) = Topic(m)
                     /\ Topic(m) = Walking => a.data = getListNext(db, m.arg, m.n, MaxPairs)
<1>1. Serve(c) /\ m \in Messages
    BY HandleServes
<1>2. ASSUME NEW reply, NEW to, NEW data, Answers(c, reply, to, data)
      PROVE  \E a : Replies(c, a) /\ a = [reply |-> reply, to |-> to, data |-> data]
    BY <1>2, Zenon DEF Answers, Replies
<1>3. CASE m.cmd # "listNext"
    <2>1. Topic(m) # Walking
        BY <1>1, <1>3, WalkingIs
    <2>2. ASSUME NEW reply, NEW to, NEW data, Answers(c, reply, to, data),
                 Subject([reply |-> reply, to |-> to, data |-> data]) = Topic(Head(inbox[c]))
          PROVE  \E a : Replies(c, a) /\ Subject(a) = Topic(m)
        BY <1>2, <2>2, Zenon
    <2> QED
        BY <1>1, <2>1, <2>2, Zenon DEF Serve
<1>4. CASE m.cmd = "listNext"
    <2>1. HandleAddString(c) => m.cmd = "assetAddString"
        BY Zenon DEF HandleAddString, Serves
    <2>2. HandleFind(c) => m.cmd = "assetFind"
        BY Zenon DEF HandleFind, Serves
    <2>3. HandleFindName(c) => m.cmd = "assetFindName"
        BY Zenon DEF HandleFindName, Serves
    <2>4. HandleListAdd(c) => m.cmd = "listAdd"
        BY Zenon DEF HandleListAdd, Serves
    <2>5. HandleListFind(c) => m.cmd = "listFind"
        BY Zenon DEF HandleListFind, Serves
    <2>6. CASE Rejected(c)
        BY <2>6 DEF Rejected
    <2>7. CASE HandleListNext(c)
        <3>1. PICK page : page = getListNext(db, m.arg, m.n, MaxPairs)
            OBVIOUS
        <3>2. getListItems(db, m.arg, m.n, MaxPairs).page = page
            BY <3>1 DEF getListItems
        <3>3. Answers(c, "listItems", Id(m.arg), page)
            BY <2>7, <3>2, Zenon DEF HandleListNext
        <3>4. PICK a : /\ Replies(c, a)
                       /\ a = [reply |-> "listItems", to |-> Id(m.arg), data |-> page]
            BY <1>2, <3>3
        <3>5. Subject(a) = Walking /\ a.data = page
            BY <3>4, SMT DEF Subject
        <3>6. Topic(m) = Walking
            BY <1>1, <1>4, WalkingIs
        <3> QED
            BY <3>1, <3>4, <3>5, <3>6
    <2> QED
        BY <1>4, <2>1, <2>2, <2>3, <2>4, <2>5, <2>6, <2>7 DEF Handle
<1> QED
    BY <1>3, <1>4

(* The queues of a client after its confab has served it.                  *)
LEMMA WalkedServed ==
    ASSUME NEW d, NEW drawn, NEW w, NEW in, IsSequence(in), in # <<>>,
           NEW out, IsSequence(out), Walked(in, out, w, d, drawn)
    PROVE  /\ Walked(Tail(in), out, w, d, drawn)
           /\ Walked(<<>>, out, w, d, drawn)
           /\ \A a : /\ Subject(a) = Topic(Head(in))
                     /\ Topic(Head(in)) = Walking => IsPage(a.data, w, d)
                     => Walked(Tail(in), Append(out, a), w, d, drawn)
<1>1. /\ OneAbout(in, out, Walking) /\ (w.state # "on" => NoneAbout(in, out, Walking))
      /\ Leads(w, d, drawn)
      /\ \A m \in Range(in) : Topic(m) = Walking => AsksOn(m, w, d)
      /\ \A a \in Range(out) : Subject(a) = Walking => IsPage(a.data, w, d)
    BY DEF Walked
<1>2. Range(Tail(in)) \subseteq Range(in) /\ Range(<<>>) = {}
    BY Removed, NoElements
<1>3. /\ \A m \in Range(Tail(in)) : Topic(m) = Walking => AsksOn(m, w, d)
      /\ \A m \in Range(<<>>) : Topic(m) = Walking => AsksOn(m, w, d)
    BY <1>1, <1>2
<1>4. /\ NoneAbout(in, out, Walking) => /\ NoneAbout(Tail(in), out, Walking)
                                        /\ NoneAbout(<<>>, out, Walking)
      /\ OneAbout(in, out, Walking) => /\ OneAbout(Tail(in), out, Walking)
                                       /\ OneAbout(<<>>, out, Walking)
    BY AboutServed
<1>5. Walked(Tail(in), out, w, d, drawn) /\ Walked(<<>>, out, w, d, drawn)
    BY <1>1, <1>3, <1>4, Zenon DEF Walked
<1>6. ASSUME NEW a, Subject(a) = Topic(Head(in)),
             Topic(Head(in)) = Walking => IsPage(a.data, w, d)
      PROVE  Walked(Tail(in), Append(out, a), w, d, drawn)
    <2>1. Range(Append(out, a)) = Range(out) \cup {a}
        BY Appended
    <2>2. \A b \in Range(Append(out, a)) : Subject(b) = Walking => IsPage(b.data, w, d)
        BY <1>1, <1>6, <2>1
    <2>3. /\ NoneAbout(in, out, Walking) => NoneAbout(Tail(in), Append(out, a), Walking)
          /\ OneAbout(in, out, Walking) => OneAbout(Tail(in), Append(out, a), Walking)
        BY <1>6, AboutServed
    <2> QED
        BY <1>1, <1>3, <2>2, <2>3, Zenon DEF Walked
<1> QED
    BY <1>5, <1>6, Zenon

LEMMA HandleWalk ==
    ASSUME WalkInv, TypeInv', NEW c \in Client, Handle(c)
    PROVE  WalkInv'
<1>1. PICK d, drawn, d1, drawn1 : d = db /\ drawn = keys /\ d1 = db' /\ drawn1 = keys'
    OBVIOUS
<1>2. PICK in, out, w, m : in = inbox[c] /\ out = outbox[c] /\ w = walk[c] /\ m = Head(in)
    OBVIOUS
<1>3. /\ FlowTypes /\ ServerTypes /\ IsMap(inbox) /\ IsMap(outbox) /\ IsMap(walk)
      /\ Listed(db, keys)
    BY WalkHere
<1>4. /\ IsSequence(in) /\ IsSequence(out) /\ Walked(in, out, w, d, drawn)
      /\ Listed(d, drawn) /\ AreKeys(DOMAIN d)
    BY <1>1, <1>2, WalkHere
<1>5. in # <<>> /\ m \in Messages /\ UNCHANGED walk
    BY <1>2, <1>3, HandleServes DEF scVars
<1>6. Listed(db', keys') /\ Lists(db, keys, db', keys')
    BY <1>3, HandleLists
<1>7. Sets(walk', walk, c, w)
    BY <1>2, <1>3, <1>5, StaysSet
<1>8. ASSUME NEW in1, NEW out1, Sets(inbox', inbox, c, in1), Sets(outbox', outbox, c, out1),
             Walked(in1, out1, w, d, drawn)
      PROVE  WalkInv'
    <2>1. Lists(d, drawn, d1, drawn1)
        BY <1>1, <1>6
    <2>2. Walked(in1, out1, w, d1, drawn1)
        BY <1>8, <2>1, WalkedStays
    <2>3. Walked(in1, out1, w, db', keys')
        BY <1>1, <2>2
    <2> HIDE <1>5, <1>1
    <2> QED
        BY <1>6, <1>7, <1>8, <2>3, WalkChanges
<1>9. CASE Drops(c)
    <2>1. Sets(inbox', inbox, c, Tail(in)) /\ Sets(outbox', outbox, c, out)
        BY <1>2, <1>3, <1>9, MapKept, Zenon DEF Drops, Sets
    <2>2. Walked(Tail(in), out, w, d, drawn)
        BY <1>4, <1>5, WalkedServed
    <2> QED
        BY <1>8, <2>1, <2>2
<1>10. CASE Dies(c)
    <2>1. Sets(inbox', inbox, c, <<>>) /\ Sets(outbox', outbox, c, out)
        BY <1>2, <1>3, <1>10, MapKept, Zenon DEF Dies, Sets
    <2>2. Walked(<<>>, out, w, d, drawn)
        BY <1>4, <1>5, WalkedServed
    <2> QED
        BY <1>8, <2>1, <2>2
<1>11. ASSUME NEW a, Replies(c, a), Subject(a) = Topic(m),
              Topic(m) = Walking => a.data = getListNext(db, m.arg, m.n, MaxPairs)
       PROVE  WalkInv'
    <2>1. Sets(inbox', inbox, c, Tail(in)) /\ Sets(outbox', outbox, c, Append(out, a))
        BY <1>2, <1>11, Zenon DEF Replies, Sets
    <2>2. ASSUME Topic(m) = Walking PROVE IsPage(a.data, w, d)
        <3>1. m.arg \in Nat /\ m.n \in Nat
            <4>1. m.cmd = "listNext"
                BY <1>5, <2>2, WalkingIs
            <4> QED
                BY <1>5, <4>1, Arguments, KeyNumbers
        <3>2. m \in Range(in)
            BY <1>2, <1>4, <1>5, Removed
        <3>3. AsksOn(m, w, d) /\ Leads(w, d, drawn)
            BY <1>4, <2>2, <3>2 DEF Walked
        <3>4. IsPage(getListNext(d, m.arg, m.n, MaxPairs), w, d)
            BY <1>4, <3>1, <3>3, PageAnswers
        <3> QED
            BY <1>1, <1>11, <2>2, <3>4
    <2>3. Walked(Tail(in), Append(out, a), w, d, drawn)
        BY <1>2, <1>4, <1>5, <1>11, <2>2, WalkedServed
    <2> QED
        BY <1>8, <2>1, <2>3
<1>12. m = Head(inbox[c])
    BY <1>2
<1>13. \/ Drops(c) \/ Dies(c)
       \/ \E a : /\ Replies(c, a) /\ Subject(a) = Topic(m)
                 /\ Topic(m) = Walking => a.data = getListNext(db, m.arg, m.n, MaxPairs)
    BY <1>3, <1>12, HandleAnswers
<1> QED
    BY <1>9, <1>10, <1>11, <1>13

(* SuperCollider calls: only a walk that begins asks for a page.           *)
LEMMA WalkedAsks ==
    ASSUME NEW d, NEW drawn, NEW w, NEW in, IsSequence(in), NEW out,
           Walked(in, out, w, d, drawn), NEW m
    PROVE  /\ Topic(m) # Walking => Walked(Append(in, m), out, w, d, drawn)
           /\ \A w1 : /\ Leads(w1, d, drawn) /\ AsksOn(m, w1, d) /\ w1.state = "on"
                      /\ w.state # "on"
                      => Walked(Append(in, m), out, w1, d, drawn)
<1>1. /\ OneAbout(in, out, Walking) /\ (w.state # "on" => NoneAbout(in, out, Walking))
      /\ Leads(w, d, drawn)
      /\ \A x \in Range(in) : Topic(x) = Walking => AsksOn(x, w, d)
      /\ \A a \in Range(out) : Subject(a) = Walking => IsPage(a.data, w, d)
    BY DEF Walked
<1>2. Range(Append(in, m)) = Range(in) \cup {m}
    BY Appended
<1>3. /\ Topic(m) # Walking /\ NoneAbout(in, out, Walking)
            => NoneAbout(Append(in, m), out, Walking)
      /\ Topic(m) # Walking /\ OneAbout(in, out, Walking)
            => OneAbout(Append(in, m), out, Walking)
      /\ NoneAbout(in, out, Walking) => OneAbout(Append(in, m), out, Walking)
    BY AboutAsked
<1>4. ASSUME Topic(m) # Walking PROVE Walked(Append(in, m), out, w, d, drawn)
    <2>1. \A x \in Range(Append(in, m)) : Topic(x) = Walking => AsksOn(x, w, d)
        BY <1>1, <1>2, <1>4
    <2> QED
        BY <1>1, <1>3, <1>4, <2>1, Zenon DEF Walked
<1>5. ASSUME NEW w1, Leads(w1, d, drawn), AsksOn(m, w1, d), w1.state = "on", w.state # "on"
      PROVE  Walked(Append(in, m), out, w1, d, drawn)
    <2>1. NoneAbout(in, out, Walking)
        BY <1>1, <1>5
    <2>2. /\ \A x \in Range(in) : Topic(x) # Walking
          /\ \A a \in Range(out) : Subject(a) # Walking
        BY <2>1, Zenon DEF NoneAbout, NotAsked, NotAnswered, Range
    <2>3. \A x \in Range(Append(in, m)) : Topic(x) = Walking => AsksOn(x, w1, d)
        BY <1>2, <1>5, <2>2
    <2> QED
        BY <1>3, <1>5, <2>1, <2>2, <2>3, Zenon DEF Walked
<1> QED
    BY <1>4, <1>5, Zenon

LEMMA CallsWalk ==
    ASSUME WalkInv, TypeInv', NEW c \in Client, Calls(c)
    PROVE  WalkInv'
<1>1. PICK d, drawn : d = db /\ drawn = keys
    OBVIOUS
<1>2. PICK in, out, w : in = inbox[c] /\ out = outbox[c] /\ w = walk[c]
    OBVIOUS
<1>3. /\ FlowTypes /\ IsMap(inbox) /\ IsMap(outbox) /\ IsMap(walk) /\ Listed(db, keys)
      /\ IsSequence(in) /\ IsSequence(out) /\ Walked(in, out, w, d, drawn)
      /\ Listed(d, drawn) /\ AreKeys(DOMAIN d)
    BY <1>1, <1>2, WalkHere
<1>4. outbox' = outbox /\ db' = db /\ keys' = keys
    BY CallsHistory, Zenon DEF confabVars
<1>5. Sets(outbox', outbox, c, out)
    BY <1>2, <1>3, <1>4, StaysSet
<1>6. Listed(db', keys') /\ Lists(db, keys, db', keys')
    BY <1>3, <1>4, ListsItself
<1>7. ASSUME NEW in1, Sets(inbox', inbox, c, in1), NEW w1, Sets(walk', walk, c, w1),
             Walked(in1, out, w1, d, drawn)
      PROVE  WalkInv'
    <2>1. Walked(in1, out, w1, db', keys')
        BY <1>1, <1>4, <1>7
    <2> HIDE <1>4, <1>1
    <2> QED
        BY <1>5, <1>6, <1>7, <2>1, WalkChanges
<1>8. ASSUME NEW cmd, NEW arg, NEW m, Ask(c, cmd, arg), Send(c, m)
      PROVE  Sets(inbox', inbox, c, Append(in, m))
    BY <1>2, <1>8, Zenon DEF Ask, Send, Sets
<1>9. ASSUME NEW cmd, NEW arg, NEW m, Ask(c, cmd, arg), Send(c, m), Topic(m) # Walking,
             UNCHANGED walk
      PROVE  WalkInv'
    <2>1. Sets(inbox', inbox, c, Append(in, m))
        BY <1>8, <1>9
    <2>2. Sets(walk', walk, c, w)
        BY <1>2, <1>3, <1>9, StaysSet
    <2>3. Walked(Append(in, m), out, w, d, drawn)
        BY <1>3, <1>9, WalkedAsks
    <2> QED
        BY <1>7, <2>1, <2>2, <2>3
<1>10. /\ \A x : <<"add", x>> # Walking /\ Id(x) # Walking /\ Named(x) # Walking
       /\ \A x : <<"list", x>> # Walking
    BY DEF Walking, Id, Named
<1>11. ASSUME NEW name \in DOMAIN Draft, Adds(c, name) PROVE WalkInv'
    <2>1. PICK m : m = Message("assetAddString", name, addSerial[c])
        OBVIOUS
    <2>2. Ask(c, "assetAddString", name) /\ Send(c, m) /\ UNCHANGED walk
        BY <1>11, <2>1, Zenon DEF Adds
    <2>3. Topic(m) # Walking
        BY <1>10, <2>1, Topics
    <2> QED
        BY <1>9, <2>2, <2>3
<1>12. ASSUME NEW cmd \in {"assetFind", "assetFindName"}, NEW k, NEW x, Find(c, cmd, k, x)
       PROVE  WalkInv'
    <2>1. PICK m : m = Message(cmd, k, 0)
        OBVIOUS
    <2>2. Ask(c, cmd, k) /\ Send(c, m) /\ UNCHANGED walk
        BY <1>12, <2>1, Zenon DEF Find
    <2>3. Topic(m) # Walking
        BY <1>10, <2>1, Topics
    <2> QED
        BY <1>9, <2>2, <2>3
<1>13. ASSUME NEW cmd \in {"listAdd", "listFind"}, NEW n, NameList(c, cmd, n) PROVE WalkInv'
    <2>1. PICK m : m = Message(cmd, n, 0)
        OBVIOUS
    <2>2. Ask(c, cmd, n) /\ Send(c, m) /\ UNCHANGED walk
        BY <1>13, <2>1, Zenon DEF NameList
    <2>3. Topic(m) # Walking
        BY <1>10, <2>1, Topics
    <2> QED
        BY <1>9, <2>2, <2>3
<1>14. ASSUME NEW l \in Key, Walks(c, l) PROVE WalkInv'
    <2>1. PICK m, due : m = Message("listNext", l, kBeginList) /\ due = Members(l)
        OBVIOUS
    <2>2. PICK w1 : w1 = WalkOf(l, ListKey(l) \in DOMAIN d, due)
        OBVIOUS
    <2>3. Ask(c, "listNext", l) /\ Send(c, m) /\ w.state # "on"
        BY <1>2, <1>14, <2>1, Zenon DEF Walks
    <2>4. Sets(walk', walk, c, w1)
        BY <1>1, <1>14, <2>1, <2>2, Zenon DEF Walks, WalkOf, Sets
    <2>5. due = {k[4] : k \in EntriesOf(d, l)} \ {kBeginList, kEndList}
        <3>1. EntriesOf(d, l) = Entries(l)
            BY <1>1 DEF EntriesOf, EntryOf, Entries
        <3> QED
            BY <2>1, <3>1 DEF Members
    <2>6. Leads(w1, d, drawn) /\ AsksOn(m, w1, d)
        BY <1>3, <2>1, <2>2, <2>5, WalkBegins
    <2>7. w1.state = "on"
        BY <2>2 DEF WalkOf
    <2>8. Walked(Append(in, m), out, w1, d, drawn)
        BY <1>3, <2>3, <2>6, <2>7, WalkedAsks
    <2>9. Sets(inbox', inbox, c, Append(in, m))
        BY <1>8, <2>3
    <2> QED
        BY <1>7, <2>4, <2>8, <2>9
<1> QED
    BY <1>11, <1>12, <1>13, <1>14, CallsAre

(* It hears an answer: a page leads the walk on, and nothing else does.    *)
LEMMA WalkedHears ==
    ASSUME NEW d, NEW drawn, NEW w, NEW in, IsSequence(in),
           NEW out, IsSequence(out), out # <<>>, Walked(in, out, w, d, drawn)
    PROVE  /\ Walked(in, Tail(out), w, d, drawn)
           /\ Subject(Head(out)) = Walking =>
                 /\ IsPage(Head(out).data, w, d)
                 /\ \A w1 : Leads(w1, d, drawn) => Walked(in, Tail(out), w1, d, drawn)
                 /\ \A w1, m : /\ Leads(w1, d, drawn) /\ AsksOn(m, w1, d) /\ w1.state = "on"
                               => Walked(Append(in, m), Tail(out), w1, d, drawn)
<1>1. /\ OneAbout(in, out, Walking) /\ (w.state # "on" => NoneAbout(in, out, Walking))
      /\ Leads(w, d, drawn)
      /\ \A m \in Range(in) : Topic(m) = Walking => AsksOn(m, w, d)
      /\ \A a \in Range(out) : Subject(a) = Walking => IsPage(a.data, w, d)
    BY DEF Walked
<1>2. /\ NoneAbout(in, out, Walking) => NoneAbout(in, Tail(out), Walking)
      /\ OneAbout(in, out, Walking) => OneAbout(in, Tail(out), Walking)
      /\ Subject(Head(out)) = Walking => NoneAbout(in, Tail(out), Walking)
    BY <1>1, AboutHeard
<1>3. Head(out) \in Range(out) /\ Range(Tail(out)) \subseteq Range(out)
    BY Removed
<1>4. \A a \in Range(Tail(out)) : Subject(a) = Walking => IsPage(a.data, w, d)
    BY <1>1, <1>3
<1>5. Walked(in, Tail(out), w, d, drawn)
    BY <1>1, <1>2, <1>4, Zenon DEF Walked
<1>6. ASSUME Subject(Head(out)) = Walking, NEW w1, Leads(w1, d, drawn)
      PROVE  /\ Walked(in, Tail(out), w1, d, drawn)
             /\ \A m : AsksOn(m, w1, d) /\ w1.state = "on"
                       => Walked(Append(in, m), Tail(out), w1, d, drawn)
    <2>1. NoneAbout(in, Tail(out), Walking)
        BY <1>2, <1>6
    <2>2. /\ \A x \in Range(in) : Topic(x) # Walking
          /\ \A a \in Range(Tail(out)) : Subject(a) # Walking
        BY <2>1, Zenon DEF NoneAbout, NotAsked, NotAnswered, Range
    <2>3. OneAbout(in, Tail(out), Walking)
        BY <2>1, NoneIsOne
    <2>4. Walked(in, Tail(out), w1, d, drawn)
        BY <1>6, <2>1, <2>2, <2>3, Zenon DEF Walked
    <2>5. ASSUME NEW m, AsksOn(m, w1, d), w1.state = "on"
          PROVE  Walked(Append(in, m), Tail(out), w1, d, drawn)
        <3>1. Range(Append(in, m)) = Range(in) \cup {m}
            BY Appended
        <3>2. \A x \in Range(Append(in, m)) : Topic(x) = Walking => AsksOn(x, w1, d)
            BY <2>2, <2>5, <3>1
        <3>3. OneAbout(Append(in, m), Tail(out), Walking)
            BY <2>1, AboutAsked
        <3> QED
            BY <1>6, <2>2, <2>5, <3>2, <3>3, Zenon DEF Walked
    <2> QED
        BY <2>4, <2>5
<1>7. Subject(Head(out)) = Walking => IsPage(Head(out).data, w, d)
    BY <1>1, <1>3
<1> QED
    BY <1>5, <1>6, <1>7, Zenon

LEMMA ReceivesWalk ==
    ASSUME WalkInv, TypeInv', NEW c \in Client, Receives(c)
    PROVE  WalkInv'
<1>1. PICK d, drawn : d = db /\ drawn = keys
    OBVIOUS
<1>2. PICK in, out, w : in = inbox[c] /\ out = outbox[c] /\ w = walk[c]
    OBVIOUS
<1>3. /\ FlowTypes /\ CallTypes /\ IsMap(inbox) /\ IsMap(outbox) /\ IsMap(walk)
      /\ Listed(db, keys)
      /\ IsSequence(in) /\ IsSequence(out) /\ Walked(in, out, w, d, drawn)
      /\ Listed(d, drawn) /\ AreKeys(DOMAIN d)
    BY <1>1, <1>2, WalkHere
<1>4. db' = db /\ keys' = keys
    BY ReceivesHistory, Zenon DEF confabVars
<1>5. ASSUME NEW reply, Hears(c, reply)
      PROVE  /\ out # <<>> /\ Sets(outbox', outbox, c, Tail(out))
             /\ Head(out).reply = reply /\ IsAnswer(Head(out))
    <2>1. /\ out # <<>> /\ Sets(outbox', outbox, c, Tail(out)) /\ Head(out).reply = reply
        BY <1>2, <1>5, Zenon DEF Hears, Sets
    <2>2. IsAnswer(Head(out))
        BY <1>2, <1>3, <2>1, FlowHere, FlowHears
    <2> QED
        BY <2>1, <2>2
<1>6. Listed(db', keys') /\ Lists(db, keys, db', keys')
    BY <1>3, <1>4, ListsItself
<1>7. ASSUME NEW in1, Sets(inbox', inbox, c, in1), Sets(outbox', outbox, c, Tail(out)),
             NEW w1, Sets(walk', walk, c, w1), Walked(in1, Tail(out), w1, d, drawn)
      PROVE  WalkInv'
    <2>1. Walked(in1, Tail(out), w1, db', keys')
        BY <1>1, <1>4, <1>7
    <2> HIDE <1>4, <1>1
    <2> QED
        BY <1>6, <1>7, <2>1, WalkChanges
<1>8. UNCHANGED inbox => Sets(inbox', inbox, c, in)
    BY <1>2, <1>3, StaysSet
<1>9. ASSUME NEW reply, Hears(c, reply), UNCHANGED walk,
             \/ UNCHANGED inbox
             \/ (\E m : Send(c, m) /\ Topic(m) # Walking)
      PROVE  WalkInv'
    <2>1. out # <<>> /\ Sets(outbox', outbox, c, Tail(out))
        BY <1>5, <1>9
    <2>2. Sets(walk', walk, c, w)
        BY <1>2, <1>3, <1>9, StaysSet
    <2>3. Walked(in, Tail(out), w, d, drawn)
        BY <1>3, <2>1, WalkedHears
    <2>4. CASE UNCHANGED inbox
        BY <1>7, <1>8, <2>1, <2>2, <2>3, <2>4
    <2>5. ASSUME inbox' # inbox, NEW m, Send(c, m), Topic(m) # Walking PROVE WalkInv'
        <3>1. Sets(inbox', inbox, c, Append(in, m))
            BY <1>2, <2>5, Zenon DEF Send, Sets
        <3>2. IsSequence(Tail(out))
            BY <1>3, <2>1, Removed
        <3>3. Walked(Append(in, m), Tail(out), w, d, drawn)
            BY <1>3, <2>3, <2>5, WalkedAsks
        <3> QED
            BY <1>7, <2>1, <2>2, <3>1, <3>3
    <2> QED
        BY <1>9, <2>4, <2>5
<1>10. CASE OnAssetAdded(c)
    <2>1. Hears(c, "assetAdded") /\ UNCHANGED walk /\ UNCHANGED inbox
        BY <1>10, Zenon DEF OnAssetAdded
    <2> QED
        BY <1>9, <2>1
<1>11. ASSUME NEW reply \in {"assetFound", "assetError"}, OnFound(c, reply) PROVE WalkInv'
    <2>1. PICK to, m : to = Head(out).to /\ m = Message(Again(to), to[2], 0)
        OBVIOUS
    <2>2. Hears(c, reply) /\ UNCHANGED walk /\ (UNCHANGED inbox \/ Send(c, m))
        BY <1>2, <1>11, <2>1, FoundMeans, Zenon
    <2>3. Topic(m) # Walking
        <3>1. Head(out).reply = reply /\ IsAnswer(Head(out))
            BY <1>5, <2>2
        <3>2. to \in Ids \cup Names
            BY <2>1, <3>1 DEF IsAnswer
        <3>3. addSerial[c] \in Nat \ {0}
            BY <1>3, FlowHere
        <3>4. Topic(m) = to
            BY <2>1, <3>2, <3>3, AgainTyped
        <3>5. to # Walking
            BY <3>2 DEF Ids, Names, Walking
        <3> QED
            BY <3>4, <3>5
    <2> QED
        BY <1>9, <2>2, <2>3
<1>12. CASE OnListFound(c)
    <2>1. PICK to : to = Head(out).to
        OBVIOUS
    <2>2. /\ Hears(c, "listFound") /\ UNCHANGED walk
          /\ \/ UNCHANGED inbox
             \/ \E cmd \in {"listAdd", "listFind"} : Send(c, Message(cmd, to[2], 0))
        BY <1>2, <1>12, <2>1, ListFoundMeans, Zenon
    <2>3. ASSUME NEW cmd \in {"listAdd", "listFind"}
          PROVE  Topic(Message(cmd, to[2], 0)) # Walking
        <3>1. Head(out).reply = "listFound" /\ IsAnswer(Head(out))
            BY <1>5, <2>2
        <3>2. to \in Names
            BY <2>1, <3>1 DEF IsAnswer
        <3>3. addSerial[c] \in Nat \ {0}
            BY <1>3, FlowHere
        <3> QED
            BY <3>2, <3>3, ListAgainTyped DEF Walking
    <2> QED
        BY <1>9, <2>2, <2>3
<1>13. CASE OnListError(c)
    <2>1. Hears(c, "listError") /\ UNCHANGED walk /\ UNCHANGED inbox
        BY <1>13, Zenon DEF OnListError
    <2> QED
        BY <1>9, <2>1
<1>14. CASE OnListItems(c)
    <2>1. PICK page, m, last : /\ page = Head(out).data /\ last = LastOf(page)
                               /\ m = Message("listNext", w.list, LastOf(page)[3])
        OBVIOUS
    <2>2. /\ Hears(c, "listItems")
          /\ \E state : /\ walk' = [walk EXCEPT ![c].state = state,
                                        ![c].seen = w.seen \cup {k[4] : k \in page}]
                        /\ \/ page = {} /\ state = "failed" /\ UNCHANGED inbox
                           \/ page # {} /\ last[3] = kEndList /\ state = "done" /\ UNCHANGED inbox
                           \/ page # {} /\ last[3] # kEndList /\ state = "on" /\ Send(c, m)
        BY <1>2, <1>14, <2>1, ItemsMeans, Zenon
    <2>3. /\ out # <<>> /\ Sets(outbox', outbox, c, Tail(out))
          /\ Head(out).reply = "listItems" /\ IsAnswer(Head(out))
        BY <1>5, <2>2
    <2>4. AreKeys(page) /\ Subject(Head(out)) = Walking
        BY <2>1, <2>3, SMT DEF IsAnswer, Subject
    <2>5. /\ IsPage(page, w, d)
          /\ \A w1 : Leads(w1, d, drawn) => Walked(in, Tail(out), w1, d, drawn)
          /\ \A w1, x : /\ Leads(w1, d, drawn) /\ AsksOn(x, w1, d) /\ w1.state = "on"
                        => Walked(Append(in, x), Tail(out), w1, d, drawn)
        BY <1>3, <2>1, <2>3, <2>4, WalkedHears
    <2>6. Leads(w, d, drawn)
        BY <1>3 DEF Walked
    <2>7. /\ page = {} => Leads(WalkTo(w, "failed", page), d, drawn)
          /\ page # {} /\ LastOf(page)[3] = kEndList => Leads(WalkTo(w, "done", page), d, drawn)
          /\ page # {} /\ LastOf(page)[3] # kEndList =>
                /\ Leads(WalkTo(w, "on", page), d, drawn)
                /\ AsksOn(Message("listNext", w.list, LastOf(page)[3]),
                          WalkTo(w, "on", page), d)
        BY <1>3, <2>4, <2>5, <2>6, WalkTakes
    <2>8. PICK state :
             /\ walk' = [walk EXCEPT ![c].state = state,
                             ![c].seen = w.seen \cup {k[4] : k \in page}]
             /\ \/ page = {} /\ state = "failed" /\ UNCHANGED inbox
                \/ page # {} /\ last[3] = kEndList /\ state = "done" /\ UNCHANGED inbox
                \/ page # {} /\ last[3] # kEndList /\ state = "on" /\ Send(c, m)
        BY <2>2
    <2>9. PICK w1 : w1 = WalkTo(w, state, page)
        OBVIOUS
    <2>10. Sets(walk', walk, c, w1)
        <3>1. PICK seen : seen = w.seen \cup {k[4] : k \in page}
            OBVIOUS
        <3>2. walk' = [walk EXCEPT ![c].state = state, ![c].seen = seen]
            BY <2>8, <3>1
        <3>3. w = [state |-> w.state, list |-> w.list, there |-> w.there, due |-> w.due,
                   seen |-> w.seen]
            BY <1>2, <1>3, CallHere, Zenon DEF IsWalk
        <3>4. [[w EXCEPT !.state = state] EXCEPT !.seen = seen]
                 = [state |-> state, list |-> w.list, there |-> w.there, due |-> w.due,
                    seen |-> seen]
            <4>1. PICK u : u = [state |-> state, list |-> w.list, there |-> w.there,
                                due |-> w.due, seen |-> w.seen]
                OBVIOUS
            <4>2. u = [w EXCEPT !.state = state]
                BY <3>3, <4>1
            <4>3. [u EXCEPT !.seen = seen]
                     = [state |-> state, list |-> w.list, there |-> w.there, due |-> w.due,
                        seen |-> seen]
                BY <4>1
            <4> QED
                BY <4>2, <4>3
        <3>5. w1 = [[w EXCEPT !.state = state] EXCEPT !.seen = seen]
            BY <2>9, <3>1, <3>4, Zenon DEF WalkTo
        <3>6. DOMAIN walk = Client
            BY <1>3, Zenon DEF IsMap
        <3>7. PICK v : v = [walk EXCEPT ![c].state = state]
            OBVIOUS
        <3>8. v[c] = [w EXCEPT !.state = state] /\ DOMAIN v = Client
            BY <1>2, <3>6, <3>7, Zenon
        <3>9. walk' = [v EXCEPT ![c] = [v[c] EXCEPT !.seen = seen]]
            BY <3>2, <3>7, Zenon
        <3>10. w1 = [v[c] EXCEPT !.seen = seen]
            BY <3>5, <3>8, Zenon
        <3>11. v = [walk EXCEPT ![c] = [walk[c] EXCEPT !.state = state]]
            BY <3>7, Zenon
        <3>12. [v EXCEPT ![c] = w1] = [walk EXCEPT ![c] = w1]
            BY <3>6, <3>11
        <3> QED
            BY <3>9, <3>10, <3>12 DEF Sets
    <2>11. CASE page = {} /\ state = "failed" /\ UNCHANGED inbox
        <3>1. Walked(in, Tail(out), w1, d, drawn)
            BY <2>5, <2>7, <2>9, <2>11
        <3> QED
            BY <1>7, <1>8, <2>3, <2>10, <2>11, <3>1
    <2>12. CASE page # {} /\ last[3] = kEndList /\ state = "done" /\ UNCHANGED inbox
        <3>1. Walked(in, Tail(out), w1, d, drawn)
            BY <2>1, <2>5, <2>7, <2>9, <2>12
        <3> QED
            BY <1>7, <1>8, <2>3, <2>10, <2>12, <3>1
    <2>13. CASE page # {} /\ last[3] # kEndList /\ state = "on" /\ Send(c, m)
        <3>1. Leads(w1, d, drawn) /\ AsksOn(m, w1, d)
            BY <2>1, <2>7, <2>9, <2>13
        <3>2. w1.state = "on"
            BY <2>9, <2>13 DEF WalkTo
        <3>3. CASE UNCHANGED inbox
            <4>1. Walked(in, Tail(out), w1, d, drawn)
                BY <2>5, <3>1
            <4> QED
                BY <1>7, <1>8, <2>3, <2>10, <3>3, <4>1
        <3>4. CASE inbox' # inbox
            <4>1. Sets(inbox', inbox, c, Append(in, m))
                BY <1>2, <2>13, <3>4, Zenon DEF Send, Sets
            <4>2. Walked(Append(in, m), Tail(out), w1, d, drawn)
                BY <2>5, <3>1, <3>2
            <4> QED
                BY <1>7, <2>3, <2>10, <4>1, <4>2
        <3> QED
            BY <3>3, <3>4
    <2> QED
        BY <2>8, <2>11, <2>12, <2>13
<1> QED
    BY <1>10, <1>11, <1>12, <1>13, <1>14, ReceivesAre

LEMMA WalkInit ==
    ASSUME Init
    PROVE  WalkInv
<1>1. TypeInv
    BY TypesInit
<1>2. PICK none, list, record, d, key, asset, time, drawn :
         /\ none = <<>> /\ list = OldList /\ record = OldRecord
         /\ d = storeList(none, list, record) /\ drawn = keys
         /\ key = OldAsset.key /\ asset = OldAsset /\ time = OldTime
    OBVIOUS
<1>3. PICK d1 : d1 = db
    OBVIOUS
<1>4. d1 = storeAsset(d, key, asset, time)
    BY <1>2, <1>3, Zenon DEF Init, OldRecord
<1>5. DOMAIN d = {ListKey(list)} \cup SentinelKeys(list) \cup ListNameKeys(record)
    <2>1. IsListStored(d, none, list, record)
        BY <1>2, ListStored
    <2>2. DOMAIN none = {}
        BY <1>2, NoElements
    <2> QED
        BY <2>1, <2>2 DEF IsListStored
<1>6. DOMAIN d1 = DOMAIN d \cup {AssetKey(key)} \cup EntryKeys(asset, time, key)
                    \cup NameKeys(asset)
    <2>1. IsAssetStored(d1, d, key, asset, time)
        BY <1>4, AssetStored
    <2> QED
        BY <2>1, Zenon DEF IsAssetStored
<1>7. list \notin Range(drawn)
    <2>1. AreDraws(drawn)
        BY <1>1, <1>2 DEF TypeInv, ServerTypes
    <2> QED
        BY <1>2, <2>1, Zenon DEF AreDraws, Range
<1>8. SentinelKeys(list) = {FirstOf(list), EndOf(list)}
    BY DEF SentinelKeys, FirstOf, EndOf
<1>9. /\ FirstOf(list)[2] = list /\ FirstOf(list)[3] = kBeginList /\ FirstOf(list)[4] = kBeginList
      /\ EndOf(list)[2] = list /\ EndOf(list)[3] = kEndList /\ EndOf(list)[4] = kEndList
    BY KeyParts DEF FirstOf, EndOf
<1>10. kBeginList \in Word /\ kEndList \in Word /\ kBeginList # kEndList
    BY EndIsLast DEF Word, kBeginList
<1>11. time \in Word /\ time # kEndList /\ key \in Word /\ asset.lists = {list}
    <2>1. time \in Word /\ time # kEndList
        BY <1>2, KeyNumbers
    <2>2. key = 2 /\ asset.lists = {list}
        BY <1>2, OldDatabase
    <2>3. 2 \in Word
        BY EndIsLast DEF Word
    <2> QED
        BY <2>1, <2>2, <2>3
<1>12. ASSUME NEW k \in DOMAIN d1, k[1] = kListEntry PROVE IsListed(d1, drawn, k)
    <2>1. CASE k \in SentinelKeys(list)
        <3>1. k[2] = list /\ k[3] \in Word /\ k[4] \in Word /\ (k[3] = kEndList => k[4] = kEndList)
            BY <1>8, <1>9, <1>10, <2>1
        <3>2. ListKey(k[2]) \in DOMAIN d1
            BY <1>5, <1>6, <3>1
        <3> QED
            BY <1>7, <3>1, <3>2 DEF IsListed
    <2>2. CASE k \in EntryKeys(asset, time, key)
        <3>1. k = ListEntryKey(list, time, key)
            BY <1>11, <2>2 DEF EntryKeys
        <3>2. k[2] = list /\ k[3] = time /\ k[4] = key
            BY <3>1, KeyParts
        <3> QED
            BY <1>7, <1>11, <3>2 DEF IsListed
    <2>3. /\ k # ListKey(list) /\ k \notin ListNameKeys(record) /\ k # AssetKey(key)
          /\ k \notin NameKeys(asset)
        BY <1>12, KeyParts, StoredKeyParts
    <2> QED
        BY <1>5, <1>6, <2>1, <2>2, <2>3
<1>13. ASSUME NEW l, ListKey(l) \in DOMAIN d1
       PROVE  FirstOf(l) \in DOMAIN d1 /\ EndOf(l) \in DOMAIN d1
    <2>1. ListKey(l)[1] = 4 /\ ListKey(l)[2] = l /\ ListKey(list)[2] = list /\ AssetKey(key)[1] = 1
        BY KeyParts
    <2>2. /\ ListKey(l) \notin SentinelKeys(list) /\ ListKey(l) \notin ListNameKeys(record)
          /\ ListKey(l) \notin EntryKeys(asset, time, key) /\ ListKey(l) \notin NameKeys(asset)
        BY <2>1, StoredKeyParts
    <2>3. l = list
        BY <1>5, <1>6, <1>13, <2>1, <2>2
    <2> QED
        BY <1>5, <1>6, <1>8, <2>3
<1>14. Listed(db, keys)
    <2>1. Listed(d1, drawn)
        BY <1>12, <1>13 DEF Listed
    <2> QED
        BY <1>2, <1>3, <2>1
<1>15. ASSUME NEW c \in Client PROVE Walked(inbox[c], outbox[c], walk[c], db, keys)
    <2>1. inbox[c] = <<>> /\ outbox[c] = <<>> /\ walk[c] = NoWalk
        BY Zenon DEF Init
    <2>2. NoneAbout(<<>>, <<>>, Walking)
        BY NoElements DEF NoneAbout, NotAsked, NotAnswered
    <2>3. OneAbout(<<>>, <<>>, Walking)
        BY <2>2, NoneIsOne
    <2>4. Leads(NoWalk, db, keys)
        BY DEF Leads, NoWalk
    <2>5. Range(<<>>) = {}
        BY NoElements
    <2>6. Walked(<<>>, <<>>, NoWalk, db, keys)
        BY <2>2, <2>3, <2>4, <2>5 DEF Walked
    <2> QED
        BY <2>1, <2>6, Zenon
<1> QED
    BY <1>1, <1>14, <1>15 DEF WalkInv

LEMMA WalkKept ==
    ASSUME WalkInv, [Next]_vars
    PROVE  WalkInv'
<1>1. TypeInv'
    BY TypesKept DEF WalkInv
<1>2. CASE UNCHANGED vars
    <2>1. UNCHANGED <<inbox, outbox, walk, db, keys>>
        BY <1>2 DEF vars
    <2> QED
        BY <1>1, <2>1, Zenon DEF WalkInv
<1> QED
    BY <1>1, <1>2, CallsWalk, HandleWalk, ReceivesWalk DEF Next

(* A walk that comes to the end of a list has seen all that was in it when *)
(* it began, and only a walk through a list that was not there fails:      *)
(* WalkIsComplete (AssetDatabase.cpp:265, 388-432).                        *)
THEOREM WalksAreComplete == Spec => []WalkIsComplete
<1>1. WalkInv => WalkIsComplete
    <2> SUFFICES ASSUME WalkInv PROVE WalkIsComplete
        OBVIOUS
    <2>1. ASSUME NEW c \in Client
          PROVE  /\ walk[c].state = "done" => walk[c].due \subseteq walk[c].seen
                 /\ walk[c].state = "failed" => ~ walk[c].there
        BY <2>1, WalkHere DEF Walked, Leads
    <2> QED
        BY <2>1 DEF WalkIsComplete
<1> QED
    BY <1>1, WalkInit, WalkKept, PTL DEF Spec
=============================================================================
