-------------------------- MODULE SCLOrkClockProofs -------------------------
(***************************************************************************)
(* Proofs about module SCLOrkClock: its types, that a clock is always      *)
(* going to look at the changes it holds for later (NoChangeForgotten),    *)
(* and that the clocks of a cohort agree (AgreeWithoutClash) and never go  *)
(* back (NeverBack) when no changes have met, for every number of clients, *)
(* tempos and changes.                                                     *)
(***************************************************************************)
EXTENDS SCLOrkClock, NumberLemmas, FiniteSetTheorems, SequenceTheorems, TLAPS

Sorted(queue) == \A i, j \in DOMAIN queue : i < j => queue[i].beat <= queue[j].beat
Queues == {q \in Seq(States) : Sorted(q)}
Clocks == [current : States, queue : Queues, timers : SUBSET Int]
Cohorts == [current : States, queue : Queues]
Creates == [type : {"clockCreate"}, state : {s \in States : s.beat = 0}]
Changes == [type : {"clockChange"}, state : States]
Questions == [type : {"clockGetAll"}]
Messages == Creates \cup Changes \cup Questions

TypeInv ==
    /\ now \in Nat /\ now <= MaxTime
    /\ events \in Nat /\ events <= MaxEvents
    /\ clash \in BOOLEAN
    /\ cohort # Nil => cohort \in Cohorts
    /\ clock = [c \in Clients |-> clock[c]]
    /\ \A c \in Clients : clock[c] # Nil => clock[c] \in Clocks
    /\ wire \in [Clients -> {"knocking", "accepted", "connected", "failed"}]
    /\ wireMap \subseteq Clients
    /\ toServer \in [Clients -> Seq(Messages)]
    /\ toClient \in [Clients -> Seq(States)]
    /\ \A c \in Clients : wire[c] \in {"knocking", "accepted"} => toServer[c] = <<>>

----------------------------------------------------------------------------
(* States, and the beats and the times they give.                          *)

LEMMA TicksPositive == BeatTicks \subseteq Nat \ {0} /\ FirstTicks \subseteq BeatTicks
BY TemposAssumption

LEMMA StateTyped ==
    ASSUME NEW beat \in Int, NEW time \in Int, NEW ticks \in BeatTicks
    PROVE  /\ State(beat, time, ticks) \in States
           /\ State(beat, time, ticks).beat = beat
           /\ State(beat, time, ticks).ticks = ticks
BY DEF State, States

LEMMA TimeTyped ==
    ASSUME NEW s \in States, NEW beat \in Int
    PROVE  beats2secs(s, beat) \in Int
<1>1. s.time \in Int /\ s.beat \in Int /\ s.ticks \in Nat
    BY TicksPositive DEF States
<1>2. (beat - s.beat) * s.ticks \in Int
    BY <1>1, SMT
<1> QED
    BY <1>1, <1>2, SMT DEF beats2secs

(* A later beat comes later.                                               *)
LEMMA LaterBeat ==
    ASSUME NEW s \in States, NEW a \in Int, NEW b \in Int, a <= b
    PROVE  beats2secs(s, a) <= beats2secs(s, b)
<1>1. PICK d \in Nat : b = a + d
    <2>1. b - a \in Nat
        BY SMT
    <2> QED
        BY <2>1, SMT
<1>2. s.time \in Int /\ s.beat \in Int /\ s.ticks \in Nat
    BY TicksPositive DEF States
<1>3. (b - s.beat) * s.ticks = (a - s.beat) * s.ticks + d * s.ticks /\ d * s.ticks \in Nat
    BY <1>1, <1>2, SMT
<1>4. (a - s.beat) * s.ticks \in Int
    BY <1>2, SMT
<1> QED
    BY <1>2, <1>3, <1>4, SMT DEF beats2secs

LEMMA ComesInTurn ==
    ASSUME now \in Int, NEW s \in States, NEW a \in Int, NEW b \in Int, a <= b,
           HasCome(s, b)
    PROVE  HasCome(s, a)
<1>1. /\ beats2secs(s, a) \in Int /\ beats2secs(s, b) \in Int
      /\ beats2secs(s, a) <= beats2secs(s, b)
    BY TimeTyped, LaterBeat
<1> QED
    BY <1>1, SMT DEF HasCome

LEMMA NextBeatTyped ==
    ASSUME now \in Int, NEW s \in States
    PROVE  NextBeat(s) \in Int
<1>1. s.time \in Int /\ s.beat \in Int /\ s.ticks \in Nat \ {0}
    BY TicksPositive DEF States
<1>2. (s.time - now) \div s.ticks \in Int
    BY <1>1, SMT
<1> QED
    BY <1>1, <1>2, SMT DEF NextBeat

LEMMA MaxOfTwo ==
    ASSUME NEW a \in Int, NEW b \in Int
    PROVE  Max({a, b}) \in Int /\ Max({a, b}) >= a /\ Max({a, b}) >= b /\ Max({a, b}) \in {a, b}
<1>1. \E x \in {a, b} : \A y \in {a, b} : x >= y
    BY SMT
<1>2. Max({a, b}) \in {a, b} /\ \A y \in {a, b} : Max({a, b}) >= y
    BY <1>1 DEF Max
<1> QED
    BY <1>2

LEMMA MaxUpTo ==
    ASSUME NEW n \in Nat, NEW S \in SUBSET (0 .. n), S # {}
    PROVE  Max(S) \in S /\ \A y \in S : y <= Max(S)
<1> DEFINE T == {n - x : x \in S}
<1>1. T \in SUBSET Nat /\ T # {}
    <2>1. \A x \in 0 .. n : n - x \in Nat
        BY SMT
    <2> QED
        BY <2>1
<1>2. PICK t \in T : \A y \in T : t <= y
    <2> HIDE DEF T
    <2> QED
        BY <1>1, LeastNumber
<1>3. PICK x \in S : t = n - x
    BY <1>2
<1>4. \A y \in S : y <= x
    <2> SUFFICES ASSUME NEW y \in S PROVE y <= x
        OBVIOUS
    <2>1. n - x <= n - y
        BY <1>2, <1>3
    <2>2. x \in Int /\ y \in Int
        OBVIOUS
    <2> QED
        BY <2>1, <2>2, SMT
<1>5. Max(S) \in S /\ \A y \in S : Max(S) >= y
    <2>1. \E z \in S : \A y \in S : z >= y
        BY <1>4
    <2> QED
        BY <2>1, Zenon DEF Max
<1> QED
    BY <1>5

----------------------------------------------------------------------------
(* The priority queue.                                                     *)

LEMMA InitialSegment ==
    ASSUME NEW n \in Nat, NEW D \in SUBSET (1 .. n),
           \A i \in D : \A j \in 1 .. i : j \in D
    PROVE  Cardinality(D) \in 0 .. n /\ D = 1 .. Cardinality(D)
<1> DEFINE T == {m \in 0 .. n : \A i \in D : i <= m}
<1>1. n \in T /\ T \in SUBSET Nat
    <2>1. n \in 0 .. n /\ \A i \in 1 .. n : i <= n
        BY SMT
    <2> QED
        BY <2>1
<1>2. PICK m \in T : \A y \in T : m <= y
    <2>1. T # {}
        BY <1>1
    <2> HIDE DEF T
    <2> QED
        BY <1>1, <2>1, LeastNumber
<1>3. m \in 0 .. n /\ m \in Nat /\ \A i \in D : i <= m
    BY <1>2
<1>4. D = 1 .. m
    <2>1. D \subseteq 1 .. m
        BY <1>3, SMT
    <2>2. CASE m = 0
        BY <2>1, <2>2, SMT
    <2>3. CASE m # 0
        <3>1. m \in D
            <4>1. SUFFICES ASSUME m \notin D PROVE FALSE
                OBVIOUS
            <4>2. m - 1 \in 0 .. n /\ ~ (m <= m - 1)
                BY <1>3, <2>3, SMT
            <4>3. \A i \in D : i <= m - 1
                BY <2>1, <4>1, <1>3, SMT
            <4> QED
                BY <4>2, <4>3, <1>2
        <3> QED
            BY <3>1, <2>1
    <2> QED
        BY <2>2, <2>3
<1>5. Cardinality(1 .. m) = m
    BY <1>3, FS_Interval, SMT
<1> QED
    BY <1>3, <1>4, <1>5

LEMMA BeatsTyped ==
    ASSUME NEW s \in States
    PROVE  s.beat \in Int /\ s.time \in Int
BY DEF States

LEMMA QueueTyped ==
    ASSUME NEW q \in Queues
    PROVE  /\ q \in Seq(States) /\ Len(q) \in Nat /\ DOMAIN q = 1 .. Len(q)
           /\ \A i \in 1 .. Len(q) : q[i] \in States /\ q[i].beat \in Int
           /\ \A i, j \in 1 .. Len(q) : i <= j => q[i].beat <= q[j].beat
           /\ Range(q) = {q[i] : i \in 1 .. Len(q)}
           /\ Range(q) \subseteq States
<1>1. q \in Seq(States) /\ Len(q) \in Nat /\ DOMAIN q = 1 .. Len(q) /\ Sorted(q)
    BY LenProperties DEF Queues
<1>2. \A i \in 1 .. Len(q) : q[i] \in States /\ q[i].beat \in Int
    BY <1>1, ElementOfSeq, BeatsTyped
<1>3. ASSUME NEW i \in 1 .. Len(q), NEW j \in 1 .. Len(q), i <= j
      PROVE  q[i].beat <= q[j].beat
    <2>1. CASE i = j
        BY <2>1, <1>2, SMT
    <2>2. CASE i < j
        BY <2>2, <1>1 DEF Sorted
    <2> QED
        BY <2>1, <2>2, <1>1, <1>3, SMT
<1> QED
    BY <1>1, <1>2, <1>3 DEF Range

LEMMA EmptyQueue == <<>> \in Queues /\ Len(<<>>) = 0 /\ Range(<<>>) = {}
<1>1. <<>> \in Seq(States) /\ Len(<<>>) = 0 /\ DOMAIN <<>> = 1 .. 0
    BY EmptySeq, LenProperties
<1> DEFINE none == <<>>
<1>2. DOMAIN none = {}
    BY <1>1, SMT
<1> HIDE DEF none
<1>3. Sorted(none) /\ Range(none) = {}
    BY <1>2 DEF Sorted, Range
<1> QED
    BY <1>1, <1>3 DEF Queues, none

(* A state is queued where it belongs.                                     *)
LEMMA QueuedInserts ==
    ASSUME NEW q \in Queues, NEW s \in States
    PROVE  /\ Queued(q, s) \in Queues
           /\ Queued(q, s) # <<>>
           /\ Range(Queued(q, s)) = Range(q) \cup {s}
<1> DEFINE n == Cardinality(NotAfter(q, s))
           front == SubSeq(q, 1, n)
           mid == <<s>>
           back == SubSeq(q, n + 1, Len(q))
           r == Queued(q, s)
<1>1. /\ q \in Seq(States) /\ Len(q) \in Nat /\ DOMAIN q = 1 .. Len(q)
      /\ \A i \in 1 .. Len(q) : q[i] \in States /\ q[i].beat \in Int
      /\ \A i, j \in 1 .. Len(q) : i <= j => q[i].beat <= q[j].beat
      /\ Range(q) = {q[i] : i \in 1 .. Len(q)}
    BY QueueTyped
<1>2. s.beat \in Int
    BY BeatsTyped
<1>3. n \in 0 .. Len(q) /\ NotAfter(q, s) = 1 .. n
    <2>1. NotAfter(q, s) \in SUBSET (1 .. Len(q))
        BY <1>1 DEF NotAfter
    <2>2. ASSUME NEW i \in NotAfter(q, s), NEW j \in 1 .. i PROVE j \in NotAfter(q, s)
        <3>1. i \in 1 .. Len(q) /\ q[i].beat <= s.beat
            BY <1>1 DEF NotAfter
        <3>2. j \in 1 .. Len(q) /\ j <= i
            BY <3>1, <1>1, SMT
        <3>3. q[j].beat <= q[i].beat
            BY <3>1, <3>2, <1>1
        <3>4. q[j].beat <= s.beat
            BY <3>1, <3>2, <3>3, <1>1, <1>2, SMT
        <3> QED
            BY <3>2, <3>4, <1>1 DEF NotAfter
    <2> QED
        BY <2>1, <2>2, <1>1, InitialSegment
<1>4. n \in Nat /\ n <= Len(q)
    BY <1>1, <1>3, SMT
<1> HIDE DEF n
<1>5. /\ front \in Seq(States) /\ Len(front) = n
      /\ \A i \in 1 .. n : front[i] = q[i]
    <2>1. 1 \in Int /\ n \in Int /\ \A i \in 1 .. n : q[i] \in States
        BY <1>1, <1>4, SMT
    <2>2. /\ front \in Seq(States) /\ Len(front) = (IF 1 <= n THEN n - 1 + 1 ELSE 0)
          /\ \A i \in 1 .. n - 1 + 1 : front[i] = q[1 + i - 1]
        BY <2>1, SubSeqProperties
    <2> HIDE DEF front
    <2> QED
        BY <2>2, <1>4, SMT
<1>6. /\ back \in Seq(States) /\ Len(back) = Len(q) - n
      /\ \A i \in 1 .. Len(q) - n : back[i] = q[n + i]
    <2>1. n + 1 \in Int /\ Len(q) \in Int /\ \A i \in n + 1 .. Len(q) : q[i] \in States
        BY <1>1, <1>4, SMT
    <2>2. /\ back \in Seq(States)
          /\ Len(back) = (IF n + 1 <= Len(q) THEN Len(q) - (n + 1) + 1 ELSE 0)
          /\ \A i \in 1 .. Len(q) - (n + 1) + 1 : back[i] = q[(n + 1) + i - 1]
        BY <2>1, SubSeqProperties
    <2> HIDE DEF back
    <2>3. Len(back) = Len(q) - n /\ Len(q) - (n + 1) + 1 = Len(q) - n
        <3>1. PICK l, b : l = Len(q) /\ b = Len(back)
            OBVIOUS
        <3>2. b = (IF n + 1 <= l THEN l - (n + 1) + 1 ELSE 0) /\ l \in Nat /\ n <= l
            BY <2>2, <3>1, <1>1, <1>4
        <3>3. b = l - n /\ l - (n + 1) + 1 = l - n
            BY <3>2, <1>4, SMT
        <3> QED
            BY <3>1, <3>3
    <2>4. \A i \in 1 .. Len(q) - n : back[i] = q[(n + 1) + i - 1]
        BY <2>2, <2>3
    <2>5. \A i \in 1 .. Len(q) - n : (n + 1) + i - 1 = n + i
        BY <1>1, <1>4, SMT
    <2> QED
        BY <2>2, <2>3, <2>4, <2>5
<1>7. mid \in Seq(States) /\ Len(mid) = 1 /\ mid[1] = s
    OBVIOUS
<1>8. r = (front \o mid) \o back
    <2>1. (n + 1) - 1 = n
        BY <1>4, SMT
    <2>2. r = (SubSeq(q, 1, (n + 1) - 1) \o mid) \o SubSeq(q, n + 1, Len(q))
        BY DEF Queued, InsertAt, n
    <2> QED
        BY <2>1, <2>2
<1> HIDE DEF front, mid, back, r
<1>9. /\ r \in Seq(States) /\ Len(r) = Len(q) + 1
      /\ \A i \in 1 .. Len(q) + 1 :
            r[i] = IF i <= n THEN q[i] ELSE IF i = n + 1 THEN s ELSE q[i - 1]
    <2>1. PICK fm : fm = front \o mid
        OBVIOUS
    <2>2. /\ fm \in Seq(States) /\ Len(fm) = n + 1
          /\ \A i \in 1 .. n + 1 : fm[i] = IF i <= n THEN front[i] ELSE mid[i - n]
        <3>1. /\ fm \in Seq(States) /\ Len(fm) = Len(front) + Len(mid)
              /\ \A i \in 1 .. Len(front) + Len(mid) :
                    fm[i] = IF i <= Len(front) THEN front[i] ELSE mid[i - Len(front)]
            BY <2>1, <1>5, <1>7, ConcatProperties, Zenon
        <3> QED
            BY <3>1, <1>5, <1>7
    <2>3. /\ r \in Seq(States) /\ Len(r) = n + 1 + (Len(q) - n)
          /\ \A i \in 1 .. n + 1 + (Len(q) - n) :
                r[i] = IF i <= n + 1 THEN fm[i] ELSE back[i - (n + 1)]
        <3>1. /\ r \in Seq(States) /\ Len(r) = Len(fm) + Len(back)
              /\ \A i \in 1 .. Len(fm) + Len(back) :
                    r[i] = IF i <= Len(fm) THEN fm[i] ELSE back[i - Len(fm)]
            <4>1. r = fm \o back
                BY <2>1, <1>8
            <4> QED
                BY <4>1, <2>2, <1>6, ConcatProperties, Zenon
        <3> QED
            BY <3>1, <2>2, <1>6
    <2>4. n + 1 + (Len(q) - n) = Len(q) + 1
        BY <1>1, <1>4, SMT
    <2>5. ASSUME NEW i \in 1 .. Len(q) + 1
          PROVE  r[i] = IF i <= n THEN q[i] ELSE IF i = n + 1 THEN s ELSE q[i - 1]
        <3>1. CASE i <= n
            <4>1. i \in 1 .. n /\ i \in 1 .. n + 1 /\ i <= n + 1
                BY <3>1, <1>4, SMT
            <4> QED
                BY <4>1, <3>1, <2>2, <2>3, <2>4, <1>5
        <3>2. CASE i = n + 1
            <4>1. i \in 1 .. n + 1 /\ i <= n + 1 /\ ~ (i <= n) /\ i - n = 1
                BY <3>2, <1>4, SMT
            <4> QED
                BY <4>1, <3>2, <2>2, <2>3, <2>4, <1>7
        <3>3. CASE i > n + 1
            <4>1. /\ ~ (i <= n) /\ ~ (i <= n + 1) /\ i # n + 1
                  /\ i - (n + 1) \in 1 .. Len(q) - n /\ n + (i - (n + 1)) = i - 1
                BY <3>3, <1>1, <1>4, SMT
            <4> QED
                BY <4>1, <2>3, <2>4, <1>6
        <3> QED
            BY <3>1, <3>2, <3>3, <1>4, SMT
    <2> QED
        BY <2>3, <2>4, <2>5
<1>10. DOMAIN r = 1 .. Len(q) + 1
    BY <1>9, LenProperties
<1>11. \A i \in 1 .. n : q[i].beat <= s.beat
    BY <1>3 DEF NotAfter
<1>12. \A i \in n + 1 .. Len(q) : s.beat <= q[i].beat
    <2> SUFFICES ASSUME NEW i \in n + 1 .. Len(q) PROVE s.beat <= q[i].beat
        OBVIOUS
    <2>1. i \in 1 .. Len(q) /\ i \notin 1 .. n
        BY <1>1, <1>4, SMT
    <2>2. ~ (q[i].beat <= s.beat)
        BY <2>1, <1>1, <1>3 DEF NotAfter
    <2> QED
        BY <2>1, <2>2, <1>1, <1>2, SMT
<1>13. Sorted(r)
    <2> SUFFICES ASSUME NEW i \in 1 .. Len(q) + 1, NEW j \in 1 .. Len(q) + 1, i < j
                 PROVE  r[i].beat <= r[j].beat
        BY <1>10 DEF Sorted
    <2>1. CASE j <= n
        <3>1. i \in 1 .. Len(q) /\ j \in 1 .. Len(q) /\ i <= j /\ i <= n
            BY <2>1, <1>1, <1>4, SMT
        <3> QED
            BY <3>1, <2>1, <1>1, <1>9
    <2>2. CASE j = n + 1
        <3>1. i <= n /\ i \in 1 .. n /\ ~ (j <= n)
            BY <2>2, <1>1, <1>4, SMT
        <3> QED
            BY <3>1, <2>2, <1>9, <1>11
    <2>3. CASE j > n + 1
        <3>1. /\ ~ (j <= n) /\ j # n + 1 /\ j - 1 \in n + 1 .. Len(q) /\ j - 1 \in 1 .. Len(q)
              /\ r[j] = q[j - 1]
            BY <2>3, <1>1, <1>4, <1>9, SMT
        <3>2. CASE i <= n
            <4>1. i \in 1 .. Len(q) /\ i <= j - 1
                BY <3>2, <2>3, <1>1, <1>4, SMT
            <4> QED
                BY <4>1, <3>1, <3>2, <1>1, <1>9
        <3>3. CASE i = n + 1
            <4>1. ~ (i <= n)
                BY <3>3, <1>4, SMT
            <4> QED
                BY <4>1, <3>1, <3>3, <1>9, <1>12
        <3>4. CASE i > n + 1
            <4>1. ~ (i <= n) /\ i # n + 1 /\ i - 1 \in 1 .. Len(q) /\ i - 1 <= j - 1
                BY <3>4, <1>1, <1>4, SMT
            <4> QED
                BY <4>1, <3>1, <1>1, <1>9
        <3> QED
            BY <3>2, <3>3, <3>4, <1>4, SMT
    <2> QED
        BY <2>1, <2>2, <2>3, <1>4, SMT
<1>14. Range(r) = Range(q) \cup {s}
    <2>1. Range(r) = {r[i] : i \in 1 .. Len(q) + 1}
        BY <1>10 DEF Range
    <2>2. ASSUME NEW i \in 1 .. Len(q) + 1 PROVE r[i] \in Range(q) \cup {s}
        <3>1. CASE i <= n
            <4>1. i \in 1 .. Len(q)
                BY <3>1, <1>1, <1>4, SMT
            <4> QED
                BY <4>1, <3>1, <1>1, <1>9
        <3>2. CASE i = n + 1
            <4>1. ~ (i <= n)
                BY <3>2, <1>4, SMT
            <4> QED
                BY <4>1, <3>2, <1>9
        <3>3. CASE i > n + 1
            <4>1. ~ (i <= n) /\ i # n + 1 /\ i - 1 \in 1 .. Len(q)
                BY <3>3, <1>1, <1>4, SMT
            <4> QED
                BY <4>1, <1>1, <1>9
        <3> QED
            BY <3>1, <3>2, <3>3, <1>4, SMT
    <2>3. s \in Range(r)
        <3>1. n + 1 \in 1 .. Len(q) + 1 /\ ~ (n + 1 <= n)
            BY <1>1, <1>4, SMT
        <3> QED
            BY <3>1, <2>1, <1>9
    <2>4. ASSUME NEW i \in 1 .. Len(q) PROVE q[i] \in Range(r)
        <3>1. CASE i <= n
            <4>1. i \in 1 .. Len(q) + 1
                BY <1>1, SMT
            <4> QED
                BY <4>1, <3>1, <2>1, <1>9
        <3>2. CASE i > n
            <4>1. /\ i + 1 \in 1 .. Len(q) + 1 /\ ~ (i + 1 <= n) /\ i + 1 # n + 1
                  /\ i + 1 - 1 = i
                BY <3>2, <1>1, <1>4, SMT
            <4> QED
                BY <4>1, <2>1, <1>9
        <3> QED
            BY <3>1, <3>2, <1>4, SMT
    <2> QED
        BY <2>1, <2>2, <2>3, <2>4, <1>1
<1>15. r # <<>>
    <2>1. Len(r) # 0
        BY <1>9, <1>1, SMT
    <2> QED
        BY <2>1, EmptySeq
<1> QED
    BY <1>9, <1>13, <1>14, <1>15 DEF r, Queues

(* What is left of a queue when the first n states are taken.              *)
LEMMA SuffixTyped ==
    ASSUME NEW q \in Queues, NEW n \in 0 .. Len(q)
    PROVE  /\ SubSeq(q, n + 1, Len(q)) \in Queues
           /\ Len(SubSeq(q, n + 1, Len(q))) = Len(q) - n
           /\ Range(SubSeq(q, n + 1, Len(q))) = {q[i] : i \in n + 1 .. Len(q)}
<1> DEFINE rest == SubSeq(q, n + 1, Len(q))
<1>1. /\ q \in Seq(States) /\ Len(q) \in Nat
      /\ \A i \in 1 .. Len(q) : q[i] \in States /\ q[i].beat \in Int
      /\ \A i, j \in 1 .. Len(q) : i <= j => q[i].beat <= q[j].beat
    BY QueueTyped
<1>2. PICK l \in Nat : l = Len(q)
    BY <1>1
<1>3. n \in Nat /\ n <= l
    BY <1>2, SMT
<1>4. /\ rest \in Seq(States)
      /\ Len(rest) = (IF n + 1 <= l THEN l - (n + 1) + 1 ELSE 0)
      /\ \A i \in 1 .. l - (n + 1) + 1 : rest[i] = q[(n + 1) + i - 1]
    <2>1. n + 1 \in Int /\ Len(q) \in Int /\ \A i \in n + 1 .. Len(q) : q[i] \in States
        BY <1>1, <1>2, <1>3, SMT
    <2> QED
        BY <2>1, <1>2, SubSeqProperties
<1> HIDE DEF rest
<1>5. PICK b : b = Len(rest)
    OBVIOUS
<1>6. b = l - n /\ l - (n + 1) + 1 = l - n
    <2>1. b = (IF n + 1 <= l THEN l - (n + 1) + 1 ELSE 0)
        BY <1>4, <1>5
    <2> QED
        BY <2>1, <1>3, SMT
<1>7. \A i \in 1 .. l - n : rest[i] = q[n + i]
    <2>1. \A i \in 1 .. l - n : (n + 1) + i - 1 = n + i
        BY <1>3, SMT
    <2> QED
        BY <2>1, <1>4, <1>6
<1>8. DOMAIN rest = 1 .. l - n
    BY <1>4, <1>5, <1>6, LenProperties
<1>9. Sorted(rest)
    <2> SUFFICES ASSUME NEW i \in 1 .. l - n, NEW j \in 1 .. l - n, i < j
                 PROVE  rest[i].beat <= rest[j].beat
        BY <1>8 DEF Sorted
    <2>1. n + i \in 1 .. l /\ n + j \in 1 .. l /\ n + i <= n + j
        BY <1>3, SMT
    <2> QED
        BY <2>1, <1>1, <1>2, <1>7
<1>10. Range(rest) = {q[i] : i \in n + 1 .. l}
    <2>1. Range(rest) = {rest[i] : i \in 1 .. l - n}
        BY <1>8 DEF Range
    <2>2. \A i \in 1 .. l - n : n + i \in n + 1 .. l
        BY <1>3, SMT
    <2>3. \A i \in n + 1 .. l : i - n \in 1 .. l - n /\ n + (i - n) = i
        BY <1>3, SMT
    <2>4. ASSUME NEW i \in 1 .. l - n PROVE rest[i] \in {q[j] : j \in n + 1 .. l}
        BY <2>2, <1>7
    <2>5. ASSUME NEW i \in n + 1 .. l PROVE q[i] \in {rest[j] : j \in 1 .. l - n}
        <3>1. rest[i - n] = q[i]
            BY <2>3, <1>7
        <3> QED
            BY <2>3, <3>1
    <2> QED
        BY <2>1, <2>4, <2>5
<1> QED
    BY <1>2, <1>4, <1>5, <1>6, <1>9, <1>10 DEF rest, Queues

LEMMA PromotedClock ==
    ASSUME NEW k \in Clocks, NEW n
    PROVE  Promoted(k, n) =
               [current |-> IF n = 0 THEN k.current ELSE k.queue[n],
                queue |-> SubSeq(k.queue, n + 1, Len(k.queue)), timers |-> k.timers]
<1>1. k = [current |-> k.current, queue |-> k.queue, timers |-> k.timers]
    BY DEF Clocks
<1>2. PICK cur, rest : /\ cur = (IF n = 0 THEN k.current ELSE k.queue[n])
                       /\ rest = SubSeq(k.queue, n + 1, Len(k.queue))
    OBVIOUS
<1>3. Promoted(k, n) = [k EXCEPT !.current = cur, !.queue = rest]
    BY <1>2, Zenon DEF Promoted
<1>4. Promoted(k, n) = [current |-> cur, queue |-> rest, timers |-> k.timers]
    BY <1>1, <1>3
<1> QED
    BY <1>2, <1>4, Zenon

LEMMA PromotedCohort ==
    ASSUME NEW k \in Cohorts, NEW n
    PROVE  Promoted(k, n) =
               [current |-> IF n = 0 THEN k.current ELSE k.queue[n],
                queue |-> SubSeq(k.queue, n + 1, Len(k.queue))]
<1>1. k = [current |-> k.current, queue |-> k.queue]
    BY DEF Cohorts
<1>2. PICK cur, rest : /\ cur = (IF n = 0 THEN k.current ELSE k.queue[n])
                       /\ rest = SubSeq(k.queue, n + 1, Len(k.queue))
    OBVIOUS
<1>3. Promoted(k, n) = [k EXCEPT !.current = cur, !.queue = rest]
    BY <1>2, Zenon DEF Promoted
<1>4. Promoted(k, n) = [current |-> cur, queue |-> rest]
    BY <1>1, <1>3
<1> QED
    BY <1>2, <1>4, Zenon

LEMMA PromotedFields ==
    ASSUME NEW k \in Clocks \cup Cohorts, NEW n
    PROVE  /\ Promoted(k, n).current = (IF n = 0 THEN k.current ELSE k.queue[n])
           /\ Promoted(k, n).queue = SubSeq(k.queue, n + 1, Len(k.queue))
<1>1. CASE k \in Clocks
    BY <1>1, PromotedClock
<1>2. CASE k \in Cohorts
    BY <1>2, PromotedCohort
<1> QED
    BY <1>1, <1>2

Chain(k) == {k.current} \cup Range(k.queue)
Ordered(k) == \A x \in Range(k.queue) : k.current.beat <= x.beat

(* Promoting takes states from the front: those that go are not later than *)
(* the one that is current then.                                           *)
LEMMA PromotedKeeps ==
    ASSUME NEW k \in Clocks \cup Cohorts, NEW n \in 0 .. Len(k.queue)
    PROVE  LET p == Promoted(k, n) IN
           /\ k \in Clocks => p \in Clocks /\ p.timers = k.timers
           /\ k \in Cohorts => p \in Cohorts
           /\ p.current \in Chain(k)
           /\ p.current = k.current \/ p.current \in Range(k.queue)
           /\ n = 0 => p.current = k.current /\ Range(p.queue) = Range(k.queue)
           /\ n # 0 => p.current \in Range(k.queue)
           /\ Range(p.queue) \subseteq Range(k.queue)
           /\ Ordered(k) =>
                 /\ Ordered(p)
                 /\ \A x \in Chain(k) : x \in Chain(p) \/ x.beat <= p.current.beat
<1>1. PICK p : p = Promoted(k, n)
    OBVIOUS
<1>2. k.queue \in Queues /\ k.current \in States
    BY DEF Clocks, Cohorts
<1>3. PICK q \in Queues, cur \in States : q = k.queue /\ cur = k.current
    BY <1>2
<1>4. /\ Len(q) \in Nat /\ DOMAIN q = 1 .. Len(q)
      /\ \A i \in 1 .. Len(q) : q[i] \in States /\ q[i].beat \in Int
      /\ \A i, j \in 1 .. Len(q) : i <= j => q[i].beat <= q[j].beat
      /\ Range(q) = {q[i] : i \in 1 .. Len(q)}
    BY QueueTyped
<1>5. n \in Nat /\ n <= Len(q) /\ (n # 0 => n \in 1 .. Len(q))
    BY <1>3, <1>4, SMT
<1>6. /\ p.current = (IF n = 0 THEN cur ELSE q[n])
      /\ p.queue \in Queues
      /\ Range(p.queue) = {q[i] : i \in n + 1 .. Len(q)}
    BY <1>1, <1>3, PromotedFields, SuffixTyped
<1>7. p.current \in States
    BY <1>3, <1>4, <1>5, <1>6
<1>8. /\ k \in Clocks => p \in Clocks /\ p.timers = k.timers
      /\ k \in Cohorts => p \in Cohorts
    <2>1. ASSUME k \in Clocks PROVE p \in Clocks /\ p.timers = k.timers
        <3>1. p = [current |-> p.current, queue |-> p.queue, timers |-> k.timers]
            BY <1>1, <2>1, PromotedClock
        <3>2. k.timers \in SUBSET Int
            BY <2>1 DEF Clocks
        <3> QED
            BY <3>1, <3>2, <1>6, <1>7 DEF Clocks
    <2>2. ASSUME k \in Cohorts PROVE p \in Cohorts
        <3>1. p = [current |-> p.current, queue |-> p.queue]
            BY <1>1, <2>2, PromotedCohort
        <3> QED
            BY <3>1, <1>6, <1>7 DEF Cohorts
    <2> QED
        BY <2>1, <2>2
<1>9. n # 0 => p.current \in Range(q)
    BY <1>4, <1>5, <1>6
<1>10. \A i \in n + 1 .. Len(q) : i \in 1 .. Len(q)
    BY <1>4, <1>5, SMT
<1>11. Range(p.queue) \subseteq Range(q)
    BY <1>4, <1>6, <1>10
<1>12. n = 0 => Range(p.queue) = Range(q)
    <2>1. n = 0 => n + 1 .. Len(q) = 1 .. Len(q)
        BY SMT
    <2> QED
        BY <2>1, <1>4, <1>6
<1>13. ASSUME Ordered(k)
       PROVE  /\ Ordered(p)
              /\ \A x \in Chain(k) : x \in Chain(p) \/ x.beat <= p.current.beat
    <2>1. \A i \in 1 .. Len(q) : cur.beat <= q[i].beat
        BY <1>13, <1>3, <1>4 DEF Ordered
    <2>2. CASE n = 0
        BY <2>2, <1>3, <1>6, <1>12, <1>13 DEF Ordered, Chain
    <2>3. CASE n # 0
        <3>1. p.current = q[n] /\ n \in 1 .. Len(q)
            BY <2>3, <1>5, <1>6
        <3>2. \A i \in n + 1 .. Len(q) : q[n].beat <= q[i].beat
            BY <3>1, <1>4, <1>5, <1>10, SMT
        <3>3. \A i \in 1 .. Len(q) : i \in n + 1 .. Len(q) \/ q[i].beat <= q[n].beat
            <4> SUFFICES ASSUME NEW i \in 1 .. Len(q), i \notin n + 1 .. Len(q)
                         PROVE  q[i].beat <= q[n].beat
                OBVIOUS
            <4>1. i <= n
                BY <1>4, <1>5, SMT
            <4> QED
                BY <4>1, <3>1, <1>4
        <3> QED
            BY <2>1, <3>1, <3>2, <3>3, <1>3, <1>4, <1>6 DEF Ordered, Chain
    <2> QED
        BY <2>2, <2>3
<1> QED
    BY <1>1, <1>3, <1>6, <1>8, <1>9, <1>11, <1>12, <1>13 DEF Chain

LEMMA GroomedIs ==
    ASSUME NEW co \in Cohorts
    PROVE  \E n \in 0 .. Len(co.queue) : Groomed(co) = Promoted(co, n)
<1> DEFINE chain == <<co.current>> \o co.queue
           Come(n) == \A i \in 1 .. n : HasCome(chain[i], chain[i + 1].beat)
           S == {n \in 0 .. Len(co.queue) : Come(n)}
<1>1. Len(co.queue) \in Nat
    BY QueueTyped DEF Cohorts
<1>2. S \in SUBSET (0 .. Len(co.queue)) /\ 0 \in S
    <2>1. 0 \in 0 .. Len(co.queue) /\ 1 .. 0 = {}
        BY <1>1, SMT
    <2> QED
        BY <2>1
<1>3. Groomed(co) = Promoted(co, Max(S))
    BY DEF Groomed
<1> HIDE DEF S
<1>4. Max(S) \in S
    BY <1>1, <1>2, MaxUpTo
<1> QED
    BY <1>2, <1>3, <1>4

----------------------------------------------------------------------------
(* What the messages on a wire are, when one joins or leaves them.         *)

LEMMA RangeIs ==
    ASSUME NEW S, NEW a \in Seq(S)
    PROVE  Range(a) = {a[i] : i \in 1 .. Len(a)} /\ Range(a) \subseteq S
<1>1. DOMAIN a = 1 .. Len(a) /\ \A i \in 1 .. Len(a) : a[i] \in S
    BY LenProperties, ElementOfSeq
<1> QED
    BY <1>1 DEF Range

LEMMA RangeConcat ==
    ASSUME NEW S, NEW a \in Seq(S), NEW b \in Seq(S)
    PROVE  a \o b \in Seq(S) /\ Range(a \o b) = Range(a) \cup Range(b)
<1>1. PICK c : c = a \o b
    OBVIOUS
<1>2. /\ c \in Seq(S) /\ Len(c) = Len(a) + Len(b)
      /\ \A i \in 1 .. Len(a) + Len(b) :
            c[i] = IF i <= Len(a) THEN a[i] ELSE b[i - Len(a)]
    BY <1>1, ConcatProperties, Zenon
<1>3. PICK m \in Nat, n \in Nat : m = Len(a) /\ n = Len(b)
    BY LenProperties
<1>4. \A i \in 1 .. m + n : c[i] = IF i <= m THEN a[i] ELSE b[i - m]
    BY <1>2, <1>3, Zenon
<1>5. /\ Range(a) = {a[i] : i \in 1 .. m} /\ Range(b) = {b[i] : i \in 1 .. n}
      /\ Range(c) = {c[i] : i \in 1 .. m + n}
    BY <1>2, <1>3, RangeIs
<1>6. ASSUME NEW i \in 1 .. m + n PROVE c[i] \in Range(a) \cup Range(b)
    <2>1. CASE i <= m
        <3>1. i \in 1 .. m
            BY <2>1, SMT
        <3> QED
            BY <3>1, <2>1, <1>4, <1>5
    <2>2. CASE ~ (i <= m)
        <3>1. i - m \in 1 .. n
            BY <2>2, SMT
        <3> QED
            BY <3>1, <2>2, <1>4, <1>5
    <2> QED
        BY <2>1, <2>2
<1>7. ASSUME NEW i \in 1 .. m PROVE a[i] \in Range(c)
    <2>1. i \in 1 .. m + n /\ i <= m
        BY SMT
    <2> QED
        BY <2>1, <1>4, <1>5
<1>8. ASSUME NEW i \in 1 .. n PROVE b[i] \in Range(c)
    <2>1. m + i \in 1 .. m + n /\ ~ (m + i <= m) /\ (m + i) - m = i
        BY SMT
    <2> QED
        BY <2>1, <1>4, <1>5
<1>9. Range(c) = Range(a) \cup Range(b)
    BY <1>5, <1>6, <1>7, <1>8
<1> QED
    BY <1>1, <1>2, <1>9

LEMMA RangeOne ==
    ASSUME NEW S, NEW x \in S
    PROVE  <<x>> \in Seq(S) /\ Range(<<x>>) = {x}
<1>1. PICK a : a = <<x>>
    OBVIOUS
<1>2. a \in Seq(S) /\ Len(a) = 1 /\ a[1] = x
    BY <1>1
<1>3. Range(a) = {a[i] : i \in 1 .. 1} /\ 1 .. 1 = {1}
    BY <1>2, RangeIs, SMT
<1> QED
    BY <1>1, <1>2, <1>3

LEMMA RangeAppend ==
    ASSUME NEW S, NEW a \in Seq(S), NEW x \in S
    PROVE  Append(a, x) \in Seq(S) /\ Range(Append(a, x)) = Range(a) \cup {x}
<1>1. Append(a, x) = a \o <<x>>
    OBVIOUS
<1>2. PICK one : one = <<x>>
    OBVIOUS
<1>3. one \in Seq(S) /\ Range(one) = {x}
    BY <1>2, RangeOne
<1>4. a \o one \in Seq(S) /\ Range(a \o one) = Range(a) \cup Range(one)
    BY <1>3, RangeConcat
<1> QED
    BY <1>1, <1>2, <1>3, <1>4, Zenon

LEMMA RangeTail ==
    ASSUME NEW S, NEW a \in Seq(S), a # <<>>
    PROVE  /\ Head(a) \in S /\ Tail(a) \in Seq(S)
           /\ Range(a) = {Head(a)} \cup Range(Tail(a))
<1>1. Head(a) \in S /\ Tail(a) \in Seq(S)
    BY HeadTailProperties
<1>2. a = <<Head(a)>> \o Tail(a)
    OBVIOUS
<1>3. PICK one : one = <<Head(a)>>
    OBVIOUS
<1>4. one \in Seq(S) /\ Range(one) = {Head(a)}
    BY <1>1, <1>3, RangeOne
<1>5. PICK rest \in Seq(S) : rest = Tail(a)
    BY <1>1
<1>6. Range(one \o rest) = Range(one) \cup Range(rest)
    BY <1>4, RangeConcat
<1> QED
    BY <1>1, <1>2, <1>3, <1>4, <1>5, <1>6, Zenon

LEMMA RangePrefix ==
    ASSUME NEW S, NEW a \in Seq(S), NEW kept \in Prefixes(a)
    PROVE  kept \in Seq(S) /\ Range(kept) \subseteq Range(a)
<1>1. PICK n \in 0 .. Len(a) : kept = SubSeq(a, 1, n)
    BY DEF Prefixes
<1>2. PICK m \in Nat : m = Len(a)
    BY LenProperties
<1>3. n \in Nat /\ n <= m /\ \A i \in 1 .. n : i \in 1 .. m
    BY <1>2, SMT
<1>4. kept \in Seq(S) /\ Len(kept) = (IF 1 <= n THEN n - 1 + 1 ELSE 0)
      /\ \A i \in 1 .. n - 1 + 1 : kept[i] = a[1 + i - 1]
    <2>1. 1 \in Int /\ n \in Int /\ \A i \in 1 .. n : a[i] \in S
        BY <1>2, <1>3, ElementOfSeq, SMT
    <2> QED
        BY <2>1, <1>1, SubSeqProperties
<1>5. Len(kept) = n /\ \A i \in 1 .. n : kept[i] = a[i]
    BY <1>3, <1>4, SMT
<1>6. Range(kept) = {kept[i] : i \in 1 .. n} /\ Range(a) = {a[i] : i \in 1 .. m}
    BY <1>2, <1>4, <1>5, RangeIs
<1> QED
    BY <1>3, <1>4, <1>5, <1>6

(* The heap is sent whole, in whatever order.                              *)
LEMMA HeapOrdersTyped ==
    ASSUME NEW q \in Queues, NEW order \in HeapOrders(q)
    PROVE  order \in Seq(States) /\ Range(order) = Range(q)
<1>1. q \in Seq(States) /\ Len(q) \in Nat /\ Range(q) = {q[i] : i \in 1 .. Len(q)}
      /\ \A i \in 1 .. Len(q) : q[i] \in States
    BY QueueTyped
<1>2. CASE q = <<>>
    BY <1>1, <1>2 DEF HeapOrders
<1>3. CASE q # <<>>
    <2>1. PICK p \in SetToSeqs(2 .. Len(q)) :
             order = <<Head(q)>> \o [i \in DOMAIN p |-> q[p[i]]]
        BY <1>3 DEF HeapOrders
    <2>2. PICK l \in Nat \ {0} : l = Len(q)
        BY <1>1, <1>3, EmptySeq
    <2>3. Cardinality(2 .. l) = l - 1 /\ IsFiniteSet(2 .. l) /\ l - 1 \in Nat
        <3>1. IsFiniteSet(2 .. l) /\ Cardinality(2 .. l) = IF 2 > l THEN 0 ELSE l - 2 + 1
            BY FS_Interval
        <3> QED
            BY <3>1, SMT
    <2>4. p \in [1 .. l - 1 -> 2 .. l] /\ \A i, j \in 1 .. l - 1 : i # j => p[i] # p[j]
        <3>1. SetToSeqs(2 .. l) = {f \in [1 .. l - 1 -> 2 .. l] :
                                     \A i, j \in 1 .. l - 1 : i # j => f[i] # f[j]}
            BY <2>3, Zenon DEF SetToSeqs
        <3> QED
            BY <3>1, <2>2
    <2>5. \A x \in 2 .. l : \E i \in 1 .. l - 1 : p[i] = x
        <3>1. p \in Injection(1 .. l - 1, 2 .. l)
            BY <2>4 DEF Injection, IsInjective
        <3>2. Cardinality(1 .. l - 1) = l - 1
            <4>1. Cardinality(1 .. l - 1) = IF 1 > l - 1 THEN 0 ELSE l - 1 - 1 + 1
                BY <2>3, FS_Interval
            <4> QED
                BY <4>1, <2>3, SMT
        <3>3. p \in Surjection(1 .. l - 1, 2 .. l)
            BY <3>1, <3>2, <2>3, FS_Injection
        <3> QED
            BY <3>3 DEF Surjection
    <2>6. PICK rest : rest = [i \in 1 .. l - 1 |-> q[p[i]]]
        OBVIOUS
    <2>7. \A i \in 2 .. l : i \in 1 .. l
        BY SMT
    <2>8. rest \in Seq(States)
        <3>1. \A i \in 1 .. l - 1 : q[p[i]] \in States
            BY <2>2, <2>4, <2>7, <1>1
        <3>2. rest \in [1 .. l - 1 -> States]
            BY <3>1, <2>6
        <3> QED
            BY <3>2, <2>3, SeqDef
    <2>9. DOMAIN rest = 1 .. l - 1 /\ \A i \in 1 .. l - 1 : rest[i] = q[p[i]]
        BY <2>6
    <2>10. Range(rest) = {q[i] : i \in 2 .. l}
        <3>1. Range(rest) = {rest[i] : i \in 1 .. l - 1}
            BY <2>9 DEF Range
        <3>2. \A i \in 1 .. l - 1 : rest[i] \in {q[j] : j \in 2 .. l}
            BY <2>4, <2>9
        <3>3. \A j \in 2 .. l : q[j] \in {rest[i] : i \in 1 .. l - 1}
            BY <2>5, <2>9
        <3> QED
            BY <3>1, <3>2, <3>3
    <2>11. Head(q) = q[1] /\ 1 \in 1 .. l /\ q[1] \in States
        BY <1>1, <1>3, <2>2
    <2>12. order = <<q[1]>> \o rest
        <3>1. DOMAIN p = 1 .. l - 1
            BY <2>4
        <3> QED
            BY <3>1, <2>1, <2>6, <2>11
    <2>13. order \in Seq(States) /\ Range(order) = {q[1]} \cup {q[i] : i \in 2 .. l}
        <3>1. PICK one : one = <<q[1]>>
            OBVIOUS
        <3>2. one \in Seq(States) /\ Range(one) = {q[1]}
            BY <3>1, <2>11, RangeOne
        <3>3. one \o rest \in Seq(States) /\ Range(one \o rest) = Range(one) \cup Range(rest)
            BY <3>2, <2>8, RangeConcat
        <3> QED
            BY <3>1, <3>2, <3>3, <2>10, <2>12, Zenon
    <2>14. 1 .. l = {1} \cup (2 .. l)
        BY SMT
    <2> QED
        BY <2>13, <2>14, <2>2, <1>1
<1> QED
    BY <1>2, <1>3

----------------------------------------------------------------------------
(* What the steps of a clock come to.                                      *)

(* At this time, a look at the queue is scheduled for the beat of its first*)
(* state.                                                                  *)
Scheduled(k, time) ==
    k.queue # <<>> =>
        \E t \in k.timers : t <= Max({time, beats2secs(k.current, Head(k.queue).beat)})

LEMMA FirstQueued ==
    ASSUME NEW q \in Queues, q # <<>>
    PROVE  /\ Head(q) \in States /\ Head(q).beat \in Int /\ Head(q) \in Range(q)
           /\ \A x \in Range(q) : Head(q).beat <= x.beat
<1>1. /\ q \in Seq(States) /\ Len(q) \in Nat
      /\ \A i \in 1 .. Len(q) : q[i] \in States /\ q[i].beat \in Int
      /\ \A i, j \in 1 .. Len(q) : i <= j => q[i].beat <= q[j].beat
      /\ Range(q) = {q[i] : i \in 1 .. Len(q)}
    BY QueueTyped
<1>2. Len(q) # 0
    BY <1>1, EmptySeq
<1>3. 1 \in 1 .. Len(q) /\ \A i \in 1 .. Len(q) : 1 <= i
    BY <1>1, <1>2, SMT
<1>4. Head(q) = q[1]
    BY <1>1, <1>2
<1> QED
    BY <1>1, <1>3, <1>4

LEMMA NewClockTyped ==
    ASSUME NEW s \in States
    PROVE  /\ NewClock(s) \in Clocks /\ NewClock(s).current = s
           /\ NewClock(s).queue = <<>>
BY EmptyQueue DEF NewClock, Clocks

(* prUpdate: the state becomes current, or joins those that are queued.    *)
LEMMA UpdatedIs ==
    ASSUME now \in Int, NEW k \in Clocks, NEW s \in States
    PROVE  LET u == Updated(k, s) IN
           /\ u \in Clocks
           /\ u.queue # <<>> => beats2secs(u.current, Head(u.queue).beat) \in u.timers
           /\ \/ HasCome(k.current, s.beat) /\ u.current = s /\ u.queue = k.queue
              \/ /\ ~HasCome(k.current, s.beat) /\ u.current = k.current
                 /\ Range(u.queue) = Range(k.queue) \cup {s}
<1>1. PICK cur \in States, q \in Queues, ts \in SUBSET Int :
         k = [current |-> cur, queue |-> q, timers |-> ts]
    BY DEF Clocks
<1>2. PICK u : u = Updated(k, s)
    OBVIOUS
<1>3. PICK k1 : k1 = (IF HasCome(k.current, s.beat) THEN [k EXCEPT !.current = s]
                      ELSE [k EXCEPT !.queue = Queued(@, s)])
    OBVIOUS
<1>4. PICK ts1 : ts1 = (IF k1.queue = <<>> THEN k.timers
                        ELSE k.timers \cup {beats2secs(k1.current, Head(k1.queue).beat)})
    OBVIOUS
<1>5. k1.timers = k.timers
    BY <1>1, <1>3
<1>6. u = [k1 EXCEPT !.timers = ts1]
    BY <1>2, <1>3, <1>4, <1>5, Zenon DEF Updated
<1>7. CASE HasCome(k.current, s.beat)
    <2>1. k1 = [current |-> s, queue |-> q, timers |-> ts]
        BY <1>1, <1>3, <1>7
    <2>2. u = [current |-> s, queue |-> q, timers |-> ts1]
        BY <1>6, <2>1
    <2>3. q # <<>> => beats2secs(s, Head(q).beat) \in Int
        BY FirstQueued, TimeTyped
    <2>4. ts1 \in SUBSET Int /\ (q # <<>> => beats2secs(s, Head(q).beat) \in ts1)
        BY <1>1, <1>4, <2>1, <2>3
    <2>5. u \in Clocks
        BY <2>2, <2>4 DEF Clocks
    <2> QED
        BY <1>1, <1>2, <1>7, <2>2, <2>4, <2>5
<1>8. CASE ~HasCome(k.current, s.beat)
    <2>1. PICK r : r = Queued(q, s)
        OBVIOUS
    <2>2. r \in Queues /\ r # <<>> /\ Range(r) = Range(q) \cup {s}
        BY <2>1, QueuedInserts
    <2>3. k1 = [current |-> cur, queue |-> r, timers |-> ts]
        <3>1. k.queue = q
            BY <1>1
        <3>2. k1 = [k EXCEPT !.queue = r]
            BY <3>1, <1>3, <1>8, <2>1
        <3> QED
            BY <3>2, <1>1
    <2>4. u = [current |-> cur, queue |-> r, timers |-> ts1]
        BY <1>6, <2>3
    <2>5. beats2secs(cur, Head(r).beat) \in Int
        BY <2>2, FirstQueued, TimeTyped
    <2>6. ts1 \in SUBSET Int /\ beats2secs(cur, Head(r).beat) \in ts1
        BY <1>1, <1>4, <2>2, <2>3, <2>5
    <2>7. u \in Clocks
        BY <2>2, <2>4, <2>6 DEF Clocks
    <2> QED
        BY <1>1, <1>2, <1>8, <2>2, <2>4, <2>6, <2>7
<1> QED
    BY <1>7, <1>8

(* An update is in order unless it overtakes a state that is queued.       *)
LEMMA UpdatedOrdered ==
    ASSUME now \in Int, NEW k \in Clocks, NEW s \in States, Ordered(k),
           k # Nil, ~IsBehind(k, s), ~Overtakes(k, s)
    PROVE  Ordered(Updated(k, s))
<1>1. PICK u : u = Updated(k, s)
    OBVIOUS
<1>2. \/ HasCome(k.current, s.beat) /\ u.current = s /\ u.queue = k.queue
      \/ u.current = k.current /\ Range(u.queue) = Range(k.queue) \cup {s}
    BY <1>1, UpdatedIs
<1>3. /\ k.current \in States /\ k.queue \in Queues
      /\ k.current.beat \in Int /\ s.beat \in Int
    BY BeatsTyped DEF Clocks
<1>4. CASE HasCome(k.current, s.beat) /\ u.current = s /\ u.queue = k.queue
    <2>1. CASE k.queue = <<>>
        BY <1>4, <2>1, EmptyQueue, <1>1 DEF Ordered
    <2>2. CASE k.queue # <<>>
        <3>1. PICK h : h = Head(k.queue)
            OBVIOUS
        <3>2. h.beat \in Int /\ \A x \in Range(k.queue) : h.beat <= x.beat
            BY <3>1, <1>3, <2>2, FirstQueued
        <3>3. ~HasCome(k.current, h.beat)
            BY <1>4, <2>2, <3>1 DEF Overtakes
        <3>4. ~ (h.beat <= s.beat)
            BY <3>2, <3>3, <1>3, <1>4, ComesInTurn
        <3>5. \A x \in Range(k.queue) : x.beat \in Int
            BY <1>3, QueueTyped, BeatsTyped
        <3>6. \A x \in Range(k.queue) : s.beat <= x.beat
            BY <3>2, <3>4, <3>5, <1>3, SMT
        <3> QED
            BY <1>1, <1>4, <3>6 DEF Ordered
    <2> QED
        BY <2>1, <2>2
<1>5. CASE u.current = k.current /\ Range(u.queue) = Range(k.queue) \cup {s}
    <2>1. k.current.beat <= s.beat
        BY <1>3, SMT DEF IsBehind
    <2> QED
        BY <1>1, <1>5, <2>1 DEF Ordered
<1> QED
    BY <1>2, <1>4, <1>5

(* prAdvanceState, when n of the states it finds queued are due.           *)
Advanced(k, n, t) ==
    [Promoted(k, n) EXCEPT !.timers =
        IF Promoted(k, n).queue = <<>> THEN @ \ {t}
        ELSE (@ \ {t}) \cup {Max({now, beats2secs(Promoted(k, n).current,
                                                 Head(Promoted(k, n).queue).beat)})}]

LEMMA AdvancedIs ==
    ASSUME now \in Int, NEW k \in Clocks, NEW n \in 0 .. Len(k.queue), NEW t
    PROVE  LET a == Advanced(k, n, t)
               p == Promoted(k, n)
           IN  /\ a \in Clocks /\ a.current = p.current /\ a.queue = p.queue
               /\ a.queue # <<>> =>
                     Max({now, beats2secs(a.current, Head(a.queue).beat)}) \in a.timers
<1>1. PICK p : p = Promoted(k, n)
    OBVIOUS
<1>2. p \in Clocks
    BY <1>1, PromotedKeeps
<1>3. PICK cur \in States, q \in Queues, ts \in SUBSET Int :
         p = [current |-> cur, queue |-> q, timers |-> ts]
    BY <1>2 DEF Clocks
<1>4. PICK m : m = Max({now, beats2secs(cur, Head(q).beat)})
    OBVIOUS
<1>5. PICK ts1 : ts1 = (IF q = <<>> THEN ts \ {t} ELSE (ts \ {t}) \cup {m})
    OBVIOUS
<1>6. p.queue = q /\ p.current = cur /\ p.timers = ts
    BY <1>3
<1>7. Advanced(k, n, t) = [p EXCEPT !.timers = ts1]
    BY <1>1, <1>4, <1>5, <1>6, Zenon DEF Advanced
<1>8. Advanced(k, n, t) = [current |-> cur, queue |-> q, timers |-> ts1]
    BY <1>3, <1>7
<1>9. q # <<>> => m \in Int
    BY <1>4, FirstQueued, TimeTyped, MaxOfTwo
<1>10. ts1 \in SUBSET Int /\ (q # <<>> => m \in ts1)
    BY <1>5, <1>9
<1> QED
    BY <1>1, <1>4, <1>6, <1>8, <1>10 DEF Clocks

(* What prAdvanceState finds due is no more than the queue.                *)
LEMMA DueInQueue ==
    ASSUME NEW k \in Clocks
    PROVE  Cardinality({i \in DOMAIN k.queue : HasCome(k.current, k.queue[i].beat)})
               \in 0 .. Len(k.queue)
<1>1. k.queue \in Queues
    BY DEF Clocks
<1>2. PICK l \in Nat : l = Len(k.queue) /\ DOMAIN k.queue = 1 .. l
    BY <1>1, QueueTyped
<1>3. PICK D : D = {i \in DOMAIN k.queue : HasCome(k.current, k.queue[i].beat)}
    OBVIOUS
<1>4. D \in SUBSET (1 .. l)
    BY <1>2, <1>3
<1>5. IsFiniteSet(1 .. l) /\ Cardinality(1 .. l) = l
    <2>1. IsFiniteSet(1 .. l) /\ Cardinality(1 .. l) = IF 1 > l THEN 0 ELSE l - 1 + 1
        BY FS_Interval
    <2> QED
        BY <2>1, SMT
<1>6. Cardinality(D) <= l /\ IsFiniteSet(D)
    BY <1>4, <1>5, FS_Subset
<1>7. Cardinality(D) \in Nat
    BY <1>6, FS_CardinalityType
<1>8. Cardinality(D) \in 0 .. l
    BY <1>6, <1>7, SMT
<1> QED
    BY <1>2, <1>3, <1>8

LEMMA UpdatedScheduled ==
    ASSUME now \in Int, NEW k \in Clocks, NEW s \in States
    PROVE  Scheduled(Updated(k, s), now)
<1>1. PICK u : u = Updated(k, s)
    OBVIOUS
<1>2. u \in Clocks /\ u.current \in States /\ u.queue \in Queues
      /\ (u.queue # <<>> => beats2secs(u.current, Head(u.queue).beat) \in u.timers)
    BY <1>1, UpdatedIs DEF Clocks
<1>3. SUFFICES ASSUME u.queue # <<>>
               PROVE  \E t \in u.timers :
                          t <= Max({now, beats2secs(u.current, Head(u.queue).beat)})
    BY <1>1 DEF Scheduled
<1>4. PICK b \in Int : b = beats2secs(u.current, Head(u.queue).beat)
    BY <1>2, <1>3, FirstQueued, TimeTyped
<1>5. PICK m \in Int : m = Max({now, b}) /\ m >= b
    BY MaxOfTwo
<1>6. b <= m
    BY <1>5, SMT
<1> QED
    BY <1>2, <1>3, <1>4, <1>5, <1>6

LEMMA AdvancedScheduled ==
    ASSUME now \in Int, NEW k \in Clocks, NEW n \in 0 .. Len(k.queue), NEW t
    PROVE  Scheduled(Advanced(k, n, t), now)
<1>1. PICK a : a = Advanced(k, n, t)
    OBVIOUS
<1>2. a \in Clocks /\ a.current \in States /\ a.queue \in Queues
      /\ (a.queue # <<>> =>
             Max({now, beats2secs(a.current, Head(a.queue).beat)}) \in a.timers)
    BY <1>1, AdvancedIs DEF Clocks
<1>3. SUFFICES ASSUME a.queue # <<>>
               PROVE  \E x \in a.timers :
                          x <= Max({now, beats2secs(a.current, Head(a.queue).beat)})
    BY <1>1 DEF Scheduled
<1>4. PICK m \in Int : m = Max({now, beats2secs(a.current, Head(a.queue).beat)})
    BY <1>2, <1>3, FirstQueued, TimeTyped, MaxOfTwo
<1>5. m <= m
    BY SMT
<1> QED
    BY <1>2, <1>3, <1>4, <1>5

(* As time passes, what is scheduled stays so.                             *)
LEMMA ScheduledLater ==
    ASSUME NEW k \in Clocks, NEW a \in Int, NEW b \in Int, a <= b, Scheduled(k, a)
    PROVE  Scheduled(k, b)
<1>1. SUFFICES ASSUME k.queue # <<>>
               PROVE  \E t \in k.timers :
                          t <= Max({b, beats2secs(k.current, Head(k.queue).beat)})
    BY DEF Scheduled
<1>2. k.current \in States /\ k.queue \in Queues /\ k.timers \in SUBSET Int
    BY DEF Clocks
<1>3. PICK x \in Int : x = beats2secs(k.current, Head(k.queue).beat)
    BY <1>1, <1>2, FirstQueued, TimeTyped
<1>4. PICK t \in k.timers : t <= Max({a, x})
    BY <1>1, <1>3 DEF Scheduled
<1>5. t \in Int
    BY <1>2
<1>6. Max({a, x}) \in {a, x} /\ Max({b, x}) \in Int /\ Max({b, x}) >= b /\ Max({b, x}) >= x
    BY MaxOfTwo
<1>7. t <= Max({b, x})
    BY <1>4, <1>5, <1>6, SMT
<1> QED
    BY <1>3, <1>7

----------------------------------------------------------------------------
(* The types, and that what a clock holds for later is scheduled.          *)

Base ==
    /\ TypeInv
    /\ \A c \in Clients : clock[c] # Nil => Scheduled(clock[c], now)

LEMMA InitBase == Init => Base
<1> SUFFICES ASSUME Init PROVE Base
    OBVIOUS
<1>1. now \in Nat /\ now <= MaxTime /\ events \in Nat /\ events <= MaxEvents
    BY BoundsAssumption, SMT DEF Init
<1>2. <<>> \in Seq(Messages) /\ <<>> \in Seq(States)
    OBVIOUS
<1>3. /\ toServer \in [Clients -> Seq(Messages)]
      /\ toClient \in [Clients -> Seq(States)]
    BY <1>2 DEF Init
<1>4. \A c \in Clients : clock[c] = Nil
    BY DEF Init
<1> QED
    BY <1>1, <1>3, <1>4 DEF Init, Base, TypeInv

(* The clock of one client is another from now on.                         *)
LEMMA ClockChanges ==
    ASSUME Base, NEW c \in Clients, NEW k, clock' = [clock EXCEPT ![c] = k], now' = now,
           k # Nil => k \in Clocks /\ Scheduled(k, now)
    PROVE  /\ clock' = [d \in Clients |-> clock'[d]]
           /\ \A d \in Clients : clock'[d] # Nil => clock'[d] \in Clocks
           /\ \A d \in Clients : clock'[d] # Nil => Scheduled(clock'[d], now')
<1>1. clock = [d \in Clients |-> clock[d]]
    BY DEF Base, TypeInv
<1>2. \A d \in Clients : clock'[d] = IF d = c THEN k ELSE clock[d]
    BY <1>1
<1>3. clock' = [d \in Clients |-> clock'[d]]
    BY <1>1
<1>4. ASSUME NEW d \in Clients, clock'[d] # Nil
      PROVE  clock'[d] \in Clocks /\ Scheduled(clock'[d], now)
    <2>1. PICK x : x = clock'[d]
        OBVIOUS
    <2>2. x \in Clocks /\ Scheduled(x, now)
        <3>1. CASE d = c
            BY <3>1, <2>1, <1>2, <1>4
        <3>2. CASE d # c
            <4>1. x = clock[d]
                BY <3>2, <2>1, <1>2
            <4> QED
                BY <4>1, <2>1, <1>4 DEF Base, TypeInv
        <3> QED
            BY <3>1, <3>2
    <2> QED
        BY <2>1, <2>2
<1> QED
    BY <1>3, <1>4

(* The clocks stay as they are.                                            *)
LEMMA ClocksStay ==
    ASSUME Base, UNCHANGED <<now, clock>>
    PROVE  /\ clock' = [d \in Clients |-> clock'[d]]
           /\ \A d \in Clients : clock'[d] # Nil => clock'[d] \in Clocks
           /\ \A d \in Clients : clock'[d] # Nil => Scheduled(clock'[d], now')
BY DEF Base, TypeInv

LEMMA TellTyped ==
    ASSUME TypeInv, NEW c \in Clients, NEW m \in Messages, Tell(c, m), wire' = wire
    PROVE  /\ toServer' \in [Clients -> Seq(Messages)]
           /\ \A d \in Clients : wire'[d] \in {"knocking", "accepted"} => toServer'[d] = <<>>
           /\ \A d \in Clients :
                  toServer'[d] = toServer[d] \/ (d = c /\ toServer'[d] = Append(toServer[d], m))
<1>1. toServer \in [Clients -> Seq(Messages)] /\ toServer[c] \in Seq(Messages)
    BY DEF TypeInv
<1>2. \A d \in Clients : wire[d] \in {"knocking", "accepted"} => toServer[d] = <<>>
    BY DEF TypeInv
<1>3. CASE wire[c] = "connected" /\ toServer' = [toServer EXCEPT ![c] = Append(@, m)]
    <2>1. Append(toServer[c], m) \in Seq(Messages)
        BY <1>1
    <2>2. \A d \in Clients : toServer'[d] = IF d = c THEN Append(toServer[c], m) ELSE toServer[d]
        BY <1>1, <1>3
    <2> QED
        BY <1>1, <1>2, <1>3, <2>1, <2>2
<1>4. CASE toServer' = toServer
    BY <1>1, <1>2, <1>4
<1> QED
    BY <1>3, <1>4 DEF Tell

LEMMA ReceivedTyped ==
    ASSUME Base, NEW c \in Clients, NEW type, Received(c, type)
    PROVE  /\ Head(toServer[c]) \in Messages /\ Head(toServer[c]).type = type
           /\ toServer' \in [Clients -> Seq(Messages)]
           /\ \A d \in Clients : toServer'[d] = IF d = c THEN Tail(toServer[c]) ELSE toServer[d]
           /\ toServer[c] # <<>>
           /\ \A d \in Clients : wire'[d] \in {"knocking", "accepted"} => toServer'[d] = <<>>
<1>1. /\ toServer \in [Clients -> Seq(Messages)] /\ toServer[c] \in Seq(Messages)
      /\ \A d \in Clients : wire[d] \in {"knocking", "accepted"} => toServer[d] = <<>>
    BY DEF Base, TypeInv
<1>2. toServer[c] # <<>> /\ Head(toServer[c]).type = type /\ wire' = wire
      /\ toServer' = [toServer EXCEPT ![c] = Tail(@)]
    BY DEF Received
<1>3. Head(toServer[c]) \in Messages /\ Tail(toServer[c]) \in Seq(Messages)
    BY <1>1, <1>2, HeadTailProperties
<1>4. \A d \in Clients : toServer'[d] = IF d = c THEN Tail(toServer[c]) ELSE toServer[d]
    BY <1>1, <1>2
<1>5. toServer' \in [Clients -> Seq(Messages)]
    BY <1>1, <1>2, <1>3
<1>6. ASSUME NEW d \in Clients, wire'[d] \in {"knocking", "accepted"}
      PROVE  toServer'[d] = <<>>
    <2>1. toServer[d] = <<>>
        BY <1>1, <1>2, <1>6
    <2>2. d # c
        BY <2>1, <1>2
    <2> QED
        BY <2>1, <2>2, <1>4
<1> QED
    BY <1>2, <1>3, <1>4, <1>5, <1>6

LEMMA SendStateTyped ==
    ASSUME TypeInv, NEW c \in Clients, NEW co \in Cohorts, SendState(c, co)
    PROVE  /\ toClient' \in [Clients -> Seq(States)]
           /\ \A d \in Clients : d # c \/ c \notin wireMap => toClient'[d] = toClient[d]
           /\ c \in wireMap => Range(toClient'[c]) = Range(toClient[c]) \cup Chain(co)
<1>1. toClient \in [Clients -> Seq(States)] /\ toClient[c] \in Seq(States)
    BY DEF TypeInv
<1>2. CASE c \notin wireMap
    BY <1>1, <1>2 DEF SendState
<1>3. CASE c \in wireMap
    <2>1. PICK order \in HeapOrders(co.queue) :
             toClient' = [toClient EXCEPT ![c] = @ \o <<co.current>> \o order]
        BY <1>3 DEF SendState
    <2>2. order \in Seq(States) /\ Range(order) = Range(co.queue)
        BY HeapOrdersTyped DEF Cohorts
    <2>3. PICK one : one = <<co.current>>
        OBVIOUS
    <2>4. one \in Seq(States) /\ Range(one) = {co.current}
        <3>1. co.current \in States
            BY DEF Cohorts
        <3> QED
            BY <3>1, <2>3, RangeOne
    <2>5. PICK tc : tc = toClient[c]
        OBVIOUS
    <2>6. tc \o one \in Seq(States) /\ Range(tc \o one) = Range(tc) \cup {co.current}
        BY <1>1, <2>4, <2>5, RangeConcat
    <2>7. PICK a \in Seq(States) : a = tc \o one
        BY <2>6
    <2>8. a \o order \in Seq(States) /\ Range(a \o order) = Range(a) \cup Range(order)
        <3>1. PICK o \in Seq(States) : o = order
            BY <2>2
        <3>2. a \o o \in Seq(States) /\ Range(a \o o) = Range(a) \cup Range(o)
            BY RangeConcat
        <3> QED
            BY <3>1, <3>2, Zenon
    <2>9. PICK b : b = a \o order
        OBVIOUS
    <2>10. toClient' = [toClient EXCEPT ![c] = b]
        BY <2>1, <2>3, <2>5, <2>7, <2>9
    <2>11. b \in Seq(States) /\ Range(b) = Range(tc) \cup Chain(co)
        BY <2>2, <2>6, <2>7, <2>8, <2>9 DEF Chain
    <2> HIDE DEF Range, Chain
    <2> QED
        BY <1>1, <1>3, <2>5, <2>10, <2>11
<1> QED
    BY <1>2, <1>3

LEMMA SendAllTyped ==
    ASSUME TypeInv, NEW s \in States, SendAll(s)
    PROVE  /\ toClient' \in [Clients -> Seq(States)]
           /\ \A d \in Clients : d \notin wireMap => toClient'[d] = toClient[d]
           /\ \A d \in wireMap : Range(toClient'[d]) = Range(toClient[d]) \cup {s}
<1>1. toClient \in [Clients -> Seq(States)] /\ wireMap \subseteq Clients
    BY DEF TypeInv
<1>2. toClient' = [c \in Clients |-> IF c \in wireMap THEN Append(toClient[c], s)
                                     ELSE toClient[c]]
    BY DEF SendAll
<1>3. ASSUME NEW d \in Clients
      PROVE  /\ Append(toClient[d], s) \in Seq(States)
             /\ Range(Append(toClient[d], s)) = Range(toClient[d]) \cup {s}
    <2>1. toClient[d] \in Seq(States)
        BY <1>1
    <2> QED
        BY <2>1, RangeAppend
<1> QED
    BY <1>1, <1>2, <1>3

LEMMA GroomedTyped ==
    ASSUME NEW co \in Cohorts
    PROVE  Groomed(co) \in Cohorts
BY GroomedIs, PromotedKeeps

LEMMA TickBase == Base /\ Tick => Base'
<1> SUFFICES ASSUME Base, Tick PROVE Base'
    OBVIOUS
<1>1. now \in Nat /\ now < MaxTime /\ now' = now + 1 /\ UNCHANGED <<cohort, clock, wires, events, clash>>
    BY DEF Base, TypeInv, Tick
<1>2. now \in Int /\ now' \in Int /\ now' \in Nat /\ now <= now' /\ now' <= MaxTime
    BY <1>1, BoundsAssumption, SMT
<1>3. TypeInv'
    BY <1>1, <1>2 DEF Base, TypeInv, wires
<1>4. ASSUME NEW c \in Clients, clock'[c] # Nil PROVE Scheduled(clock'[c], now')
    <2>1. PICK k : k = clock[c]
        OBVIOUS
    <2>2. PICK b : b = now'
        OBVIOUS
    <2>3. k \in Clocks /\ Scheduled(k, now) /\ clock'[c] = k
        BY <1>1, <1>4, <2>1 DEF Base, TypeInv
    <2>4. Scheduled(k, b)
        BY <1>2, <2>2, <2>3, ScheduledLater
    <2> QED
        BY <2>2, <2>3, <2>4
<1> QED
    BY <1>3, <1>4 DEF Base

LEMMA NewBase ==
    ASSUME Base, NEW c \in Clients, NEW ticks \in FirstTicks, New(c, ticks)
    PROVE  Base'
<1>1. PICK s : s = State(0, now, ticks)
    OBVIOUS
<1>2. s \in States /\ s.beat = 0
    <2>1. now \in Int /\ 0 \in Int /\ ticks \in BeatTicks
        BY TicksPositive, SMT DEF Base, TypeInv
    <2> QED
        BY <1>1, <2>1, StateTyped
<1>3. /\ clock' = [clock EXCEPT ![c] = NewClock(s)]
      /\ Tell(c, [type |-> "clockCreate", state |-> s])
      /\ UNCHANGED <<now, cohort, wire, wireMap, toClient, events, clash>>
    BY <1>1 DEF New
<1>4. [type |-> "clockCreate", state |-> s] \in Messages
    BY <1>2 DEF Messages, Creates
<1>5. NewClock(s) \in Clocks /\ Scheduled(NewClock(s), now)
    BY <1>2, NewClockTyped DEF Scheduled
<1>6. /\ clock' = [d \in Clients |-> clock'[d]]
      /\ \A d \in Clients : clock'[d] # Nil => clock'[d] \in Clocks
      /\ \A d \in Clients : clock'[d] # Nil => Scheduled(clock'[d], now')
    BY <1>3, <1>5, ClockChanges
<1>7. /\ toServer' \in [Clients -> Seq(Messages)]
      /\ \A d \in Clients : wire'[d] \in {"knocking", "accepted"} => toServer'[d] = <<>>
    BY <1>3, <1>4, TellTyped DEF Base
<1> QED
    BY <1>3, <1>6, <1>7 DEF Base, TypeInv

LEMMA setTempoBase ==
    ASSUME Base, NEW c \in Clients, clock[c] # Nil, NEW ticks \in BeatTicks, NEW beat \in Int,
           setTempoAtBeat(c, ticks, beat)
    PROVE  Base'
<1>1. PICK s : s = TempoAt(clock[c].current, beat, ticks)
    OBVIOUS
<1>2. s \in States
    <2>1. clock[c].current \in States
        BY DEF Base, TypeInv, Clocks
    <2> QED
        BY <1>1, <2>1, TimeTyped, StateTyped DEF TempoAt
<1>3. /\ events < MaxEvents /\ events' = events + 1
      /\ Tell(c, [type |-> "clockChange", state |-> s])
      /\ UNCHANGED <<now, cohort, clock, wire, wireMap, toClient, clash>>
    BY <1>1 DEF setTempoAtBeat
<1>4. [type |-> "clockChange", state |-> s] \in Messages
    BY <1>2 DEF Messages, Changes
<1>5. /\ toServer' \in [Clients -> Seq(Messages)]
      /\ \A d \in Clients : wire'[d] \in {"knocking", "accepted"} => toServer'[d] = <<>>
    BY <1>3, <1>4, TellTyped DEF Base
<1>6. events' \in Nat /\ events' <= MaxEvents
    BY <1>3, BoundsAssumption, SMT DEF Base, TypeInv
<1> QED
    BY <1>3, <1>5, <1>6, ClocksStay DEF Base, TypeInv

LEMMA ChangeTempoBase ==
    ASSUME Base, NEW c \in Clients, NEW ticks \in BeatTicks, ChangeTempo(c, ticks)
    PROVE  Base'
<1>1. clock[c] # Nil
    BY DEF ChangeTempo
<1>2. NextBeat(clock[c].current) \in Int
    <2>1. clock[c].current \in States /\ now \in Int
        BY <1>1, SMT DEF Base, TypeInv, Clocks
    <2> QED
        BY <2>1, NextBeatTyped
<1>3. \E beat \in Int : setTempoAtBeat(c, ticks, beat)
    BY <1>2 DEF ChangeTempo
<1> QED
    BY <1>1, <1>3, setTempoBase

LEMMA OnUpdateBase ==
    ASSUME Base, NEW c \in Clients, OnUpdate(c)
    PROVE  Base'
<1>1. PICK s, k, k2 : /\ s = Head(toClient[c]) /\ k = clock[c]
                      /\ k2 = (IF k = Nil THEN NewClock(s)
                               ELSE IF IsBehind(k, s) THEN k ELSE Updated(k, s))
    OBVIOUS
<1>2. /\ toClient[c] # <<>> /\ toClient' = [toClient EXCEPT ![c] = Tail(@)]
      /\ clash' = (clash \/ Overtakes(clock[c], s))
      /\ UNCHANGED <<now, cohort, wire, wireMap, toServer, events>>
    BY <1>1 DEF OnUpdate
<1>3. clock' = [clock EXCEPT ![c] = k2]
    <2>1. clock' = [clock EXCEPT ![c] =
             IF @ = Nil THEN NewClock(s) ELSE IF IsBehind(@, s) THEN @ ELSE Updated(@, s)]
        BY <1>1 DEF OnUpdate
    <2> QED
        BY <2>1, <1>1, Zenon
<1>4. toClient \in [Clients -> Seq(States)] /\ toClient[c] \in Seq(States)
    BY DEF Base, TypeInv
<1>5. s \in States /\ Tail(toClient[c]) \in Seq(States)
    BY <1>1, <1>2, <1>4, HeadTailProperties
<1>6. now \in Int /\ (k # Nil => k \in Clocks /\ Scheduled(k, now))
    BY <1>1, SMT DEF Base, TypeInv
<1>7. k2 \in Clocks /\ Scheduled(k2, now)
    <2>1. CASE k = Nil
        BY <2>1, <1>1, <1>5, NewClockTyped DEF Scheduled
    <2>2. CASE k # Nil /\ IsBehind(k, s)
        BY <2>2, <1>1, <1>6
    <2>3. CASE k # Nil /\ ~IsBehind(k, s)
        BY <2>3, <1>1, <1>5, <1>6, UpdatedIs, UpdatedScheduled
    <2> QED
        BY <2>1, <2>2, <2>3
<1>8. /\ clock' = [d \in Clients |-> clock'[d]]
      /\ \A d \in Clients : clock'[d] # Nil => clock'[d] \in Clocks
      /\ \A d \in Clients : clock'[d] # Nil => Scheduled(clock'[d], now')
    BY <1>2, <1>3, <1>7, ClockChanges
<1>9. toClient' \in [Clients -> Seq(States)]
    BY <1>2, <1>4, <1>5
<1>10. clash' \in BOOLEAN
    BY <1>2
<1> QED
    BY <1>2, <1>8, <1>9, <1>10 DEF Base, TypeInv

LEMMA AdvanceStateBase ==
    ASSUME Base, NEW c \in Clients, AdvanceState(c)
    PROVE  Base'
<1>1. PICK k : k = clock[c]
    OBVIOUS
<1>2. PICK n : n = Cardinality({i \in DOMAIN k.queue : HasCome(k.current, k.queue[i].beat)})
    OBVIOUS
<1>3. k \in Clocks /\ now \in Int
    BY <1>1, SMT DEF AdvanceState, Base, TypeInv
<1>4. n \in 0 .. Len(k.queue)
    BY <1>2, <1>3, DueInQueue
<1>5. PICK t : clock' = [clock EXCEPT ![c] = Advanced(k, n, t)]
    BY <1>1, <1>2, Zenon DEF AdvanceState, Advanced
<1>6. Advanced(k, n, t) \in Clocks /\ Scheduled(Advanced(k, n, t), now)
    BY <1>3, <1>4, AdvancedIs, AdvancedScheduled
<1>7. UNCHANGED <<now, cohort, wires, events, clash>>
    BY DEF AdvanceState
<1>8. PICK a : a = Advanced(k, n, t)
    OBVIOUS
<1>9. /\ clock' = [d \in Clients |-> clock'[d]]
      /\ \A d \in Clients : clock'[d] # Nil => clock'[d] \in Clocks
      /\ \A d \in Clients : clock'[d] # Nil => Scheduled(clock'[d], now')
    BY <1>5, <1>6, <1>7, <1>8, ClockChanges
<1> QED
    BY <1>7, <1>9 DEF Base, TypeInv, wires

(* A handler of the server changes its cohort and sends states.            *)
LEMMA ServerBase ==
    ASSUME Base, NEW c \in Clients, NEW type, Received(c, type),
           cohort' # Nil => cohort' \in Cohorts,
           toClient' \in [Clients -> Seq(States)], clash' \in BOOLEAN
    PROVE  Base'
<1>1. UNCHANGED <<now, clock, wire, wireMap, events>>
    BY DEF Received
<1>2. /\ toServer' \in [Clients -> Seq(Messages)]
      /\ \A d \in Clients : wire'[d] \in {"knocking", "accepted"} => toServer'[d] = <<>>
    BY ReceivedTyped
<1> QED
    BY <1>1, <1>2, ClocksStay DEF Base, TypeInv

LEMMA MessagesAre ==
    ASSUME NEW m \in Messages
    PROVE  /\ m.type = "clockCreate" => m.state \in States /\ m.state.beat = 0
           /\ m.type = "clockChange" => m.state \in States
BY DEF Messages, Creates, Changes, Questions

(* What a server keeps of a cohort once it has taken a change.             *)
Changed(co, s) ==
    IF Replaces(co, s) THEN [co EXCEPT !.current = s]
    ELSE [co EXCEPT !.queue = Queued(@, s)]

LEMMA ChangedTyped ==
    ASSUME NEW co \in Cohorts, NEW s \in States
    PROVE  /\ Changed(co, s) \in Cohorts
           /\ ~Replaces(co, s) => /\ Changed(co, s).current = co.current
                                  /\ Range(Changed(co, s).queue) = Range(co.queue) \cup {s}
<1>1. PICK cur \in States, q \in Queues : co = [current |-> cur, queue |-> q]
    BY DEF Cohorts
<1>2. PICK r : r = Queued(q, s)
    OBVIOUS
<1>3. r \in Queues /\ Range(r) = Range(q) \cup {s}
    BY <1>2, QueuedInserts
<1>4. CASE Replaces(co, s)
    <2>1. Changed(co, s) = [current |-> s, queue |-> q]
        BY <1>1, <1>4 DEF Changed
    <2> QED
        BY <1>4, <2>1 DEF Cohorts
<1>5. CASE ~Replaces(co, s)
    <2>1. co.queue = q
        BY <1>1
    <2>2. Changed(co, s) = [co EXCEPT !.queue = r]
        BY <1>2, <1>5, <2>1 DEF Changed
    <2>3. Changed(co, s) = [current |-> cur, queue |-> r]
        BY <1>1, <2>2
    <2> QED
        BY <1>1, <1>3, <2>1, <2>3 DEF Cohorts
<1> QED
    BY <1>4, <1>5

(* A client asks for what there is, or makes a clock that there is.        *)
Answered(c) ==
    /\ cohort # Nil
    /\ cohort' = Groomed(cohort)
    /\ SendState(c, cohort')
    /\ UNCHANGED clash

LEMMA AnsweredIs ==
    ASSUME Base, NEW c \in Clients, Answered(c)
    PROVE  /\ cohort' = Groomed(cohort) /\ cohort \in Cohorts /\ cohort' \in Cohorts
           /\ toClient' \in [Clients -> Seq(States)]
           /\ \A d \in Clients : d # c \/ c \notin wireMap => toClient'[d] = toClient[d]
           /\ c \in wireMap => Range(toClient'[c]) = Range(toClient[c]) \cup Chain(cohort')
<1>1. cohort \in Cohorts /\ cohort' = Groomed(cohort)
    BY DEF Answered, Base, TypeInv
<1>2. PICK co : co = Groomed(cohort)
    OBVIOUS
<1>3. co \in Cohorts /\ cohort' = co
    BY <1>1, <1>2, GroomedTyped
<1>4. SendState(c, co)
    <2>1. SendState(c, cohort')
        BY DEF Answered
    <2> QED
        BY <2>1, <1>3 DEF SendState
<1>5. TypeInv
    BY DEF Base
<1>6. /\ toClient' \in [Clients -> Seq(States)]
      /\ \A d \in Clients : d # c \/ c \notin wireMap => toClient'[d] = toClient[d]
      /\ c \in wireMap => Range(toClient'[c]) = Range(toClient[c]) \cup Chain(co)
    BY <1>3, <1>4, <1>5, SendStateTyped
<1> QED
    BY <1>1, <1>3, <1>6

LEMMA AnsweredBase ==
    ASSUME Base, NEW c \in Clients, NEW type, Received(c, type), Answered(c)
    PROVE  Base'
<1>1. cohort' \in Cohorts /\ toClient' \in [Clients -> Seq(States)]
    BY AnsweredIs
<1>2. clash' \in BOOLEAN
    BY DEF Answered, Base, TypeInv
<1> QED
    BY <1>1, <1>2, ServerBase

LEMMA IgnoredBase ==
    ASSUME Base, NEW c \in Clients, NEW type, Received(c, type),
           UNCHANGED <<cohort, toClient, clash>>
    PROVE  Base'
<1>1. (cohort' # Nil => cohort' \in Cohorts) /\ toClient' \in [Clients -> Seq(States)]
      /\ clash' \in BOOLEAN
    BY DEF Base, TypeInv
<1> QED
    BY <1>1, ServerBase

(* The first clock of a cohort is its state.                               *)
Created(s) ==
    /\ cohort = Nil
    /\ cohort' = [current |-> s, queue |-> <<>>]
    /\ SendAll(s)
    /\ UNCHANGED clash

LEMMA OnCreateIs ==
    ASSUME Base, NEW c \in Clients, OnCreate(c)
    PROVE  /\ Received(c, "clockCreate")
           /\ \/ Answered(c)
              \/ \E s \in States : s.beat = 0 /\ Created(s)
<1>1. Received(c, "clockCreate")
    BY DEF OnCreate
<1>2. PICK s : s = Head(toServer[c]).state
    OBVIOUS
<1>3. s \in States /\ s.beat = 0
    BY <1>1, <1>2, ReceivedTyped, MessagesAre
<1>4. CASE cohort = Nil
    BY <1>1, <1>2, <1>3, <1>4 DEF OnCreate, Created
<1>5. CASE cohort # Nil
    BY <1>1, <1>5 DEF OnCreate, Answered
<1> QED
    BY <1>4, <1>5

LEMMA CreatedBase ==
    ASSUME Base, NEW c \in Clients, NEW type, Received(c, type), NEW s \in States, Created(s)
    PROVE  Base'
<1>1. cohort' \in Cohorts
    BY EmptyQueue DEF Created, Cohorts
<1>2. toClient' \in [Clients -> Seq(States)] /\ clash' \in BOOLEAN
    BY SendAllTyped DEF Created, Base, TypeInv
<1> QED
    BY <1>1, <1>2, ServerBase

(* A change reaches the server.                                            *)
TakesChange(s) ==
    /\ cohort # Nil
    /\ SendAll(s)
    /\ cohort' = Groomed(Changed(cohort, s))
    /\ clash' = (clash \/ Clashes(cohort, s))

LEMMA OnChangeIs ==
    ASSUME Base, NEW c \in Clients, OnChange(c)
    PROVE  /\ Received(c, "clockChange")
           /\ \/ cohort = Nil /\ UNCHANGED <<cohort, toClient, clash>>
              \/ \E s \in States : TakesChange(s)
<1>1. Received(c, "clockChange")
    BY DEF OnChange
<1>2. PICK s : s = Head(toServer[c]).state
    OBVIOUS
<1>3. s \in States
    BY <1>1, <1>2, ReceivedTyped, MessagesAre
<1>4. CASE cohort = Nil
    BY <1>1, <1>4 DEF OnChange
<1>5. CASE cohort # Nil
    <2>1. /\ SendAll(s)
          /\ cohort' = Groomed(IF Replaces(cohort, s) THEN [cohort EXCEPT !.current = s]
                               ELSE [cohort EXCEPT !.queue = Queued(@, s)])
          /\ clash' = (clash \/ Clashes(cohort, s))
        BY <1>2, <1>5, Zenon DEF OnChange
    <2>2. TakesChange(s)
        BY <1>5, <2>1, Zenon DEF TakesChange, Changed
    <2> QED
        BY <1>1, <1>3, <2>2
<1> QED
    BY <1>4, <1>5

LEMMA ChangesBase ==
    ASSUME Base, NEW c \in Clients, NEW type, Received(c, type), NEW s \in States, TakesChange(s)
    PROVE  Base'
<1>1. cohort' \in Cohorts
    <2>1. cohort \in Cohorts
        BY DEF TakesChange, Base, TypeInv
    <2> QED
        BY <2>1, ChangedTyped, GroomedTyped DEF TakesChange
<1>2. toClient' \in [Clients -> Seq(States)] /\ clash' \in BOOLEAN
    BY SendAllTyped DEF TakesChange, Base, TypeInv
<1> QED
    BY <1>1, <1>2, ServerBase

LEMMA OnGetAllIs ==
    ASSUME NEW c \in Clients, OnGetAll(c)
    PROVE  /\ Received(c, "clockGetAll")
           /\ \/ Answered(c)
              \/ cohort = Nil /\ UNCHANGED <<cohort, toClient, clash>>
BY DEF OnGetAll, Answered

LEMMA ServerConnectsBase ==
    ASSUME Base, NEW c \in Clients, ServerConnects(c)
    PROVE  Base'
<1>1. /\ wire[c] = "knocking" /\ wire' = [wire EXCEPT ![c] = "accepted"]
      /\ wireMap' = wireMap \cup {c}
      /\ UNCHANGED <<now, cohort, clock, toServer, toClient, events, clash>>
    BY DEF ServerConnects
<1>2. /\ wire \in [Clients -> {"knocking", "accepted", "connected", "failed"}]
      /\ \A d \in Clients : wire[d] \in {"knocking", "accepted"} => toServer[d] = <<>>
      /\ wireMap \subseteq Clients
    BY DEF Base, TypeInv
<1>3. \A d \in Clients : wire'[d] = IF d = c THEN "accepted" ELSE wire[d]
    BY <1>1, <1>2
<1>4. /\ wire' \in [Clients -> {"knocking", "accepted", "connected", "failed"}]
      /\ wireMap' \subseteq Clients
    BY <1>1, <1>2
<1>5. \A d \in Clients : wire'[d] \in {"knocking", "accepted"} => toServer'[d] = <<>>
    BY <1>1, <1>2, <1>3
<1> QED
    BY <1>1, <1>4, <1>5, ClocksStay DEF Base, TypeInv

LEMMA ClientConnectsBase ==
    ASSUME Base, NEW c \in Clients, ClientConnects(c)
    PROVE  Base'
<1>1. /\ wire[c] = "accepted" /\ wire' = [wire EXCEPT ![c] = "connected"]
      /\ toServer' = [toServer EXCEPT ![c] = Append(@, [type |-> "clockGetAll"])]
      /\ UNCHANGED <<now, cohort, clock, wireMap, toClient, events, clash>>
    BY DEF ClientConnects
<1>2. /\ wire \in [Clients -> {"knocking", "accepted", "connected", "failed"}]
      /\ \A d \in Clients : wire[d] \in {"knocking", "accepted"} => toServer[d] = <<>>
      /\ toServer \in [Clients -> Seq(Messages)] /\ toServer[c] \in Seq(Messages)
    BY DEF Base, TypeInv
<1>3. /\ \A d \in Clients : wire'[d] = IF d = c THEN "connected" ELSE wire[d]
      /\ \A d \in Clients : d # c => toServer'[d] = toServer[d]
    BY <1>1, <1>2
<1>4. toServer' \in [Clients -> Seq(Messages)]
    <2>1. [type |-> "clockGetAll"] \in Messages
        BY DEF Messages, Questions
    <2>2. Append(toServer[c], [type |-> "clockGetAll"]) \in Seq(Messages)
        BY <1>2, <2>1
    <2> QED
        BY <1>1, <1>2, <2>2
<1>5. wire' \in [Clients -> {"knocking", "accepted", "connected", "failed"}]
    BY <1>1, <1>2
<1>6. \A d \in Clients : wire'[d] \in {"knocking", "accepted"} => toServer'[d] = <<>>
    BY <1>2, <1>3
<1> QED
    BY <1>1, <1>4, <1>5, <1>6, ClocksStay DEF Base, TypeInv

LEMMA ClientFailsBase ==
    ASSUME Base, NEW c \in Clients, ClientFails(c)
    PROVE  Base'
<1>1. /\ events < MaxEvents /\ events' = events + 1
      /\ wire' = [wire EXCEPT ![c] = "failed"]
      /\ clock' = [clock EXCEPT ![c] = Nil]
      /\ UNCHANGED <<now, cohort, wireMap, toClient, clash>>
    BY DEF ClientFails
<1>2. PICK kept \in Prefixes(toServer[c]) : toServer' = [toServer EXCEPT ![c] = kept]
    BY DEF ClientFails
<1>3. /\ wire \in [Clients -> {"knocking", "accepted", "connected", "failed"}]
      /\ \A d \in Clients : wire[d] \in {"knocking", "accepted"} => toServer[d] = <<>>
      /\ toServer \in [Clients -> Seq(Messages)] /\ toServer[c] \in Seq(Messages)
    BY DEF Base, TypeInv
<1>4. kept \in Seq(Messages)
    BY <1>3, RangePrefix
<1>5. /\ \A d \in Clients : wire'[d] = IF d = c THEN "failed" ELSE wire[d]
      /\ \A d \in Clients : d # c => toServer'[d] = toServer[d]
      /\ toServer' \in [Clients -> Seq(Messages)]
      /\ wire' \in [Clients -> {"knocking", "accepted", "connected", "failed"}]
    BY <1>1, <1>2, <1>3, <1>4
<1>6. \A d \in Clients : wire'[d] \in {"knocking", "accepted"} => toServer'[d] = <<>>
    BY <1>3, <1>5
<1>7. events' \in Nat /\ events' <= MaxEvents
    BY <1>1, BoundsAssumption, SMT DEF Base, TypeInv
<1>8. /\ clock' = [d \in Clients |-> clock'[d]]
      /\ \A d \in Clients : clock'[d] # Nil => clock'[d] \in Clocks
      /\ \A d \in Clients : clock'[d] # Nil => Scheduled(clock'[d], now')
    BY <1>1, ClockChanges
<1> QED
    BY <1>1, <1>5, <1>6, <1>7, <1>8 DEF Base, TypeInv

LEMMA ServerFailsBase ==
    ASSUME Base, NEW c \in Clients, ServerFails(c)
    PROVE  Base'
<1>1. /\ events < MaxEvents /\ events' = events + 1 /\ wireMap' = wireMap \ {c}
      /\ UNCHANGED <<now, cohort, clock, wire, toServer, clash>>
    BY DEF ServerFails
<1>2. PICK kept \in Prefixes(toClient[c]) : toClient' = [toClient EXCEPT ![c] = kept]
    BY DEF ServerFails
<1>3. toClient \in [Clients -> Seq(States)] /\ toClient[c] \in Seq(States)
    BY DEF Base, TypeInv
<1>4. kept \in Seq(States)
    BY <1>3, RangePrefix
<1>5. toClient' \in [Clients -> Seq(States)]
    BY <1>2, <1>3, <1>4
<1>6. events' \in Nat /\ events' <= MaxEvents
    BY <1>1, BoundsAssumption, SMT DEF Base, TypeInv
<1> QED
    BY <1>1, <1>5, <1>6, ClocksStay DEF Base, TypeInv

LEMMA NextBase == Base /\ [Next]_vars => Base'
<1> SUFFICES ASSUME Base, [Next]_vars PROVE Base'
    OBVIOUS
<1>1. CASE UNCHANGED vars
    BY <1>1, ClocksStay DEF Base, TypeInv, vars, wires
<1>2. CASE Tick
    BY <1>2, TickBase
<1>3. ASSUME NEW c \in Clients, NEW ticks \in FirstTicks, New(c, ticks) PROVE Base'
    BY <1>3, NewBase
<1>4. ASSUME NEW c \in Clients, NEW ticks \in BeatTicks, ChangeTempo(c, ticks) PROVE Base'
    BY <1>4, ChangeTempoBase
<1>5. ASSUME NEW c \in Clients, OnUpdate(c) \/ AdvanceState(c) PROVE Base'
    BY <1>5, OnUpdateBase, AdvanceStateBase
<1>6. ASSUME NEW c \in Clients, OnGetAll(c) PROVE Base'
    BY <1>6, OnGetAllIs, AnsweredBase, IgnoredBase
<1>7. ASSUME NEW c \in Clients, OnCreate(c) PROVE Base'
    BY <1>7, OnCreateIs, AnsweredBase, CreatedBase
<1>8. ASSUME NEW c \in Clients, OnChange(c) PROVE Base'
    BY <1>8, OnChangeIs, IgnoredBase, ChangesBase
<1>9. ASSUME NEW c \in Clients, ServerConnects(c) \/ ClientConnects(c) PROVE Base'
    BY <1>9, ServerConnectsBase, ClientConnectsBase
<1>10. ASSUME NEW c \in Clients, ClientFails(c) \/ ServerFails(c) PROVE Base'
    BY <1>10, ClientFailsBase, ServerFailsBase
<1> QED
    BY <1>1, <1>2, <1>3, <1>4, <1>5, <1>6, <1>7, <1>8, <1>9, <1>10 DEF Next

LEMMA BaseHolds == Spec => []Base
<1>1. Init => Base
    BY InitBase
<1>2. Base /\ [Next]_vars => Base'
    BY NextBase
<1> QED
    BY <1>1, <1>2, PTL DEF Spec

(* The state is of its type: what a clock, the cohort and the wires hold   *)
(* are states of a clock (SCLOrkClockState), and only a client that is     *)
(* connected has asked the server for anything.                            *)
THEOREM TypeCorrect == Spec => []TypeOK
<1>1. Base => TypeOK
    <2> SUFFICES ASSUME Base PROVE TypeOK
        OBVIOUS
    <2>1. now \in 0 .. MaxTime /\ events \in 0 .. MaxEvents /\ clash \in BOOLEAN
        BY BoundsAssumption, SMT DEF Base, TypeInv
    <2>2. cohort # Nil => cohort.current \in States /\ Range(cohort.queue) \subseteq States
        BY QueueTyped DEF Base, TypeInv, Cohorts
    <2>3. ASSUME NEW c \in Clients
          PROVE  /\ clock[c] # Nil => clock[c].current \in States
                                      /\ Range(clock[c].queue) \subseteq States
                 /\ Range(toClient[c]) \subseteq States
                 /\ wire[c] \in {"knocking", "accepted"} => toServer[c] = <<>>
        <3>1. clock[c] # Nil => clock[c].current \in States
                                /\ Range(clock[c].queue) \subseteq States
            BY QueueTyped DEF Base, TypeInv, Clocks
        <3>2. toClient[c] \in Seq(States)
            BY DEF Base, TypeInv
        <3>3. Range(toClient[c]) \subseteq States
            BY <3>2, RangeIs
        <3>4. wire[c] \in {"knocking", "accepted"} => toServer[c] = <<>>
            BY DEF Base, TypeInv
        <3> QED
            BY <3>1, <3>3, <3>4
    <2> QED
        BY <2>1, <2>2, <2>3 DEF Base, TypeInv, TypeOK
<1> QED
    BY <1>1, BaseHolds, PTL

(* A change that a clock holds for a later beat is not forgotten: a call of*)
(* prAdvanceState is scheduled by the time its beat will come, whatever    *)
(* replaced the current state meanwhile (prScheduleStateChange).           *)
THEOREM ChangesAreScheduled == Spec => []NoChangeForgotten
<1>1. Base => NoChangeForgotten
    BY DEF Base, NoChangeForgotten, Scheduled
<1> QED
    BY <1>1, BaseHolds, PTL

----------------------------------------------------------------------------
(* That the clocks agree.  What counts is what is public, which the server *)
(* has told or a clock has taken in: of two public states for one beat,    *)
(* there is only one, and all that the server has let go of are earlier    *)
(* than what it holds as current.  So the last state the server holds is   *)
(* the last of all, and a client that has been answered has it, or it is   *)
(* on its way: a client only lets go of a state for a later one.           *)

Waits(k) == IF k = Nil THEN {} ELSE Range(k.queue)
Holds(k) == IF k = Nil THEN {} ELSE Chain(k)
Public(co, cl, tc) == Chain(co) \cup UNION {Waits(cl[c]) \cup Range(tc[c]) : c \in Clients}
IsLast(x, co) == x \in Chain(co) /\ \A y \in Chain(co) : y.beat <= x.beat

NotMade(cl, tc) ==
    \A c \in Clients :
        /\ Range(tc[c]) = {}
        /\ cl[c] # Nil => Range(cl[c].queue) = {} /\ cl[c].current.beat = 0

LetGo(co, P) == \A x \in P : x \in Chain(co) \/ x.beat < co.current.beat
Alone(P) == \A x, y \in P : x.beat = y.beat => x = y
NotAhead(co, cl) ==
    \A c \in Clients : cl[c] # Nil => \E y \in Chain(co) : cl[c].current.beat <= y.beat
Knows(co, cl, tc, c) == \A x : IsLast(x, co) => x \in Holds(cl[c]) \cup Range(tc[c])

Made(co, cl, tc, served) ==
    /\ co.current.beat >= 0 /\ Ordered(co)
    /\ LetGo(co, Public(co, cl, tc))
    /\ Alone(Public(co, cl, tc))
    /\ NotAhead(co, cl)
    /\ \A c \in served : Knows(co, cl, tc, c)

(* Clients whose wire is connected and whose question has been answered.   *)
Asks(msgs) == \E m \in Range(msgs) : m.type = "clockGetAll"
Served == {c \in Online : ~Asks(toServer[c])}

Agreement ==
    /\ \A c \in Clients : clock[c] # Nil => Ordered(clock[c])
    /\ cohort = Nil => NotMade(clock, toClient)
    /\ cohort # Nil => Made(cohort, clock, toClient, Served)

IInv == Base /\ (~clash => Agreement)

(* What clocks and wires hold are states.                                  *)
Held(cl, tc) ==
    \A c \in Clients : (cl[c] # Nil => cl[c] \in Clocks) /\ tc[c] \in Seq(States)

LEMMA ChainTyped ==
    ASSUME NEW k \in Clocks \cup Cohorts
    PROVE  /\ k.current \in Chain(k) /\ k.current \in States /\ k.queue \in Queues
           /\ Range(k.queue) \subseteq Chain(k)
           /\ Chain(k) \subseteq States
           /\ \A x \in Chain(k) : x.beat \in Int
<1>1. k.current \in States /\ k.queue \in Queues
    BY DEF Clocks, Cohorts
<1>2. Range(k.queue) \subseteq States
    BY <1>1, QueueTyped
<1> QED
    BY <1>1, <1>2, BeatsTyped DEF Chain

LEMMA PublicTyped ==
    ASSUME NEW co \in Cohorts, NEW cl, NEW tc, Held(cl, tc)
    PROVE  /\ Public(co, cl, tc) \subseteq States
           /\ \A x \in Public(co, cl, tc) : x.beat \in Int
           /\ Chain(co) \subseteq Public(co, cl, tc)
           /\ \A c \in Clients : Waits(cl[c]) \cup Range(tc[c]) \subseteq Public(co, cl, tc)
<1>1. Chain(co) \subseteq States
    BY ChainTyped
<1>2. ASSUME NEW c \in Clients PROVE Waits(cl[c]) \cup Range(tc[c]) \subseteq States
    <2>1. tc[c] \in Seq(States) /\ (cl[c] # Nil => cl[c] \in Clocks)
        BY DEF Held
    <2>2. Range(tc[c]) \subseteq States
        BY <2>1, RangeIs
    <2>3. Waits(cl[c]) \subseteq States
        BY <2>1, ChainTyped DEF Waits
    <2> QED
        BY <2>2, <2>3
<1> QED
    BY <1>1, <1>2, BeatsTyped DEF Public

(* The server lets states go that are not later than the one it makes      *)
(* current.                                                                *)
LEMMA GroomedMade ==
    ASSUME NEW co \in Cohorts, NEW cl, NEW tc, NEW served \in SUBSET Clients,
           Held(cl, tc), Made(co, cl, tc, served)
    PROVE  Made(Groomed(co), cl, tc, served)
<1>1. PICK g : g = Groomed(co)
    OBVIOUS
<1>2. PICK n \in 0 .. Len(co.queue) : g = Promoted(co, n)
    BY <1>1, GroomedIs
<1>3. Ordered(co) /\ co.current.beat >= 0
    BY DEF Made
<1>4. /\ g \in Cohorts /\ g.current \in Chain(co) /\ Ordered(g)
      /\ Range(g.queue) \subseteq Range(co.queue)
      /\ \A x \in Chain(co) : x \in Chain(g) \/ x.beat <= g.current.beat
    BY <1>2, <1>3, PromotedKeeps
<1>5. Chain(g) \subseteq Chain(co)
    BY <1>4 DEF Chain
<1>6. PICK P : P = Public(co, cl, tc)
    OBVIOUS
<1>7. Chain(co) \subseteq P /\ \A x \in P : x.beat \in Int
    BY <1>6, PublicTyped
<1>8. Public(g, cl, tc) \subseteq P
    BY <1>5, <1>6 DEF Public
<1>9. LetGo(co, P) /\ Alone(P)
    BY <1>6 DEF Made
<1>10. co.current \in Chain(co) /\ g.current \in Chain(g)
    BY <1>4, ChainTyped
<1>11. co.current.beat \in Int /\ g.current.beat \in Int /\ co.current.beat <= g.current.beat
    <2>1. co.current.beat \in Int /\ g.current.beat \in Int
        BY <1>4, <1>7, <1>10
    <2>2. \A x \in Chain(co) : co.current.beat <= x.beat
        <3>1. co.current.beat <= co.current.beat
            BY <2>1, SMT
        <3> QED
            BY <3>1, <1>3 DEF Ordered, Chain
    <2> QED
        BY <2>1, <2>2, <1>4
<1>12. g.current.beat >= 0
    BY <1>3, <1>11, SMT
<1>13. LetGo(g, P)
    <2> SUFFICES ASSUME NEW x \in P, x \notin Chain(g) PROVE x.beat < g.current.beat
        BY DEF LetGo
    <2>1. x.beat \in Int
        BY <1>7
    <2>2. CASE x \notin Chain(co)
        <3>1. x.beat < co.current.beat
            BY <2>2, <1>9 DEF LetGo
        <3> QED
            BY <3>1, <2>1, <1>11, SMT
    <2>3. CASE x \in Chain(co)
        <3>1. x.beat <= g.current.beat
            BY <2>3, <1>4
        <3>2. x # g.current /\ g.current \in P
            BY <1>4, <1>7, <1>10
        <3>3. x.beat # g.current.beat
            BY <3>2, <1>9 DEF Alone
        <3> QED
            BY <3>1, <3>3, <2>1, <1>11, SMT
    <2> QED
        BY <2>2, <2>3
<1>14. NotAhead(g, cl)
    <2> SUFFICES ASSUME NEW c \in Clients, cl[c] # Nil
                 PROVE  \E y \in Chain(g) : cl[c].current.beat <= y.beat
        BY DEF NotAhead
    <2>1. PICK y \in Chain(co) : cl[c].current.beat <= y.beat
        BY DEF Made, NotAhead
    <2>2. CASE y \in Chain(g)
        BY <2>1, <2>2
    <2>3. CASE y.beat <= g.current.beat
        <3>1. cl[c] \in Clocks
            BY DEF Held
        <3>2. cl[c].current.beat \in Int /\ y.beat \in Int
            BY <3>1, <1>7, ChainTyped
        <3>3. cl[c].current.beat <= g.current.beat
            BY <2>1, <2>3, <3>2, <1>11, SMT
        <3> QED
            BY <3>3, <1>10
    <2> QED
        BY <2>2, <2>3, <1>4
<1>15. ASSUME NEW c \in served PROVE Knows(g, cl, tc, c)
    <2> SUFFICES ASSUME NEW x, IsLast(x, g) PROVE x \in Holds(cl[c]) \cup Range(tc[c])
        BY DEF Knows
    <2>1. x \in Chain(co) /\ x \in Chain(g) /\ x.beat \in Int
        BY <1>5, <1>7 DEF IsLast
    <2>2. ASSUME NEW y \in Chain(co) PROVE y.beat <= x.beat
        <3>1. y.beat \in Int
            BY <1>7
        <3>2. g.current.beat <= x.beat
            BY <1>10 DEF IsLast
        <3>3. CASE y \in Chain(g)
            BY <3>3 DEF IsLast
        <3>4. CASE y.beat <= g.current.beat
            BY <3>4, <3>1, <3>2, <2>1, <1>11, SMT
        <3> QED
            BY <3>3, <3>4, <1>4
    <2>3. IsLast(x, co)
        BY <2>1, <2>2 DEF IsLast
    <2> QED
        BY <2>3 DEF Made, Knows
<1>16. LetGo(g, Public(g, cl, tc)) /\ Alone(Public(g, cl, tc))
    BY <1>8, <1>9, <1>13 DEF LetGo, Alone
<1> QED
    BY <1>1, <1>4, <1>12, <1>14, <1>15, <1>16 DEF Made

(* The server sends what it holds.                                         *)
LEMMA SendingMade ==
    ASSUME NEW co \in Cohorts, NEW cl, NEW tc, NEW tc1, NEW served, NEW served1,
           served1 \subseteq Clients, Made(co, cl, tc, served),
           \A d \in Clients : /\ Range(tc[d]) \subseteq Range(tc1[d])
                              /\ Range(tc1[d]) \subseteq Range(tc[d]) \cup Chain(co),
           \A d \in served1 : d \in served \/ Chain(co) \subseteq Range(tc1[d])
    PROVE  Made(co, cl, tc1, served1)
<1>1. Public(co, cl, tc1) \subseteq Public(co, cl, tc)
    BY DEF Public
<1>2. LetGo(co, Public(co, cl, tc1)) /\ Alone(Public(co, cl, tc1))
    BY <1>1 DEF Made, LetGo, Alone
<1>3. ASSUME NEW c \in served1 PROVE Knows(co, cl, tc1, c)
    <2> SUFFICES ASSUME NEW x, IsLast(x, co) PROVE x \in Holds(cl[c]) \cup Range(tc1[c])
        BY DEF Knows
    <2>1. CASE c \in served
        BY <2>1 DEF Made, Knows
    <2>2. CASE Chain(co) \subseteq Range(tc1[c])
        BY <2>2 DEF IsLast
    <2> QED
        BY <2>1, <2>2
<1> QED
    BY <1>2, <1>3 DEF Made

(* The server takes a change for a beat that is still to come and that no  *)
(* other has, and tells the clients.                                       *)
LEMMA ChangedMade ==
    ASSUME NEW co \in Cohorts, NEW cl, NEW tc, NEW tc1, NEW served,
           Held(cl, tc), Made(co, cl, tc, served), NEW s \in States, ~Clashes(co, s),
           \A d \in Clients : /\ Range(tc[d]) \subseteq Range(tc1[d])
                              /\ Range(tc1[d]) \subseteq Range(tc[d]) \cup {s},
           \A d \in served : s \in Range(tc1[d]), served \subseteq Clients
    PROVE  Made(Changed(co, s), cl, tc1, served)
<1>1. PICK c1 : c1 = Changed(co, s)
    OBVIOUS
<1>2. ~Replaces(co, s) /\ \A x \in Range(co.queue) : x.beat # s.beat
    BY DEF Clashes
<1>3. /\ c1 \in Cohorts /\ c1.current = co.current
      /\ Range(c1.queue) = Range(co.queue) \cup {s}
    BY <1>1, <1>2, ChangedTyped
<1>4. Chain(c1) = Chain(co) \cup {s}
    BY <1>3 DEF Chain
<1>5. co.current.beat \in Int /\ s.beat \in Int /\ co.current.beat < s.beat
    <2>1. co.current.beat \in Int /\ s.beat \in Int
        BY ChainTyped, BeatsTyped
    <2> QED
        BY <1>2, <2>1, SMT DEF Replaces
<1>6. PICK P : P = Public(co, cl, tc)
    OBVIOUS
<1>7. /\ Chain(co) \subseteq P /\ \A x \in P : x.beat \in Int
      /\ \A c \in Clients : Waits(cl[c]) \cup Range(tc[c]) \subseteq P
    BY <1>6, PublicTyped
<1>8. Public(c1, cl, tc1) \subseteq P \cup {s}
    BY <1>4, <1>7 DEF Public
<1>9. LetGo(co, P) /\ Alone(P)
    BY <1>6 DEF Made
<1>10. \A x \in P : x.beat # s.beat
    <2> SUFFICES ASSUME NEW x \in P, x.beat = s.beat PROVE FALSE
        OBVIOUS
    <2>1. x.beat \in Int /\ ~ (x.beat < co.current.beat)
        BY <1>5, <1>7, SMT
    <2>2. x \in Chain(co)
        BY <2>1, <1>9 DEF LetGo
    <2>3. x # co.current
        BY <1>5, SMT
    <2> QED
        BY <2>2, <2>3, <1>2 DEF Chain
<1>11. LetGo(c1, Public(c1, cl, tc1))
    BY <1>3, <1>4, <1>8, <1>9 DEF LetGo
<1>12. Alone(Public(c1, cl, tc1))
    BY <1>8, <1>9, <1>10 DEF Alone
<1>13. NotAhead(c1, cl)
    BY <1>4 DEF Made, NotAhead
<1>14. Ordered(c1) /\ c1.current.beat >= 0
    <2>1. co.current.beat <= s.beat
        BY <1>5, SMT
    <2> QED
        BY <2>1, <1>3 DEF Made, Ordered
<1>15. ASSUME NEW c \in served PROVE Knows(c1, cl, tc1, c)
    <2> SUFFICES ASSUME NEW x, IsLast(x, c1) PROVE x \in Holds(cl[c]) \cup Range(tc1[c])
        BY DEF Knows
    <2>1. CASE x = s
        BY <2>1
    <2>2. CASE x # s
        <3>1. IsLast(x, co)
            BY <2>2, <1>4 DEF IsLast
        <3>2. x \in Holds(cl[c]) \cup Range(tc[c])
            BY <3>1 DEF Made, Knows
        <3> QED
            BY <3>2
    <2> QED
        BY <2>1, <2>2
<1> QED
    BY <1>1, <1>11, <1>12, <1>13, <1>14, <1>15 DEF Made

(* The first clock of a cohort.                                            *)
LEMMA CreatedMade ==
    ASSUME NEW cl, NEW tc, NEW tc1, NEW served, NotMade(cl, tc),
           NEW s \in States, s.beat = 0,
           \A d \in Clients : Range(tc1[d]) \subseteq Range(tc[d]) \cup {s},
           \A d \in served : s \in Range(tc1[d]), served \subseteq Clients
    PROVE  Made([current |-> s, queue |-> <<>>], cl, tc1, served)
<1>1. PICK co : co = [current |-> s, queue |-> <<>>]
    OBVIOUS
<1>2. co.current = s /\ Range(co.queue) = {} /\ Chain(co) = {s}
    BY <1>1, EmptyQueue DEF Chain
<1>3. Public(co, cl, tc1) \subseteq {s}
    BY <1>2 DEF Public, NotMade, Waits
<1>4. LetGo(co, Public(co, cl, tc1)) /\ Alone(Public(co, cl, tc1))
    BY <1>2, <1>3 DEF LetGo, Alone
<1>5. NotAhead(co, cl)
    <2>1. 0 <= s.beat
        BY SMT
    <2> QED
        BY <2>1, <1>2 DEF NotAhead, NotMade
<1>6. \A c \in served : Knows(co, cl, tc1, c)
    BY <1>2 DEF Knows, IsLast
<1>7. co.current.beat >= 0 /\ Ordered(co)
    BY <1>2, SMT DEF Ordered
<1> QED
    BY <1>1, <1>4, <1>5, <1>6, <1>7 DEF Made

(* What a client may do with the state x: keep it or let it go, for one    *)
(* that it makes current.                                                  *)
Keeps(x, k, got, k1, got1) ==
    \/ x \in Holds(k1) \cup got1
    \/ k1 # Nil /\ x.beat < k1.current.beat
    \/ k1 # Nil /\ k1.current \in Waits(k) \cup got /\ x.beat <= k1.current.beat

(* A step of a client.                                                     *)
LEMMA ClientMade ==
    ASSUME NEW co \in Cohorts, NEW cl, NEW tc, NEW cl1, NEW tc1, NEW served, NEW served1,
           Held(cl, tc), Held(cl1, tc1), Made(co, cl, tc, served), served1 \subseteq served,
           served \subseteq Clients, NEW c \in Clients,
           \A d \in Clients : d # c => cl1[d] = cl[d] /\ tc1[d] = tc[d],
           Waits(cl1[c]) \subseteq Waits(cl[c]) \cup Range(tc[c]),
           Range(tc1[c]) \subseteq Range(tc[c]),
           cl1[c] # Nil => \/ cl1[c].current \in Holds(cl[c]) \cup Range(tc[c])
                           \/ cl1[c].current.beat = 0,
           c \in served1 => \A x \in Holds(cl[c]) \cup Range(tc[c]) :
                               Keeps(x, cl[c], Range(tc[c]), cl1[c], Range(tc1[c]))
    PROVE  Made(co, cl1, tc1, served1)
<1>1. PICK P : P = Public(co, cl, tc)
    OBVIOUS
<1>2. /\ Chain(co) \subseteq P /\ \A x \in P : x.beat \in Int
      /\ \A d \in Clients : Waits(cl[d]) \cup Range(tc[d]) \subseteq P
    BY <1>1, PublicTyped
<1>3. Public(co, cl1, tc1) \subseteq P
    <2>1. ASSUME NEW d \in Clients PROVE Waits(cl1[d]) \cup Range(tc1[d]) \subseteq P
        <3>1. CASE d = c
            BY <3>1, <1>2
        <3>2. CASE d # c
            BY <3>2, <1>2
        <3> QED
            BY <3>1, <3>2
    <2> QED
        BY <2>1, <1>2 DEF Public
<1>4. LetGo(co, P) /\ Alone(P)
    BY <1>1 DEF Made
<1>5. /\ co.current.beat \in Int /\ co.current \in Chain(co) /\ co.current.beat >= 0
    BY ChainTyped DEF Made
<1>6. ASSUME NEW x \in P PROVE \E y \in Chain(co) : x.beat <= y.beat
    <2>1. x.beat \in Int /\ x.beat <= x.beat
        BY <1>2, SMT
    <2>2. CASE x \in Chain(co)
        BY <2>1, <2>2
    <2>3. CASE x.beat < co.current.beat
        <3>1. x.beat <= co.current.beat
            BY <2>1, <2>3, <1>5, SMT
        <3> QED
            BY <3>1, <1>5
    <2> QED
        BY <2>2, <2>3, <1>4 DEF LetGo
<1>7. NotAhead(co, cl1)
    <2> SUFFICES ASSUME NEW d \in Clients, cl1[d] # Nil
                 PROVE  \E y \in Chain(co) : cl1[d].current.beat <= y.beat
        BY DEF NotAhead
    <2>1. CASE d # c
        BY <2>1 DEF Made, NotAhead
    <2>2. CASE d = c
        <3>1. CASE cl1[c].current.beat = 0
            <4>1. 0 <= co.current.beat
                BY <1>5, SMT
            <4> QED
                BY <4>1, <3>1, <2>2, <1>5
        <3>2. CASE cl1[c].current \in Waits(cl[c]) \cup Range(tc[c])
            <4>1. cl1[c].current \in P
                BY <3>2, <1>2
            <4> QED
                BY <4>1, <2>2, <1>6
        <3>3. CASE cl[c] # Nil /\ cl1[c].current = cl[c].current
            BY <2>2, <3>3 DEF Made, NotAhead
        <3>4. cl1[c].current \in Holds(cl[c]) =>
                 \/ cl1[c].current \in Waits(cl[c])
                 \/ cl[c] # Nil /\ cl1[c].current = cl[c].current
            BY DEF Holds, Waits, Chain
        <3> QED
            BY <2>2, <3>1, <3>2, <3>3, <3>4
    <2> QED
        BY <2>1, <2>2
<1>8. ASSUME NEW d \in served1 PROVE Knows(co, cl1, tc1, d)
    <2> SUFFICES ASSUME NEW x, IsLast(x, co) PROVE x \in Holds(cl1[d]) \cup Range(tc1[d])
        BY DEF Knows
    <2>1. d \in served /\ x \in Holds(cl[d]) \cup Range(tc[d])
        BY DEF Made, Knows
    <2>2. CASE d # c
        <3>1. d \in Clients
            BY <2>1
        <3> QED
            BY <2>1, <2>2, <3>1
    <2>3. CASE d = c
        <3>1. Keeps(x, cl[c], Range(tc[c]), cl1[c], Range(tc1[c]))
            BY <2>1, <2>3
        <3>2. x \in P /\ x \in Chain(co) /\ x.beat \in Int
            BY <1>2 DEF IsLast
        <3>3. ASSUME cl1[c] # Nil
              PROVE  /\ cl1[c].current.beat \in Int /\ cl1[c].current \in Holds(cl1[c])
                     /\ cl1[c].current.beat <= x.beat
            <4>1. cl1[c] \in Clocks
                BY <3>3 DEF Held
            <4>2. cl1[c].current.beat \in Int /\ cl1[c].current \in Holds(cl1[c])
                BY <3>3, <4>1, ChainTyped DEF Holds
            <4>3. PICK y \in Chain(co) : cl1[c].current.beat <= y.beat
                BY <3>3, <1>7 DEF NotAhead
            <4>4. y.beat <= x.beat /\ y.beat \in Int
                BY <1>2 DEF IsLast
            <4> QED
                BY <4>2, <4>3, <4>4, <3>2, SMT
        <3>4. CASE x \in Holds(cl1[c]) \cup Range(tc1[c])
            BY <2>3, <3>4
        <3>5. CASE cl1[c] # Nil /\ x.beat < cl1[c].current.beat
            BY <3>2, <3>3, <3>5, SMT
        <3>6. CASE /\ cl1[c] # Nil /\ cl1[c].current \in Waits(cl[c]) \cup Range(tc[c])
                   /\ x.beat <= cl1[c].current.beat
            <4>1. cl1[c].current \in P
                BY <3>6, <1>2
            <4>2. x.beat = cl1[c].current.beat
                BY <3>2, <3>3, <3>6, SMT
            <4>3. x = cl1[c].current
                BY <4>1, <4>2, <3>2, <1>4 DEF Alone
            <4> QED
                BY <4>3, <3>3, <3>6, <2>3
        <3> QED
            BY <3>1, <3>4, <3>5, <3>6 DEF Keeps
    <2> QED
        BY <2>2, <2>3
<1>9. LetGo(co, Public(co, cl1, tc1)) /\ Alone(Public(co, cl1, tc1))
    BY <1>3, <1>4 DEF LetGo, Alone
<1> QED
    BY <1>7, <1>8, <1>9 DEF Made

LEMMA HeldBase == Base => Held(clock, toClient)
BY DEF Base, TypeInv, Held

LEMMA HeldNext == Base' => Held(clock', toClient')
BY DEF Base, TypeInv, Held

LEMMA ServedClients == Base => Served \subseteq wireMap /\ wireMap \subseteq Clients
BY DEF Base, TypeInv, Served, Online

LEMMA ServedNext == Base' => Served' \subseteq wireMap' /\ wireMap' \subseteq Clients
BY DEF Base, TypeInv, Served, Online

LEMMA RealClock ==
    ASSUME NEW k \in Clocks
    PROVE  k # Nil
BY NilAssumption DEF Clocks, Queues

LEMMA RealCohort ==
    ASSUME NEW co \in Cohorts
    PROVE  co # Nil
BY NilAssumption DEF Cohorts, Queues

LEMMA QuietAgreement ==
    ASSUME Base, Agreement, UNCHANGED <<cohort, clock, toClient>>, Served' \subseteq Served
    PROVE  Agreement'
<1>1. CASE cohort = Nil
    BY <1>1 DEF Agreement
<1>2. CASE cohort # Nil
    <2>1. Made(cohort, clock, toClient, Served)
        BY <1>2 DEF Agreement
    <2>2. PICK served1 : served1 = Served'
        OBVIOUS
    <2>3. served1 \subseteq Served
        BY <2>2
    <2>4. Made(cohort, clock, toClient, served1)
        BY <2>1, <2>3 DEF Made
    <2>5. Made(cohort', clock', toClient', Served')
        BY <2>2, <2>4
    <2> QED
        BY <1>2, <2>5 DEF Agreement
<1> QED
    BY <1>1, <1>2

LEMMA ClientAgreement ==
    ASSUME Base, Base', Agreement, NEW c \in Clients, cohort' = cohort, Served' \subseteq Served,
           NEW k, NEW k1, NEW got, NEW got1, k = clock[c], k1 = clock'[c],
           got = Range(toClient[c]), got1 = Range(toClient'[c]),
           \A d \in Clients : d # c => clock'[d] = clock[d] /\ toClient'[d] = toClient[d],
           Waits(k1) \subseteq Waits(k) \cup got, got1 \subseteq got,
           k1 # Nil => Ordered(k1),
           k1 # Nil => k1.current \in Holds(k) \cup got \/ k1.current.beat = 0,
           c \in Served' => \A x \in Holds(k) \cup got : Keeps(x, k, got, k1, got1)
    PROVE  Agreement'
<1>1. PICK cl, cl1, tc, tc1, served, served1, co :
         /\ cl = clock /\ cl1 = clock' /\ tc = toClient /\ tc1 = toClient'
         /\ served = Served /\ served1 = Served' /\ co = cohort
    OBVIOUS
<1>2. Held(cl, tc) /\ Held(cl1, tc1)
    BY <1>1, HeldBase, HeldNext
<1>3. /\ k = cl[c] /\ k1 = cl1[c] /\ got = Range(tc[c]) /\ got1 = Range(tc1[c])
      /\ \A d \in Clients : d # c => cl1[d] = cl[d] /\ tc1[d] = tc[d]
    BY <1>1
<1>4. \A d \in Clients : cl[d] # Nil => Ordered(cl[d])
    BY <1>1 DEF Agreement
<1>5. \A d \in Clients : cl1[d] # Nil => Ordered(cl1[d])
    <2> SUFFICES ASSUME NEW d \in Clients, cl1[d] # Nil PROVE Ordered(cl1[d])
        OBVIOUS
    <2>1. CASE d = c
        BY <2>1, <1>3
    <2>2. CASE d # c
        BY <2>2, <1>3, <1>4
    <2> QED
        BY <2>1, <2>2
<1>6. ASSUME co = Nil PROVE NotMade(cl1, tc1)
    <2>1. NotMade(cl, tc)
        BY <1>1, <1>6 DEF Agreement
    <2>2. got = {} /\ Waits(k) = {} /\ (k # Nil => k.current.beat = 0)
        BY <2>1, <1>3 DEF NotMade, Waits
    <2>3. got1 = {} /\ Waits(k1) = {}
        BY <2>2
    <2>4. k1 # Nil => k1.current.beat = 0
        BY <2>2 DEF Holds, Chain, Waits
    <2> SUFFICES ASSUME NEW d \in Clients
                 PROVE  /\ Range(tc1[d]) = {}
                        /\ cl1[d] # Nil => Range(cl1[d].queue) = {} /\ cl1[d].current.beat = 0
        BY DEF NotMade
    <2>5. CASE d = c
        BY <2>3, <2>4, <2>5, <1>3 DEF Waits
    <2>6. CASE d # c
        BY <2>1, <2>6, <1>3 DEF NotMade
    <2> QED
        BY <2>5, <2>6
<1>7. ASSUME co # Nil PROVE Made(co, cl1, tc1, served1)
    <2>1. co \in Cohorts /\ Made(co, cl, tc, served)
        BY <1>1, <1>7 DEF Base, TypeInv, Agreement
    <2>2. served1 \subseteq served /\ served \subseteq Clients
        BY <1>1, ServedClients
    <2>3. c \in served1 => \A x \in Holds(cl[c]) \cup Range(tc[c]) :
                               Keeps(x, cl[c], Range(tc[c]), cl1[c], Range(tc1[c]))
        BY <1>1, <1>3
    <2>4. /\ Waits(cl1[c]) \subseteq Waits(cl[c]) \cup Range(tc[c])
          /\ Range(tc1[c]) \subseteq Range(tc[c])
          /\ cl1[c] # Nil => \/ cl1[c].current \in Holds(cl[c]) \cup Range(tc[c])
                             \/ cl1[c].current.beat = 0
        BY <1>3
    <2> QED
        BY <2>1, <2>2, <2>3, <2>4, <1>2, <1>3, ClientMade
<1>8. cohort' = co
    BY <1>1
<1>9. \A d \in Clients : clock'[d] # Nil => Ordered(clock'[d])
    BY <1>1, <1>5
<1>10. cohort' = Nil => NotMade(clock', toClient')
    BY <1>1, <1>6, <1>8
<1>11. cohort' # Nil => Made(cohort', clock', toClient', Served')
    BY <1>1, <1>7, <1>8
<1> QED
    BY <1>9, <1>10, <1>11 DEF Agreement

(* A step of the server leaves the clocks as they are.                     *)
LEMMA ServerAgreement ==
    ASSUME Base, Agreement, clock' = clock, cohort' # Nil,
           Made(cohort', clock', toClient', Served')
    PROVE  Agreement'
BY DEF Agreement

LEMMA TellServed ==
    ASSUME Base, NEW c \in Clients, NEW m \in Messages, Tell(c, m), UNCHANGED <<wire, wireMap>>
    PROVE  Served' \subseteq Served
<1> SUFFICES ASSUME NEW d \in Served' PROVE d \in Served
    OBVIOUS
<1>1. d \in Clients /\ d \in wireMap /\ wire[d] = "connected" /\ ~Asks(toServer'[d])
    BY DEF Served, Online, Base, TypeInv
<1>2. toServer'[d] = toServer[d] \/ (d = c /\ toServer'[d] = Append(toServer[d], m))
    BY <1>1, TellTyped DEF Base
<1>3. CASE toServer'[d] = toServer[d]
    BY <1>1, <1>3 DEF Served, Online
<1>4. CASE toServer'[d] = Append(toServer[d], m)
    <2>1. PICK a : a = toServer[d]
        OBVIOUS
    <2>2. a \in Seq(Messages)
        BY <1>1, <2>1 DEF Base, TypeInv
    <2>3. Range(Append(a, m)) = Range(a) \cup {m}
        BY <2>2, RangeAppend
    <2>4. ~Asks(a)
        BY <1>1, <1>4, <2>1, <2>3 DEF Asks
    <2> QED
        BY <1>1, <2>1, <2>4 DEF Served, Online
<1> QED
    BY <1>2, <1>3, <1>4

LEMMA TickAgreement == Base /\ Agreement /\ Tick => Agreement'
<1> SUFFICES ASSUME Base, Agreement, Tick PROVE Agreement'
    OBVIOUS
<1>1. UNCHANGED <<cohort, clock, wire, wireMap, toServer, toClient>>
    BY DEF Tick, wires
<1>2. Served' \subseteq Served
    BY <1>1 DEF Served, Online
<1> QED
    BY <1>1, <1>2, QuietAgreement

LEMMA NewAgreement ==
    ASSUME Base, Base', Agreement, NEW c \in Clients, NEW ticks \in FirstTicks, New(c, ticks)
    PROVE  Agreement'
<1>1. PICK s : s = State(0, now, ticks)
    OBVIOUS
<1>2. s \in States /\ s.beat = 0
    <2>1. now \in Int /\ 0 \in Int /\ ticks \in BeatTicks
        BY TicksPositive, SMT DEF Base, TypeInv
    <2> QED
        BY <1>1, <2>1, StateTyped
<1>3. /\ clock[c] = Nil /\ clock' = [clock EXCEPT ![c] = NewClock(s)]
      /\ Tell(c, [type |-> "clockCreate", state |-> s])
      /\ UNCHANGED <<cohort, wire, wireMap, toClient>>
    BY <1>1 DEF New
<1>4. [type |-> "clockCreate", state |-> s] \in Messages
    BY <1>2 DEF Messages, Creates
<1>5. Served' \subseteq Served
    BY <1>3, <1>4, TellServed
<1>6. PICK k, k1, got : k = Nil /\ k1 = NewClock(s) /\ got = Range(toClient[c])
    OBVIOUS
<1>7. k = clock[c] /\ k1 = clock'[c] /\ got = Range(toClient'[c])
    <2>1. clock = [d \in Clients |-> clock[d]]
        BY DEF Base, TypeInv
    <2> QED
        BY <2>1, <1>3, <1>6
<1>8. \A d \in Clients : d # c => clock'[d] = clock[d] /\ toClient'[d] = toClient[d]
    <2>1. clock = [d \in Clients |-> clock[d]]
        BY DEF Base, TypeInv
    <2> QED
        BY <2>1, <1>3
<1>9. k1 \in Clocks /\ k1.current = s /\ k1.queue = <<>> /\ Range(k1.queue) = {}
    BY <1>2, <1>6, NewClockTyped, EmptyQueue
<1>10. Waits(k1) \subseteq Waits(k) \cup got /\ Ordered(k1) /\ k1.current.beat = 0
    BY <1>2, <1>9 DEF Waits, Ordered
<1>11. \A x \in Holds(k) \cup got : Keeps(x, k, got, k1, got)
    BY <1>6 DEF Keeps, Holds
<1> QED
    BY <1>3, <1>5, <1>7, <1>8, <1>10, <1>11, ClientAgreement

LEMMA ChangeTempoAgreement ==
    ASSUME Base, Agreement, NEW c \in Clients, NEW ticks \in BeatTicks, ChangeTempo(c, ticks)
    PROVE  Agreement'
<1>1. clock[c] # Nil
    BY DEF ChangeTempo
<1>2. clock[c].current \in States /\ now \in Int
    BY <1>1, SMT DEF Base, TypeInv, Clocks
<1>3. NextBeat(clock[c].current) \in Int
    BY <1>2, NextBeatTyped
<1>4. PICK beat \in Int : setTempoAtBeat(c, ticks, beat)
    BY <1>3 DEF ChangeTempo
<1>5. PICK s : s = TempoAt(clock[c].current, beat, ticks)
    OBVIOUS
<1>6. s \in States
    BY <1>2, <1>5, TimeTyped, StateTyped DEF TempoAt
<1>7. [type |-> "clockChange", state |-> s] \in Messages
    BY <1>6 DEF Messages, Changes
<1>8. /\ Tell(c, [type |-> "clockChange", state |-> s])
      /\ UNCHANGED <<cohort, clock, wire, wireMap, toClient>>
    BY <1>4, <1>5 DEF setTempoAtBeat
<1>9. Served' \subseteq Served
    BY <1>7, <1>8, TellServed
<1> QED
    BY <1>8, <1>9, QuietAgreement

LEMMA OnUpdateAgreement ==
    ASSUME Base, Base', Agreement, ~clash', NEW c \in Clients, OnUpdate(c)
    PROVE  Agreement'
<1>1. PICK s, k, k1, got, got1 :
         /\ s = Head(toClient[c]) /\ k = clock[c] /\ got = Range(toClient[c])
         /\ got1 = Range(toClient'[c])
         /\ k1 = (IF k = Nil THEN NewClock(s)
                  ELSE IF IsBehind(k, s) THEN k ELSE Updated(k, s))
    OBVIOUS
<1>2. /\ toClient[c] # <<>> /\ toClient' = [toClient EXCEPT ![c] = Tail(@)]
      /\ clash' = (clash \/ Overtakes(clock[c], s))
      /\ UNCHANGED <<now, cohort, wire, wireMap, toServer>>
    BY <1>1 DEF OnUpdate
<1>3. clock' = [clock EXCEPT ![c] = k1]
    <2>1. clock' = [clock EXCEPT ![c] =
             IF @ = Nil THEN NewClock(s) ELSE IF IsBehind(@, s) THEN @ ELSE Updated(@, s)]
        BY <1>1 DEF OnUpdate
    <2> QED
        BY <2>1, <1>1, Zenon
<1>4. /\ toClient \in [Clients -> Seq(States)] /\ toClient[c] \in Seq(States)
      /\ clock = [d \in Clients |-> clock[d]]
    BY DEF Base, TypeInv
<1>5. k1 = clock'[c] /\ \A d \in Clients : d # c => clock'[d] = clock[d] /\ toClient'[d] = toClient[d]
    BY <1>2, <1>3, <1>4
<1>6. s \in States /\ got = {s} \cup got1
    <2>1. toClient'[c] = Tail(toClient[c])
        BY <1>2, <1>4
    <2>2. Head(toClient[c]) \in States
          /\ Range(toClient[c]) = {Head(toClient[c])} \cup Range(Tail(toClient[c]))
        BY <1>2, <1>4, RangeTail
    <2> QED
        BY <2>1, <2>2, <1>1
<1>7. now \in Int /\ (k # Nil => k \in Clocks /\ Ordered(k))
    BY <1>1, SMT DEF Base, TypeInv, Agreement
<1>8. ~Overtakes(k, s)
    BY <1>1, <1>2
<1>9. Served' \subseteq Served
    BY <1>2 DEF Served, Online
<1>10. /\ Waits(k1) \subseteq Waits(k) \cup got /\ Ordered(k1)
       /\ k1.current \in Holds(k) \cup got
       /\ \A x \in Holds(k) \cup got : Keeps(x, k, got, k1, got1)
    <2>1. CASE k = Nil
        <3>1. k1 \in Clocks /\ k1 # Nil /\ k1.current = s /\ Range(k1.queue) = {}
            BY <2>1, <1>1, <1>6, NewClockTyped, EmptyQueue, RealClock
        <3>2. s \in Holds(k1)
            BY <3>1 DEF Holds, Chain
        <3> QED
            BY <2>1, <3>1, <3>2, <1>6 DEF Waits, Ordered, Holds, Keeps
    <2>2. CASE k # Nil /\ IsBehind(k, s)
        <3>1. k1 = k /\ k.current \in Holds(k)
            BY <2>2, <1>1 DEF Holds, Chain
        <3>2. s.beat < k.current.beat
            BY <2>2 DEF IsBehind
        <3> QED
            BY <2>2, <3>1, <3>2, <1>6, <1>7 DEF Keeps
    <2>3. CASE k # Nil /\ ~IsBehind(k, s)
        <3>1. k1 = Updated(k, s) /\ k \in Clocks /\ Ordered(k)
            BY <2>3, <1>1, <1>7
        <3>2. /\ k1 \in Clocks
              /\ \/ k1.current = s /\ k1.queue = k.queue
                 \/ k1.current = k.current /\ Range(k1.queue) = Range(k.queue) \cup {s}
            BY <3>1, <1>6, <1>7, UpdatedIs
        <3>3. Ordered(k1)
            BY <3>1, <2>3, <1>6, <1>7, <1>8, UpdatedOrdered
        <3>4. k1 # Nil /\ k1.current \in Holds(k1)
            BY <3>2, RealClock DEF Holds, Chain
        <3>5. Waits(k) = Range(k.queue) /\ Waits(k1) = Range(k1.queue)
              /\ Holds(k) = {k.current} \cup Range(k.queue)
              /\ Holds(k1) = {k1.current} \cup Range(k1.queue)
            BY <2>3, <3>4 DEF Waits, Holds, Chain
        <3>6. k.current.beat <= s.beat
            <4>1. k.current.beat \in Int /\ s.beat \in Int
                BY <3>1, <1>6, ChainTyped, BeatsTyped
            <4> QED
                BY <4>1, <2>3, SMT DEF IsBehind
        <3>7. CASE k1.current = s /\ k1.queue = k.queue
            <4>1. Keeps(k.current, k, got, k1, got1)
                BY <3>4, <3>6, <3>7, <1>6 DEF Keeps
            <4>2. \A x \in Range(k.queue) \cup got : Keeps(x, k, got, k1, got1)
                BY <3>5, <3>7, <1>6 DEF Keeps
            <4> QED
                BY <4>1, <4>2, <3>3, <3>5, <3>7, <1>6
        <3>8. CASE k1.current = k.current /\ Range(k1.queue) = Range(k.queue) \cup {s}
            BY <3>3, <3>5, <3>8, <1>6 DEF Keeps
        <3> QED
            BY <3>2, <3>7, <3>8
    <2> QED
        BY <2>1, <2>2, <2>3
<1>11. k = clock[c] /\ got = Range(toClient[c]) /\ got1 = Range(toClient'[c]) /\ got1 \subseteq got
       /\ cohort' = cohort
    BY <1>1, <1>2, <1>6
<1> QED
    BY <1>5, <1>9, <1>10, <1>11, ClientAgreement

LEMMA AdvanceStateAgreement ==
    ASSUME Base, Base', Agreement, NEW c \in Clients, AdvanceState(c)
    PROVE  Agreement'
<1>1. PICK k, got : k = clock[c] /\ got = Range(toClient[c])
    OBVIOUS
<1>2. PICK n : n = Cardinality({i \in DOMAIN k.queue : HasCome(k.current, k.queue[i].beat)})
    OBVIOUS
<1>3. k \in Clocks /\ now \in Int /\ k # Nil /\ Ordered(k)
    <2>1. k # Nil
        BY <1>1, Zenon DEF AdvanceState
    <2>2. k \in Clocks /\ Ordered(k)
        BY <1>1, <2>1 DEF Base, TypeInv, Agreement
    <2>3. now \in Int
        BY SMT DEF Base, TypeInv
    <2> QED
        BY <2>1, <2>2, <2>3
<1>4. n \in 0 .. Len(k.queue)
    BY <1>2, <1>3, DueInQueue
<1>5. PICK t : clock' = [clock EXCEPT ![c] = Advanced(k, n, t)]
    BY <1>1, <1>2, Zenon DEF AdvanceState, Advanced
<1>6. PICK k1, p : k1 = Advanced(k, n, t) /\ p = Promoted(k, n)
    OBVIOUS
<1>7. k1 \in Clocks /\ k1.current = p.current /\ k1.queue = p.queue
    BY <1>3, <1>4, <1>6, AdvancedIs
<1>8. /\ UNCHANGED <<cohort, wire, wireMap, toServer, toClient>>
      /\ clock = [d \in Clients |-> clock[d]]
    BY DEF AdvanceState, wires, Base, TypeInv
<1>9. k1 = clock'[c] /\ \A d \in Clients : d # c => clock'[d] = clock[d] /\ toClient'[d] = toClient[d]
    BY <1>5, <1>6, <1>8
<1>10. Served' \subseteq Served
    BY <1>8 DEF Served, Online
<1>11. /\ p.current = k.current \/ p.current \in Range(k.queue)
       /\ n = 0 => p.current = k.current /\ Range(p.queue) = Range(k.queue)
       /\ n # 0 => p.current \in Range(k.queue)
       /\ Range(p.queue) \subseteq Range(k.queue)
       /\ Ordered(p) /\ \A x \in Chain(k) : x \in Chain(p) \/ x.beat <= p.current.beat
    BY <1>3, <1>4, <1>6, PromotedKeeps
<1>12. k1 # Nil /\ Ordered(k1) /\ Chain(k1) = Chain(p)
    BY <1>7, <1>11, RealClock DEF Ordered, Chain
<1>13. /\ Waits(k) = Range(k.queue) /\ Waits(k1) = Range(p.queue)
       /\ Holds(k) = Chain(k) /\ Holds(k1) = Chain(p)
    BY <1>3, <1>7, <1>12 DEF Waits, Holds
<1>14. k1.current \in Holds(k) \cup got
    BY <1>7, <1>11, <1>13 DEF Chain
<1>15. ASSUME NEW x \in Holds(k) \cup got PROVE Keeps(x, k, got, k1, got)
    <2>1. CASE x \in got
        BY <2>1 DEF Keeps
    <2>2. CASE x \in Chain(k) /\ n = 0
        <3>1. Chain(p) = Chain(k)
            BY <2>2, <1>11 DEF Chain
        <3> QED
            BY <3>1, <2>2, <1>13 DEF Keeps
    <2>3. CASE x \in Chain(k) /\ n # 0
        BY <2>3, <1>7, <1>11, <1>12, <1>13 DEF Keeps
    <2> QED
        BY <2>1, <2>2, <2>3, <1>13
<1>16. k = clock[c] /\ got = Range(toClient[c]) /\ got = Range(toClient'[c]) /\ cohort' = cohort
       /\ Waits(k1) \subseteq Waits(k) \cup got
    BY <1>1, <1>8, <1>11, <1>13
<1> QED
    BY <1>9, <1>10, <1>12, <1>14, <1>15, <1>16, ClientAgreement

LEMMA ReceivedServed ==
    ASSUME Base, NEW c \in Clients, NEW type, Received(c, type)
    PROVE  /\ clock' = clock /\ wireMap' = wireMap
           /\ Served' \subseteq Served \cup {c}
           /\ type # "clockGetAll" => Served' \subseteq Served
<1>1. UNCHANGED <<clock, wire, wireMap>>
    BY DEF Received
<1>2. \A d \in Clients : toServer'[d] = IF d = c THEN Tail(toServer[c]) ELSE toServer[d]
    BY ReceivedTyped
<1>3. ASSUME NEW d \in Served', d # c PROVE d \in Served
    <2>1. d \in Clients /\ d \in wireMap /\ wire[d] = "connected" /\ ~Asks(toServer'[d])
        BY <1>1 DEF Served, Online, Base, TypeInv
    <2> QED
        BY <1>2, <1>3, <2>1 DEF Served, Online
<1>4. ASSUME c \in Served', type # "clockGetAll" PROVE c \in Served
    <2>1. c \in wireMap /\ wire[c] = "connected" /\ ~Asks(toServer'[c])
        BY <1>1, <1>4 DEF Served, Online
    <2>2. PICK a : a = toServer[c]
        OBVIOUS
    <2>3. a \in Seq(Messages) /\ a # <<>> /\ Head(a).type = type /\ toServer'[c] = Tail(a)
        BY <2>2, <1>2, ReceivedTyped DEF Base, TypeInv
    <2>4. Range(a) = {Head(a)} \cup Range(Tail(a))
        BY <2>3, RangeTail
    <2>5. ~Asks(a)
        BY <1>4, <2>1, <2>3, <2>4 DEF Asks
    <2> QED
        BY <2>1, <2>2, <2>5 DEF Served, Online
<1> QED
    BY <1>1, <1>3, <1>4

LEMMA AnsweredAgreement ==
    ASSUME Base, Base', Agreement, NEW c \in Clients, NEW type, Received(c, type), Answered(c)
    PROVE  Agreement'
<1>1. PICK cl, tc, tc1, served, served1, co, co1 :
         /\ cl = clock /\ tc = toClient /\ tc1 = toClient' /\ served = Served
         /\ served1 = Served' /\ co = cohort /\ co1 = cohort'
    OBVIOUS
<1>2. /\ co1 = Groomed(co) /\ co \in Cohorts /\ co1 \in Cohorts
      /\ \A d \in Clients : d # c \/ c \notin wireMap => tc1[d] = tc[d]
      /\ c \in wireMap => Range(tc1[c]) = Range(tc[c]) \cup Chain(co1)
    BY <1>1, AnsweredIs
<1>3. Held(cl, tc) /\ Made(co, cl, tc, served)
    BY <1>1, <1>2, HeldBase, RealCohort DEF Agreement
<1>4. clock' = cl /\ served \subseteq Clients /\ served1 \subseteq served \cup {c}
      /\ served1 \subseteq Clients
    BY <1>1, ReceivedServed, ServedClients
<1>5. Made(co1, cl, tc, served)
    BY <1>2, <1>3, <1>4, GroomedMade
<1>6. \A d \in Clients : /\ Range(tc[d]) \subseteq Range(tc1[d])
                         /\ Range(tc1[d]) \subseteq Range(tc[d]) \cup Chain(co1)
    <2> SUFFICES ASSUME NEW d \in Clients
                 PROVE  /\ Range(tc[d]) \subseteq Range(tc1[d])
                        /\ Range(tc1[d]) \subseteq Range(tc[d]) \cup Chain(co1)
        OBVIOUS
    <2>1. CASE d = c /\ c \in wireMap
        BY <2>1, <1>2
    <2>2. CASE d # c \/ c \notin wireMap
        BY <2>2, <1>2
    <2> QED
        BY <2>1, <2>2
<1>7. \A d \in served1 : d \in served \/ Chain(co1) \subseteq Range(tc1[d])
    <2>1. c \in served1 => c \in wireMap
        <3>1. Served' \subseteq wireMap'
            BY ServedNext
        <3> QED
            BY <3>1, <1>1, ReceivedServed
    <2> QED
        BY <2>1, <1>2, <1>4
<1>8. Made(co1, cl, tc1, served1)
    BY <1>2, <1>4, <1>5, <1>6, <1>7, SendingMade
<1>9. Made(cohort', clock', toClient', Served') /\ cohort' # Nil /\ clock' = clock
    BY <1>1, <1>2, <1>4, <1>8, RealCohort
<1> QED
    BY <1>9, ServerAgreement

LEMMA IgnoredAgreement ==
    ASSUME Base, Agreement, NEW c \in Clients, NEW type, Received(c, type), cohort = Nil,
           UNCHANGED <<cohort, toClient>>
    PROVE  Agreement'
BY DEF Agreement, Received

LEMMA CreatedAgreement ==
    ASSUME Base, Base', Agreement, NEW c \in Clients, NEW type, Received(c, type),
           NEW s \in States, s.beat = 0, Created(s)
    PROVE  Agreement'
<1>1. PICK cl, tc, tc1, served1, co1 :
         /\ cl = clock /\ tc = toClient /\ tc1 = toClient'
         /\ served1 = Served' /\ co1 = [current |-> s, queue |-> <<>>]
    OBVIOUS
<1>2. cohort = Nil /\ cohort' = co1 /\ SendAll(s)
    BY <1>1 DEF Created
<1>3. clock' = cl /\ served1 \subseteq wireMap /\ wireMap \subseteq Clients
    BY <1>1, ReceivedServed, ServedClients, ServedNext
<1>4. /\ \A d \in Clients : d \notin wireMap => tc1[d] = tc[d]
      /\ \A d \in wireMap : Range(tc1[d]) = Range(tc[d]) \cup {s}
    BY <1>1, <1>2, SendAllTyped DEF Base
<1>5. \A d \in Clients : Range(tc1[d]) \subseteq Range(tc[d]) \cup {s}
    BY <1>4
<1>6. \A d \in served1 : s \in Range(tc1[d])
    BY <1>3, <1>4
<1>7. NotMade(cl, tc)
    BY <1>1, <1>2 DEF Agreement
<1>8. Made(co1, cl, tc1, served1)
    BY <1>1, <1>3, <1>5, <1>6, <1>7, CreatedMade
<1>9. co1 \in Cohorts
    BY <1>1, EmptyQueue DEF Cohorts
<1>10. Made(cohort', clock', toClient', Served') /\ cohort' # Nil /\ clock' = clock
    BY <1>1, <1>2, <1>3, <1>8, <1>9, RealCohort
<1> QED
    BY <1>10, ServerAgreement

LEMMA TakesChangeAgreement ==
    ASSUME Base, Base', Agreement, ~clash', NEW c \in Clients, Received(c, "clockChange"),
           NEW s \in States, TakesChange(s)
    PROVE  Agreement'
<1>1. PICK cl, tc, tc1, served, served1, co, co1 :
         /\ cl = clock /\ tc = toClient /\ tc1 = toClient' /\ served = Served
         /\ served1 = Served' /\ co = cohort /\ co1 = cohort'
    OBVIOUS
<1>2. co # Nil /\ co \in Cohorts /\ co1 = Groomed(Changed(co, s)) /\ SendAll(s) /\ ~Clashes(co, s)
    BY <1>1 DEF TakesChange, Base, TypeInv
<1>3. Held(cl, tc) /\ Held(cl, tc1) /\ Made(co, cl, tc, served)
    <2>1. clock' = clock
        BY ReceivedServed
    <2> QED
        BY <1>1, <1>2, <2>1, HeldBase, HeldNext DEF Agreement
<1>4. clock' = cl /\ served \subseteq wireMap /\ wireMap \subseteq Clients /\ served1 \subseteq served
    BY <1>1, ReceivedServed, ServedClients
<1>5. /\ \A d \in Clients : d \notin wireMap => tc1[d] = tc[d]
      /\ \A d \in wireMap : Range(tc1[d]) = Range(tc[d]) \cup {s}
    BY <1>1, <1>2, SendAllTyped DEF Base
<1>6. \A d \in Clients : /\ Range(tc[d]) \subseteq Range(tc1[d])
                         /\ Range(tc1[d]) \subseteq Range(tc[d]) \cup {s}
    BY <1>5
<1>7. (\A d \in served : s \in Range(tc1[d])) /\ served \subseteq Clients
    BY <1>4, <1>5
<1>8. Made(Changed(co, s), cl, tc1, served)
    BY <1>2, <1>3, <1>6, <1>7, ChangedMade
<1>9. PICK co0 : co0 = Changed(co, s)
    OBVIOUS
<1>10. co0 \in Cohorts /\ Made(co0, cl, tc1, served) /\ co1 = Groomed(co0)
    BY <1>2, <1>8, <1>9, ChangedTyped
<1>11. Made(co1, cl, tc1, served)
    BY <1>3, <1>7, <1>10, GroomedMade
<1>12. Made(co1, cl, tc1, served1)
    BY <1>4, <1>11 DEF Made
<1>13. co1 \in Cohorts
    BY <1>10, GroomedTyped
<1>14. Made(cohort', clock', toClient', Served') /\ cohort' # Nil /\ clock' = clock
    BY <1>1, <1>4, <1>12, <1>13, RealCohort
<1> QED
    BY <1>14, ServerAgreement

LEMMA ServerConnectsAgreement ==
    ASSUME Base, Agreement, NEW c \in Clients, ServerConnects(c)
    PROVE  Agreement'
<1>1. /\ wire[c] = "knocking" /\ wire' = [wire EXCEPT ![c] = "accepted"]
      /\ wireMap' = wireMap \cup {c} /\ UNCHANGED <<cohort, clock, toServer, toClient>>
    BY DEF ServerConnects
<1>2. wire \in [Clients -> {"knocking", "accepted", "connected", "failed"}]
    BY DEF Base, TypeInv
<1>3. Served' \subseteq Served
    BY <1>1, <1>2 DEF Served, Online
<1> QED
    BY <1>1, <1>3, QuietAgreement

LEMMA ClientConnectsAgreement ==
    ASSUME Base, Agreement, NEW c \in Clients, ClientConnects(c)
    PROVE  Agreement'
<1>1. /\ wire' = [wire EXCEPT ![c] = "connected"]
      /\ toServer' = [toServer EXCEPT ![c] = Append(@, [type |-> "clockGetAll"])]
      /\ UNCHANGED <<cohort, clock, wireMap, toClient>>
    BY DEF ClientConnects
<1>2. /\ wire \in [Clients -> {"knocking", "accepted", "connected", "failed"}]
      /\ toServer \in [Clients -> Seq(Messages)] /\ wireMap \subseteq Clients
    BY DEF Base, TypeInv
<1>3. PICK a, m : a = toServer[c] /\ m = [type |-> "clockGetAll"]
    OBVIOUS
<1>4. a \in Seq(Messages) /\ m \in Messages
    BY <1>2, <1>3 DEF Messages, Questions
<1>5. Range(Append(a, m)) = Range(a) \cup {m}
    BY <1>4, RangeAppend
<1>6. Asks(toServer'[c])
    <2>1. toServer'[c] = Append(a, m)
        BY <1>1, <1>2, <1>3
    <2> QED
        BY <2>1, <1>3, <1>5 DEF Asks
<1>7. Served' \subseteq Served
    <2> SUFFICES ASSUME NEW d \in Served' PROVE d \in Served
        OBVIOUS
    <2>1. d \in wireMap /\ wire'[d] = "connected" /\ ~Asks(toServer'[d]) /\ d \in Clients
        BY <1>1, <1>2 DEF Served, Online
    <2>2. d # c
        BY <2>1, <1>6
    <2> QED
        BY <2>1, <2>2, <1>1, <1>2 DEF Served, Online
<1> QED
    BY <1>1, <1>7, QuietAgreement

LEMMA ClientFailsAgreement ==
    ASSUME Base, Base', Agreement, NEW c \in Clients, ClientFails(c)
    PROVE  Agreement'
<1>1. /\ wire' = [wire EXCEPT ![c] = "failed"] /\ clock' = [clock EXCEPT ![c] = Nil]
      /\ UNCHANGED <<cohort, wireMap, toClient>>
    BY DEF ClientFails
<1>2. PICK kept : toServer' = [toServer EXCEPT ![c] = kept]
    BY DEF ClientFails
<1>3. /\ wire \in [Clients -> {"knocking", "accepted", "connected", "failed"}]
      /\ toServer \in [Clients -> Seq(Messages)] /\ wireMap \subseteq Clients
      /\ clock = [d \in Clients |-> clock[d]]
    BY DEF Base, TypeInv
<1>4. Served' \subseteq Served /\ c \notin Served'
    <2>1. wire'[c] = "failed"
        BY <1>1, <1>3
    <2>2. c \notin Served'
        BY <2>1 DEF Served, Online
    <2>3. ASSUME NEW d \in Served' PROVE d \in Served
        <3>1. d # c /\ d \in wireMap /\ wire'[d] = "connected" /\ ~Asks(toServer'[d]) /\ d \in Clients
            BY <2>2, <1>1, <1>3 DEF Served, Online
        <3> QED
            BY <3>1, <1>1, <1>2, <1>3 DEF Served, Online
    <2> QED
        BY <2>2, <2>3
<1>5. PICK k, k1, got : k = clock[c] /\ k1 = Nil /\ got = Range(toClient[c])
    OBVIOUS
<1>6. /\ k1 = clock'[c] /\ got = Range(toClient'[c]) /\ cohort' = cohort
      /\ \A d \in Clients : d # c => clock'[d] = clock[d] /\ toClient'[d] = toClient[d]
    BY <1>1, <1>3, <1>5
<1>7. Waits(k1) \subseteq Waits(k) \cup got /\ k1 = Nil
    BY <1>5 DEF Waits
<1> QED
    BY <1>4, <1>5, <1>6, <1>7, ClientAgreement

LEMMA ServerFailsAgreement ==
    ASSUME Base, Base', Agreement, NEW c \in Clients, ServerFails(c)
    PROVE  Agreement'
<1>1. wireMap' = wireMap \ {c} /\ UNCHANGED <<cohort, clock, wire, toServer>>
    BY DEF ServerFails
<1>2. PICK kept \in Prefixes(toClient[c]) : toClient' = [toClient EXCEPT ![c] = kept]
    BY DEF ServerFails
<1>3. toClient \in [Clients -> Seq(States)] /\ toClient[c] \in Seq(States)
    BY DEF Base, TypeInv
<1>4. Range(kept) \subseteq Range(toClient[c])
    BY <1>3, RangePrefix
<1>5. Served' \subseteq Served /\ c \notin Served'
    BY <1>1 DEF Served, Online
<1>6. PICK k, got, got1 : k = clock[c] /\ got = Range(toClient[c]) /\ got1 = Range(kept)
    OBVIOUS
<1>7. /\ k = clock'[c] /\ got1 = Range(toClient'[c]) /\ cohort' = cohort
      /\ \A d \in Clients : d # c => clock'[d] = clock[d] /\ toClient'[d] = toClient[d]
    BY <1>1, <1>2, <1>3, <1>6
<1>8. /\ got1 \subseteq got /\ Waits(k) \subseteq Waits(k) \cup got
      /\ (k # Nil => Ordered(k)) /\ (k # Nil => k.current \in Holds(k) \cup got)
    BY <1>4, <1>6 DEF Agreement, Holds, Chain
<1> QED
    BY <1>5, <1>6, <1>7, <1>8, ClientAgreement

LEMMA InitIInv == Init => IInv
<1> SUFFICES ASSUME Init PROVE IInv
    OBVIOUS
<1>1. cohort = Nil /\ \A c \in Clients : clock[c] = Nil /\ toClient[c] = <<>>
    BY DEF Init
<1>2. NotMade(clock, toClient)
    BY <1>1, EmptyQueue DEF NotMade
<1> QED
    BY <1>1, <1>2, InitBase DEF IInv, Agreement

(* Changes that have met have met for ever.                                *)
LEMMA NoClashBefore ==
    ASSUME Base, Next, ~clash'
    PROVE  ~clash
<1>1. CASE Tick
    BY <1>1 DEF Tick
<1>2. ASSUME NEW c \in Clients, NEW ticks \in FirstTicks, New(c, ticks) PROVE ~clash
    BY <1>2 DEF New
<1>3. ASSUME NEW c \in Clients, NEW ticks \in BeatTicks, ChangeTempo(c, ticks) PROVE ~clash
    BY <1>3 DEF ChangeTempo, setTempoAtBeat
<1>4. ASSUME NEW c \in Clients, OnUpdate(c) \/ AdvanceState(c) PROVE ~clash
    <2>1. OnUpdate(c) => ~clash
        BY Zenon DEF OnUpdate
    <2>2. AdvanceState(c) => ~clash
        BY Zenon DEF AdvanceState
    <2> QED
        BY <2>1, <2>2, <1>4
<1>5. ASSUME NEW c \in Clients, OnGetAll(c) \/ OnCreate(c) PROVE ~clash
    BY <1>5 DEF OnGetAll, OnCreate
<1>6. ASSUME NEW c \in Clients, OnChange(c) PROVE ~clash
    BY <1>6, OnChangeIs DEF TakesChange
<1>7. ASSUME NEW c \in Clients, ServerConnects(c) \/ ClientConnects(c) \/ ClientFails(c)
                                \/ ServerFails(c)
      PROVE  ~clash
    BY <1>7 DEF ServerConnects, ClientConnects, ClientFails, ServerFails
<1> QED
    BY <1>1, <1>2, <1>3, <1>4, <1>5, <1>6, <1>7 DEF Next

LEMMA NextIInv == IInv /\ [Next]_vars => IInv'
<1> SUFFICES ASSUME IInv, [Next]_vars PROVE IInv'
    OBVIOUS
<1>1. Base /\ Base'
    BY NextBase DEF IInv
<1> SUFFICES ASSUME ~clash' PROVE Agreement'
    BY <1>1 DEF IInv
<1>2. CASE UNCHANGED vars
    <2>1. ~clash /\ UNCHANGED <<cohort, clock, toClient, wire, wireMap, toServer>>
        BY <1>2 DEF vars, wires
    <2>2. Served' \subseteq Served
        BY <2>1 DEF Served, Online
    <2> QED
        BY <1>1, <2>1, <2>2, QuietAgreement DEF IInv
<1>3. Next => ~clash
    BY <1>1, NoClashBefore
<1>4. CASE Next
    <2>1. Agreement
        BY <1>3, <1>4 DEF IInv
    <2>2. CASE Tick
        BY <1>1, <2>1, <2>2, TickAgreement
    <2>3. ASSUME NEW c \in Clients, NEW ticks \in FirstTicks, New(c, ticks) PROVE Agreement'
        BY <1>1, <2>1, <2>3, NewAgreement
    <2>4. ASSUME NEW c \in Clients, NEW ticks \in BeatTicks, ChangeTempo(c, ticks)
          PROVE  Agreement'
        BY <1>1, <2>1, <2>4, ChangeTempoAgreement
    <2>5. ASSUME NEW c \in Clients, OnUpdate(c) \/ AdvanceState(c) PROVE Agreement'
        BY <1>1, <2>1, <2>5, OnUpdateAgreement, AdvanceStateAgreement
    <2>6. ASSUME NEW c \in Clients, OnGetAll(c) PROVE Agreement'
        BY <1>1, <2>1, <2>6, OnGetAllIs, AnsweredAgreement, IgnoredAgreement
    <2>7. ASSUME NEW c \in Clients, OnCreate(c) PROVE Agreement'
        BY <1>1, <2>1, <2>7, OnCreateIs, AnsweredAgreement, CreatedAgreement
    <2>8. ASSUME NEW c \in Clients, OnChange(c) PROVE Agreement'
        BY <1>1, <2>1, <2>8, OnChangeIs, IgnoredAgreement, TakesChangeAgreement
    <2>9. ASSUME NEW c \in Clients, ServerConnects(c) \/ ClientConnects(c) PROVE Agreement'
        BY <1>1, <2>1, <2>9, ServerConnectsAgreement, ClientConnectsAgreement
    <2>10. ASSUME NEW c \in Clients, ClientFails(c) \/ ServerFails(c) PROVE Agreement'
        BY <1>1, <2>1, <2>10, ClientFailsAgreement, ServerFailsAgreement
    <2> QED
        BY <1>4, <2>2, <2>3, <2>4, <2>5, <2>6, <2>7, <2>8, <2>9, <2>10 DEF Next
<1> QED
    BY <1>2, <1>4

LEMMA Invariance == Spec => []IInv
<1>1. Init => IInv
    BY InitIInv
<1>2. IInv /\ [Next]_vars => IInv'
    BY NextIInv
<1> QED
    BY <1>1, <1>2, PTL DEF Spec

(* The clocks of a cohort agree, with each other and with the server, once *)
(* all is read and every change has come, unless changes have met: each    *)
(* client that asked has, at the latest, the last state of all.            *)
THEOREM ClocksAgree == Spec => []AgreeWithoutClash
<1>1. IInv => AgreeWithoutClash
    <2> SUFFICES ASSUME IInv, ~clash, cohort # Nil, Settled, NEW c \in Online
                 PROVE  clock[c] # Nil /\ clock[c].current = Groomed(cohort).current
        BY DEF AgreeWithoutClash, AgreeAtLast
    <2>1. PICK g : g = Groomed(cohort)
        OBVIOUS
    <2>2. /\ cohort \in Cohorts /\ Held(clock, toClient) /\ Served \subseteq Clients
          /\ Made(cohort, clock, toClient, Served)
        BY HeldBase, ServedClients DEF IInv, Base, TypeInv, Agreement
    <2>3. g \in Cohorts /\ Made(g, clock, toClient, Served)
        BY <2>1, <2>2, GroomedTyped, GroomedMade
    <2>4. /\ toServer[c] = <<>> /\ toClient[c] = <<>> /\ g.queue = <<>>
          /\ clock[c] # Nil => clock[c].queue = <<>>
        BY <2>1 DEF Settled
    <2>5. c \in Served
        BY <2>4, EmptyQueue DEF Served, Asks
    <2>6. IsLast(g.current, g)
        <3>1. Chain(g) = {g.current}
            BY <2>4, EmptyQueue DEF Chain
        <3>2. g.current.beat \in Int
            BY <2>3, ChainTyped
        <3>3. g.current.beat <= g.current.beat
            BY <3>2, SMT
        <3> QED
            BY <3>1, <3>3 DEF IsLast
    <2>7. g.current \in Holds(clock[c]) \cup Range(toClient[c])
        BY <2>3, <2>5, <2>6 DEF Made, Knows
    <2>8. g.current \in Holds(clock[c])
        BY <2>4, <2>7, EmptyQueue
    <2> QED
        BY <2>1, <2>4, <2>8, EmptyQueue DEF Holds, Chain
<1> QED
    BY <1>1, Invariance, PTL

----------------------------------------------------------------------------
(* No clock goes back.                                                     *)

(* From one clock to the next, the beat that counts is not an earlier one. *)
Onward(k, k1) == k # Nil /\ k1 # Nil => k1.current.beat >= k.current.beat

LEMMA OnwardTyped ==
    ASSUME Base, NEW c \in Clients
    PROVE  Onward(clock[c], clock[c])
<1>1. PICK k : k = clock[c]
    OBVIOUS
<1>2. k # Nil => k.current.beat \in Int
    BY <1>1, BeatsTyped DEF Base, TypeInv, Clocks
<1>3. k # Nil => k.current.beat >= k.current.beat
    BY <1>2, SMT
<1> QED
    BY <1>1, <1>3 DEF Onward

(* A step of one client's clock.                                           *)
LEMMA OneOnward ==
    ASSUME Base, NEW c \in Clients, NEW k1, clock' = [clock EXCEPT ![c] = k1],
           Onward(clock[c], k1)
    PROVE  \A d \in Clients : Onward(clock[d], clock'[d])
<1> SUFFICES ASSUME NEW d \in Clients PROVE Onward(clock[d], clock'[d])
    OBVIOUS
<1>1. clock = [e \in Clients |-> clock[e]]
    BY DEF Base, TypeInv
<1>2. clock'[d] = IF d = c THEN k1 ELSE clock[d]
    BY <1>1
<1> QED
    BY <1>2, OnwardTyped

(* What is behind is dropped, ...                                          *)
LEMMA OnUpdateOnward ==
    ASSUME Base, NEW c \in Clients, OnUpdate(c)
    PROVE  \A d \in Clients : Onward(clock[d], clock'[d])
<1>1. PICK s, k, k1 : /\ s = Head(toClient[c]) /\ k = clock[c]
                      /\ k1 = (IF k = Nil THEN NewClock(s)
                               ELSE IF IsBehind(k, s) THEN k ELSE Updated(k, s))
    OBVIOUS
<1>2. toClient[c] # <<>> /\ toClient[c] \in Seq(States)
    BY DEF OnUpdate, Base, TypeInv
<1>3. clock' = [clock EXCEPT ![c] = k1]
    <2>1. clock' = [clock EXCEPT ![c] =
             IF @ = Nil THEN NewClock(s) ELSE IF IsBehind(@, s) THEN @ ELSE Updated(@, s)]
        BY <1>1 DEF OnUpdate
    <2> QED
        BY <2>1, <1>1, Zenon
<1>4. s \in States /\ s.beat \in Int
    BY <1>1, <1>2, HeadTailProperties, BeatsTyped
<1>5. now \in Int /\ (k # Nil => k \in Clocks)
    BY <1>1, SMT DEF Base, TypeInv
<1>6. Onward(k, k1)
    <2>1. CASE k = Nil
        BY <2>1 DEF Onward
    <2>2. CASE k # Nil /\ IsBehind(k, s)
        BY <1>1, <2>2, OnwardTyped
    <2>3. CASE k # Nil /\ ~IsBehind(k, s)
        <3>1. k1 = Updated(k, s)
            BY <1>1, <2>3
        <3>2. k1.current = s \/ k1.current = k.current
            BY <1>4, <1>5, <2>3, <3>1, UpdatedIs
        <3>3. k.current.beat \in Int
            BY <1>5, <2>3, BeatsTyped DEF Clocks
        <3>4. s.beat >= k.current.beat /\ k.current.beat >= k.current.beat
            BY <1>4, <2>3, <3>3, SMT DEF IsBehind
        <3> QED
            BY <3>2, <3>4 DEF Onward
    <2> QED
        BY <2>1, <2>2, <2>3
<1> QED
    BY <1>1, <1>3, <1>6, OneOnward

(* ... and what is queued is not behind, unless it was overtaken.          *)
LEMMA AdvanceStateOnward ==
    ASSUME Base, Agreement, NEW c \in Clients, AdvanceState(c)
    PROVE  \A d \in Clients : Onward(clock[d], clock'[d])
<1>1. PICK k : k = clock[c]
    OBVIOUS
<1>2. PICK n : n = Cardinality({i \in DOMAIN k.queue : HasCome(k.current, k.queue[i].beat)})
    OBVIOUS
<1>3. k # Nil /\ k \in Clocks /\ Ordered(k)
    <2>1. k # Nil
        BY <1>1, Zenon DEF AdvanceState
    <2> QED
        BY <1>1, <2>1 DEF Base, TypeInv, Agreement
<1>4. now \in Int /\ n \in 0 .. Len(k.queue)
    <2>1. now \in Int
        BY SMT DEF Base, TypeInv
    <2> QED
        BY <2>1, <1>2, <1>3, DueInQueue
<1>5. PICK t : clock' = [clock EXCEPT ![c] = Advanced(k, n, t)]
    BY <1>1, <1>2, Zenon DEF AdvanceState, Advanced
<1>6. PICK k1 : k1 = Advanced(k, n, t)
    OBVIOUS
<1>7. k1.current = k.current \/ k1.current \in Range(k.queue)
    <2>1. PICK p : p = Promoted(k, n)
        OBVIOUS
    <2>2. k1.current = p.current
        BY <1>3, <1>4, <1>6, <2>1, AdvancedIs
    <2>3. p.current = k.current \/ p.current \in Range(k.queue)
        BY <1>3, <1>4, <2>1, PromotedKeeps
    <2> QED
        BY <2>2, <2>3
<1>8. /\ k.current.beat \in Int
      /\ \A x \in Range(k.queue) : x.beat \in Int /\ k.current.beat <= x.beat
    BY <1>3, QueueTyped, BeatsTyped DEF Clocks, Ordered
<1>9. k1.current.beat >= k.current.beat
    BY <1>7, <1>8, SMT
<1> QED
    BY <1>1, <1>5, <1>6, <1>9, OneOnward DEF Onward

LEMMA StepOnward ==
    ASSUME IInv, [Next]_vars, ~clash'
    PROVE  \A d \in Clients : Onward(clock[d], clock'[d])
<1>1. Base
    BY DEF IInv
<1>2. Next => Agreement
    BY <1>1, NoClashBefore DEF IInv
<1>3. clock' = clock => \A d \in Clients : Onward(clock[d], clock'[d])
    BY <1>1, OnwardTyped
<1>4. CASE UNCHANGED vars
    BY <1>3, <1>4 DEF vars
<1>5. CASE Tick
    BY <1>3, <1>5 DEF Tick
<1>6. ASSUME NEW c \in Clients, NEW ticks \in FirstTicks, New(c, ticks)
      PROVE  \A d \in Clients : Onward(clock[d], clock'[d])
    <2>1. PICK k1 : clock' = [clock EXCEPT ![c] = k1]
        BY <1>6 DEF New
    <2>2. Onward(clock[c], k1)
        BY <1>6 DEF New, Onward
    <2> QED
        BY <1>1, <2>1, <2>2, OneOnward
<1>7. ASSUME NEW c \in Clients, NEW ticks \in BeatTicks, ChangeTempo(c, ticks)
      PROVE  \A d \in Clients : Onward(clock[d], clock'[d])
    BY <1>3, <1>7 DEF ChangeTempo, setTempoAtBeat
<1>8. ASSUME Next, NEW c \in Clients, OnUpdate(c) \/ AdvanceState(c)
      PROVE  \A d \in Clients : Onward(clock[d], clock'[d])
    BY <1>1, <1>2, <1>8, OnUpdateOnward, AdvanceStateOnward
<1>9. ASSUME NEW c \in Clients, OnGetAll(c) \/ OnCreate(c) \/ OnChange(c)
      PROVE  \A d \in Clients : Onward(clock[d], clock'[d])
    BY <1>3, <1>9 DEF OnGetAll, OnCreate, OnChange, Received
<1>10. ASSUME NEW c \in Clients, ServerConnects(c) \/ ClientConnects(c) \/ ServerFails(c)
       PROVE  \A d \in Clients : Onward(clock[d], clock'[d])
    BY <1>3, <1>10 DEF ServerConnects, ClientConnects, ServerFails
<1>11. ASSUME NEW c \in Clients, ClientFails(c)
       PROVE  \A d \in Clients : Onward(clock[d], clock'[d])
    <2>1. clock' = [clock EXCEPT ![c] = Nil] /\ Onward(clock[c], Nil)
        BY <1>11 DEF ClientFails, Onward
    <2> QED
        BY <1>1, <2>1, OneOnward
<1> QED
    BY <1>4, <1>5, <1>6, <1>7, <1>8, <1>9, <1>10, <1>11 DEF Next

(* A clock never goes from its current state to one of an earlier beat,    *)
(* unless changes have met: prUpdate drops what is behind, and whatever    *)
(* prAdvanceState takes from the queue is for the beat of the current      *)
(* state or later (SCLOrkClock.sc:174, 216), for any number of clients,    *)
(* changes and tempos.                                                     *)
THEOREM ClocksGoOn == Spec => NeverBack
<1>1. IInv /\ [Next]_vars =>
         [\A c \in Clients :
             clock[c] # Nil /\ clock'[c] # Nil /\ ~clash' =>
                 clock'[c].current.beat >= clock[c].current.beat]_vars
    BY StepOnward DEF Onward
<1> QED
    BY <1>1, Invariance, PTL DEF Spec, NeverBack
=============================================================================
