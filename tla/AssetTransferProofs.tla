------------------------ MODULE AssetTransferProofs ------------------------
(***************************************************************************)
(* Proofs about module AssetTransfer, for any number of confabs and file   *)
(* assets, any sizes, any cache limit and any number of faults: the        *)
(* invariant IInv, which says that caches hold whole assets and answered   *)
(* uploads are complete, the two action properties about loads that fail,  *)
(* the refinement of the asset library, that the server never reads past   *)
(* its last entry, and that a cache's accounts are right.                  *)
(***************************************************************************)
EXTENDS AssetTransfer, AssetDatabaseProofs, NumberLemmas, TLAPS

----------------------------------------------------------------------------
(***************************************************************************)
(* Numbers                                                                 *)
(***************************************************************************)
(* There is a last write time among the files of a directory.              *)
LEMMA LatestTime ==
    ASSUME NEW time \in [File -> Nat], File # {}
    PROVE  Max({time[g] : g \in File}) \in Nat
<1>1. PICK seq \in Seq(File) : \A g \in File : \E i \in 1 .. Len(seq) : seq[i] = g
    BY FileAssumption DEF IsFiniteSet
<1>0. Len(seq) \in Nat /\ \A i \in 1 .. Len(seq) : seq[i] \in File
    OBVIOUS
<1> DEFINE Bounded(n) == \E b \in Nat : \A i \in 1 .. n : time[seq[i]] <= b
           K == {n \in 0 .. Len(seq) : ~ Bounded(n)}
<1>2. K = {}
    <2> SUFFICES ASSUME K # {} PROVE FALSE
        OBVIOUS
    <2>1. PICK n \in K : \A m \in K : n <= m
        <3>1. K \in SUBSET Nat
            BY <1>0
        <3> HIDE DEF K
        <3> QED
            BY <3>1, LeastNumber
    <2>2. n \in 0 .. Len(seq) /\ ~ Bounded(n)
        BY <2>1
    <2>3. CASE n = 0
        <3>1. \A i \in 1 .. 0 : time[seq[i]] <= 0
            OBVIOUS
        <3> QED
            BY <2>2, <2>3, <3>1
    <2>4. CASE n # 0
        <3>1. n - 1 \in 0 .. Len(seq) /\ ~ (n <= n - 1)
            BY <2>2, <2>4, <1>0
        <3>2. Bounded(n - 1)
            BY <3>1, <2>1
        <3>3. PICK b \in Nat : \A i \in 1 .. n - 1 : time[seq[i]] <= b
            BY <3>2
        <3>4. n \in 1 .. Len(seq) /\ seq[n] \in File /\ time[seq[n]] \in Nat
            <4>1. n \in 1 .. Len(seq)
                BY <2>2, <2>4, <1>0
            <4> QED
                BY <4>1, <1>0
        <3>5. PICK d \in Nat : b <= d /\ time[seq[n]] <= d
            <4>1. ASSUME NEW x \in Nat, NEW y \in Nat
                  PROVE  \E d \in Nat : x <= d /\ y <= d
                <5>1. x + y \in Nat /\ x <= x + y /\ y <= x + y
                    OBVIOUS
                <5> QED
                    BY <5>1
            <4> QED
                BY <4>1, <3>4
        <3> HIDE DEF K
        <3>6. ASSUME NEW i \in 1 .. n PROVE time[seq[i]] <= d
            <4>1. CASE i = n
                BY <4>1, <3>5
            <4>2. CASE i # n
                <5> n \in Nat /\ Len(seq) \in Nat
                    BY <3>4, <1>0
                <5>1. i \in 1 .. n - 1 /\ i \in 1 .. Len(seq)
                    BY <4>2, <3>4, <1>0
                <5>2. time[seq[i]] \in Nat /\ time[seq[i]] <= b
                    BY <5>1, <1>0, <3>3
                <5> QED
                    BY <5>2, <3>5
            <4> QED
                BY <4>1, <4>2
        <3> QED
            BY <3>6, <2>2
    <2> QED
        BY <2>3, <2>4
<1>3. PICK b \in Nat : \A i \in 1 .. Len(seq) : time[seq[i]] <= b
    <2>1. Len(seq) \in 0 .. Len(seq)
        BY <1>0
    <2>2. Bounded(Len(seq))
        BY <1>2, <2>1
    <2> QED
        BY <2>2
<1> DEFINE U == {u \in Nat : \A g \in File : time[g] <= u}
<1>4. b \in U
    BY <1>1, <1>3
<1>5. PICK u \in U : \A v \in U : u <= v
    BY <1>4, LeastNumber
<1>6. \E g \in File : time[g] = u
    <2> SUFFICES ASSUME \A g \in File : time[g] # u PROVE FALSE
        OBVIOUS
    <2>1. \A g \in File : time[g] \in Nat /\ time[g] < u
        BY <1>5
    <2>2. u - 1 \in U
        BY <2>1
    <2> QED
        BY <2>2, <1>5
<1> DEFINE S == {time[g] : g \in File}
<1>7. u \in S /\ \A y \in S : u >= y
    BY <1>5, <1>6
<1>8. Max(S) \in S
    BY <1>7 DEF Max
<1> QED
    BY <1>8

(* An upload cuts a file into at least one piece.                          *)
LEMMA ChunksType ==
    ASSUME NEW f \in File
    PROVE  Chunks(f) \in Nat \ {0}
<1> DEFINE a == Size[f] + ChunkSize - 1
           q == a \div ChunkSize
<1>1. Size[f] \in Nat \ {0} /\ ChunkSize \in Nat \ {0}
    BY SizeAssumption
<1>2. a \in Nat /\ a >= ChunkSize
    BY <1>1
<1>3. /\ q \in Nat
      /\ a % ChunkSize \in 0 .. ChunkSize - 1
      /\ a = ChunkSize * q + (a % ChunkSize)
    BY <1>1, <1>2, DivMod
<1> HIDE DEF a, q
<1>4. q # 0
    <2> SUFFICES ASSUME q = 0 PROVE FALSE
        OBVIOUS
    <2>1. ChunkSize * q = 0
        BY <1>1
    <2> QED
        BY <1>1, <1>2, <1>3, <2>1
<1> QED
    BY <1>3, <1>4 DEF Chunks, a, q

(* The pieces of a file whose size is not a multiple of the chunk size are *)
(* as many as its record announces, those of one whose size is a multiple  *)
(* are one fewer (HttpClient.cpp:295, 341).                                *)
LEMMA ChunksAnnounced ==
    ASSUME NEW f \in File
    PROVE  Chunks(f) = IF Size[f] % ChunkSize = 0
                       THEN Size[f] \div ChunkSize
                       ELSE Size[f] \div ChunkSize + 1
<1> DEFINE n == ChunkSize
           a == Size[f]
           p == a \div n
           r == a % n
           q == (a + n - 1) \div n
           e == (a + n - 1) % n
<1>1. a \in Nat /\ n \in Nat \ {0} /\ a + n - 1 \in Nat
    BY SizeAssumption
<1>2. /\ p \in Nat /\ r \in 0 .. n - 1 /\ a = n * p + r
      /\ q \in Nat /\ e \in 0 .. n - 1 /\ a + n - 1 = n * q + e
    BY <1>1, DivMod
<1>3. Chunks(f) = q
    BY DEF Chunks
<1> HIDE DEF n, a, p, r, q, e
<1>4. ASSUME NEW x \in Nat, NEW y \in Nat, x < y
      PROVE  n * x + n <= n * y /\ n * x \in Nat /\ n * y \in Nat
    <2>1. PICK d \in Nat : y = x + 1 + d
        <3>1. y - x - 1 \in Nat
            BY <1>4
        <3> QED
            BY <3>1
    <2>2. n * y = n * x + n + n * d /\ n * d \in Nat /\ n * x \in Nat
        BY <2>1, <1>1, SMT
    <2> QED
        BY <2>2, <1>1
<1>5. n * p \in Nat /\ n * q \in Nat /\ n * (p + 1) = n * p + n
    BY <1>1, <1>2, SMT
<1>6. CASE r = 0
    <2>1. ~ (q < p)
        BY <1>1, <1>2, <1>4, <1>5, <1>6
    <2>2. ~ (p < q)
        BY <1>1, <1>2, <1>4, <1>5, <1>6
    <2>3. q = p
        BY <2>1, <2>2, <1>2
    <2> QED
        BY <2>3, <1>3, <1>6 DEF n, a, p, r
<1>7. CASE r # 0
    <2>1. ~ (q < p + 1)
        BY <1>1, <1>2, <1>4, <1>5, <1>7
    <2>2. ~ (p + 1 < q)
        BY <1>1, <1>2, <1>4, <1>5, <1>7
    <2>3. q = p + 1
        BY <2>1, <2>2, <1>2
    <2> QED
        BY <2>3, <1>3, <1>7 DEF n, a, p, r
<1> QED
    BY <1>6, <1>7

----------------------------------------------------------------------------
(***************************************************************************)
(* The database and the cache, one fact for each operator                  *)
(***************************************************************************)
LEMMA ContentType ==
    ASSUME NEW f \in File
    PROVE  /\ Content(f) \in Seq(ChunkIds)
           /\ Len(Content(f)) = Chunks(f)
           /\ \A i \in 1 .. Chunks(f) : Content(f)[i] = <<f, i - 1>>
BY ChunksType DEF Content, ChunkIds

LEMMA KeysDiffer ==
    ASSUME NEW f, NEW g, NEW i, NEW j, NEW l, NEW t
    PROVE  /\ AssetKey(f) = AssetKey(g) => f = g
           /\ AssetDataKey(f, i) = AssetDataKey(g, j) => f = g /\ i = j
           /\ AssetKey(f)[1] = kAsset
           /\ AssetDataKey(f, i)[1] = kAssetData
           /\ ListEntryKey(l, t, f)[1] = kListEntry
           /\ AssetKey(f) # EmptyRecord
BY DEF AssetKey, AssetDataKey, ListEntryKey, kAsset, kAssetData, kListEntry, EmptyRecord

(* Storing the record of a file: the record and a list entry.              *)
LEMMA RecordStored ==
    ASSUME NEW d, NEW f \in File
    PROVE  LET s == storeAsset(d, f, RecordOf(f), Now)
               entry == ListEntryKey(List, Now, f)
           IN  /\ DOMAIN s = DOMAIN d \cup {AssetKey(f), entry}
               /\ s[AssetKey(f)] = RecordOf(f)
               /\ \A k \in DOMAIN d \ {AssetKey(f), entry} : s[k] = d[k]
<1> DEFINE entry == ListEntryKey(List, Now, f)
           entries == {ListEntryKey(l, Now, f) : l \in RecordOf(f).lists}
           batch == [k \in {AssetKey(f), entry} |->
                        IF k = AssetKey(f) THEN RecordOf(f) ELSE NoValue]
<1>1. entries = {entry} /\ RecordOf(f).name = NoName
    BY DEF RecordOf
<1> DEFINE names == IF RecordOf(f).name = NoName THEN {} ELSE {AssetNameKey(RecordOf(f).name)}
           stored == [k \in {AssetKey(f)} \cup entries \cup names |->
                         CASE k = AssetKey(f) -> RecordOf(f)
                           [] k \in entries   -> NoValue
                           [] k \in names     -> f]
<1>2. storeAsset(d, f, RecordOf(f), Now) = Write(d, stored)
    BY DEF storeAsset
<1>3. names = {} /\ {AssetKey(f)} \cup entries \cup names = {AssetKey(f), entry}
    BY <1>1
<1>4. stored = batch
    <2> HIDE DEF entries, names, entry
    <2>1. ASSUME NEW k \in {AssetKey(f), entry}
          PROVE  (CASE k = AssetKey(f) -> RecordOf(f)
                    [] k \in entries   -> NoValue
                    [] k \in names     -> f) =
                 IF k = AssetKey(f) THEN RecordOf(f) ELSE NoValue
        <3>1. AssetKey(f) # entry
            BY KeysDiffer DEF entry, kAsset, kListEntry
        <3> QED
            BY <3>1, <1>1, <1>3
    <2> QED
        BY <2>1, <1>3
<1> HIDE DEF entry, stored
<1> QED
    BY <1>2, <1>4 DEF Write, entry

LEMMA RecordFound ==
    ASSUME NEW d, NEW f
    PROVE  /\ AssetKey(f) \in DOMAIN d => findAsset(d, f) = AssetKey(f)
           /\ findAsset(d, f) = EmptyRecord <=> AssetKey(f) \notin DOMAIN d
BY KeysDiffer DEF findAsset

(* What the check at start keeps are files that hold their whole content.  *)
LEMMA Checked ==
    ASSUME NEW k
    PROVE  LET checked == checkExistingEntries(k)
           IN  /\ checked.map \subseteq File
               /\ \A f \in checked.map :
                      /\ k.files[f] # NoFile
                      /\ k.files[f].data = Content(f)
               /\ checked.files =
                      [f \in File |-> IF f \in checked.map THEN k.files[f] ELSE NoFile]
<1> DEFINE valid == {f \in Present(k.files) : k.files[f].data = Content(f)}
           kept == makeRoomFor(k.files, valid, 0)
<1>1. kept \subseteq valid
    BY DEF makeRoomFor
<1>2. /\ checkExistingEntries(k).map = kept
      /\ checkExistingEntries(k).files =
            [f \in File |-> IF f \in kept THEN k.files[f] ELSE NoFile]
    BY DEF checkExistingEntries
<1> HIDE DEF kept
<1> QED
    BY <1>1, <1>2 DEF Present
----------------------------------------------------------------------------
(***************************************************************************)
(* The inductive invariant, one lemma for each action                      *)
(***************************************************************************)
LEMMA InitIInv == Init => IInv
<1> SUFFICES ASSUME Init PROVE IInv
    OBVIOUS
<1> USE DEF Init
<1>1. DOMAIN db = {} /\ \A c \in Confab : DOMAIN local[c] = {}
    OBVIOUS
<1>2. \A c \in Confab : /\ cache[c].files = [f \in File |-> NoFile]
                        /\ cache[c].map = {}
                        /\ Present(cache[c].files) = {}
    BY DEF NewCache, Present
<1>3. NoFile \in FileState
    BY DEF NoFile, FileState
<1>4. TypeOK
    BY <1>2, <1>3, FaultsAssumption DEF TypeOK, Idle
<1>5. DbOK /\ LocalOK /\ FilesOK
    BY <1>1, <1>2 DEF DbOK, LocalOK, FilesOK
<1>6. TaskOK
    BY DEF TaskOK, Idle
<1>7. CacheIsWhole /\ AddedIsComplete /\ OnlyHitsUnanswered
    BY <1>2 DEF CacheIsWhole, AddedIsComplete, OnlyHitsUnanswered
<1> QED
    BY <1>4, <1>5, <1>6, <1>7 DEF IInv

(* What the files of a cache hold when one is opened, written, removed or  *)
(* cut off.                                                                *)
LEMMA FileOpened ==
    ASSUME NEW k, k.files \in [File -> FileState], NEW f \in File
    PROVE  LET opened == Opened(k, f)
           IN  /\ opened.map = k.map
               /\ opened.files \in [File -> FileState]
               /\ opened.files[f].data = <<>>
               /\ Present(opened.files) = Present(k.files) \cup {f}
               /\ \A g \in File \ {f} : opened.files[g] = k.files[g]
<1> DEFINE time == [g \in File |-> k.files[g].time]
           now == 1 + Max({k.files[g].time : g \in File})
<1>1. time \in [File -> Nat] /\ File # {}
    BY DEF FileState
<1>2. {k.files[g].time : g \in File} = {time[g] : g \in File}
    OBVIOUS
<1>3. now \in Nat \ {0}
    <2> HIDE DEF time
    <2>1. Max({time[g] : g \in File}) \in Nat
        BY <1>1, LatestTime
    <2>2. now = 1 + Max({time[g] : g \in File})
        BY <1>2
    <2> HIDE DEF now
    <2> QED
        BY <2>1, <2>2
<1>4. /\ Opened(k, f).files = [k.files EXCEPT ![f] = [data |-> <<>>, time |-> now]]
      /\ Opened(k, f).map = k.map
    BY DEF Opened
<1> HIDE DEF now
<1>5. [data |-> <<>>, time |-> now] \in FileState
    BY <1>3 DEF FileState
<1>6. [data |-> <<>>, time |-> now] # NoFile
    BY <1>3 DEF NoFile
<1> QED
    BY <1>4, <1>5, <1>6 DEF Present

LEMMA FileWritten ==
    ASSUME NEW k, k.files \in [File -> FileState], NEW f \in File,
           NEW chunk, chunk.data \in ChunkIds
    PROVE  LET written == Written(k, f, chunk)
           IN  /\ written.map = k.map
               /\ written.files \in [File -> FileState]
               /\ Len(written.files[f].data) = Len(k.files[f].data) + 1
               /\ written.files[f].data[Len(k.files[f].data) + 1] = chunk.data
               /\ \A j \in 1 .. Len(k.files[f].data) :
                      written.files[f].data[j] = k.files[f].data[j]
               /\ Present(written.files) = Present(k.files) \cup {f}
               /\ \A g \in File \ {f} : written.files[g] = k.files[g]
<1>1. /\ Written(k, f, chunk).files =
            [k.files EXCEPT ![f].data = Append(@, chunk.data)]
      /\ Written(k, f, chunk).map = k.map
    BY DEF Written
<1>2. k.files[f] \in FileState
    OBVIOUS
<1> DEFINE s == k.files[f].data
           w == Append(s, chunk.data)
<1>3. /\ w \in Seq(ChunkIds) /\ w # <<>>
      /\ Len(w) = Len(s) + 1
      /\ w[Len(s) + 1] = chunk.data
      /\ \A j \in 1 .. Len(s) : w[j] = s[j]
    <2>1. s \in Seq(ChunkIds)
        BY <1>2 DEF FileState
    <2>2. ASSUME NEW q \in Seq(ChunkIds), NEW x \in ChunkIds
          PROVE  /\ Append(q, x) \in Seq(ChunkIds)
                 /\ Len(Append(q, x)) = Len(q) + 1
                 /\ Len(q) \in Nat /\ Len(<<>>) = 0
                 /\ Append(q, x)[Len(q) + 1] = x
                 /\ \A j \in 1 .. Len(q) : Append(q, x)[j] = q[j]
        OBVIOUS
    <2>3. /\ Append(s, chunk.data) \in Seq(ChunkIds)
          /\ Len(Append(s, chunk.data)) = Len(s) + 1
          /\ Len(s) \in Nat /\ Len(<<>>) = 0
          /\ Append(s, chunk.data)[Len(s) + 1] = chunk.data
          /\ \A j \in 1 .. Len(s) : Append(s, chunk.data)[j] = s[j]
        <3> HIDE DEF s
        <3> QED
            BY <2>1, <2>2
    <2> HIDE DEF s, w
    <2> QED
        BY <2>3 DEF w
<1> DEFINE state == [k.files[f] EXCEPT !.data = Append(@, chunk.data)]
<1>4. state \in FileState /\ state.data = w
    BY <1>2, <1>3 DEF FileState
<1>5. state # NoFile
    BY <1>3, <1>4 DEF NoFile
<1>6. Written(k, f, chunk).files = [k.files EXCEPT ![f] = state]
    BY <1>1
<1> HIDE DEF state, w
<1> QED
    BY <1>1, <1>3, <1>4, <1>5, <1>6 DEF Present

LEMMA FileRemoved ==
    ASSUME NEW k, k.files \in [File -> FileState], NEW f \in File
    PROVE  LET removed == Removed(k, f)
           IN  /\ removed.map = k.map
               /\ removed.files \in [File -> FileState]
               /\ Present(removed.files) = Present(k.files) \ {f}
               /\ \A g \in File \ {f} : removed.files[g] = k.files[g]
BY DEF Removed, Present, NoFile, FileState

LEMMA FileFlushed ==
    ASSUME NEW k, k.files \in [File -> FileState], NEW f \in File,
           NEW n \in 0 .. Len(k.files[f].data), f \in Present(k.files)
    PROVE  LET flushed == Flushed(k, f, n)
           IN  /\ flushed.map = {}
               /\ flushed.files \in [File -> FileState]
               /\ Len(flushed.files[f].data) = n
               /\ \A j \in 1 .. n : flushed.files[f].data[j] = k.files[f].data[j]
               /\ Present(flushed.files) \subseteq Present(k.files)
               /\ \A g \in File \ {f} : flushed.files[g] = k.files[g]
<1> DEFINE state == [k.files[f] EXCEPT !.data = SubSeq(@, 1, n)]
<1>1. k.files[f] \in FileState
    OBVIOUS
<1>2. /\ SubSeq(k.files[f].data, 1, n) \in Seq(ChunkIds)
      /\ Len(SubSeq(k.files[f].data, 1, n)) = n
      /\ \A j \in 1 .. n : SubSeq(k.files[f].data, 1, n)[j] = k.files[f].data[j]
    BY <1>1 DEF FileState
<1>3. state \in FileState /\ state.data = SubSeq(k.files[f].data, 1, n)
    BY <1>1, <1>2 DEF FileState
<1>4. /\ Flushed(k, f, n).files = [k.files EXCEPT ![f] = state]
      /\ Flushed(k, f, n).map = {}
    BY DEF Flushed
<1> HIDE DEF state
<1> QED
    BY <1>2, <1>3, <1>4 DEF Present

LEMMA FaultCounts ==
    ASSUME TypeOK, Fault \/ UNCHANGED faults
    PROVE  faults' \in 0 .. MaxFaults
<1>1. faults \in 0 .. MaxFaults
    BY DEF TypeOK
<1> QED
    BY <1>1, FaultsAssumption DEF Fault

(* When one cache changes and the databases do not.                        *)
LEMMA CacheChanges ==
    ASSUME IInv, NEW c \in Confab, NEW k, cache' = [cache EXCEPT ![c] = k],
           UNCHANGED db,
           k.files \in [File -> FileState],
           k.map \subseteq File,
           \A f \in Present(k.files) :
               /\ AssetKey(f) \in DOMAIN db
               /\ \A j \in 1 .. Len(k.files[f].data) :
                     LET id == k.files[f].data[j] IN Stored(id[1], id[2]),
           \A f \in k.map : k.files[f].data = Content(f)
    PROVE  /\ DOMAIN cache' = Confab
           /\ \A d \in Confab : /\ cache'[d].files \in [File -> FileState]
                                /\ cache'[d].map \subseteq File
           /\ cache'[c] = k
           /\ \A d \in Confab \ {c} : cache'[d] = cache[d]
           /\ FilesOK' /\ CacheIsWhole'
<1>1. DOMAIN cache = Confab
    BY DEF IInv, TypeOK
<1>2. /\ DOMAIN cache' = Confab
      /\ cache'[c] = k
      /\ \A d \in Confab \ {c} : cache'[d] = cache[d]
    BY <1>1
<1>3. \A d \in Confab : /\ cache'[d].files \in [File -> FileState]
                        /\ cache'[d].map \subseteq File
    BY <1>2 DEF IInv, TypeOK
<1>4. FilesOK'
    <2> SUFFICES ASSUME NEW d \in Confab, NEW f \in Present(cache'[d].files)
                 PROVE  /\ AssetKey(f) \in DOMAIN db
                        /\ \A j \in 1 .. Len(cache'[d].files[f].data) :
                              LET id == cache'[d].files[f].data[j]
                              IN  Stored(id[1], id[2])
        BY DEF FilesOK, Stored
    <2>1. CASE d = c
        BY <2>1, <1>2
    <2>2. CASE d # c
        <3>1. cache'[d] = cache[d]
            BY <2>2, <1>2
        <3> QED
            BY <3>1 DEF IInv, FilesOK
    <2> QED
        BY <2>1, <2>2
<1>5. CacheIsWhole'
    BY <1>2 DEF IInv, CacheIsWhole
<1> QED
    BY <1>2, <1>3, <1>4, <1>5

(* When one confab goes on to another command, or to the next request.     *)
LEMMA TaskChanges ==
    ASSUME TypeOK, NEW c \in Confab,
           NEW op \in {"idle", "post", "get", "download"},
           NEW f \in File \cup {0}, NEW n \in Nat,
           task' = [task EXCEPT ![c] = Task(op, f, n)]
    PROVE  /\ task' \in [Confab -> [op : {"idle", "post", "get", "download"},
                                   file : File \cup {0}, n : Nat]]
           /\ task'[c] = Task(op, f, n)
           /\ \A d \in Confab \ {c} : task'[d] = task[d]
<1>1. Task(op, f, n) \in [op : {"idle", "post", "get", "download"},
                          file : File \cup {0}, n : Nat]
    BY DEF Task
<1> QED
    BY <1>1 DEF TypeOK

LEMMA TaskAdvances ==
    ASSUME NEW c, NEW op, NEW f, NEW n \in Nat, task[c] = Task(op, f, n),
           task' = [task EXCEPT ![c].n = @ + 1]
    PROVE  task' = [task EXCEPT ![c] = Task(op, f, n + 1)]
<1>1. [task[c] EXCEPT !.n = @ + 1] = Task(op, f, n + 1)
    BY DEF Task
<1>2. task' = [task EXCEPT ![c] = [task[c] EXCEPT !.n = @ + 1]]
    OBVIOUS
<1> QED
    BY <1>1, <1>2

(* The cache of a process that died keeps its files, no entry.             *)
LEMMA DeadHoldsNothing ==
    ASSUME NEW c, Dies(c)
    PROVE  \E k : cache' = [cache EXCEPT ![c] = k] /\ k.map = {}
<1>1. PICK k : /\ cache' = [cache EXCEPT ![c] = k]
               /\ \/ \E n : k = Flushed(cache[c], task[c].file, n)
                  \/ k = Forgotten(cache[c])
    BY DEF Dies
<1>2. ASSUME NEW n PROVE Flushed(cache[c], task[c].file, n).map = {}
    <2> DEFINE files == [cache[c].files EXCEPT ![task[c].file].data = SubSeq(@, 1, n)]
    <2>1. Flushed(cache[c], task[c].file, n) = [files |-> files, map |-> {}, size |-> 0]
        BY DEF Flushed
    <2> HIDE DEF files
    <2> QED
        BY <2>1
<1>3. Forgotten(cache[c]).map = {}
    BY DEF Forgotten
<1> QED
    BY <1>1, <1>2, <1>3

LEMMA DiesIInv ==
    ASSUME IInv, NEW c \in Confab, up[c], Dies(c),
           UNCHANGED <<db, serverUp>>, faults' \in 0 .. MaxFaults
    PROVE  IInv'
<1>1. PICK k : /\ cache' = [cache EXCEPT ![c] = k]
               /\ IF task[c].op = "download"
                  THEN \E n \in 0 .. task[c].n : k = Flushed(cache[c], task[c].file, n)
                  ELSE k = Forgotten(cache[c])
    BY DEF Dies
<1>2. cache[c].files \in [File -> FileState]
    BY DEF IInv, TypeOK
<1>3. /\ k.map = {}
      /\ k.files \in [File -> FileState]
      /\ \A f \in Present(k.files) :
            /\ AssetKey(f) \in DOMAIN db
            /\ \A j \in 1 .. Len(k.files[f].data) :
                  LET id == k.files[f].data[j] IN Stored(id[1], id[2])
    <2>1. CASE task[c].op = "download"
        <3> DEFINE f == task[c].file
        <3>1. /\ f \in File
              /\ f \in Present(cache[c].files)
              /\ Len(cache[c].files[f].data) = task[c].n
            BY <2>1 DEF IInv, TypeOK, TaskOK
        <3>2. PICK n \in 0 .. task[c].n : k = Flushed(cache[c], f, n)
            BY <1>1, <2>1
        <3>3. /\ k.map = {}
              /\ k.files \in [File -> FileState]
              /\ Len(k.files[f].data) = n
              /\ \A j \in 1 .. n : k.files[f].data[j] = cache[c].files[f].data[j]
              /\ Present(k.files) \subseteq Present(cache[c].files)
              /\ \A g \in File \ {f} : k.files[g] = cache[c].files[g]
            <4>1. n \in 0 .. Len(cache[c].files[f].data)
                BY <3>1
            <4> HIDE DEF f
            <4>2. f \in File /\ f \in Present(cache[c].files)
                BY <3>1
            <4>3. LET flushed == Flushed(cache[c], f, n)
                  IN  /\ flushed.map = {}
                      /\ flushed.files \in [File -> FileState]
                      /\ Len(flushed.files[f].data) = n
                      /\ \A j \in 1 .. n :
                             flushed.files[f].data[j] = cache[c].files[f].data[j]
                      /\ Present(flushed.files) \subseteq Present(cache[c].files)
                      /\ \A g \in File \ {f} : flushed.files[g] = cache[c].files[g]
                BY <4>1, <4>2, <1>2, FileFlushed, Zenon
            <4> QED
                BY <3>2, <4>3
        <3>4. ASSUME NEW g \in Present(k.files)
              PROVE  /\ AssetKey(g) \in DOMAIN db
                     /\ \A j \in 1 .. Len(k.files[g].data) :
                           LET id == k.files[g].data[j] IN Stored(id[1], id[2])
            <4>1. /\ g \in Present(cache[c].files)
                  /\ AssetKey(g) \in DOMAIN db
                  /\ \A j \in 1 .. Len(cache[c].files[g].data) :
                        LET id == cache[c].files[g].data[j]
                        IN  Stored(id[1], id[2])
                BY <3>3 DEF IInv, FilesOK
            <4>2. CASE g = f
                <5>1. 1 .. n \subseteq 1 .. task[c].n
                    BY DEF IInv, TypeOK
                <5> HIDE DEF f
                <5> QED
                    BY <3>1, <3>3, <4>1, <4>2, <5>1
            <4>3. CASE g # f
                <5>1. k.files[g] = cache[c].files[g]
                    BY <3>3, <4>3 DEF Present
                <5> QED
                    BY <4>1, <5>1
            <4> QED
                BY <4>2, <4>3
        <3> QED
            BY <3>3, <3>4
    <2>2. CASE task[c].op # "download"
        <3>1. k.map = {} /\ k.files = cache[c].files
            BY <1>1, <2>2 DEF Forgotten
        <3> QED
            BY <3>1, <1>2 DEF IInv, FilesOK
    <2> QED
        BY <2>1, <2>2
<1>4. /\ DOMAIN cache' = Confab
      /\ \A d \in Confab : /\ cache'[d].files \in [File -> FileState]
                           /\ cache'[d].map \subseteq File
      /\ cache'[c] = k
      /\ \A d \in Confab \ {c} : cache'[d] = cache[d]
      /\ FilesOK' /\ CacheIsWhole'
    BY <1>1, <1>3, CacheChanges
<1>5. /\ up' = [up EXCEPT ![c] = FALSE]
      /\ task' = [task EXCEPT ![c] = Idle]
      /\ waiting' = [waiting EXCEPT ![c] = {}]
      /\ UNCHANGED <<pidFile, local, added, db, serverUp>>
    BY DEF Dies
<1>6. TypeOK'
    BY <1>3, <1>4, <1>5 DEF IInv, TypeOK, Idle
<1>7. DbOK' /\ LocalOK' /\ AddedIsComplete'
    BY <1>5 DEF IInv, DbOK, LocalOK, AddedIsComplete, Complete, Stored
<1>8. TaskOK'
    BY <1>4, <1>5 DEF IInv, TypeOK, TaskOK, Idle, Stored
<1>9. OnlyHitsUnanswered'
    BY <1>4, <1>5 DEF IInv, TypeOK, OnlyHitsUnanswered
<1> QED
    BY <1>4, <1>6, <1>7, <1>8, <1>9 DEF IInv

LEMMA StartIInv ==
    ASSUME IInv, NEW c \in Confab, Start(c)
    PROVE  IInv'
<1>1. /\ ~ up[c]
      /\ UNCHANGED <<db, serverUp, local, task, waiting, added>>
      /\ pidFile' = [pidFile EXCEPT ![c] = TRUE]
    BY DEF Start
<1>2. CASE UNCHANGED <<up, cache>> /\ Fault
    <2>1. TypeOK'
        <3>1. faults' \in 0 .. MaxFaults
            BY <1>2, FaultCounts DEF IInv, TypeOK
        <3>2. \A d \in Confab : UNCHANGED <<up[d], cache[d], task[d], waiting[d]>>
            BY <1>1, <1>2
        <3> QED
            BY <1>1, <1>2, <3>1, <3>2 DEF IInv, TypeOK
    <2>2. DbOK' /\ LocalOK' /\ FilesOK' /\ TaskOK'
        BY <1>1, <1>2
        DEF IInv, DbOK, LocalOK, FilesOK, TaskOK, Stored
    <2>3. CacheIsWhole' /\ AddedIsComplete' /\ OnlyHitsUnanswered'
        BY <1>1, <1>2
        DEF IInv, CacheIsWhole, AddedIsComplete, Complete, Stored, OnlyHitsUnanswered
    <2> QED
        BY <2>1, <2>2, <2>3 DEF IInv
<1>3. CASE /\ up' = [up EXCEPT ![c] = TRUE]
           /\ cache' = [cache EXCEPT ![c] = checkExistingEntries(@)]
           /\ UNCHANGED faults
    <2> DEFINE k == checkExistingEntries(cache[c])
    <2>1. /\ k.map \subseteq File
          /\ \A f \in k.map : /\ cache[c].files[f] # NoFile
                              /\ cache[c].files[f].data = Content(f)
          /\ k.files = [f \in File |-> IF f \in k.map THEN cache[c].files[f]
                                                      ELSE NoFile]
        BY Checked
    <2>2. cache' = [cache EXCEPT ![c] = k]
        BY <1>3
    <2> HIDE DEF k
    <2>3. cache[c].files \in [File -> FileState] /\ NoFile \in FileState
        BY DEF IInv, TypeOK, NoFile, FileState
    <2>4. k.files \in [File -> FileState]
        BY <2>1, <2>3
    <2>5. \A f \in Present(k.files) : /\ f \in Present(cache[c].files)
                                      /\ k.files[f] = cache[c].files[f]
        BY <2>1 DEF Present
    <2>6. /\ \A f \in Present(k.files) :
                /\ AssetKey(f) \in DOMAIN db
                /\ \A j \in 1 .. Len(k.files[f].data) :
                      LET id == k.files[f].data[j] IN Stored(id[1], id[2])
          /\ \A f \in k.map : k.files[f].data = Content(f)
        BY <2>1, <2>5 DEF IInv, FilesOK
    <2>7. /\ DOMAIN cache' = Confab
          /\ \A d \in Confab : /\ cache'[d].files \in [File -> FileState]
                               /\ cache'[d].map \subseteq File
          /\ \A d \in Confab \ {c} : cache'[d] = cache[d]
          /\ FilesOK' /\ CacheIsWhole'
        BY <1>1, <2>1, <2>2, <2>4, <2>6, CacheChanges
    <2>8. task[c].op = "idle" /\ waiting[c] = {}
        BY <1>1 DEF IInv, TypeOK
    <2>9. TypeOK'
        <3>1. \A d \in Confab : /\ task[d].op # "idle" => up'[d]
                                /\ ~ up'[d] => cache'[d].map = {} /\ waiting[d] = {}
            BY <1>3, <2>7 DEF IInv, TypeOK
        <3> QED
            BY <1>1, <1>3, <2>7, <3>1 DEF IInv, TypeOK
    <2>10. DbOK' /\ LocalOK' /\ AddedIsComplete'
        BY <1>1 DEF IInv, DbOK, LocalOK, AddedIsComplete, Complete, Stored
    <2>11. TaskOK'
        BY <1>1, <2>7, <2>8 DEF IInv, TaskOK, Stored
    <2>12. OnlyHitsUnanswered'
        BY <1>1, <2>7, <2>8 DEF IInv, OnlyHitsUnanswered
    <2> QED
        BY <2>7, <2>9, <2>10, <2>11, <2>12 DEF IInv
<1> QED
    BY <1>2, <1>3 DEF Start

LEMMA ServerIInv ==
    ASSUME IInv,
           \/ ServerStops \/ ServerStarts
           \/ \E c \in Confab : RemovePidFile(c)
    PROVE  IInv'
<1>1. UNCHANGED <<db, up, local, cache, task, waiting, added>>
    BY DEF ServerStops, ServerStarts, RemovePidFile
<1>2. TypeOK'
    <2>1. faults' \in 0 .. MaxFaults
        BY FaultCounts DEF IInv, ServerStops, ServerStarts, RemovePidFile
    <2>2. serverUp' \in BOOLEAN /\ pidFile' \in [Confab -> BOOLEAN]
        BY DEF IInv, TypeOK, ServerStops, ServerStarts, RemovePidFile
    <2>3. \A d \in Confab : UNCHANGED <<up[d], cache[d], task[d], waiting[d]>>
        BY <1>1
    <2> QED
        BY <1>1, <2>1, <2>2, <2>3 DEF IInv, TypeOK
<1>3. DbOK' /\ LocalOK' /\ FilesOK' /\ TaskOK'
    BY <1>1 DEF IInv, DbOK, LocalOK, FilesOK, TaskOK, Stored
<1>4. CacheIsWhole' /\ AddedIsComplete' /\ OnlyHitsUnanswered'
    BY <1>1 DEF IInv, CacheIsWhole, AddedIsComplete, Complete, Stored, OnlyHitsUnanswered
<1> QED
    BY <1>2, <1>3, <1>4 DEF IInv

LEMMA AddAssetFileIInv ==
    ASSUME IInv, NEW c \in Confab, NEW f \in File, AddAssetFile(c, f)
    PROVE  IInv'
<1>1. /\ up[c] /\ task[c].op = "idle"
      /\ task' = [task EXCEPT ![c] = Task("post", f, 0)]
      /\ UNCHANGED <<db, serverUp, up, pidFile, local, cache, waiting, added, faults>>
    BY DEF AddAssetFile, At
<1>2. TypeOK'
    <2>1. task' \in [Confab -> [op : {"idle", "post", "get", "download"},
                                file : File \cup {0}, n : Nat]]
        BY <1>1, TaskChanges DEF IInv, TypeOK
    <2>2. \A d \in Confab : task'[d].op # "idle" => up[d] /\ task'[d].file \in File
        BY <1>1 DEF IInv, TypeOK, Task
    <2>3. \A d \in Confab : UNCHANGED <<up[d], cache[d], waiting[d]>>
        BY <1>1
    <2> QED
        BY <1>1, <2>1, <2>2, <2>3 DEF IInv, TypeOK
<1>3. DbOK' /\ LocalOK' /\ FilesOK'
    BY <1>1 DEF IInv, DbOK, LocalOK, FilesOK, Stored
<1>4. CacheIsWhole' /\ AddedIsComplete' /\ OnlyHitsUnanswered'
    BY <1>1
    DEF IInv, TypeOK, CacheIsWhole, AddedIsComplete, Complete, Stored,
        OnlyHitsUnanswered, Task
<1>5. TaskOK'
    BY <1>1, ChunksType DEF IInv, TypeOK, TaskOK, Task, Stored
<1> QED
    BY <1>2, <1>3, <1>4, <1>5 DEF IInv

(* A download begins, from the record in the database of the confab.       *)
LEMMA DownloadsIInv ==
    ASSUME IInv, NEW c \in Confab, NEW f \in File, up[c], Downloads(c, f),
           UNCHANGED <<db, serverUp, up, pidFile, added>>,
           faults' \in 0 .. MaxFaults,
           f \notin cache[c].map,
           task[c].op = "idle" \/ (task[c].op = "get" /\ task[c].file = f),
           waiting' \in [Confab -> SUBSET File],
           waiting'[c] = waiting[c] \cup {f},
           \A d \in Confab \ {c} : waiting'[d] = waiting[d] /\ local'[d] = local[d],
           DOMAIN local' = Confab, LocalOK',
           AssetKey(f) \in DOMAIN db
    PROVE  IInv'
<1> DEFINE k == Opened(cache[c], f)
<1>1. task' = [task EXCEPT ![c] = Task("download", f, 0)]
    BY DEF Downloads
<1>2. cache' = [cache EXCEPT ![c] = k]
    BY DEF Downloads
<1>3. AssetKey(f) \in DOMAIN db
    OBVIOUS
<1>4. cache[c].files \in [File -> FileState]
    BY DEF IInv, TypeOK
<1>5. /\ k.map = cache[c].map
      /\ k.files \in [File -> FileState]
      /\ k.files[f].data = <<>>
      /\ Present(k.files) = Present(cache[c].files) \cup {f}
      /\ \A g \in File \ {f} : k.files[g] = cache[c].files[g]
    BY <1>4, FileOpened, Zenon
<1> HIDE DEF k
<1>6. ASSUME NEW g \in Present(k.files)
      PROVE  /\ AssetKey(g) \in DOMAIN db
             /\ \A j \in 1 .. Len(k.files[g].data) :
                   LET id == k.files[g].data[j] IN Stored(id[1], id[2])
    <2>1. CASE g = f
        <3>1. Len(k.files[g].data) = 0
            BY <2>1, <1>5
        <3> QED
            BY <2>1, <3>1, <1>3
    <2>2. CASE g # f
        <3>1. g \in Present(cache[c].files) /\ k.files[g] = cache[c].files[g]
            BY <1>5, <2>2 DEF Present
        <3> QED
            BY <3>1 DEF IInv, FilesOK
    <2> QED
        BY <2>1, <2>2
<1>7. k.map \subseteq File /\ \A g \in k.map : k.files[g].data = Content(g)
    <2>1. k.map \subseteq File \ {f}
        BY <1>5 DEF IInv, TypeOK
    <2>2. \A g \in k.map : cache[c].files[g].data = Content(g)
        BY <1>5 DEF IInv, CacheIsWhole
    <2> QED
        BY <1>5, <2>1, <2>2
<1>8. /\ DOMAIN cache' = Confab
      /\ \A d \in Confab : /\ cache'[d].files \in [File -> FileState]
                           /\ cache'[d].map \subseteq File
      /\ cache'[c] = k
      /\ \A d \in Confab \ {c} : cache'[d] = cache[d]
      /\ FilesOK' /\ CacheIsWhole'
    BY <1>2, <1>5, <1>6, <1>7, CacheChanges
<1>9. /\ task' \in [Confab -> [op : {"idle", "post", "get", "download"},
                              file : File \cup {0}, n : Nat]]
      /\ task'[c] = Task("download", f, 0)
      /\ \A d \in Confab \ {c} : task'[d] = task[d]
    BY <1>1, TaskChanges DEF IInv
<1>10. TypeOK'
    <2>1. \A d \in Confab :
              /\ task'[d].op # "idle" => up[d] /\ task'[d].file \in File
              /\ ~ up[d] => cache'[d].map = {} /\ waiting'[d] = {}
        BY <1>8, <1>9 DEF IInv, TypeOK, Task
    <2> QED
        BY <1>8, <1>9, <2>1 DEF IInv, TypeOK
<1>11. DbOK' /\ AddedIsComplete'
    BY DEF IInv, DbOK, AddedIsComplete, Complete, Stored
<1>12. TaskOK'
    <2>1. ASSUME NEW d \in Confab, d # c
          PROVE  UNCHANGED <<task[d], cache[d], waiting[d], local[d]>>
        BY <2>1, <1>8, <1>9
    <2>2. Len(k.files[f].data) = 0
        BY <1>5
    <2>3. /\ task'[c].op = "download" /\ task'[c].file = f /\ task'[c].n = 0
          /\ f \in waiting'[c] /\ f \notin cache'[c].map
          /\ f \in Present(cache'[c].files)
          /\ Len(cache'[c].files[f].data) = 0
        BY <1>5, <1>8, <1>9, <2>2 DEF Task
    <2> QED
        BY <2>1, <2>3 DEF IInv, TaskOK, Stored
<1>13. OnlyHitsUnanswered'
    <2>1. ASSUME NEW g \in waiting'[c]
          PROVE  \/ g \in cache'[c].map
                 \/ task'[c].op = "download" /\ task'[c].file = g
        <3>1. task'[c].op = "download" /\ task'[c].file = f
            BY <1>9 DEF Task
        <3>2. g # f => g \in waiting[c]
            OBVIOUS
        <3>3. g # f => g \in cache[c].map
            BY <3>2 DEF IInv, OnlyHitsUnanswered
        <3>4. cache'[c].map = cache[c].map
            BY <1>5, <1>8
        <3> QED
            BY <3>1, <3>3, <3>4
    <2>2. ASSUME NEW d \in Confab \ {c}
          PROVE  UNCHANGED <<task[d], cache[d], waiting[d]>>
        BY <1>8, <1>9
    <2> QED
        BY <2>1, <2>2 DEF IInv, OnlyHitsUnanswered
<1> QED
    BY <1>8, <1>10, <1>11, <1>12, <1>13 DEF IInv

LEMMA LoadAssetIInv ==
    ASSUME IInv, NEW c \in Confab, NEW f \in File, LoadAsset(c, f)
    PROVE  IInv'
<1>1. /\ up[c] /\ task[c].op = "idle"
      /\ waiting' = [waiting EXCEPT ![c] = @ \cup {f}]
      /\ UNCHANGED <<db, serverUp, up, pidFile, local, added, faults>>
    BY DEF LoadAsset, At
<1>2. /\ waiting' \in [Confab -> SUBSET File]
      /\ waiting'[c] = waiting[c] \cup {f}
      /\ \A d \in Confab \ {c} : waiting'[d] = waiting[d]
    BY <1>1 DEF IInv, TypeOK
<1>3. DbOK' /\ LocalOK' /\ AddedIsComplete'
    BY <1>1 DEF IInv, DbOK, LocalOK, AddedIsComplete, Complete, Stored
<1>4. CASE f \in cache[c].map /\ UNCHANGED <<task, cache>>
    <2>1. TypeOK'
        <3>1. \A d \in Confab : ~ up[d] => waiting'[d] = {}
            BY <1>1, <1>2 DEF IInv, TypeOK
        <3>2. \A d \in Confab : UNCHANGED <<up[d], cache[d], task[d]>>
            BY <1>1, <1>4
        <3> QED
            BY <1>1, <1>2, <1>4, <3>1, <3>2 DEF IInv, TypeOK
    <2>2. FilesOK' /\ CacheIsWhole'
        BY <1>1, <1>4 DEF IInv, FilesOK, CacheIsWhole, Stored
    <2>3. TaskOK' /\ OnlyHitsUnanswered'
        BY <1>1, <1>2, <1>4 DEF IInv, TaskOK, OnlyHitsUnanswered, Stored
    <2> QED
        BY <1>3, <2>1, <2>2, <2>3 DEF IInv
<1>5. CASE /\ f \notin cache[c].map
           /\ findAsset(local[c], f) # EmptyRecord
           /\ Downloads(c, f)
    <2>1. AssetKey(f) \in DOMAIN local[c]
        BY <1>5, RecordFound
    <2>2. DOMAIN local' = Confab /\ AssetKey(f) \in DOMAIN db
        BY <1>1, <2>1 DEF IInv, TypeOK, LocalOK
    <2>3. \A d \in Confab \ {c} : waiting'[d] = waiting[d] /\ local'[d] = local[d]
        BY <1>1, <1>2
    <2>4. /\ UNCHANGED <<db, serverUp, up, pidFile, added>>
          /\ faults' \in 0 .. MaxFaults
        BY <1>1 DEF IInv, TypeOK
    <2>5. /\ up[c] /\ Downloads(c, f) /\ f \notin cache[c].map /\ LocalOK'
          /\ task[c].op = "idle" \/ (task[c].op = "get" /\ task[c].file = f)
        BY <1>1, <1>3, <1>5
    <2> QED
        BY <1>2, <2>2, <2>3, <2>4, <2>5, DownloadsIInv
<1>6. CASE /\ f \notin cache[c].map
           /\ task' = [task EXCEPT ![c] = Task("get", f, 0)]
           /\ UNCHANGED cache
    <2>1. /\ task' \in [Confab -> [op : {"idle", "post", "get", "download"},
                                  file : File \cup {0}, n : Nat]]
          /\ task'[c] = Task("get", f, 0)
          /\ \A d \in Confab \ {c} : task'[d] = task[d]
        BY <1>6, TaskChanges DEF IInv
    <2>2. TypeOK'
        <3>1. \A d \in Confab :
                  /\ task'[d].op # "idle" => up[d] /\ task'[d].file \in File
                  /\ ~ up[d] => waiting'[d] = {}
            BY <1>1, <1>2, <2>1 DEF IInv, TypeOK, Task
        <3>2. \A d \in Confab : UNCHANGED <<up[d], cache[d]>>
            BY <1>1, <1>6
        <3> QED
            BY <1>1, <1>2, <1>6, <2>1, <3>1, <3>2 DEF IInv, TypeOK
    <2>3. FilesOK' /\ CacheIsWhole'
        BY <1>1, <1>6 DEF IInv, FilesOK, CacheIsWhole, Stored
    <2>4. TaskOK' /\ OnlyHitsUnanswered'
        BY <1>1, <1>2, <1>6, <2>1 DEF IInv, TaskOK, OnlyHitsUnanswered, Stored, Task
    <2> QED
        BY <1>3, <2>2, <2>3, <2>4 DEF IInv
<1> QED
    BY <1>4, <1>5, <1>6 DEF LoadAsset, checkCacheHits

(* A post of an upload is answered: the database has not lost a key, and   *)
(* if it went well it has the one that was posted.                         *)
LEMMA AnsweredIInv ==
    ASSUME IInv, NEW c \in Confab, up[c], task[c].op = "post",
           NEW response, Answered(c, response), faults' \in 0 .. MaxFaults,
           DbOK', DOMAIN db \subseteq DOMAIN db',
           response.code = Ok =>
               /\ task[c].n <= Chunks(task[c].file)
               /\ AssetKey(task[c].file) \in DOMAIN db'
               /\ task[c].n > 0 => AssetDataKey(task[c].file, task[c].n - 1) \in DOMAIN db'
    PROVE  IInv'
<1> DEFINE f == task[c].file
           n == task[c].n
<1>1. /\ UNCHANGED <<serverUp, up, pidFile, local, cache, waiting, added>>
      /\ f \in File /\ n \in Nat
      /\ task[c] = Task("post", f, n)
    BY DEF Answered, IInv, TypeOK, Task
<1>2. \/ task' = [task EXCEPT ![c] = Idle]
      \/ response.code = Ok /\ task' = [task EXCEPT ![c] = Task("post", f, n + 1)]
    BY <1>1, TaskAdvances DEF Answered
<1> HIDE DEF f, n
<1>3. /\ task' \in [Confab -> [op : {"idle", "post", "get", "download"},
                              file : File \cup {0}, n : Nat]]
      /\ \/ task'[c] = Idle
         \/ response.code = Ok /\ task'[c] = Task("post", f, n + 1)
      /\ \A d \in Confab \ {c} : task'[d] = task[d]
    <2>1. Idle = Task("idle", 0, 0)
        BY DEF Idle, Task
    <2>2. n + 1 \in Nat
        BY <1>1
    <2> QED
        BY <1>1, <1>2, <2>1, <2>2, TaskChanges DEF IInv
<1>4. TypeOK'
    <2>1. \A d \in Confab : task'[d].op # "idle" => up[d] /\ task'[d].file \in File
        BY <1>1, <1>3 DEF IInv, TypeOK, Idle, Task
    <2>2. \A d \in Confab : UNCHANGED <<up[d], cache[d], waiting[d]>>
        BY <1>1
    <2> QED
        BY <1>1, <1>3, <2>1, <2>2 DEF IInv, TypeOK
<1>5. LocalOK' /\ FilesOK' /\ AddedIsComplete'
    BY <1>1 DEF IInv, LocalOK, FilesOK, AddedIsComplete, Complete, Stored
<1>6. CacheIsWhole' /\ OnlyHitsUnanswered'
    <2>1. task[c].op = "post"
        OBVIOUS
    <2> QED
        BY <1>1, <1>3, <2>1 DEF IInv, CacheIsWhole, OnlyHitsUnanswered, Idle, Task
<1>7. TaskOK'
    <2>1. ASSUME NEW d \in Confab, d # c
          PROVE  UNCHANGED <<task[d], cache[d], waiting[d], local[d]>>
        BY <2>1, <1>1, <1>3
    <2>2. CASE task'[c] = Idle
        BY <2>1, <2>2 DEF IInv, TaskOK, Stored, Idle
    <2>3. CASE response.code = Ok /\ task'[c] = Task("post", f, n + 1)
        <3>1. /\ n + 1 <= Chunks(f) + 1
              /\ AssetKey(f) \in DOMAIN db'
              /\ n > 0 => AssetDataKey(f, n - 1) \in DOMAIN db'
            BY <2>3, <1>1, ChunksType DEF f, n
        <3>2. \A i \in 0 .. n - 2 : Stored(f, i)
            BY DEF IInv, TaskOK, f, n
        <3>3. ASSUME NEW i \in 0 .. (n + 1) - 2 PROVE AssetDataKey(f, i) \in DOMAIN db'
            <4>1. CASE i = n - 1
                BY <4>1, <3>1, <1>1 DEF Stored
            <4>2. CASE i # n - 1
                BY <4>2, <3>2, <1>1 DEF Stored
            <4> QED
                BY <4>1, <4>2
        <3>4. /\ task'[c].op = "post" /\ task'[c].file = f /\ task'[c].n = n + 1
            BY <2>3 DEF Task
        <3> QED
            BY <2>1, <3>1, <3>3, <3>4 DEF IInv, TaskOK, Stored
    <2> QED
        BY <2>2, <2>3, <1>3
<1> QED
    BY <1>4, <1>5, <1>6, <1>7 DEF IInv

LEMMA PostRecordIInv ==
    ASSUME IInv, NEW c \in Confab, PostRecord(c)
    PROVE  /\ IInv'
           /\ DOMAIN db \subseteq DOMAIN db'
           /\ DOMAIN db' \subseteq
                  DOMAIN db \cup {AssetKey(task[c].file),
                                 ListEntryKey(List, Now, task[c].file)}
<1> DEFINE f == task[c].file
           stored == storeAsset(db, f, RecordOf(f), Now)
<1>1. /\ up[c] /\ task[c].op = "post" /\ task[c].n = 0 /\ f \in File
    BY DEF PostRecord, At, IInv, TypeOK
<1>2. PICK written \in BOOLEAN :
          /\ Status(written)
          /\ Answered(c, postAsset(db, f, RecordOf(f), Now, written))
    BY DEF PostRecord
<1> DEFINE response == postAsset(db, f, RecordOf(f), Now, written)
<1>3. /\ response.db = IF written THEN stored ELSE db
      /\ response.code = Ok => written
    BY DEF postAsset, Posted, Ok, Internal_Server_Error
<1>4. db' = IF written THEN stored ELSE db
    BY <1>2, <1>3 DEF Answered
<1>5. /\ DOMAIN stored = DOMAIN db \cup {AssetKey(f), ListEntryKey(List, Now, f)}
      /\ stored[AssetKey(f)] = RecordOf(f)
      /\ \A k \in DOMAIN db \ {AssetKey(f), ListEntryKey(List, Now, f)} : stored[k] = db[k]
    BY <1>1, RecordStored
<1>6. /\ DOMAIN db \subseteq DOMAIN db'
      /\ DOMAIN db' \subseteq DOMAIN db \cup {AssetKey(f), ListEntryKey(List, Now, f)}
      /\ (response.code = Ok => AssetKey(f) \in DOMAIN db')
    BY <1>3, <1>4, <1>5
<1>7. DbOK'
    <2> SUFFICES ASSUME NEW k \in DOMAIN db'
                 PROVE  /\ k[1] = kAsset =>
                              \E g \in File : k = AssetKey(g) /\ db'[k] = RecordOf(g)
                        /\ k[1] = kAssetData =>
                              \E g \in File : \E i \in 0 .. Chunks(g) - 1 :
                                  k = AssetDataKey(g, i) /\ db'[k] = ChunkOf(g, i)
        BY DEF DbOK
    <2>1. CASE written /\ k = AssetKey(f)
        BY <2>1, <1>1, <1>4, <1>5, KeysDiffer DEF kAsset, kAssetData
    <2>2. CASE written /\ k = ListEntryKey(List, Now, f)
        BY <2>2, KeysDiffer DEF kAsset, kAssetData, kListEntry
    <2>3. CASE ~ written \/ k \notin {AssetKey(f), ListEntryKey(List, Now, f)}
        <3>1. k \in DOMAIN db /\ db'[k] = db[k]
            BY <2>3, <1>4, <1>5
        <3> QED
            BY <3>1 DEF IInv, DbOK
    <2> QED
        BY <2>1, <2>2, <2>3
<1>8. faults' \in 0 .. MaxFaults
    BY <1>2, FaultCounts DEF IInv, Status
<1>9. task[c].n <= Chunks(f) /\ ~ (task[c].n > 0)
    BY <1>1, ChunksType
<1> HIDE DEF response, stored
<1>10. Answered(c, response)
    BY <1>2 DEF response
<1> QED
    BY <1>1, <1>6, <1>7, <1>8, <1>9, <1>10, AnsweredIInv

LEMMA PostChunkIInv ==
    ASSUME IInv, NEW c \in Confab, PostChunk(c)
    PROVE  /\ IInv'
           /\ DOMAIN db \subseteq DOMAIN db'
           /\ DOMAIN db' \subseteq
                  DOMAIN db \cup {AssetDataKey(task[c].file, task[c].n - 1)}
<1> DEFINE f == task[c].file
           i == task[c].n - 1
           stored == storeAssetDataChunk(db, f, i, ChunkOf(f, i))
<1>1. /\ up[c] /\ task[c].op = "post" /\ f \in File
      /\ task[c].n \in 1 .. Chunks(f)
    BY DEF PostChunk, At, IInv, TypeOK
<1>2. PICK written \in BOOLEAN :
          /\ Status(written)
          /\ Answered(c, postAssetData(db, f, i, ChunkOf(f, i), written))
    BY DEF PostChunk
<1> DEFINE response == postAssetData(db, f, i, ChunkOf(f, i), written)
<1>3. /\ response.db = IF written THEN stored ELSE db
      /\ response.code = Ok => written
    BY DEF postAssetData, Posted, Ok, Internal_Server_Error
<1>4. db' = IF written THEN stored ELSE db
    BY <1>2, <1>3 DEF Answered
<1>5. /\ DOMAIN stored = DOMAIN db \cup {AssetDataKey(f, i)}
      /\ stored[AssetDataKey(f, i)] = ChunkOf(f, i)
      /\ \A k \in DOMAIN db \ {AssetDataKey(f, i)} : stored[k] = db[k]
    <2> HIDE DEF f, i
    <2> QED
        BY DEF storeAssetDataChunk, Write
<1>6. /\ DOMAIN db \subseteq DOMAIN db'
      /\ DOMAIN db' \subseteq DOMAIN db \cup {AssetDataKey(f, i)}
      /\ response.code = Ok => AssetDataKey(f, i) \in DOMAIN db'
    BY <1>3, <1>4, <1>5
<1>7. AssetKey(f) \in DOMAIN db'
    <2>1. AssetKey(f) \in DOMAIN db
        BY <1>1 DEF IInv, TaskOK
    <2> QED
        BY <2>1, <1>6
<1>8. DbOK'
    <2> SUFFICES ASSUME NEW k \in DOMAIN db'
                 PROVE  /\ k[1] = kAsset =>
                              \E g \in File : k = AssetKey(g) /\ db'[k] = RecordOf(g)
                        /\ k[1] = kAssetData =>
                              \E g \in File : \E j \in 0 .. Chunks(g) - 1 :
                                  k = AssetDataKey(g, j) /\ db'[k] = ChunkOf(g, j)
        BY DEF DbOK
    <2>1. CASE written /\ k = AssetDataKey(f, i)
        <3>1. i \in 0 .. Chunks(f) - 1
            BY <1>1, ChunksType
        <3>2. k[1] # kAsset
            BY <2>1 DEF AssetDataKey, kAsset, kAssetData
        <3> HIDE DEF f, i
        <3> QED
            BY <2>1, <3>1, <3>2, <1>1, <1>4, <1>5
    <2>2. CASE ~ written \/ k # AssetDataKey(f, i)
        <3>1. k \in DOMAIN db /\ db'[k] = db[k]
            BY <2>2, <1>4, <1>5
        <3> QED
            BY <3>1 DEF IInv, DbOK
    <2> QED
        BY <2>1, <2>2
<1>9. faults' \in 0 .. MaxFaults
    BY <1>2, FaultCounts DEF IInv, Status
<1>10. task[c].n <= Chunks(f)
    BY <1>1, ChunksType
<1> HIDE DEF response, stored
<1>11. Answered(c, response)
    BY <1>2 DEF response
<1> QED
    BY <1>1, <1>6, <1>7, <1>8, <1>9, <1>10, <1>11, AnsweredIInv

LEMMA AnswerAddedIInv ==
    ASSUME IInv, NEW c \in Confab, AnswerAdded(c)
    PROVE  IInv'
<1> DEFINE f == task[c].file
<1>1. /\ up[c] /\ task[c].op = "post" /\ f \in File
      /\ task[c].n = Chunks(f) + 1
      /\ added' = added \cup {f}
      /\ task' = [task EXCEPT ![c] = Idle]
      /\ UNCHANGED <<db, serverUp, up, pidFile, local, cache, faults>>
    BY DEF AnswerAdded, At, Ends, IInv, TypeOK
<1>2. waiting' = waiting
    BY DEF AnswerAdded, Ends, IInv, TypeOK
<1>3. Complete(f)
    <2>1. Chunks(f) \in Nat \ {0}
        BY <1>1, ChunksType
    <2>2. /\ AssetKey(f) \in DOMAIN db
          /\ \A i \in 0 .. Chunks(f) - 1 : Stored(f, i)
        BY <1>1, <2>1 DEF IInv, TaskOK
    <2> QED
        BY <2>2 DEF Complete
<1> HIDE DEF f
<1>4. TypeOK'
    <2>1. \A d \in Confab : UNCHANGED <<up[d], cache[d], waiting[d]>>
        BY <1>1, <1>2
    <2>2. /\ task' \in [Confab -> [op : {"idle", "post", "get", "download"},
                                  file : File \cup {0}, n : Nat]]
          /\ \A d \in Confab : task'[d].op # "idle" => up[d] /\ task'[d].file \in File
        BY <1>1 DEF IInv, TypeOK, Idle
    <2> QED
        BY <1>1, <1>2, <2>1, <2>2 DEF IInv, TypeOK
<1>5. DbOK' /\ LocalOK' /\ FilesOK' /\ CacheIsWhole'
    BY <1>1 DEF IInv, DbOK, LocalOK, FilesOK, CacheIsWhole, Stored
<1>6. AddedIsComplete'
    BY <1>1, <1>3 DEF IInv, AddedIsComplete, Complete, Stored
<1>7. TaskOK' /\ OnlyHitsUnanswered'
    <2>1. DOMAIN task = Confab
        BY DEF IInv, TypeOK
    <2>2. task'[c] = Idle /\ \A d \in Confab \ {c} : task'[d] = task[d]
        BY <1>1, <2>1
    <2> QED
        BY <1>1, <1>2, <2>2 DEF IInv, TaskOK, OnlyHitsUnanswered, Idle, Stored
<1> QED
    BY <1>4, <1>5, <1>6, <1>7 DEF IInv

(* A load ends and is answered, with the file entered or not.              *)
LEMMA LoadEnds ==
    ASSUME IInv, NEW c \in Confab, up[c], task[c].op \in {"get", "download"},
           Ends(c, {task[c].file}),
           UNCHANGED <<db, serverUp, up, pidFile, local, added, faults>>,
           DOMAIN cache' = Confab,
           \A d \in Confab : /\ cache'[d].files \in [File -> FileState]
                             /\ cache'[d].map \subseteq File,
           \A d \in Confab \ {c} : cache'[d] = cache[d],
           cache[c].map \subseteq cache'[c].map,
           FilesOK', CacheIsWhole'
    PROVE  IInv'
<1> DEFINE f == task[c].file
<1>1. /\ task' = [task EXCEPT ![c] = Idle]
      /\ waiting' = [waiting EXCEPT ![c] = @ \ {f}]
    BY DEF Ends
<1>2. /\ waiting' \in [Confab -> SUBSET File]
      /\ waiting'[c] = waiting[c] \ {f}
      /\ \A d \in Confab \ {c} : waiting'[d] = waiting[d]
    BY <1>1 DEF IInv, TypeOK
<1>3. /\ task' \in [Confab -> [op : {"idle", "post", "get", "download"},
                              file : File \cup {0}, n : Nat]]
      /\ task'[c] = Idle
      /\ \A d \in Confab \ {c} : task'[d] = task[d]
    <2>1. Idle = Task("idle", 0, 0)
        BY DEF Idle, Task
    <2> QED
        BY <1>1, <2>1, TaskChanges DEF IInv
<1> HIDE DEF f
<1>4. TypeOK'
    <2>1. \A d \in Confab :
              /\ task'[d].op # "idle" => up[d] /\ task'[d].file \in File
              /\ ~ up[d] => cache'[d].map = {} /\ waiting'[d] = {}
        BY <1>2, <1>3 DEF IInv, TypeOK, Idle
    <2> QED
        BY <1>2, <1>3, <2>1 DEF IInv, TypeOK
<1>5. DbOK' /\ LocalOK' /\ AddedIsComplete'
    BY DEF IInv, DbOK, LocalOK, AddedIsComplete, Complete, Stored
<1>6. TaskOK'
    <2>1. ASSUME NEW d \in Confab, d # c
          PROVE  UNCHANGED <<task[d], cache[d], waiting[d], local[d]>>
        BY <2>1, <1>2, <1>3
    <2> QED
        BY <1>3, <2>1 DEF IInv, TaskOK, Stored, Idle
<1>7. OnlyHitsUnanswered'
    <2> SUFFICES ASSUME NEW d \in Confab, NEW g \in waiting'[d]
                 PROVE  \/ g \in cache'[d].map
                        \/ task'[d].op \in {"get", "download"} /\ task'[d].file = g
        BY DEF OnlyHitsUnanswered
    <2>1. CASE d = c
        <3>1. g \in waiting[c] /\ g # f
            BY <2>1, <1>2
        <3>2. g \in cache[c].map
            BY <3>1 DEF IInv, OnlyHitsUnanswered, f
        <3> QED
            BY <2>1, <3>2
    <2>2. CASE d # c
        BY <2>2, <1>2, <1>3 DEF IInv, OnlyHitsUnanswered
    <2> QED
        BY <2>1, <2>2
<1> QED
    BY <1>4, <1>5, <1>6, <1>7 DEF IInv

(* The record a download is made from is that of the file.                 *)
LEMMA RecordAnswered ==
    ASSUME DbOK, NEW f \in File
    PROVE  LET response == getAsset(db, f)
           IN  /\ response.code = Ok =>
                      AssetKey(f) \in DOMAIN db /\ db[response.record] = RecordOf(f)
               /\ response.code # Ok => AssetKey(f) \notin DOMAIN db
<1>1. /\ getAsset(db, f).record = findAsset(db, f)
      /\ getAsset(db, f).code = Ok <=> findAsset(db, f) # EmptyRecord
    BY DEF getAsset, Found, Ok, Not_Found
<1>2. ASSUME AssetKey(f) \in DOMAIN db
      PROVE  db[AssetKey(f)] = RecordOf(f)
    <2>1. PICK g \in File : AssetKey(f) = AssetKey(g) /\ db[AssetKey(f)] = RecordOf(g)
        BY <1>2, KeysDiffer DEF DbOK
    <2> QED
        BY <2>1, KeysDiffer
<1> QED
    BY <1>1, <1>2, RecordFound

LEMMA GetRecordIInv ==
    ASSUME IInv, NEW c \in Confab, GetRecord(c)
    PROVE  IInv'
<1> DEFINE f == task[c].file
           response == getAsset(db, f)
           stored == storeAsset(local[c], f, RecordOf(f), Now)
           entry == ListEntryKey(List, Now, f)
<1>1. /\ up[c] /\ task[c].op = "get" /\ f \in File
      /\ f \in waiting[c] /\ f \notin cache[c].map
      /\ UNCHANGED <<db, serverUp, up, pidFile, added>>
    BY DEF GetRecord, At, IInv, TypeOK, TaskOK
<1>2. CASE /\ response.code = Ok
           /\ local' = [local EXCEPT ![c] = storeAsset(@, f, db[response.record], Now)]
           /\ UNCHANGED faults
           /\ Downloads(c, f)
           /\ UNCHANGED waiting
    <2>1. AssetKey(f) \in DOMAIN db /\ db[response.record] = RecordOf(f)
        BY <1>1, <1>2, RecordAnswered DEF IInv
    <2>2. /\ DOMAIN local' = Confab
          /\ local'[c] = stored
          /\ \A d \in Confab \ {c} : local'[d] = local[d]
        BY <1>2, <2>1 DEF IInv, TypeOK
    <2>3. /\ DOMAIN stored = DOMAIN local[c] \cup {AssetKey(f), entry}
          /\ stored[AssetKey(f)] = RecordOf(f)
          /\ \A k \in DOMAIN local[c] \ {AssetKey(f), entry} : stored[k] = local[c][k]
        BY <1>1, RecordStored
    <2> HIDE DEF f, stored, response
    <2>4. ASSUME NEW d \in Confab, NEW g \in File, AssetKey(g) \in DOMAIN local'[d]
          PROVE  AssetKey(g) \in DOMAIN db /\ local'[d][AssetKey(g)] = RecordOf(g)
        <3>1. CASE d = c /\ g = f
            BY <3>1, <2>1, <2>2, <2>3
        <3>2. CASE d = c /\ g # f
            <4>1. AssetKey(g) # AssetKey(f)
                BY <3>2, KeysDiffer
            <4>2. AssetKey(g) # entry
                BY KeysDiffer DEF kAsset, kListEntry
            <4> HIDE DEF entry
            <4>3. /\ AssetKey(g) \in DOMAIN local[c]
                  /\ local'[d][AssetKey(g)] = local[c][AssetKey(g)]
                BY <3>2, <2>2, <2>3, <2>4, <4>1, <4>2
            <4> QED
                BY <4>3 DEF IInv, LocalOK
        <3>3. CASE d # c
            BY <3>3, <2>2, <2>4 DEF IInv, LocalOK
        <3> QED
            BY <3>1, <3>2, <3>3
    <2>5. LocalOK'
        BY <2>4, <1>1 DEF LocalOK
    <2>6. /\ waiting' \in [Confab -> SUBSET File]
          /\ waiting'[c] = waiting[c] \cup {f}
          /\ \A d \in Confab \ {c} : waiting'[d] = waiting[d] /\ local'[d] = local[d]
        BY <1>1, <1>2, <2>2 DEF IInv, TypeOK
    <2>7. /\ AssetKey(f) \in DOMAIN db
          /\ DOMAIN local' = Confab /\ faults' \in 0 .. MaxFaults
          /\ task[c].op = "idle" \/ (task[c].op = "get" /\ task[c].file = f)
        BY <1>1, <1>2, <2>1, <2>2 DEF f, IInv, TypeOK
    <2> QED
        BY <1>1, <1>2, <2>5, <2>6, <2>7, DownloadsIInv
<1>3. CASE Ends(c, {f}) /\ UNCHANGED <<local, cache, faults>>
    <2>1. FilesOK' /\ CacheIsWhole'
        BY <1>1, <1>3 DEF IInv, FilesOK, CacheIsWhole, Stored
    <2>2. /\ DOMAIN cache' = Confab
          /\ \A d \in Confab : /\ cache'[d].files \in [File -> FileState]
                               /\ cache'[d].map \subseteq File
          /\ \A d \in Confab \ {c} : cache'[d] = cache[d]
          /\ cache[c].map \subseteq cache'[c].map
        BY <1>3 DEF IInv, TypeOK
    <2> QED
        BY <1>1, <1>3, <2>1, <2>2, LoadEnds
<1>4. CASE /\ response.code = Ok
           /\ UNCHANGED local
           /\ Fault
           /\ Downloads(c, f)
           /\ UNCHANGED waiting
    <2>1. AssetKey(f) \in DOMAIN db
        BY <1>1, <1>4, RecordAnswered DEF IInv
    <2>2. DOMAIN local' = Confab /\ LocalOK'
        BY <1>1, <1>4 DEF IInv, TypeOK, LocalOK
    <2>3. /\ waiting' \in [Confab -> SUBSET File]
          /\ waiting'[c] = waiting[c] \cup {f}
          /\ \A d \in Confab \ {c} : waiting'[d] = waiting[d] /\ local'[d] = local[d]
        BY <1>1, <1>4 DEF IInv, TypeOK
    <2>4. faults' \in 0 .. MaxFaults
        BY <1>4, FaultsAssumption DEF Fault, IInv, TypeOK
    <2> QED
        BY <1>1, <1>4, <2>1, <2>2, <2>3, <2>4, DownloadsIInv
<1>5. \/ /\ response.code = Ok
         /\ \/ /\ local' = [local EXCEPT ![c] = storeAsset(@, f, db[response.record], Now)]
               /\ UNCHANGED faults
            \/ UNCHANGED local /\ Fault
         /\ Downloads(c, f)
         /\ UNCHANGED waiting
      \/ Ends(c, {f}) /\ UNCHANGED <<local, cache, faults>>
    BY DEF GetRecord, Status
<1> QED
    BY <1>2, <1>3, <1>4, <1>5

(* A download fails: its file is removed.                                  *)
LEMMA RemovedIInv ==
    ASSUME IInv, NEW c \in Confab, up[c], task[c].op = "download",
           NEW k, k = Removed(cache[c], task[c].file),
           cache' = [cache EXCEPT ![c] = k],
           Ends(c, {task[c].file}),
           UNCHANGED <<db, serverUp, up, pidFile, local, added, faults>>
    PROVE  IInv'
<1> DEFINE f == task[c].file
<1>1. /\ f \in File /\ f \notin cache[c].map
      /\ cache[c].files \in [File -> FileState]
    BY DEF IInv, TypeOK, TaskOK
<1>2. /\ k.map = cache[c].map
      /\ k.files \in [File -> FileState]
      /\ Present(k.files) = Present(cache[c].files) \ {f}
      /\ \A g \in File \ {f} : k.files[g] = cache[c].files[g]
    <2> HIDE DEF f
    <2>1. k = Removed(cache[c], f)
        BY DEF f
    <2>2. LET removed == Removed(cache[c], f)
          IN  /\ removed.map = cache[c].map
              /\ removed.files \in [File -> FileState]
              /\ Present(removed.files) = Present(cache[c].files) \ {f}
              /\ \A g \in File \ {f} : removed.files[g] = cache[c].files[g]
        BY <1>1, FileRemoved, Zenon
    <2> QED
        BY <2>1, <2>2
<1>4. ASSUME NEW g \in Present(k.files)
      PROVE  /\ AssetKey(g) \in DOMAIN db
             /\ \A j \in 1 .. Len(k.files[g].data) :
                   LET id == k.files[g].data[j] IN Stored(id[1], id[2])
    <2>1. g \in Present(cache[c].files) /\ k.files[g] = cache[c].files[g]
        BY <1>2 DEF Present
    <2> QED
        BY <2>1 DEF IInv, FilesOK
<1>5. k.map \subseteq File /\ \A g \in k.map : k.files[g].data = Content(g)
    <2>1. k.map \subseteq File \ {f}
        BY <1>1, <1>2 DEF IInv, TypeOK
    <2>2. \A g \in k.map : cache[c].files[g].data = Content(g)
        BY <1>2 DEF IInv, CacheIsWhole
    <2> QED
        BY <1>2, <2>1, <2>2
<1> HIDE DEF f
<1>6. /\ DOMAIN cache' = Confab
      /\ \A d \in Confab : /\ cache'[d].files \in [File -> FileState]
                           /\ cache'[d].map \subseteq File
      /\ cache'[c] = k
      /\ \A d \in Confab \ {c} : cache'[d] = cache[d]
      /\ FilesOK' /\ CacheIsWhole'
    <2>1. UNCHANGED db
        OBVIOUS
    <2> QED
        BY <1>2, <1>4, <1>5, <2>1, CacheChanges
<1>7. cache[c].map \subseteq cache'[c].map
    BY <1>2, <1>6
<1> QED
    BY <1>6, <1>7, LoadEnds

LEMMA GetChunkIInv ==
    ASSUME IInv, NEW c \in Confab, GetChunk(c)
    PROVE  IInv'
<1> DEFINE f == task[c].file
           n == task[c].n
           record == getAssetData(db, f, n).record
<1>1. /\ up[c] /\ task[c].op = "download" /\ f \in File /\ n \in Nat
      /\ f \in waiting[c] /\ f \notin cache[c].map
      /\ f \in Present(cache[c].files)
      /\ Len(cache[c].files[f].data) = n
      /\ AssetKey(f) \in DOMAIN db
      /\ cache[c].files \in [File -> FileState]
      /\ UNCHANGED <<db, serverUp, up, pidFile, local, added, faults>>
    BY DEF GetChunk, At, IInv, TypeOK, TaskOK, FilesOK
<1>2. task[c] = Task("download", f, n)
    BY <1>1 DEF IInv, TypeOK, Task
<1>3. CASE /\ Verifies(record)
           /\ cache' = [cache EXCEPT ![c] = Written(@, f, db[record])]
           /\ task' = [task EXCEPT ![c].n = @ + 1]
           /\ UNCHANGED waiting
    <2> DEFINE chunk == db[record]
               k == Written(cache[c], f, chunk)
    <2>1. /\ chunk.data \in ChunkIds
          /\ Stored(chunk.data[1], chunk.data[2])
        <3>1. record \in DOMAIN db /\ record[1] = kAssetData
            BY <1>3 DEF Verifies
        <3> HIDE DEF record
        <3>2. PICK g \in File : \E i \in 0 .. Chunks(g) - 1 :
                  record = AssetDataKey(g, i) /\ db[record] = ChunkOf(g, i)
            BY <3>1 DEF IInv, DbOK
        <3>3. PICK i \in 0 .. Chunks(g) - 1 :
                  record = AssetDataKey(g, i) /\ db[record] = ChunkOf(g, i)
            BY <3>2
        <3>4. i \in Nat
            BY ChunksType
        <3> QED
            BY <3>1, <3>3, <3>4 DEF ChunkOf, ChunkIds, Stored
    <2>2. cache' = [cache EXCEPT ![c] = k]
        BY <1>3
    <2>3. /\ task' = [task EXCEPT ![c] = Task("download", f, n + 1)]
          /\ n + 1 \in Nat
        <3>1. task' = [task EXCEPT ![c].n = @ + 1]
            BY <1>3
        <3>2. n \in Nat /\ n + 1 \in Nat
            BY <1>1
        <3> DEFINE next == Task("download", f, n + 1)
        <3>3. [task[c] EXCEPT !.n = @ + 1] = next
            BY <1>2 DEF Task
        <3>4. task' = [task EXCEPT ![c] = [task[c] EXCEPT !.n = @ + 1]]
            BY <3>1
        <3> HIDE DEF next
        <3>5. task' = [task EXCEPT ![c] = next]
            BY <3>3, <3>4
        <3> QED
            BY <3>2, <3>5 DEF next
    <2> HIDE DEF record, chunk
    <2>4. /\ k.map = cache[c].map
          /\ k.files \in [File -> FileState]
          /\ Len(k.files[f].data) = Len(cache[c].files[f].data) + 1
          /\ k.files[f].data[Len(cache[c].files[f].data) + 1] = chunk.data
          /\ \A j \in 1 .. Len(cache[c].files[f].data) :
                 k.files[f].data[j] = cache[c].files[f].data[j]
          /\ Present(k.files) = Present(cache[c].files) \cup {f}
          /\ \A g \in File \ {f} : k.files[g] = cache[c].files[g]
        <3> HIDE DEF f, n
        <3>1. f \in File /\ cache[c].files \in [File -> FileState]
            BY <1>1
        <3>2. chunk.data \in ChunkIds
            BY <2>1
        <3>3. k = Written(cache[c], f, chunk)
            OBVIOUS
        <3> HIDE DEF k
        <3>4. k.files \in [File -> FileState] /\ k.map = cache[c].map
            BY <3>1, <3>2, <3>3, FileWritten
        <3>5. Len(k.files[f].data) = Len(cache[c].files[f].data) + 1
            BY <3>1, <3>2, <3>3, FileWritten
        <3>6. k.files[f].data[Len(cache[c].files[f].data) + 1] = chunk.data
            BY <3>1, <3>2, <3>3, FileWritten
        <3>7. \A j \in 1 .. Len(cache[c].files[f].data) :
                 k.files[f].data[j] = cache[c].files[f].data[j]
            BY <3>1, <3>2, <3>3, FileWritten
        <3>8. Present(k.files) = Present(cache[c].files) \cup {f}
            BY <3>1, <3>2, <3>3, FileWritten
        <3>9. \A g \in File \ {f} : k.files[g] = cache[c].files[g]
            BY <3>1, <3>2, <3>3, FileWritten
        <3> QED
            BY <3>4, <3>5, <3>6, <3>7, <3>8, <3>9
    <2> HIDE DEF k
    <2>5. /\ Len(k.files[f].data) = n + 1
          /\ k.files[f].data[n + 1] = chunk.data
          /\ \A j \in 1 .. n : k.files[f].data[j] = cache[c].files[f].data[j]
        <3> HIDE DEF f, n
        <3> QED
            BY <1>1, <2>4
    <2> HIDE DEF f, n
    <2>6. ASSUME NEW g \in Present(k.files)
          PROVE  /\ AssetKey(g) \in DOMAIN db
                 /\ \A j \in 1 .. Len(k.files[g].data) :
                       LET id == k.files[g].data[j] IN Stored(id[1], id[2])
        <3>1. g \in Present(cache[c].files)
            BY <1>1, <2>4
        <3>2. /\ AssetKey(g) \in DOMAIN db
              /\ \A j \in 1 .. Len(cache[c].files[g].data) :
                    LET id == cache[c].files[g].data[j] IN Stored(id[1], id[2])
            BY <3>1 DEF IInv, FilesOK
        <3>3. CASE g = f
            <4> SUFFICES ASSUME NEW j \in 1 .. n + 1
                         PROVE  Stored(k.files[f].data[j][1], k.files[f].data[j][2])
                BY <3>2, <3>3, <2>5
            <4>1. CASE j = n + 1
                BY <4>1, <2>1, <2>5
            <4>2. CASE j # n + 1
                <5>1. j \in 1 .. n
                    BY <4>2, <1>1
                <5> QED
                    BY <5>1, <3>2, <3>3, <1>1, <2>5
            <4> QED
                BY <4>1, <4>2
        <3>4. CASE g # f
            <4>1. k.files[g] = cache[c].files[g]
                BY <2>4, <3>4 DEF Present
            <4> QED
                BY <4>1, <3>2
        <3> QED
            BY <3>3, <3>4
    <2>7. k.map \subseteq File /\ \A g \in k.map : k.files[g].data = Content(g)
        <3>1. k.map \subseteq File \ {f}
            BY <1>1, <2>4 DEF IInv, TypeOK
        <3>2. \A g \in k.map : cache[c].files[g].data = Content(g)
            BY <2>4 DEF IInv, CacheIsWhole
        <3> QED
            BY <2>4, <3>1, <3>2
    <2>8. /\ DOMAIN cache' = Confab
          /\ \A d \in Confab : /\ cache'[d].files \in [File -> FileState]
                               /\ cache'[d].map \subseteq File
          /\ cache'[c] = k
          /\ \A d \in Confab \ {c} : cache'[d] = cache[d]
          /\ FilesOK' /\ CacheIsWhole'
        BY <1>1, <2>2, <2>4, <2>6, <2>7, CacheChanges
    <2>9. /\ task' \in [Confab -> [op : {"idle", "post", "get", "download"},
                                  file : File \cup {0}, n : Nat]]
          /\ task'[c] = Task("download", f, n + 1)
          /\ \A d \in Confab \ {c} : task'[d] = task[d]
        BY <1>1, <2>3, TaskChanges DEF IInv
    <2>10. TypeOK'
        <3>1. \A d \in Confab :
                  /\ task'[d].op # "idle" => up[d] /\ task'[d].file \in File
                  /\ ~ up[d] => cache'[d].map = {} /\ waiting[d] = {}
            BY <1>1, <2>8, <2>9 DEF IInv, TypeOK, Task
        <3> QED
            BY <1>1, <1>3, <2>8, <2>9, <3>1 DEF IInv, TypeOK
    <2>11. DbOK' /\ LocalOK' /\ AddedIsComplete'
        BY <1>1 DEF IInv, DbOK, LocalOK, AddedIsComplete, Complete, Stored
    <2>12. TaskOK'
        <3>1. ASSUME NEW d \in Confab, d # c
              PROVE  UNCHANGED <<task[d], cache[d], waiting[d], local[d]>>
            BY <3>1, <1>1, <1>3, <2>8, <2>9
        <3>2. /\ task'[c].op = "download" /\ task'[c].file = f
              /\ task'[c].n = n + 1
              /\ f \in waiting'[c] /\ f \notin cache'[c].map
              /\ f \in Present(cache'[c].files)
              /\ Len(cache'[c].files[f].data) = n + 1
            BY <1>1, <1>3, <2>4, <2>5, <2>8, <2>9 DEF Task
        <3> QED
            BY <1>1, <3>1, <3>2 DEF IInv, TaskOK, Stored
    <2>13. OnlyHitsUnanswered'
        <3>1. task[c].file = f
            BY DEF f
        <3> QED
            BY <1>1, <1>3, <2>4, <2>8, <2>9, <3>1 DEF IInv, OnlyHitsUnanswered, Task
    <2> QED
        BY <2>8, <2>10, <2>11, <2>12, <2>13 DEF IInv
<1>4. CASE /\ cache' = [cache EXCEPT ![c] = Removed(@, f)]
           /\ Ends(c, {f})
    <2> DEFINE k == Removed(cache[c], f)
    <2>1. k = Removed(cache[c], f) /\ cache' = [cache EXCEPT ![c] = k]
        BY <1>4
    <2> HIDE DEF k
    <2> QED
        BY <1>1, <1>4, <2>1, RemovedIInv
<1> QED
    BY <1>3, <1>4 DEF GetChunk

LEMMA AnswerLoadedIInv ==
    ASSUME IInv, NEW c \in Confab, AnswerLoaded(c)
    PROVE  IInv'
<1> DEFINE f == task[c].file
           k == Entered(cache[c], f)
<1>1. /\ up[c] /\ task[c].op = "download" /\ f \in File
      /\ cache[c].files \in [File -> FileState]
      /\ Ends(c, {f})
      /\ UNCHANGED <<db, serverUp, up, pidFile, local, added, faults>>
    BY DEF AnswerLoaded, At, IInv, TypeOK
<1>2. CASE IsWhole(cache[c], f) /\ cache' = [cache EXCEPT ![c] = k]
    <2>1. /\ k.files = cache[c].files /\ k.map = cache[c].map \cup {f}
          /\ cache[c].files[f].data = Content(f)
        BY <1>2 DEF Entered, IsWhole
    <2>2. cache' = [cache EXCEPT ![c] = k]
        BY <1>2
    <2> HIDE DEF k
    <2>3. /\ \A g \in Present(k.files) :
                /\ AssetKey(g) \in DOMAIN db
                /\ \A j \in 1 .. Len(k.files[g].data) :
                      LET id == k.files[g].data[j] IN Stored(id[1], id[2])
          /\ k.map \subseteq File
          /\ \A g \in k.map : k.files[g].data = Content(g)
        BY <1>1, <2>1 DEF IInv, TypeOK, FilesOK, CacheIsWhole
    <2>4. /\ DOMAIN cache' = Confab
          /\ \A d \in Confab : /\ cache'[d].files \in [File -> FileState]
                               /\ cache'[d].map \subseteq File
          /\ cache'[c] = k
          /\ \A d \in Confab \ {c} : cache'[d] = cache[d]
          /\ FilesOK' /\ CacheIsWhole'
        BY <1>1, <2>1, <2>2, <2>3, CacheChanges
    <2>5. cache[c].map \subseteq cache'[c].map
        BY <2>1, <2>4
    <2> QED
        BY <1>1, <2>4, <2>5, LoadEnds
<1>3. CASE cache' = [cache EXCEPT ![c] = Removed(@, f)]
    <2> DEFINE removed == Removed(cache[c], f)
    <2>1. removed = Removed(cache[c], f) /\ cache' = [cache EXCEPT ![c] = removed]
        BY <1>3
    <2> HIDE DEF removed
    <2> QED
        BY <1>1, <2>1, RemovedIInv
<1> QED
    BY <1>2, <1>3 DEF AnswerLoaded

----------------------------------------------------------------------------
(***************************************************************************)
(* Invariance                                                              *)
(***************************************************************************)
LEMMA NextIInv == IInv /\ [Next]_vars => IInv'
<1> SUFFICES ASSUME IInv, [Next]_vars PROVE IInv'
    OBVIOUS
<1>1. ASSUME NEW c \in Confab, Step(c) PROVE IInv'
    <2>1. CASE PostRecord(c)
        BY <2>1, PostRecordIInv
    <2>2. CASE PostChunk(c)
        BY <2>2, PostChunkIInv
    <2>3. CASE AnswerAdded(c)
        BY <2>3, AnswerAddedIInv
    <2>4. CASE GetRecord(c)
        BY <2>4, GetRecordIInv
    <2>5. CASE GetChunk(c)
        BY <2>5, GetChunkIInv
    <2>6. CASE AnswerLoaded(c)
        BY <2>6, AnswerLoadedIInv
    <2>7. CASE Rejected(c)
        <3>1. /\ up[c] /\ Dies(c) /\ UNCHANGED <<db, serverUp>>
              /\ faults' \in 0 .. MaxFaults
            BY <2>7, FaultCounts DEF Rejected, At, IInv
        <3> QED
            BY <3>1, DiesIInv
    <2> QED
        BY <1>1, <2>1, <2>2, <2>3, <2>4, <2>5, <2>6, <2>7 DEF Step
<1>2. ASSUME NEW c \in Confab, Crash(c) PROVE IInv'
    <2>1. /\ up[c] /\ Dies(c) /\ UNCHANGED <<db, serverUp>>
          /\ faults' \in 0 .. MaxFaults
        BY <1>2, FaultCounts DEF Crash, IInv
    <2> QED
        BY <2>1, DiesIInv
<1>3. CASE UNCHANGED vars
    <2>1. UNCHANGED <<db, serverUp, up, pidFile, local, cache, task, waiting, added, faults>>
        BY <1>3 DEF vars
    <2>2. TypeOK' /\ DbOK' /\ LocalOK' /\ FilesOK'
        BY <2>1 DEF IInv, TypeOK, DbOK, LocalOK, FilesOK, Stored
    <2>3. TaskOK' /\ CacheIsWhole' /\ AddedIsComplete' /\ OnlyHitsUnanswered'
        BY <2>1
        DEF IInv, TaskOK, CacheIsWhole, AddedIsComplete, Complete, Stored,
            OnlyHitsUnanswered
    <2> QED
        BY <2>2, <2>3 DEF IInv
<1> QED
    BY <1>1, <1>2, <1>3, StartIInv, ServerIInv, AddAssetFileIInv, LoadAssetIInv
    DEF Next

THEOREM Invariance == Spec => []IInv
<1>1. Init => IInv
    BY InitIInv
<1>2. IInv /\ [Next]_vars => IInv'
    BY NextIInv
<1> QED
    BY <1>1, <1>2, PTL DEF Spec

(* The variables keep their types.                                         *)
THEOREM TypeCorrect == Spec => []TypeOK
<1>1. IInv => TypeOK
    BY DEF IInv
<1> QED
    BY <1>1, Invariance, PTL

(* Whatever fails, every file a confab has entered into its cache has the  *)
(* whole content of the asset (CacheManager.cpp:144, 162).                 *)
THEOREM WholeCaches == Spec => []CacheIsWhole
<1>1. IInv => CacheIsWhole
    BY DEF IInv
<1> QED
    BY <1>1, Invariance, PTL

(* Whatever fails, the server has all of a file whose key it has answered  *)
(* (HttpClient.cpp:389).                                                   *)
THEOREM CompleteUploads == Spec => []AddedIsComplete
<1>1. IInv => AddedIsComplete
    BY DEF IInv
<1> QED
    BY <1>1, Invariance, PTL

(* No load but a hit is forgotten (CacheManager.cpp:101, 109).             *)
THEOREM MissesAnswered == Spec => []OnlyHitsUnanswered
<1>1. IInv => OnlyHitsUnanswered
    BY DEF IInv
<1> QED
    BY <1>1, Invariance, PTL

----------------------------------------------------------------------------
(***************************************************************************)
(* Loads that fail                                                         *)
(***************************************************************************)
(* A confab has a new file in its cache after the last chunk of a download *)
(* or when it starts.                                                      *)
LEMMA MapGrows ==
    ASSUME IInv, Next, NEW c \in Confab, up[c],
           NEW f \in cache'[c].map \ cache[c].map
    PROVE  /\ AnswerLoaded(c)
           /\ f = task[c].file
           /\ IsWhole(cache[c], f)
<1>1. DOMAIN cache = Confab
    BY DEF IInv, TypeOK
<1>2. ASSUME NEW d \in Confab, Dies(d) PROVE FALSE
    <2>1. PICK k : cache' = [cache EXCEPT ![d] = k] /\ k.map = {}
        BY <1>2, DeadHoldsNothing
    <2> QED
        BY <1>1, <2>1
<1>3. ASSUME NEW d \in Confab, NEW g \in File, Downloads(d, g) PROVE FALSE
    BY <1>1, <1>3 DEF Downloads, Opened
<1>4. ASSUME NEW d \in Confab, GetChunk(d) PROVE FALSE
    <2>1. PICK k : cache' = [cache EXCEPT ![d] = k] /\ k.map = cache[d].map
        BY <1>4 DEF GetChunk, Written, Removed
    <2> QED
        BY <1>1, <2>1
<1>5. ASSUME NEW d \in Confab, AnswerLoaded(d)
      PROVE  d = c /\ f = task[c].file /\ IsWhole(cache[c], f)
    <2> DEFINE g == task[d].file
    <2>1. CASE ~ IsWhole(cache[d], g)
        <3>1. cache' = [cache EXCEPT ![d] = Removed(@, g)]
            BY <1>5, <2>1 DEF AnswerLoaded
        <3> QED
            BY <1>1, <3>1 DEF Removed
    <2>2. CASE IsWhole(cache[d], g)
        <3>1. cache' = [cache EXCEPT ![d] = Entered(@, g)]
            BY <1>5, <2>2 DEF AnswerLoaded
        <3>2. d = c
            BY <1>1, <3>1
        <3>3. cache'[c].map = cache[c].map \cup {g}
            BY <1>1, <3>1, <3>2 DEF Entered
        <3> QED
            BY <2>2, <3>2, <3>3
    <2> QED
        BY <2>1, <2>2
<1>6. ASSUME NEW d \in Confab, Start(d) PROVE FALSE
    <2>1. d # c /\ (UNCHANGED cache \/ cache' = [cache EXCEPT ![d] = checkExistingEntries(@)])
        BY <1>6 DEF Start
    <2> QED
        BY <1>1, <2>1
<1>7. cache' # cache
    OBVIOUS
<1>8. ASSUME NEW d \in Confab, Step(d) PROVE AnswerLoaded(d)
    <2>1. task[d].op = "get" => task[d].file \in File
        BY DEF IInv, TypeOK
    <2> QED
        BY <1>2, <1>3, <1>4, <1>7, <1>8, <2>1
        DEF Step, PostRecord, PostChunk, Answered, AnswerAdded, GetRecord, At, Rejected
<1> QED
    BY <1>2, <1>3, <1>5, <1>6, <1>7, <1>8
    DEF Next, Crash, RemovePidFile, AddAssetFile, LoadAsset, ServerStops, ServerStarts

(* The record a confab holds of the file it downloads.                     *)
LEMMA RecordHeld ==
    ASSUME IInv, NEW c \in Confab, task[c].op = "download"
    PROVE  /\ task[c].file \in File
           /\ Announced(c, task[c].file) = Size[task[c].file] \div ChunkSize + 1
<1> DEFINE f == task[c].file
<1>1. f \in File /\ AssetKey(f) \in DOMAIN db
    BY DEF IInv, TypeOK, TaskOK, FilesOK
<1> HIDE DEF f
<1>2. db[AssetKey(f)] = RecordOf(f)
    <2>1. findAsset(db, f) = AssetKey(f) /\ getAsset(db, f).record = AssetKey(f)
        BY <1>1, RecordFound DEF getAsset, Found
    <2> QED
        BY <1>1, <2>1, RecordAnswered DEF IInv
<1>3. findAsset(local[c], f) # EmptyRecord =>
          /\ findAsset(local[c], f) = AssetKey(f)
          /\ local[c][AssetKey(f)] = RecordOf(f)
    BY <1>1, RecordFound DEF IInv, LocalOK
<1> QED
    BY <1>1, <1>2, <1>3 DEF RecordOf, Announced, f

----------------------------------------------------------------------------
(***************************************************************************)
(* The refinement                                                          *)
(***************************************************************************)
(* A file with the whole content was read from a server that has it all.   *)
LEMMA WholeIsComplete ==
    ASSUME FilesOK, NEW c \in Confab, NEW f \in File,
           cache[c].files[f].data = Content(f)
    PROVE  Complete(f)
<1>1. /\ Chunks(f) \in Nat \ {0}
      /\ Len(Content(f)) = Chunks(f)
      /\ \A i \in 1 .. Chunks(f) : Content(f)[i] = <<f, i - 1>>
    BY ChunksType, ContentType
<1>2. f \in Present(cache[c].files)
    <2>1. Len(NoFile.data) = 0
        BY DEF NoFile
    <2> QED
        BY <1>1, <2>1 DEF Present
<1>3. /\ AssetKey(f) \in DOMAIN db
      /\ \A i \in 1 .. Chunks(f) : Stored(f, i - 1)
    BY <1>1, <1>2 DEF FilesOK
<1>4. ASSUME NEW i \in 0 .. Chunks(f) - 1 PROVE Stored(f, i)
    <2>1. i + 1 \in 1 .. Chunks(f) /\ (i + 1) - 1 = i
        BY <1>1
    <2> QED
        BY <1>3, <2>1
<1> QED
    BY <1>3, <1>4 DEF Complete

(* A post changes the library by no asset but its own.                     *)
LEMMA PostPublishes ==
    ASSUME IInv, NEW c \in Confab, PostRecord(c) \/ PostChunk(c),
           NEW f, f = task[c].file
    PROVE  LET before == {g \in File : Complete(g)}
               after == {g \in File : Complete(g)'}
           IN  after = before \/ after = before \cup {f}
<1> DEFINE n == task[c].n
<1>1. /\ DOMAIN db \subseteq DOMAIN db'
      /\ \A k \in DOMAIN db' \ DOMAIN db :
            \/ k = AssetKey(f)
            \/ k = ListEntryKey(List, Now, f)
            \/ k = AssetDataKey(f, n - 1)
    BY PostRecordIInv, PostChunkIInv
<1>2. f \in File
    BY DEF IInv, TypeOK, PostRecord, PostChunk, At
<1> HIDE DEF n
<1>3. ASSUME NEW g \in File PROVE Complete(g) => Complete(g)'
    BY <1>1 DEF Complete, Stored
<1>4. ASSUME NEW g \in File, g # f, Complete(g)' PROVE Complete(g)
    <2>1. AssetKey(g) \in DOMAIN db
        <3>1. AssetKey(g) \in DOMAIN db'
            BY <1>4 DEF Complete
        <3>2. /\ AssetKey(g) # AssetKey(f)
              /\ AssetKey(g) # ListEntryKey(List, Now, f)
              /\ AssetKey(g) # AssetDataKey(f, n - 1)
            BY <1>4, KeysDiffer DEF kAsset, kAssetData, kListEntry
        <3> QED
            BY <1>1, <3>1, <3>2
    <2>2. ASSUME NEW i \in 0 .. Chunks(g) - 1 PROVE Stored(g, i)
        <3>1. AssetDataKey(g, i) \in DOMAIN db'
            BY <1>4 DEF Complete, Stored
        <3>2. /\ AssetDataKey(g, i) # AssetKey(f)
              /\ AssetDataKey(g, i) # ListEntryKey(List, Now, f)
              /\ AssetDataKey(g, i) # AssetDataKey(f, n - 1)
            BY <1>4, KeysDiffer DEF kAsset, kAssetData, kListEntry
        <3> QED
            BY <1>1, <3>1, <3>2 DEF Stored
    <2> QED
        BY <2>1, <2>2 DEF Complete
<1>5. CASE Complete(f)' /\ ~ Complete(f)
    <2>1. \A g \in File : Complete(g)' <=> Complete(g) \/ g = f
        BY <1>2, <1>3, <1>4, <1>5
    <2> QED
        BY <1>2, <2>1
<1>6. CASE ~ (Complete(f)' /\ ~ Complete(f))
    <2>1. \A g \in File : Complete(g)' <=> Complete(g)
        BY <1>2, <1>3, <1>4, <1>6
    <2> QED
        BY <2>1
<1> QED
    BY <1>5, <1>6

(* Every step is one of the library, or changes nothing of it.             *)
LEMMA LibrarySteps ==
    ASSUME IInv, [Next]_vars
    PROVE  [Library!Next]_(Library!vars)
<1> DEFINE library == {f \in File : Complete(f)}
           held == [c \in Confab |-> cache[c].map]
<1>1. DOMAIN cache = Confab
    BY DEF IInv, TypeOK
<1>2. UNCHANGED db => UNCHANGED library
    BY DEF Complete, Stored
<1>3. ASSUME UNCHANGED db, \A d \in Confab : cache'[d].map = cache[d].map
      PROVE  UNCHANGED Library!vars
    BY <1>2, <1>3 DEF Library!vars
<1>4. ASSUME NEW c \in Confab, NEW k, UNCHANGED db,
             cache' = [cache EXCEPT ![c] = k]
      PROVE  UNCHANGED library /\ held' = [held EXCEPT ![c] = k.map]
    BY <1>1, <1>2, <1>4
<1>5. ASSUME NEW c \in Confab, PostRecord(c) \/ PostChunk(c)
      PROVE  [Library!Next]_(Library!vars)
    <2>1. UNCHANGED held
        BY <1>5 DEF PostRecord, PostChunk, Answered
    <2>2. PICK f \in File : f = task[c].file
        BY <1>5 DEF IInv, TypeOK, PostRecord, PostChunk, At
    <2>3. library' = library \/ library' = library \cup {f}
        BY <1>5, <2>2, PostPublishes
    <2> QED
        BY <2>1, <2>3 DEF Library!Next, Library!Publish, Library!vars
<1>6. ASSUME NEW c \in Confab, AnswerLoaded(c)
      PROVE  [Library!Next]_(Library!vars)
    <2>1. PICK f \in File : f = task[c].file
        BY <1>6 DEF IInv, TypeOK, AnswerLoaded, At
    <2>2. UNCHANGED db
        BY <1>6 DEF AnswerLoaded
    <2>3. CASE IsWhole(cache[c], f)
        <3>1. f \in library
            BY <2>1, <2>3, WholeIsComplete DEF IsWhole, IInv
        <3>2. UNCHANGED library /\ held' = [held EXCEPT ![c] = @ \cup {f}]
            <4>1. cache' = [cache EXCEPT ![c] = Entered(cache[c], f)]
                BY <1>6, <2>1, <2>3 DEF AnswerLoaded
            <4>2. Entered(cache[c], f).map = cache[c].map \cup {f}
                BY DEF Entered
            <4> QED
                BY <1>4, <2>2, <4>1, <4>2
        <3> QED
            BY <3>1, <3>2 DEF Library!Next, Library!Fetch
    <2>4. CASE ~ IsWhole(cache[c], f)
        <3>1. cache' = [cache EXCEPT ![c] = Removed(cache[c], f)]
            BY <1>6, <2>1, <2>4 DEF AnswerLoaded
        <3>2. \A d \in Confab : cache'[d].map = cache[d].map
            BY <1>1, <3>1 DEF Removed
        <3> QED
            BY <1>3, <2>2, <3>2
    <2> QED
        BY <2>3, <2>4
<1>7. ASSUME NEW c \in Confab, Dies(c), UNCHANGED db
      PROVE  [Library!Next]_(Library!vars)
    <2>1. PICK k : cache' = [cache EXCEPT ![c] = k] /\ k.map = {}
        BY <1>7, DeadHoldsNothing
    <2>2. UNCHANGED library /\ held' = [held EXCEPT ![c] = {}]
        BY <1>4, <1>7, <2>1
    <2> QED
        BY <2>2 DEF Library!Next, Library!Stop
<1>8. ASSUME NEW c \in Confab, Start(c)
      PROVE  [Library!Next]_(Library!vars)
    <2>1. UNCHANGED db /\ ~ up[c]
        BY <1>8 DEF Start
    <2>2. CASE UNCHANGED cache
        BY <1>3, <2>1, <2>2
    <2>3. CASE cache' = [cache EXCEPT ![c] = checkExistingEntries(cache[c])]
        <3> DEFINE k == checkExistingEntries(cache[c])
        <3>1. k.map \in SUBSET library
            <4>1. /\ k.map \subseteq File
                  /\ \A f \in k.map : cache[c].files[f].data = Content(f)
                BY Checked
            <4> HIDE DEF k
            <4>2. \A f \in k.map : Complete(f)
                BY <4>1, WholeIsComplete DEF IInv
            <4> QED
                BY <4>1, <4>2
        <3>2. held[c] = {}
            BY <2>1 DEF IInv, TypeOK
        <3>3. UNCHANGED library /\ held' = [held EXCEPT ![c] = k.map]
            BY <1>4, <2>1, <2>3
        <3> HIDE DEF k
        <3> QED
            BY <3>1, <3>2, <3>3 DEF Library!Next, Library!Recover
    <2> QED
        BY <1>8, <2>2, <2>3 DEF Start
<1>9. ASSUME NEW c \in Confab, NEW f \in File, Downloads(c, f), UNCHANGED db
      PROVE  UNCHANGED Library!vars
    <2>1. \A d \in Confab : cache'[d].map = cache[d].map
        BY <1>1, <1>9 DEF Downloads, Opened
    <2> QED
        BY <1>3, <1>9, <2>1
<1>10. ASSUME NEW c \in Confab, GetChunk(c)
       PROVE  UNCHANGED Library!vars
    <2>1. PICK k : cache' = [cache EXCEPT ![c] = k] /\ k.map = cache[c].map
        BY <1>10 DEF GetChunk, Written, Removed
    <2>2. \A d \in Confab : cache'[d].map = cache[d].map
        BY <1>1, <2>1
    <2> QED
        BY <1>3, <1>10, <2>2 DEF GetChunk
<1>11. ASSUME UNCHANGED <<db, cache>> PROVE UNCHANGED Library!vars
    BY <1>3, <1>11
<1>12. ASSUME NEW c \in Confab, Step(c)
       PROVE  [Library!Next]_(Library!vars)
    <2>1. CASE AnswerAdded(c)
        BY <1>11, <2>1 DEF AnswerAdded
    <2>2. CASE GetRecord(c)
        <3>1. task[c].file \in File /\ UNCHANGED db
            BY <2>2 DEF GetRecord, At, IInv, TypeOK
        <3> QED
            BY <1>9, <1>11, <2>2, <3>1 DEF GetRecord
    <2>3. CASE Rejected(c)
        BY <1>7, <2>3 DEF Rejected
    <2> QED
        BY <1>5, <1>6, <1>10, <1>12, <2>1, <2>2, <2>3 DEF Step
<1>13. ASSUME NEW c \in Confab, NEW f \in File, LoadAsset(c, f)
       PROVE  UNCHANGED Library!vars
    BY <1>9, <1>11, <1>13 DEF LoadAsset
<1>14. ASSUME NEW c \in Confab, Crash(c)
       PROVE  [Library!Next]_(Library!vars)
    BY <1>7, <1>14 DEF Crash
<1>15. ASSUME \/ ServerStops \/ ServerStarts \/ UNCHANGED vars
              \/ \E c \in Confab : \/ RemovePidFile(c)
                                   \/ \E f \in File : AddAssetFile(c, f)
       PROVE  UNCHANGED Library!vars
    BY <1>11, <1>15 DEF ServerStops, ServerStarts, vars, RemovePidFile, AddAssetFile
<1> QED
    BY <1>8, <1>12, <1>13, <1>14, <1>15 DEF Next

(* The server and the caches are an asset library: what a confab holds it  *)
(* got whole from the server, which never loses an asset.                  *)
THEOREM Refinement == Spec => ImplementsAssetLibrary
<1>1. Init => Library!Init
    <2> SUFFICES ASSUME Init PROVE Library!Init
        OBVIOUS
    <2>1. {f \in File : Complete(f)} = {}
        BY DEF Init, Complete
    <2>2. [c \in Confab |-> cache[c].map] = [c \in Confab |-> {}]
        BY DEF Init, NewCache
    <2> QED
        BY <2>1, <2>2 DEF Library!Init
<1>2. IInv /\ [Next]_vars => [Library!Next]_(Library!vars)
    BY LibrarySteps
<1> QED
    BY <1>1, <1>2, Invariance, PTL DEF Spec, ImplementsAssetLibrary, Library!Spec

----------------------------------------------------------------------------
(***************************************************************************)
(* Loads of what the server has                                            *)
(***************************************************************************)
LEMMA PrefixGrows ==
    ASSUME NEW f \in File, NEW n \in 0 .. Chunks(f) - 1
    PROVE  /\ SubSeq(Content(f), 1, 0) = <<>>
           /\ SubSeq(Content(f), 1, Chunks(f)) = Content(f)
           /\ Append(SubSeq(Content(f), 1, n), <<f, n>>) = SubSeq(Content(f), 1, n + 1)
<1> DEFINE s == Content(f)
<1>1. /\ s \in Seq(ChunkIds)
      /\ Len(s) \in Nat /\ Len(s) = Chunks(f)
      /\ n \in Nat /\ n < Len(s)
      /\ s[n + 1] = <<f, n>>
    <2>1. Chunks(f) \in Nat \ {0} /\ n + 1 \in 1 .. Chunks(f) /\ (n + 1) - 1 = n
        BY ChunksType
    <2> QED
        BY <2>1, ContentType
<1> HIDE DEF s
<1>2. SubSeq(s, 1, 0) = <<>> /\ SubSeq(s, 1, Len(s)) = s
    BY <1>1
<1>3. Append(SubSeq(s, 1, n), s[n + 1]) = SubSeq(s, 1, n + 1)
    BY <1>1
<1> QED
    BY <1>1, <1>2, <1>3 DEF s

(* A chunk that is stored is what its request is answered with.            *)
LEMMA ChunkSent ==
    ASSUME DbOK, NEW f \in File, Complete(f), NEW n \in 0 .. Chunks(f) - 1
    PROVE  LET record == getAssetData(db, f, n).record
           IN  Verifies(record) /\ db[record] = ChunkOf(f, n)
<1> DEFINE key == AssetDataKey(f, n)
<1>1. key \in DOMAIN db /\ key[1] = kAssetData
    BY KeysDiffer DEF Complete, Stored
<1>2. ~ Before(key, key)
    <2>1. f \in Nat /\ n \in Nat
        BY FileAssumption, ChunksType
    <2>2. \A i \in 1 .. 4 : key[i] \in Nat
        BY <2>1 DEF AssetDataKey, kAssetData
    <2>3. ASSUME NEW m \in Nat PROVE ~ BytesBefore(m, m)
        <3>1. m % Byte \in Nat
            BY ByteAssumption, DivMod
        <3> QED
            BY <3>1 DEF BytesBefore
    <2> HIDE DEF key
    <2> QED
        BY <2>2, <2>3 DEF Before
<1>3. getAssetData(db, f, n).record = key
    <2> HIDE DEF key
    <2>1. Seek(db, key) = key
        BY <1>1, <1>2 DEF Seek
    <2>2. getAssetData(db, f, n) = Found(Seek(db, key))
        BY DEF getAssetData, loadAssetDataChunk, key
    <2> QED
        BY <2>1, <2>2 DEF Found
<1>4. PICK g \in File : \E i \in 0 .. Chunks(g) - 1 :
          key = AssetDataKey(g, i) /\ db[key] = ChunkOf(g, i)
    <2> HIDE DEF key
    <2> QED
        BY <1>1 DEF DbOK
<1>5. db[key] = ChunkOf(f, n)
    <2>1. PICK i \in 0 .. Chunks(g) - 1 :
              key = AssetDataKey(g, i) /\ db[key] = ChunkOf(g, i)
        BY <1>4
    <2>2. g = f /\ i = n
        BY <2>1, KeysDiffer
    <2> QED
        BY <2>1, <2>2
<1> HIDE DEF key
<1> QED
    BY <1>1, <1>3, <1>5 DEF Verifies

(* A download begins with the part of the content that has no chunk.       *)
LEMMA NotMixedAtStart ==
    ASSUME IInv, NEW c \in Confab, NEW f \in File, Downloads(c, f)
    PROVE  ~ Mixed(c)' /\ task'[c] # Idle
<1>1. /\ DOMAIN cache = Confab /\ DOMAIN task = Confab
      /\ cache[c].files \in [File -> FileState]
    BY DEF IInv, TypeOK
<1>2. /\ task'[c] = Task("download", f, 0)
      /\ cache'[c] = Opened(cache[c], f)
    BY <1>1 DEF Downloads
<1>3. Opened(cache[c], f).files[f].data = <<>>
    BY <1>1, FileOpened
<1>4. SubSeq(Content(f), 1, 0) = <<>>
    <2>1. 0 \in 0 .. Chunks(f) - 1
        BY ChunksType
    <2> QED
        BY <2>1, PrefixGrows
<1>5. task'[c].op = "download" /\ task'[c].file = f /\ task'[c].n = 0
    BY <1>2 DEF Task
<1>6. cache'[c].files[f].data = SubSeq(Content(f), 1, 0)
    BY <1>2, <1>3, <1>4
<1>7. cache'[c].files[task'[c].file].data = SubSeq(Content(task'[c].file), 1, task'[c].n)
    BY <1>5, <1>6, Zenon
<1>8. task'[c] # Idle
    BY <1>5 DEF Idle
<1> QED
    BY <1>7, <1>8 DEF Mixed

(* A command that is not a load has no part in one that goes wrong.        *)
LEMMA NoLoadNoFailure ==
    ASSUME IInv, NEW c \in Confab, task[c].op \notin {"get", "download"},
           task'[c].op # "download"
    PROVE  ~ LoadFails(c) /\ ~ Mixed(c)'
BY DEF LoadFails, Mixed

LEMMA GoodChunk ==
    ASSUME IInv, NEW c \in Confab, GetChunk(c), NEW f \in File, f = task[c].file,
           Complete(f), Size[f] % ChunkSize # 0, ~ Mixed(c)
    PROVE  ~ LoadFails(c) /\ ~ Mixed(c)'
<1> DEFINE n == task[c].n
           record == getAssetData(db, f, n).record
           data == cache[c].files[f].data
<1>1. /\ task[c].op = "download" /\ n \in Nat
      /\ n < Announced(c, task[c].file)
      /\ cache[c].files \in [File -> FileState]
      /\ DOMAIN cache = Confab /\ DOMAIN task = Confab
    BY DEF GetChunk, At, IInv, TypeOK
<1>2. Chunks(f) = Size[f] \div ChunkSize + 1
    BY ChunksAnnounced
<1>3. n \in 0 .. Chunks(f) - 1
    <2>1. n < Chunks(f) /\ Chunks(f) \in Nat
        BY <1>1, <1>2, RecordHeld, ChunksType
    <2> QED
        BY <1>1, <2>1
<1>4. Verifies(record) /\ db[record] = ChunkOf(f, n)
    <2> HIDE DEF n
    <2> QED
        BY <1>3, ChunkSent DEF IInv
<1>5. data = SubSeq(Content(f), 1, n)
    BY <1>1 DEF Mixed
<1>6. Append(data, <<f, n>>) = SubSeq(Content(f), 1, n + 1)
    <2> HIDE DEF n, data
    <2> QED
        BY <1>3, <1>5, PrefixGrows
<1> HIDE DEF n, record, data
<1>7. /\ ChunkOf(f, n).data = <<f, n>>
      /\ ChunkOf(f, n).hash = SubSeq(Content(f), 1, n + 1)
    BY DEF ChunkOf
<1>8. ChunkFits(cache[c], f, db[record])
    BY <1>4, <1>6, <1>7 DEF ChunkFits, data
<1>9. /\ cache' = [cache EXCEPT ![c] = Written(@, f, db[record])]
      /\ task' = [task EXCEPT ![c].n = @ + 1]
    BY <1>4, <1>8 DEF GetChunk, n, record
<1>10. /\ task'[c].op = "download" /\ task'[c].file = f /\ task'[c].n = n + 1
    BY <1>1, <1>9 DEF n, IInv, TypeOK
<1>11. cache'[c].files[f].data = Append(data, <<f, n>>)
    <2>1. cache'[c].files = [cache[c].files EXCEPT ![f].data = Append(@, db[record].data)]
        BY <1>1, <1>9 DEF Written
    <2>2. cache'[c].files[f] = [cache[c].files[f] EXCEPT !.data = Append(@, db[record].data)]
        BY <1>1, <2>1
    <2>3. cache[c].files[f] \in FileState
        BY <1>1
    <2> QED
        BY <1>4, <1>7, <2>2, <2>3 DEF FileState, data
<1>12. cache'[c].files[f].data = SubSeq(Content(f), 1, n + 1)
    BY <1>6, <1>11
<1>13. cache'[c].files[task'[c].file].data = SubSeq(Content(task'[c].file), 1, task'[c].n)
    BY <1>10, <1>12, Zenon
<1>14. task'[c] # Idle
    BY <1>10 DEF Idle
<1> QED
    BY <1>13, <1>14 DEF LoadFails, Mixed

LEMMA GoodEnd ==
    ASSUME IInv, NEW c \in Confab, AnswerLoaded(c), NEW f \in File, f = task[c].file,
           Size[f] % ChunkSize # 0, ~ Mixed(c)
    PROVE  ~ LoadFails(c) /\ ~ Mixed(c)'
<1>1. /\ task[c].op = "download"
      /\ task[c].n = Chunks(f)
      /\ DOMAIN cache = Confab /\ DOMAIN task = Confab
      /\ task' = [task EXCEPT ![c] = Idle]
    BY RecordHeld, ChunksAnnounced DEF AnswerLoaded, At, Ends, IInv, TypeOK
<1>2. cache[c].files[f].data = Content(f)
    <2>1. 0 \in 0 .. Chunks(f) - 1
        BY ChunksType
    <2>2. SubSeq(Content(f), 1, Chunks(f)) = Content(f)
        BY <2>1, PrefixGrows
    <2> QED
        BY <1>1, <2>2 DEF Mixed
<1>3. cache' = [cache EXCEPT ![c] = Entered(@, f)]
    BY <1>2 DEF AnswerLoaded, IsWhole
<1>4. f \in cache'[c].map /\ task'[c] = Idle
    BY <1>1, <1>3 DEF Entered
<1> QED
    BY <1>4 DEF LoadFails, Mixed, Idle

LEMMA LoadsStep ==
    ASSUME IInv, Next, NEW c \in Confab,
           ~ Mixed(c), Complete(task[c].file), Size[task[c].file] % ChunkSize # 0
    PROVE  ~ LoadFails(c) /\ ~ Mixed(c)'
<1>1. DOMAIN cache = Confab /\ DOMAIN task = Confab
    BY DEF IInv, TypeOK
<1>2. CASE UNCHANGED <<task[c], cache[c]>>
    <2>1. task'[c] = task[c] /\ cache'[c] = cache[c]
        BY <1>2
    <2>2. Idle.op = "idle"
        BY DEF Idle
    <2>3. ~ LoadFails(c)
        BY <2>1, <2>2 DEF LoadFails
    <2>4. Mixed(c)' <=> Mixed(c)
        BY <2>1 DEF Mixed
    <2> QED
        BY <2>3, <2>4
<1>3. ASSUME NEW d \in Confab, d # c,
             \/ Step(d) \/ Crash(d) \/ Start(d)
             \/ \E f \in File : AddAssetFile(d, f) \/ LoadAsset(d, f)
      PROVE  UNCHANGED <<task[c], cache[c]>>
    <2>1. UNCHANGED task \/ \E t : task' = [task EXCEPT ![d] = t]
        BY <1>3
        DEF Step, PostRecord, PostChunk, Answered, AnswerAdded, GetRecord, GetChunk,
            AnswerLoaded, Rejected, Crash, Dies, Start, AddAssetFile, LoadAsset,
            Downloads, Ends
    <2>2. UNCHANGED cache \/ \E k : cache' = [cache EXCEPT ![d] = k]
        BY <1>3
        DEF Step, PostRecord, PostChunk, Answered, AnswerAdded, GetRecord, GetChunk,
            AnswerLoaded, Rejected, Crash, Dies, Start, AddAssetFile, LoadAsset,
            Downloads
    <2> QED
        BY <1>1, <1>3, <2>1, <2>2
<1>4. ASSUME Dies(c) PROVE ~ LoadFails(c) /\ ~ Mixed(c)'
    <2>1. task'[c] = Idle /\ (c \in DOMAIN up => ~ up'[c]) /\ DOMAIN up = Confab
        BY <1>1, <1>4 DEF Dies, IInv, TypeOK
    <2> QED
        BY <2>1 DEF LoadFails, Mixed, Idle
<1>5. ASSUME Start(c) PROVE ~ LoadFails(c) /\ ~ Mixed(c)'
    <2>1. task[c].op = "idle" /\ UNCHANGED task
        BY <1>5 DEF Start, IInv, TypeOK
    <2> QED
        BY <2>1, NoLoadNoFailure
<1>6. ASSUME NEW f \in File, AddAssetFile(c, f) PROVE ~ LoadFails(c) /\ ~ Mixed(c)'
    <2>1. task[c].op = "idle" /\ task'[c].op = "post"
        BY <1>1, <1>6 DEF AddAssetFile, At, Task
    <2> QED
        BY <2>1, NoLoadNoFailure
<1>7. ASSUME NEW f \in File, LoadAsset(c, f) PROVE ~ LoadFails(c) /\ ~ Mixed(c)'
    <2>1. task[c].op = "idle"
        BY <1>7 DEF LoadAsset, At
    <2>2. CASE Downloads(c, f)
        BY <2>1, <2>2, NotMixedAtStart DEF LoadFails
    <2>3. CASE ~ Downloads(c, f)
        <3>1. task'[c].op # "download"
            BY <1>1, <1>7, <2>1, <2>3 DEF LoadAsset, Task
        <3> QED
            BY <2>1, <3>1, NoLoadNoFailure
    <2> QED
        BY <2>2, <2>3
<1>8. ASSUME Step(c) PROVE ~ LoadFails(c) /\ ~ Mixed(c)'
    <2>1. CASE PostRecord(c) \/ PostChunk(c) \/ AnswerAdded(c)
        <3>1. task[c].op = "post"
            BY <2>1 DEF PostRecord, PostChunk, AnswerAdded, At
        <3>2. task' = [task EXCEPT ![c] = Idle] \/ task' = [task EXCEPT ![c].n = @ + 1]
            BY <2>1 DEF PostRecord, PostChunk, AnswerAdded, Answered, Ends
        <3>3. task'[c].op # "download"
            BY <1>1, <3>1, <3>2 DEF Idle, IInv, TypeOK
        <3> QED
            BY <3>1, <3>3, NoLoadNoFailure
    <2>2. CASE GetRecord(c)
        <3>1. PICK f \in File : f = task[c].file
            BY <2>2 DEF GetRecord, At, IInv, TypeOK
        <3>2. getAsset(db, f).code = Ok
            <4>1. AssetKey(f) \in DOMAIN db
                BY <3>1 DEF Complete
            <4> QED
                BY <4>1, RecordAnswered DEF IInv
        <3>3. Downloads(c, f)
            BY <2>2, <3>1, <3>2 DEF GetRecord, Ok, Not_Found
        <3> QED
            BY <3>3, NotMixedAtStart DEF LoadFails
    <2>3. CASE GetChunk(c)
        <3>1. PICK f \in File : f = task[c].file
            BY <2>3 DEF GetChunk, At, IInv, TypeOK
        <3> QED
            BY <2>3, <3>1, GoodChunk
    <2>4. CASE AnswerLoaded(c)
        <3>1. PICK f \in File : f = task[c].file
            BY <2>4 DEF AnswerLoaded, At, IInv, TypeOK
        <3> QED
            BY <2>4, <3>1, GoodEnd
    <2>5. CASE Rejected(c)
        BY <1>4, <2>5 DEF Rejected
    <2> QED
        BY <1>8, <2>1, <2>2, <2>3, <2>4, <2>5 DEF Step
<1>9. ASSUME \/ ServerStops \/ ServerStarts
             \/ \E d \in Confab : RemovePidFile(d)
      PROVE  UNCHANGED <<task[c], cache[c]>>
    BY <1>9 DEF ServerStops, ServerStarts, RemovePidFile
<1>10. Crash(c) => Dies(c)
    BY DEF Crash
<1> QED
    BY <1>2, <1>3, <1>4, <1>5, <1>6, <1>7, <1>8, <1>9, <1>10 DEF Next

(* A load fails, or takes a chunk of another file for its own, only of a   *)
(* file that the server has not all of, or whose size is a multiple of the *)
(* chunk size (AssetDatabase.cpp:299).                                     *)
THEOREM CompleteLoads == Spec => LoadsFailOnlyIncomplete
<1> DEFINE Right ==
        \A c \in Confab :
            LoadFails(c) \/ Mixed(c)' =>
                \/ Mixed(c)
                \/ ~ Complete(task[c].file)
                \/ Size[task[c].file] % ChunkSize = 0
<1>1. IInv /\ [Next]_vars => [Right]_vars
    BY LoadsStep
<1>2. Spec => [][Right]_vars
    <2> HIDE DEF Right
    <2> QED
        BY <1>1, Invariance, PTL DEF Spec
<1> QED
    BY <1>2 DEF LoadsFailOnlyIncomplete

----------------------------------------------------------------------------
(***************************************************************************)
(* What is read for a missing chunk                                        *)
(***************************************************************************)
(* The keys of the server are keys, and each record is in its list: both   *)
(* are stored by one write (AssetDatabase.cpp:258-282).                    *)
Listed ==
    /\ AreKeys(DOMAIN db)
    /\ \A f \in File : AssetKey(f) \in DOMAIN db =>
          ListEntryKey(List, Now, f) \in DOMAIN db

LEMMA TransferKeys ==
    ASSUME NEW f \in File, NEW i \in Nat
    PROVE  /\ IsKey(AssetKey(f))
           /\ IsKey(ListEntryKey(List, Now, f))
           /\ IsKey(AssetDataKey(f, i))
BY FileAssumption
DEF IsKey, AssetKey, ListEntryKey, AssetDataKey, kAsset, kListEntry, kAssetData, List, Now

LEMMA PostRecordListed ==
    ASSUME IInv, Listed, NEW c \in Confab, PostRecord(c)
    PROVE  Listed'
<1> DEFINE f == task[c].file
           entry == ListEntryKey(List, Now, f)
           stored == storeAsset(db, f, RecordOf(f), Now)
<1>1. f \in File
    BY DEF PostRecord, At, IInv, TypeOK
<1>2. PICK written \in BOOLEAN : Answered(c, postAsset(db, f, RecordOf(f), Now, written))
    BY DEF PostRecord
<1>3. db' = IF written THEN stored ELSE db
    BY <1>2 DEF Answered, postAsset, Posted
<1>4. DOMAIN stored = DOMAIN db \cup {AssetKey(f), entry}
    BY <1>1, RecordStored
<1> HIDE DEF stored
<1>5. CASE ~ written
    <2>1. db' = db
        BY <1>3, <1>5
    <2> QED
        BY <2>1 DEF Listed
<1>6. CASE written
    <2>1. DOMAIN db' = DOMAIN db \cup {AssetKey(f), entry}
        BY <1>3, <1>4, <1>6
    <2>2. IsKey(AssetKey(f)) /\ IsKey(entry)
        BY <1>1, TransferKeys
    <2>3. IsFiniteSet(DOMAIN db \cup {AssetKey(f), entry})
        <3>1. /\ IsFiniteSet(DOMAIN db \cup {AssetKey(f)})
              /\ (DOMAIN db \cup {AssetKey(f)}) \cup {entry} = DOMAIN db \cup {AssetKey(f), entry}
            BY FS_AddElement DEF Listed, AreKeys
        <3>2. IsFiniteSet((DOMAIN db \cup {AssetKey(f)}) \cup {entry})
            BY <3>1, FS_AddElement
        <3> QED
            BY <3>1, <3>2
    <2>4. ASSUME NEW g \in File, AssetKey(g) \in DOMAIN db'
          PROVE  ListEntryKey(List, Now, g) \in DOMAIN db'
        <3>1. AssetKey(g) # entry
            BY KeysDiffer DEF kAsset, kListEntry
        <3>2. CASE AssetKey(g) = AssetKey(f)
            <4>1. g = f
                BY <3>2, KeysDiffer
            <4> QED
                BY <4>1, <2>1
        <3>3. CASE AssetKey(g) # AssetKey(f)
            BY <3>1, <3>3, <2>1, <2>4 DEF Listed
        <3> QED
            BY <3>2, <3>3
    <2>5. AreKeys(DOMAIN db')
        <3>1. \A k \in DOMAIN db \cup {AssetKey(f), entry} : IsKey(k)
            BY <2>2 DEF Listed, AreKeys
        <3> QED
            BY <2>1, <2>3, <3>1 DEF AreKeys
    <2> QED
        BY <2>4, <2>5 DEF Listed
<1> QED
    BY <1>5, <1>6

LEMMA PostChunkListed ==
    ASSUME IInv, Listed, NEW c \in Confab, PostChunk(c)
    PROVE  Listed'
<1> DEFINE f == task[c].file
           i == task[c].n - 1
           chunk == AssetDataKey(f, i)
<1>1. f \in File /\ i \in Nat
    <2>1. f \in File /\ task[c].n \in 1 .. Chunks(f)
        BY DEF PostChunk, At, IInv, TypeOK
    <2> QED
        BY <2>1, ChunksType
<1>2. /\ DOMAIN db \subseteq DOMAIN db'
      /\ DOMAIN db' \subseteq DOMAIN db \cup {chunk}
    BY PostChunkIInv
<1>3. IsKey(chunk) /\ chunk[1] = kAssetData
    BY <1>1, TransferKeys, KeysDiffer
<1> HIDE DEF f, i, chunk
<1>4. IsFiniteSet(DOMAIN db')
    <2>1. IsFiniteSet(DOMAIN db \cup {chunk})
        BY FS_AddElement DEF Listed, AreKeys
    <2> QED
        BY <2>1, <1>2, FS_Subset
<1>5. \A k \in DOMAIN db' : IsKey(k)
    BY <1>2, <1>3 DEF Listed, AreKeys
<1>6. ASSUME NEW g \in File, AssetKey(g) \in DOMAIN db'
      PROVE  ListEntryKey(List, Now, g) \in DOMAIN db'
    <2>1. AssetKey(g) # chunk
        BY <1>3, KeysDiffer DEF kAsset, kAssetData
    <2>2. AssetKey(g) \in DOMAIN db
        BY <2>1, <1>2, <1>6
    <2> QED
        BY <2>2, <1>2 DEF Listed
<1> QED
    BY <1>4, <1>5, <1>6 DEF Listed, AreKeys

(* Only posts change the database of the server.                           *)
LEMMA ListedStep ==
    ASSUME IInv, Listed, [Next]_vars
    PROVE  Listed'
<1>1. ASSUME db' = db PROVE Listed'
    BY <1>1 DEF Listed
<1>2. ASSUME NEW c \in Confab, Step(c) PROVE Listed'
    <2>1. CASE PostRecord(c)
        BY <2>1, PostRecordListed
    <2>2. CASE PostChunk(c)
        BY <2>2, PostChunkListed
    <2>3. CASE AnswerAdded(c) \/ GetRecord(c) \/ GetChunk(c) \/ AnswerLoaded(c) \/ Rejected(c)
        <3>1. db' = db
            BY <2>3, Zenon DEF AnswerAdded, GetRecord, GetChunk, AnswerLoaded, Rejected
        <3> QED
            BY <3>1, <1>1
    <2> QED
        BY <1>2, <2>1, <2>2, <2>3 DEF Step
<1>3. ASSUME NEW c \in Confab,
             Crash(c) \/ Start(c) \/ RemovePidFile(c)
             \/ \E f \in File : AddAssetFile(c, f) \/ LoadAsset(c, f)
      PROVE  Listed'
    <2>1. db' = db
        BY <1>3, Zenon DEF Crash, Start, RemovePidFile, AddAssetFile, LoadAsset
    <2> QED
        BY <2>1, <1>1
<1>4. CASE ServerStops \/ ServerStarts \/ UNCHANGED vars
    BY <1>1, <1>4 DEF ServerStops, ServerStarts, vars
<1> QED
    BY <1>2, <1>3, <1>4 DEF Next

(* For a chunk that is missing the server sends some entry, and never      *)
(* reads past its last one: the list entry of the asset comes after all    *)
(* its chunks (AssetDatabase.cpp:297-299).                                 *)
THEOREM MissingChunksReadEntries == Spec => []ServerReadsAnEntry
<1>1. Init => Listed
    <2> SUFFICES ASSUME Init PROVE Listed
        OBVIOUS
    <2>1. DOMAIN db = {}
        BY DEF Init
    <2>2. IsFiniteSet(DOMAIN db)
        BY <2>1, FS_EmptySet
    <2> QED
        BY <2>1, <2>2 DEF Listed, AreKeys
<1>2. IInv /\ Listed => ServerReadsAnEntry
    <2> SUFFICES ASSUME IInv, Listed, NEW c \in Confab, task[c].op = "download"
                 PROVE  getAssetData(db, task[c].file, task[c].n).record # PastEnd
        BY DEF ServerReadsAnEntry
    <2>1. PICK f \in File : f = task[c].file
        BY DEF IInv, TypeOK
    <2>2. AssetKey(f) \in DOMAIN db
        BY <2>1 DEF IInv, TaskOK, FilesOK
    <2>3. PICK entry \in DOMAIN db : entry = ListEntryKey(List, Now, f)
        BY <2>2 DEF Listed
    <2>4. PICK chunk : chunk = AssetDataKey(f, task[c].n)
        OBVIOUS
    <2>5. entry[1] = 3 /\ chunk[1] = 2
        BY <2>3, <2>4, KeysDiffer DEF kListEntry, kAssetData
    <2>6. ~ Before(entry, chunk)
        BY <2>5, BeforeMeans
    <2>7. Seek(db, chunk) # PastEnd
        BY <2>6, SeekFinds DEF Listed
    <2> QED
        BY <2>1, <2>4, <2>7 DEF getAssetData, Found, loadAssetDataChunk
<1>3. Spec => []Listed
    <2>1. IInv /\ Listed /\ [Next]_vars => Listed'
        BY ListedStep
    <2> QED
        BY <1>1, <2>1, Invariance, PTL DEF Spec
<1> QED
    BY <1>2, <1>3, Invariance, PTL

----------------------------------------------------------------------------
(* Sums.  Total adds up the sizes of a set of files in some order.  The    *)
(* partial sums are a function on the subsets, of which there is just one, *)
(* and it does not depend on the order.                                    *)
FirstOf(S) == CHOOSE f \in S : TRUE

IsSum(g, S) ==
    g = [s \in SUBSET S |->
            IF s = {} THEN 0 ELSE Size[FirstOf(s)] + g[s \ {FirstOf(s)}]]

LEMMA TotalIsSum ==
    ASSUME NEW S
    PROVE  Total(S) = (CHOOSE g : IsSum(g, S))[S]
BY DEF Total, MapThenSumSet, MapThenFoldSet, IsSum, FirstOf

LEMMA WithoutFirst ==
    ASSUME NEW S \in SUBSET File
    PROVE  /\ IsFiniteSet(S) /\ Cardinality(S) \in Nat
           /\ S # {} => /\ FirstOf(S) \in S
                        /\ S \ {FirstOf(S)} \in SUBSET File
                        /\ Cardinality(S \ {FirstOf(S)}) = Cardinality(S) - 1
                        /\ Cardinality(S) > 0
<1>1. IsFiniteSet(S) /\ Cardinality(S) \in Nat
    BY FS_Subset, FS_CardinalityType, FileAssumption
<1>2. ASSUME S # {} PROVE FirstOf(S) \in S
    BY <1>2 DEF FirstOf
<1>3. ASSUME S # {}
      PROVE  /\ Cardinality(S \ {FirstOf(S)}) = Cardinality(S) - 1
             /\ IsFiniteSet(S \ {FirstOf(S)})
    BY <1>1, <1>2, <1>3, FS_RemoveElement
<1>4. ASSUME S # {} PROVE Cardinality(S \ {FirstOf(S)}) \in Nat
    BY <1>3, <1>4, FS_CardinalityType
<1> QED
    BY <1>1, <1>2, <1>3, <1>4

LEMMA SumExists ==
    ASSUME NEW S \in SUBSET File
    PROVE  \E g : IsSum(g, S)
<1> DEFINE Small(n) == {s \in SUBSET S : Cardinality(s) <= n}
           Part(g, n) ==
              g = [s \in Small(n) |->
                      IF s = {} THEN 0 ELSE Size[FirstOf(s)] + g[s \ {FirstOf(s)}]]
           Missing == {n \in Nat : ~ \E g : Part(g, n)}
<1>1. \A s \in SUBSET S :
         /\ Cardinality(s) \in Nat
         /\ s # {} => /\ s \ {FirstOf(s)} \in SUBSET S
                      /\ Cardinality(s \ {FirstOf(s)}) = Cardinality(s) - 1
                      /\ Cardinality(s) > 0
    <2>1. \A s \in SUBSET S : s \in SUBSET File
        OBVIOUS
    <2> QED
        BY <2>1, WithoutFirst
<1>11. \A s \in SUBSET S : Cardinality(s) \in Nat
    BY <1>1
<1>12. \A s \in SUBSET S : Cardinality(s) <= 0 => s = {}
    <2> SUFFICES ASSUME NEW s \in SUBSET S, Cardinality(s) <= 0, s # {}
                 PROVE  FALSE
        OBVIOUS
    <2>1. Cardinality(s) > 0 /\ Cardinality(s) \in Nat
        BY <1>1
    <2> QED
        BY <2>1
<1>2. 0 \notin Missing
    <2> DEFINE g == [s \in Small(0) |-> 0]
    <2>1. \A s \in Small(0) : s = {}
        BY <1>12
    <2> DEFINE H(s) == g[s \ {FirstOf(s)}]
    <2> HIDE DEF H
    <2>2. g = [s \in Small(0) |-> IF s = {} THEN 0 ELSE Size[FirstOf(s)] + H(s)]
        BY <2>1
    <2>3. Part(g, 0)
        BY <2>2 DEF H
    <2> QED
        BY <2>3
<1>3. ASSUME NEW n \in Nat \ {0}, n - 1 \notin Missing
      PROVE  n \notin Missing
    <2>1. n - 1 \in Nat
        OBVIOUS
    <2>2. PICK g : Part(g, n - 1)
        BY <1>3, <2>1
    <2> DEFINE h == [s \in Small(n) |->
                        IF s = {} THEN 0
                        ELSE Size[FirstOf(s)] + g[s \ {FirstOf(s)}]]
    <2>3. ASSUME NEW s \in Small(n - 1) PROVE s \in Small(n) /\ g[s] = h[s]
        <3>1. s \in Small(n)
            BY <1>11
        <3>2. g[s] = IF s = {} THEN 0 ELSE Size[FirstOf(s)] + g[s \ {FirstOf(s)}]
            BY <2>2
        <3> QED
            BY <3>1, <3>2
    <2>4. ASSUME NEW s \in Small(n), s # {}
          PROVE  g[s \ {FirstOf(s)}] = h[s \ {FirstOf(s)}]
        <3>1. s \ {FirstOf(s)} \in Small(n - 1)
            BY <1>1, <2>4
        <3> HIDE DEF h
        <3> QED
            BY <2>3, <3>1
    <2>5. h = [s \in Small(n) |->
                  IF s = {} THEN 0 ELSE Size[FirstOf(s)] + h[s \ {FirstOf(s)}]]
        <3> DEFINE H(s) == h[s \ {FirstOf(s)}]
        <3>1. \A s \in Small(n) : s # {} => g[s \ {FirstOf(s)}] = H(s)
            BY <2>4
        <3> HIDE DEF H
        <3>2. h = [s \in Small(n) |->
                      IF s = {} THEN 0 ELSE Size[FirstOf(s)] + H(s)]
            BY <3>1
        <3> QED
            BY <3>2 DEF H
    <2>6. Part(h, n)
        BY <2>5
    <2> QED
        BY <2>6
<1>4. Missing = {}
    <2> SUFFICES ASSUME Missing # {} PROVE FALSE
        OBVIOUS
    <2> HIDE DEF Missing
    <2>1. Missing \in SUBSET Nat
        BY DEF Missing
    <2>2. PICK n \in Missing : \A m \in Missing : n <= m
        BY <2>1, LeastNumber
    <2>3. n \in Nat \ {0} /\ n - 1 \notin Missing
        BY <1>2, <2>1, <2>2
    <2> QED
        BY <1>3, <2>2, <2>3
<1>5. PICK m \in Nat : m = Cardinality(S)
    BY WithoutFirst
<1>6. PICK g : Part(g, m)
    BY <1>4
<1>7. Small(m) = SUBSET S
    BY <1>5, WithoutFirst, FS_Subset
<1> HIDE DEF Small
<1> QED
    BY <1>6, <1>7 DEF IsSum

LEMMA SumsAgree ==
    ASSUME NEW S \in SUBSET File, NEW g, IsSum(g, S),
           NEW T \in SUBSET File, NEW h, IsSum(h, T),
           NEW s \in SUBSET S, s \in SUBSET T
    PROVE  g[s] = h[s]
<1> DEFINE Differ(n) == \E u \in SUBSET (S \cap T) :
                           Cardinality(u) = n /\ g[u] # h[u]
           Bad == {n \in Nat : Differ(n)}
<1> SUFFICES ASSUME g[s] # h[s] PROVE FALSE
    OBVIOUS
<1>1. Bad # {}
    <2>1. s \in SUBSET (S \cap T) /\ Cardinality(s) \in Nat
        BY WithoutFirst
    <2> QED
        BY <2>1
<1>2. PICK n \in Bad : \A m \in Bad : n <= m
    <2>1. Bad \in SUBSET Nat
        OBVIOUS
    <2> HIDE DEF Bad
    <2> QED
        BY <1>1, <2>1, LeastNumber
<1>3. PICK u \in SUBSET (S \cap T) : Cardinality(u) = n /\ g[u] # h[u]
    BY <1>2
<1>4. /\ u \in SUBSET S => g[u] = IF u = {} THEN 0 ELSE Size[FirstOf(u)] + g[u \ {FirstOf(u)}]
      /\ u \in SUBSET T => h[u] = IF u = {} THEN 0 ELSE Size[FirstOf(u)] + h[u \ {FirstOf(u)}]
    BY DEF IsSum
<1>5. u # {} /\ g[u \ {FirstOf(u)}] # h[u \ {FirstOf(u)}]
    BY <1>3, <1>4
<1>6. /\ u \ {FirstOf(u)} \in SUBSET (S \cap T)
      /\ Cardinality(u \ {FirstOf(u)}) = n - 1 /\ n - 1 \in Nat
    <2>1. u \in SUBSET File /\ n \in Nat
        OBVIOUS
    <2> QED
        BY <1>3, <1>5, <2>1, WithoutFirst
<1>7. n - 1 \in Bad /\ n \in Nat
    BY <1>5, <1>6
<1> HIDE DEF Bad
<1> QED
    BY <1>2, <1>6, <1>7

LEMMA TotalStep ==
    /\ Total({}) = 0
    /\ \A S \in SUBSET File :
          S # {} => Total(S) = Size[FirstOf(S)] + Total(S \ {FirstOf(S)})
<1>1. PICK g : IsSum(g, File)
    BY SumExists
<1>2. ASSUME NEW S \in SUBSET File PROVE Total(S) = g[S]
    <2>1. IsSum(CHOOSE h : IsSum(h, S), S)
        <3>1. \E h : IsSum(h, S)
            BY SumExists
        <3> QED
            BY <3>1
    <2>2. PICK h : h = CHOOSE k : IsSum(k, S)
        OBVIOUS
    <2>3. IsSum(h, S) /\ Total(S) = h[S]
        BY <2>1, <2>2, TotalIsSum
    <2> QED
        BY <1>1, <2>3, SumsAgree
<1>3. \A S \in SUBSET File :
         g[S] = IF S = {} THEN 0 ELSE Size[FirstOf(S)] + g[S \ {FirstOf(S)}]
    BY <1>1 DEF IsSum
<1>4. Total({}) = 0
    BY <1>2, <1>3
<1>5. ASSUME NEW S \in SUBSET File, S # {}
      PROVE  Total(S) = Size[FirstOf(S)] + Total(S \ {FirstOf(S)})
    <2>1. S \ {FirstOf(S)} \in SUBSET File
        OBVIOUS
    <2> QED
        BY <1>2, <1>3, <1>5, <2>1
<1> QED
    BY <1>4, <1>5

(* One more file adds its size, whatever the order.                        *)
LEMMA TotalAdds ==
    ASSUME NEW S \in SUBSET File, NEW f \in File \ S
    PROVE  /\ Total(S) \in Nat
           /\ Total(S \cup {f}) = Total(S) + Size[f]
<1> DEFINE Fails(T) == \/ Total(T) \notin Nat
                       \/ \E x \in File \ T : Total(T \cup {x}) # Total(T) + Size[x]
           Bad == {n \in Nat : \E T \in SUBSET File : Cardinality(T) = n /\ Fails(T)}
<1> SUFFICES Bad = {}
    <2>1. Cardinality(S) \in Nat
        BY WithoutFirst
    <2> QED
        BY <2>1
<1> SUFFICES ASSUME Bad # {} PROVE FALSE
    OBVIOUS
<1>1. PICK n \in Bad : \A m \in Bad : n <= m
    <2>1. Bad \in SUBSET Nat
        OBVIOUS
    <2> HIDE DEF Bad
    <2> QED
        BY <2>1, LeastNumber
<1>2. PICK T \in SUBSET File : Cardinality(T) = n /\ Fails(T)
    BY <1>1
<1>31. n \in Nat
    OBVIOUS
<1>3. ASSUME NEW U \in SUBSET File, Cardinality(U) < n
      PROVE  /\ Total(U) \in Nat
             /\ \A x \in File \ U : Total(U \cup {x}) = Total(U) + Size[x]
    <2>1. Cardinality(U) \in Nat /\ n \in Nat
        BY WithoutFirst
    <2>2. Cardinality(U) \notin Bad
        <3> HIDE DEF Bad
        <3> QED
            BY <1>1, <1>3, <2>1 
    <2> QED
        BY <2>1, <2>2
<1>4. \A x \in File : Size[x] \in Nat
    BY SizeAssumption
<1>5. Total(T) \in Nat
    <2>1. CASE T = {}
        BY <2>1, TotalStep
    <2>2. CASE T # {}
        <3>1. Total(T) = Size[FirstOf(T)] + Total(T \ {FirstOf(T)})
            BY <2>2, TotalStep
        <3>2. FirstOf(T) \in File /\ T \ {FirstOf(T)} \in SUBSET File
            BY <2>2, WithoutFirst
        <3>3. Cardinality(T \ {FirstOf(T)}) < n
            <4>1. Cardinality(T \ {FirstOf(T)}) = Cardinality(T) - 1
                BY <2>2, WithoutFirst
            <4> QED
                BY <1>2, <1>31, <4>1
        <3> QED
            BY <1>3, <1>4, <3>1, <3>2, <3>3
    <2> QED
        BY <2>1, <2>2
<1>6. ASSUME NEW x \in File \ T PROVE Total(T \cup {x}) = Total(T) + Size[x]
    <2> DEFINE y == FirstOf(T \cup {x})
    <2>1. /\ T \cup {x} \in SUBSET File /\ T \cup {x} # {}
          /\ y \in T \cup {x}
        BY WithoutFirst
    <2>2. Total(T \cup {x}) = Size[y] + Total((T \cup {x}) \ {y})
        BY <2>1, TotalStep
    <2> HIDE DEF y
    <2>3. CASE y = x
        <3>1. (T \cup {x}) \ {y} = T
            BY <2>3
        <3> QED
            BY <1>4, <1>5, <2>2, <2>3, <3>1
    <2>4. CASE y # x
        <3> DEFINE U == T \ {y}
        <3>1. /\ y \in T /\ (T \cup {x}) \ {y} = U \cup {x} /\ U \cup {y} = T
              /\ U \in SUBSET File /\ x \in File \ U /\ y \in File \ U
            BY <2>1, <2>4
        <3>2. Cardinality(U) < n
            <4>1. IsFiniteSet(T)
                BY WithoutFirst
            <4>2. Cardinality(U) = n - 1
                BY <1>2, <3>1, <4>1, FS_RemoveElement
            <4> QED
                BY <1>31, <4>2
        <3> HIDE DEF U
        <3>3. /\ Total(U) \in Nat
              /\ Total(U \cup {x}) = Total(U) + Size[x]
              /\ Total(U \cup {y}) = Total(U) + Size[y]
            BY <1>3, <3>1, <3>2
        <3>4. Size[x] \in Nat /\ Size[y] \in Nat
            BY <1>4, <3>1
        <3>5. Total(T) = Total(U) + Size[y]
            BY <3>1, <3>3
        <3>6. Total(T \cup {x}) = Size[y] + (Total(U) + Size[x])
            BY <2>2, <3>1, <3>3
        <3> QED
            BY <3>3, <3>4, <3>5, <3>6
    <2> QED
        BY <2>3, <2>4
<1> QED
    BY <1>2, <1>5, <1>6
----------------------------------------------------------------------------
(***************************************************************************)
(* What a cache counts                                                     *)
(***************************************************************************)
Downloading(c) == IF task[c].op = "download" THEN {task[c].file} ELSE {}
Accounts(c) ==
    up[c] => /\ cache[c].size = Total(cache[c].map)
             /\ Present(cache[c].files) = cache[c].map \cup Downloading(c)

(* A confab of which nothing changes that matters.                         *)
LEMMA AccountsStay ==
    ASSUME NEW d, Accounts(d), up'[d] => up[d], cache'[d] = cache[d],
           \/ task'[d] = task[d]
           \/ task'[d].op # "download" /\ task[d].op # "download"
    PROVE  Accounts(d)'
<1>1. Downloading(d)' = Downloading(d)
    BY DEF Downloading
<1> QED
    BY <1>1 DEF Accounts

(* A step of one confab leaves the others alone.                           *)
LEMMA AccountsOfOthers ==
    ASSUME IInv, NEW c \in Confab, NEW d \in Confab \ {c}, Accounts(d),
           NEW t, task' = [task EXCEPT ![c] = t] \/ task' = task,
           NEW k, cache' = [cache EXCEPT ![c] = k] \/ cache' = cache,
           NEW u, up' = [up EXCEPT ![c] = u] \/ up' = up
    PROVE  Accounts(d)'
<1>1. DOMAIN task = Confab /\ DOMAIN cache = Confab /\ DOMAIN up = Confab
    BY DEF IInv, TypeOK
<1>2. task'[d] = task[d] /\ cache'[d] = cache[d] /\ up'[d] = up[d]
    BY <1>1
<1> QED
    BY <1>2, AccountsStay

LEMMA DownloadsAccounts ==
    ASSUME IInv, CacheAccounts, NEW c \in Confab, NEW f \in File, up[c],
           Downloads(c, f), UNCHANGED up, task[c].op # "download"
    PROVE  CacheAccounts'
<1>1. PICK t : t = Task("download", f, 0)
    OBVIOUS
<1>2. PICK k : k = Opened(cache[c], f)
    OBVIOUS
<1>3. task' = [task EXCEPT ![c] = t] /\ cache' = [cache EXCEPT ![c] = k]
    BY <1>1, <1>2 DEF Downloads
<1>4. cache[c].files \in [File -> FileState]
    BY DEF IInv, TypeOK
<1>5. /\ k.map = cache[c].map /\ k.size = cache[c].size
      /\ Present(k.files) = Present(cache[c].files) \cup {f}
    <2>1. k.size = cache[c].size
        BY <1>2 DEF Opened
    <2> QED
        BY <1>2, <1>4, <2>1, FileOpened, Zenon
<1>6. task'[c] = t /\ cache'[c] = k /\ t.op = "download" /\ t.file = f
    BY <1>1, <1>3 DEF IInv, TypeOK, Task
<1>7. /\ cache[c].size = Total(cache[c].map)
      /\ Present(cache[c].files) = cache[c].map
    BY DEF CacheAccounts
<1>8. Accounts(c)'
    BY <1>5, <1>6, <1>7 DEF Accounts, Downloading
<1>9. ASSUME NEW d \in Confab \ {c} PROVE Accounts(d)'
    <2>1. Accounts(d)
        BY DEF CacheAccounts, Accounts, Downloading
    <2> QED
        BY <1>3, <2>1, AccountsOfOthers
<1> QED
    BY <1>8, <1>9 DEF CacheAccounts, Accounts, Downloading

(* What the check at start keeps is all there is.                          *)
LEMMA StartAccounts ==
    ASSUME IInv, CacheAccounts, NEW c \in Confab, Start(c)
    PROVE  CacheAccounts'
<1>1. ~ up[c] /\ UNCHANGED task /\ task[c].op = "idle"
    BY DEF Start, IInv, TypeOK
<1>2. CASE UNCHANGED <<up, cache>>
    BY <1>1, <1>2 DEF CacheAccounts
<1>3. CASE /\ up' = [up EXCEPT ![c] = TRUE]
           /\ cache' = [cache EXCEPT ![c] = checkExistingEntries(@)]
    <2> DEFINE kept == checkExistingEntries(cache[c])
    <2>1. PICK k : k = kept
        OBVIOUS
    <2>11. /\ kept.map \subseteq File
           /\ \A f \in kept.map : cache[c].files[f] # NoFile
           /\ kept.files = [f \in File |-> IF f \in kept.map THEN cache[c].files[f]
                                                          ELSE NoFile]
        BY Checked
    <2> HIDE DEF kept
    <2>2. /\ k.map \subseteq File
          /\ \A f \in k.map : cache[c].files[f] # NoFile
          /\ k.files = [f \in File |-> IF f \in k.map THEN cache[c].files[f]
                                                   ELSE NoFile]
        BY <2>1, <2>11
    <2> USE DEF kept
    <2>3. k.size = Total(k.map)
        BY <2>1 DEF checkExistingEntries
    <2>4. Present(k.files) = k.map
        BY <2>2 DEF Present
    <2>5. cache'[c] = k /\ cache' = [cache EXCEPT ![c] = k]
        BY <1>3, <2>1 DEF IInv, TypeOK
    <2>6. Accounts(c)'
        BY <1>1, <2>3, <2>4, <2>5 DEF Accounts, Downloading
    <2>7. ASSUME NEW d \in Confab \ {c} PROVE Accounts(d)'
        <3>1. Accounts(d)
            BY DEF CacheAccounts, Accounts, Downloading
        <3> QED
            BY <1>1, <1>3, <2>5, <3>1, AccountsOfOthers
    <2> QED
        BY <2>6, <2>7 DEF CacheAccounts, Accounts, Downloading
<1> QED
    BY <1>2, <1>3 DEF Start

(* A process that has died has no account to keep.                         *)
LEMMA DiesAccounts ==
    ASSUME IInv, CacheAccounts, NEW c \in Confab, Dies(c)
    PROVE  CacheAccounts'
<1>1. /\ up' = [up EXCEPT ![c] = FALSE]
      /\ task' = [task EXCEPT ![c] = Idle]
    BY DEF Dies
<1>2. PICK k : cache' = [cache EXCEPT ![c] = k]
    BY DeadHoldsNothing
<1>3. Accounts(c)'
    BY <1>1 DEF Accounts, IInv, TypeOK
<1>4. ASSUME NEW d \in Confab \ {c} PROVE Accounts(d)'
    <2>1. Accounts(d)
        BY DEF CacheAccounts, Accounts, Downloading
    <2> QED
        BY <1>1, <1>2, <2>1, AccountsOfOthers
<1> QED
    BY <1>3, <1>4 DEF CacheAccounts, Accounts, Downloading

LEMMA ChunkHasId ==
    ASSUME IInv, NEW record, Verifies(record)
    PROVE  db[record].data \in ChunkIds
<1>1. record \in DOMAIN db /\ record[1] = kAssetData
    BY DEF Verifies
<1>2. PICK g \in File : \E i \in 0 .. Chunks(g) - 1 :
         record = AssetDataKey(g, i) /\ db[record] = ChunkOf(g, i)
    BY <1>1 DEF IInv, DbOK
<1>3. PICK i \in 0 .. Chunks(g) - 1 : db[record] = ChunkOf(g, i)
    BY <1>2
<1>4. i \in Nat
    BY ChunksType
<1> QED
    BY <1>3, <1>4 DEF ChunkOf, ChunkIds

(* The file under way is removed with the command, ...                     *)
LEMMA RemovedAccounts ==
    ASSUME IInv, CacheAccounts, NEW c \in Confab, up[c], UNCHANGED up,
           task[c].op = "download", task' = [task EXCEPT ![c] = Idle],
           cache' = [cache EXCEPT ![c] = Removed(@, task[c].file)]
    PROVE  CacheAccounts'
<1>1. PICK f : f = task[c].file
    OBVIOUS
<1>2. PICK k : k = Removed(cache[c], f)
    OBVIOUS
<1>3. cache' = [cache EXCEPT ![c] = k]
    BY <1>1, <1>2
<1>4. /\ cache[c].files \in [File -> FileState] /\ f \in File
      /\ f \notin cache[c].map
    BY <1>1 DEF IInv, TypeOK, TaskOK
<1>5. /\ k.map = cache[c].map /\ k.size = cache[c].size
      /\ Present(k.files) = Present(cache[c].files) \ {f}
    <2>1. k.size = cache[c].size
        BY <1>2 DEF Removed
    <2> QED
        BY <1>2, <1>4, <2>1, FileRemoved, Zenon
<1>6. task'[c] = Idle /\ cache'[c] = k /\ Idle.op = "idle"
    BY <1>3 DEF IInv, TypeOK, Idle
<1>7. /\ cache[c].size = Total(cache[c].map)
      /\ Present(cache[c].files) = cache[c].map \cup {f}
    BY <1>1 DEF CacheAccounts
<1>8. Accounts(c)'
    BY <1>4, <1>5, <1>6, <1>7 DEF Accounts, Downloading
<1>9. ASSUME NEW d \in Confab \ {c} PROVE Accounts(d)'
    <2>1. Accounts(d)
        BY DEF CacheAccounts, Accounts, Downloading
    <2> QED
        BY <1>3, <2>1, AccountsOfOthers
<1> QED
    BY <1>8, <1>9 DEF CacheAccounts, Accounts, Downloading

LEMMA GetChunkAccounts ==
    ASSUME IInv, CacheAccounts, NEW c \in Confab, GetChunk(c)
    PROVE  CacheAccounts'
<1>1. PICK f : f = task[c].file
    OBVIOUS
<1>2. PICK record : record = getAssetData(db, f, task[c].n).record
    OBVIOUS
<1>3. up[c] /\ task[c].op = "download" /\ UNCHANGED up
    BY Zenon DEF GetChunk, At
<1>4. \/ /\ Verifies(record)
         /\ cache' = [cache EXCEPT ![c] = Written(@, f, db[record])]
         /\ task' = [task EXCEPT ![c].n = @ + 1]
      \/ /\ cache' = [cache EXCEPT ![c] = Removed(@, f)]
         /\ Ends(c, {f})
    BY <1>1, <1>2 DEF GetChunk
<1>5. CASE /\ Verifies(record)
           /\ cache' = [cache EXCEPT ![c] = Written(@, f, db[record])]
           /\ task' = [task EXCEPT ![c].n = @ + 1]
    <2>1. PICK chunk : chunk = db[record]
        OBVIOUS
    <2>2. chunk.data \in ChunkIds
        BY <1>5, <2>1, ChunkHasId
    <2>3. PICK k : k = Written(cache[c], f, chunk)
        OBVIOUS
    <2>4. cache' = [cache EXCEPT ![c] = k]
        BY <1>5, <2>1, <2>3
    <2>5. cache[c].files \in [File -> FileState] /\ f \in File
        BY <1>1, <1>3 DEF IInv, TypeOK
    <2>6. /\ k.map = cache[c].map /\ k.size = cache[c].size
          /\ Present(k.files) = Present(cache[c].files) \cup {f}
        <3>1. k.size = cache[c].size
            BY <2>3 DEF Written
        <3> QED
            BY <2>2, <2>3, <2>5, <3>1, FileWritten, Zenon
    <2>7. PICK t : t = [task[c] EXCEPT !.n = @ + 1]
        OBVIOUS
    <2>8. task' = [task EXCEPT ![c] = t]
        BY <1>5, <2>7
    <2>9. cache'[c] = k /\ task'[c].op = "download" /\ task'[c].file = f
        <3>1. cache'[c] = k /\ task'[c] = t
            BY <2>4, <2>8 DEF IInv, TypeOK
        <3>2. t.op = task[c].op /\ t.file = task[c].file
            BY <2>7 DEF IInv, TypeOK
        <3> QED
            BY <1>1, <1>3, <3>1, <3>2
    <2>10. /\ cache[c].size = Total(cache[c].map)
           /\ Present(cache[c].files) = cache[c].map \cup {f}
        BY <1>1, <1>3 DEF CacheAccounts
    <2>11. Accounts(c)'
        BY <2>6, <2>9, <2>10 DEF Accounts, Downloading
    <2>12. ASSUME NEW d \in Confab \ {c} PROVE Accounts(d)'
        <3>1. Accounts(d)
            BY DEF CacheAccounts, Accounts, Downloading
        <3> QED
            BY <1>3, <2>4, <2>8, <3>1, AccountsOfOthers
    <2> QED
        BY <2>11, <2>12 DEF CacheAccounts, Accounts, Downloading
<1>6. CASE cache' = [cache EXCEPT ![c] = Removed(@, f)] /\ Ends(c, {f})
    BY <1>1, <1>3, <1>6, RemovedAccounts DEF Ends
<1> QED
    BY <1>4, <1>5, <1>6

(* ... or entered, which adds its size.                                    *)
LEMMA AnswerLoadedAccounts ==
    ASSUME IInv, CacheAccounts, NEW c \in Confab, AnswerLoaded(c)
    PROVE  CacheAccounts'
<1>1. PICK f : f = task[c].file
    OBVIOUS
<1>2. up[c] /\ task[c].op = "download" /\ UNCHANGED up /\ Ends(c, {f})
    BY <1>1, Zenon DEF AnswerLoaded, At
<1>3. CASE cache' = [cache EXCEPT ![c] = Entered(@, f)]
    <2>1. PICK k : k = Entered(cache[c], f)
        OBVIOUS
    <2>2. cache' = [cache EXCEPT ![c] = k]
        BY <1>3, <2>1
    <2>3. /\ k.map = cache[c].map \cup {f} /\ k.size = cache[c].size + Size[f]
          /\ k.files = cache[c].files
        BY <2>1 DEF Entered
    <2>4. f \in File \ cache[c].map /\ cache[c].map \in SUBSET File
        BY <1>1, <1>2 DEF IInv, TypeOK, TaskOK
    <2>5. Total(cache[c].map \cup {f}) = Total(cache[c].map) + Size[f]
        BY <2>4, TotalAdds
    <2>6. /\ cache[c].size = Total(cache[c].map)
          /\ Present(cache[c].files) = cache[c].map \cup {f}
        BY <1>1, <1>2 DEF CacheAccounts
    <2>7. k.size = Total(k.map) /\ Present(k.files) = k.map
        BY <2>3, <2>5, <2>6
    <2>8. cache'[c] = k /\ task'[c] = Idle /\ Idle.op = "idle"
        BY <1>2, <2>2 DEF IInv, TypeOK, Ends, Idle
    <2>9. Accounts(c)'
        BY <2>7, <2>8 DEF Accounts, Downloading
    <2>10. ASSUME NEW d \in Confab \ {c} PROVE Accounts(d)'
        <3>1. Accounts(d)
            BY DEF CacheAccounts, Accounts, Downloading
        <3>2. task' = [task EXCEPT ![c] = Idle]
            BY <1>2 DEF Ends
        <3> QED
            BY <1>2, <2>2, <3>1, <3>2, AccountsOfOthers
    <2> QED
        BY <2>9, <2>10 DEF CacheAccounts, Accounts, Downloading
<1>4. CASE cache' = [cache EXCEPT ![c] = Removed(@, f)]
    BY <1>1, <1>2, <1>4, RemovedAccounts DEF Ends
<1> QED
    BY <1>1, <1>3, <1>4 DEF AnswerLoaded

(* The other steps touch no cache, and neither begin nor end a download.   *)
LEMMA NoCacheAccounts ==
    ASSUME IInv, CacheAccounts, NEW c \in Confab, UNCHANGED <<up, cache>>,
           task[c].op # "download",
           NEW t, task' = [task EXCEPT ![c] = t] \/ task' = task,
           t.op # "download"
    PROVE  CacheAccounts'
<1>1. ASSUME NEW d \in Confab PROVE Accounts(d)'
    <2>1. Accounts(d)
        BY DEF CacheAccounts, Accounts, Downloading
    <2>2. \/ task'[d] = task[d]
          \/ task'[d].op # "download" /\ task[d].op # "download"
        BY DEF IInv, TypeOK
    <2> QED
        BY <2>1, <2>2, AccountsStay
<1> QED
    BY <1>1 DEF CacheAccounts, Accounts, Downloading

LEMMA AccountsStep ==
    ASSUME IInv, CacheAccounts, [Next]_vars
    PROVE  CacheAccounts'
<1>1. ASSUME NEW c \in Confab, NEW response, task[c].op = "post",
             Answered(c, response)
      PROVE  CacheAccounts'
    <2>1. PICK t : t = [task[c] EXCEPT !.n = @ + 1]
        OBVIOUS
    <2>2. t.op # "download" /\ Idle.op # "download"
        BY <1>1, <2>1 DEF IInv, TypeOK, Idle
    <2>3. task' = [task EXCEPT ![c] = t] \/ task' = [task EXCEPT ![c] = Idle]
        BY <1>1, <2>1 DEF Answered
    <2>4. UNCHANGED <<up, cache>>
        BY <1>1 DEF Answered
    <2> QED
        BY <1>1, <2>2, <2>3, <2>4, NoCacheAccounts
<1>2. ASSUME NEW c \in Confab, PostRecord(c) \/ PostChunk(c) PROVE CacheAccounts'
    <2>1. task[c].op = "post" /\ \E response : Answered(c, response)
        BY <1>2 DEF PostRecord, PostChunk, At
    <2> QED
        BY <1>1, <2>1
<1>3. ASSUME NEW c \in Confab, AnswerAdded(c) PROVE CacheAccounts'
    <2>1. /\ task[c].op = "post" /\ UNCHANGED <<up, cache>>
          /\ task' = [task EXCEPT ![c] = Idle] /\ Idle.op # "download"
        BY <1>3 DEF AnswerAdded, At, Ends, Idle
    <2> QED
        BY <2>1, NoCacheAccounts
<1>4. ASSUME NEW c \in Confab, GetRecord(c) PROVE CacheAccounts'
    <2>1. PICK f : f = task[c].file
        OBVIOUS
    <2>2. up[c] /\ task[c].op = "get" /\ UNCHANGED up /\ f \in File
        BY <1>4, <2>1 DEF GetRecord, At, IInv, TypeOK
    <2>3. Downloads(c, f) \/ (Ends(c, {f}) /\ UNCHANGED cache)
        BY <1>4, <2>1 DEF GetRecord
    <2>4. CASE Downloads(c, f)
        BY <2>2, <2>4, DownloadsAccounts
    <2>5. CASE Ends(c, {f}) /\ UNCHANGED cache
        <3>1. task' = [task EXCEPT ![c] = Idle] /\ Idle.op # "download"
            BY <2>5 DEF Ends, Idle
        <3> QED
            BY <2>2, <2>5, <3>1, NoCacheAccounts
    <2> QED
        BY <2>3, <2>4, <2>5
<1>5. ASSUME NEW c \in Confab, NEW f \in File, LoadAsset(c, f) PROVE CacheAccounts'
    <2>1. up[c] /\ task[c].op = "idle" /\ UNCHANGED up
        BY <1>5 DEF LoadAsset, At
    <2>2. PICK t : t = Task("get", f, 0)
        OBVIOUS
    <2>3. \/ UNCHANGED <<task, cache>>
          \/ Downloads(c, f)
          \/ task' = [task EXCEPT ![c] = t] /\ UNCHANGED cache
        BY <1>5, <2>2 DEF LoadAsset
    <2>4. t.op # "download"
        BY <2>2 DEF Task
    <2>5. CASE Downloads(c, f)
        BY <2>1, <2>5, DownloadsAccounts
    <2>6. CASE UNCHANGED cache /\ (task' = task \/ task' = [task EXCEPT ![c] = t])
        BY <2>1, <2>4, <2>6, NoCacheAccounts
    <2> QED
        BY <2>3, <2>5, <2>6
<1>6. ASSUME NEW c \in Confab, NEW f \in File, AddAssetFile(c, f) PROVE CacheAccounts'
    <2>1. PICK t : t = Task("post", f, 0)
        OBVIOUS
    <2>2. /\ task[c].op = "idle" /\ UNCHANGED <<up, cache>>
          /\ task' = [task EXCEPT ![c] = t] /\ t.op # "download"
        BY <1>6, <2>1 DEF AddAssetFile, At, Task
    <2> QED
        BY <2>2, NoCacheAccounts
<1>7. ASSUME NEW c \in Confab, Crash(c) \/ Rejected(c) PROVE CacheAccounts'
    BY <1>7, DiesAccounts DEF Crash, Rejected
<1>8. ASSUME UNCHANGED <<up, cache, task>> PROVE CacheAccounts'
    BY <1>8 DEF CacheAccounts
<1>9. CASE ServerStops \/ ServerStarts \/ UNCHANGED vars
           \/ \E c \in Confab : RemovePidFile(c)
    BY <1>8, <1>9 DEF ServerStops, ServerStarts, RemovePidFile, vars
<1> QED
    BY <1>2, <1>3, <1>4, <1>5, <1>6, <1>7, <1>9,
       GetChunkAccounts, AnswerLoadedAccounts, StartAccounts
    DEF Next, Step

(* m_currentSize is the sum of the sizes of the files of m_extensionMap,   *)
(* and the directory has these files and the one being downloaded, for any *)
(* files and sizes, whatever is evicted at the start or fails afterwards   *)
(* (CacheManager.cpp:168, 179, 199, 210).                                  *)
THEOREM CachesAccount == Spec => []CacheAccounts
<1>1. Init => CacheAccounts
    BY DEF Init, CacheAccounts
<1>2. IInv /\ CacheAccounts /\ [Next]_vars => CacheAccounts'
    BY AccountsStep
<1> QED
    BY <1>1, <1>2, Invariance, PTL DEF Spec
=============================================================================
