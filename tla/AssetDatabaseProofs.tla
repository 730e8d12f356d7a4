------------------------ MODULE AssetDatabaseProofs -------------------------
(***************************************************************************)
(* Lemmas about module AssetDatabase: the order of the keys is total, for  *)
(* bytes of any size, although it is not the order of the numbers in them; *)
(* what a seek finds, and what a write changes.                            *)
(***************************************************************************)
EXTENDS AssetDatabase, NumberLemmas, Functions, FiniteSetTheorems, TLAPS

Word == 0 .. kEndList
IsKey(k) ==
    /\ k = <<k[1], k[2], k[3], k[4]>>
    /\ k[1] \in 1 .. 6 /\ k[2] \in Nat /\ k[3] \in Nat /\ k[4] \in Nat
AreKeys(S) == IsFiniteSet(S) /\ \A k \in S : IsKey(k)

(* How many keys of S come before k.                                       *)
Rank(S, k) == Cardinality({l \in S : Before(l, k)})

----------------------------------------------------------------------------
LEMMA EndIsLast ==
    /\ kEndList \in Nat /\ kEndList >= 3
    /\ \A n \in Word : ~ BytesBefore(kEndList, n)
<1>1. Byte \in Nat /\ Byte >= 2
    BY ByteAssumption
<1>2. Byte * Byte \in Nat /\ Byte * Byte >= 4
    <2>1. PICK b \in Nat : Byte = b + 2
        <3>1. Byte - 2 \in Nat
            BY <1>1
        <3>2. Byte = (Byte - 2) + 2
            BY <1>1
        <3> QED
            BY <3>1, <3>2
    <2>2. b * b \in Nat /\ Byte * Byte = b * b + 4 * b + 4
        BY <2>1, SMT
    <2> QED
        BY <2>1, <2>2
<1>3. kEndList \in Nat /\ kEndList >= 3
    BY <1>2 DEF kEndList
<1>4. kEndList % Byte = Byte - 1
    <2> DEFINE q == kEndList \div Byte
               r == kEndList % Byte
    <2>1. q \in Nat /\ r \in 0 .. Byte - 1 /\ kEndList = Byte * q + r
        <3>1. Byte \in Nat \ {0}
            BY <1>1
        <3> QED
            BY <3>1, <1>3, DivMod
    <2> HIDE DEF q, r
    <2>2. Byte * q \in Nat /\ Byte * (q + 1) = Byte * q + Byte
        BY <2>1, <1>1, SMT
    <2>3. q + 1 = Byte
        <3>1. CASE q + 1 < Byte
            <4>1. Byte * (q + 1) + Byte <= Byte * Byte
                BY <1>1, <2>1, <3>1, MultipleStep
            <4> QED
                BY <1>1, <1>2, <2>1, <2>2, <4>1 DEF kEndList
        <3>2. CASE Byte < q + 1
            <4>1. CASE Byte = q
                BY <1>1, <1>2, <2>1, <2>2, <4>1 DEF kEndList
            <4>2. CASE Byte < q
                <5>1. Byte * Byte + Byte <= Byte * q
                    BY <1>1, <2>1, <4>2, MultipleStep
                <5> QED
                    BY <1>1, <1>2, <2>1, <2>2, <5>1 DEF kEndList
            <4> QED
                BY <1>1, <2>1, <3>2, <4>1, <4>2
        <3> QED
            BY <1>1, <2>1, <3>1, <3>2
    <2>4. r = Byte - 1
        BY <1>1, <1>2, <2>1, <2>2, <2>3 DEF kEndList
    <2> QED
        BY <2>4 DEF r
<1>5. ASSUME NEW n \in Word PROVE ~ BytesBefore(kEndList, n)
    <2>1. n \in Nat /\ n <= kEndList
        BY <1>3 DEF Word
    <2>2. n % Byte \in 0 .. Byte - 1
        BY <1>1, <2>1, DivMod
    <2> DEFINE m == n % Byte
               e == kEndList % Byte
    <2>3. m \in 0 .. Byte - 1 /\ e = Byte - 1
        BY <2>2, <1>4
    <2>4. BytesBefore(kEndList, n) <=> e < m \/ (e = m /\ kEndList < n)
        BY DEF BytesBefore
    <2> HIDE DEF m, e
    <2>5. ~ (e < m)
        BY <2>3, <1>1
    <2>6. ~ (kEndList < n)
        BY <2>1, <1>3
    <2> QED
        BY <2>4, <2>5, <2>6
<1> QED
    BY <1>3, <1>5

(* The numbers in the order of their bytes.                                *)
LEMMA BytesOrder ==
    /\ \A m \in Nat : ~ BytesBefore(m, m)
    /\ \A m, n \in Nat : BytesBefore(m, n) \/ BytesBefore(n, m) \/ m = n
    /\ \A m, n, p \in Nat : BytesBefore(m, n) /\ BytesBefore(n, p) => BytesBefore(m, p)
<1>1. ASSUME NEW m \in Nat PROVE m % Byte \in Nat
    <2>1. m % Byte \in 0 .. Byte - 1
        BY DivMod, ByteAssumption
    <2> QED
        BY <2>1, ByteAssumption
<1>2. ASSUME NEW m \in Nat PROVE ~ BytesBefore(m, m)
    BY <1>1 DEF BytesBefore
<1>3. ASSUME NEW m \in Nat, NEW n \in Nat
      PROVE  BytesBefore(m, n) \/ BytesBefore(n, m) \/ m = n
    BY <1>1 DEF BytesBefore
<1>4. ASSUME NEW m \in Nat, NEW n \in Nat, NEW p \in Nat,
             BytesBefore(m, n), BytesBefore(n, p)
      PROVE  BytesBefore(m, p)
    BY <1>1, <1>4 DEF BytesBefore
<1> QED
    BY <1>2, <1>3, <1>4

(* Keys compare by their first component that differs.                     *)
LEMMA BeforeMeans ==
    ASSUME NEW k, NEW l
    PROVE  Before(k, l) <=>
              \/ k[1] < l[1]
              \/ (k[1] = l[1] /\ BytesBefore(k[2], l[2]))
              \/ (k[1] = l[1] /\ k[2] = l[2] /\ BytesBefore(k[3], l[3]))
              \/ (k[1] = l[1] /\ k[2] = l[2] /\ k[3] = l[3] /\ BytesBefore(k[4], l[4]))
<1> DEFINE At(i) == /\ \A j \in 1 .. i - 1 : k[j] = l[j]
                    /\ IF i = 1 THEN k[1] < l[1] ELSE BytesBefore(k[i], l[i])
<1>1. Before(k, l) <=> At(1) \/ At(2) \/ At(3) \/ At(4)
    <2>1. 1 .. 4 = {1, 2, 3, 4}
        OBVIOUS
    <2>2. Before(k, l) <=> \E i \in {1, 2, 3, 4} : At(i)
        BY <2>1 DEF Before
    <2> HIDE DEF At
    <2> QED
        BY <2>2
<1>2. 1 .. 1 - 1 = {} /\ 1 .. 2 - 1 = {1} /\ 1 .. 3 - 1 = {1, 2} /\ 1 .. 4 - 1 = {1, 2, 3}
    OBVIOUS
<1>3. At(1) <=> k[1] < l[1]
    BY <1>2
<1>4. At(2) <=> k[1] = l[1] /\ BytesBefore(k[2], l[2])
    BY <1>2
<1>5. At(3) <=> k[1] = l[1] /\ k[2] = l[2] /\ BytesBefore(k[3], l[3])
    BY <1>2
<1>6. At(4) <=> k[1] = l[1] /\ k[2] = l[2] /\ k[3] = l[3] /\ BytesBefore(k[4], l[4])
    BY <1>2
<1> HIDE DEF At
<1> QED
    BY <1>1, <1>3, <1>4, <1>5, <1>6

(* They are in a strict total order, so the iterators of AssetDatabase.cpp *)
(* (291, 403) pass each entry once.                                        *)
LEMMA KeysOrder ==
    /\ \A k : IsKey(k) => ~ Before(k, k)
    /\ \A k, l : IsKey(k) /\ IsKey(l) => Before(k, l) \/ Before(l, k) \/ k = l
    /\ \A k, l, m : IsKey(k) /\ IsKey(l) /\ IsKey(m) /\ Before(k, l) /\ Before(l, m)
          => Before(k, m)
<1>1. ASSUME NEW k, IsKey(k) PROVE ~ Before(k, k)
    <2>1. k[1] \in Int /\ k[2] \in Nat /\ k[3] \in Nat /\ k[4] \in Nat
        BY <1>1 DEF IsKey
    <2>2. ~ (k[1] < k[1])
        BY <2>1
    <2> QED
        BY <2>1, <2>2, BytesOrder, BeforeMeans
<1>2. ASSUME NEW k, NEW l, IsKey(k), IsKey(l)
      PROVE  Before(k, l) \/ Before(l, k) \/ k = l
    <2>1. /\ k[2] \in Nat /\ k[3] \in Nat /\ k[4] \in Nat
          /\ l[2] \in Nat /\ l[3] \in Nat /\ l[4] \in Nat
        BY <1>2 DEF IsKey
    <2>2. k[1] < l[1] \/ l[1] < k[1] \/ k[1] = l[1]
        <3>1. k[1] \in Int /\ l[1] \in Int
            BY <1>2 DEF IsKey
        <3> QED
            BY <3>1
    <2>3. k = <<k[1], k[2], k[3], k[4]>> /\ l = <<l[1], l[2], l[3], l[4]>>
        BY <1>2 DEF IsKey
    <2>4. k[1] = l[1] /\ k[2] = l[2] /\ k[3] = l[3] /\ k[4] = l[4] => k = l
        BY <2>3, Zenon
    <2>5. BytesBefore(k[2], l[2]) \/ BytesBefore(l[2], k[2]) \/ k[2] = l[2]
        BY <2>1, BytesOrder
    <2>6. BytesBefore(k[3], l[3]) \/ BytesBefore(l[3], k[3]) \/ k[3] = l[3]
        BY <2>1, BytesOrder
    <2>7. BytesBefore(k[4], l[4]) \/ BytesBefore(l[4], k[4]) \/ k[4] = l[4]
        BY <2>1, BytesOrder
    <2> QED
        BY <2>2, <2>4, <2>5, <2>6, <2>7, BeforeMeans
<1>3. ASSUME NEW k, NEW l, NEW m, IsKey(k), IsKey(l), IsKey(m), Before(k, l), Before(l, m)
      PROVE  Before(k, m)
    <2>1. /\ k[1] \in Int /\ l[1] \in Int /\ m[1] \in Int
          /\ k[2] \in Nat /\ k[3] \in Nat /\ k[4] \in Nat
          /\ l[2] \in Nat /\ l[3] \in Nat /\ l[4] \in Nat
          /\ m[2] \in Nat /\ m[3] \in Nat /\ m[4] \in Nat
        BY <1>3 DEF IsKey
    <2>2. k[1] < l[1] /\ l[1] < m[1] => k[1] < m[1]
        BY <2>1
    <2>3. BytesBefore(k[2], l[2]) /\ BytesBefore(l[2], m[2]) => BytesBefore(k[2], m[2])
        BY <2>1, BytesOrder
    <2>4. BytesBefore(k[3], l[3]) /\ BytesBefore(l[3], m[3]) => BytesBefore(k[3], m[3])
        BY <2>1, BytesOrder
    <2>5. BytesBefore(k[4], l[4]) /\ BytesBefore(l[4], m[4]) => BytesBefore(k[4], m[4])
        BY <2>1, BytesOrder
    <2>6. \/ k[1] < l[1]
          \/ (k[1] = l[1] /\ BytesBefore(k[2], l[2]))
          \/ (k[1] = l[1] /\ k[2] = l[2] /\ BytesBefore(k[3], l[3]))
          \/ (k[1] = l[1] /\ k[2] = l[2] /\ k[3] = l[3] /\ BytesBefore(k[4], l[4]))
        BY <1>3, BeforeMeans
    <2>7. \/ l[1] < m[1]
          \/ (l[1] = m[1] /\ BytesBefore(l[2], m[2]))
          \/ (l[1] = m[1] /\ l[2] = m[2] /\ BytesBefore(l[3], m[3]))
          \/ (l[1] = m[1] /\ l[2] = m[2] /\ l[3] = m[3] /\ BytesBefore(l[4], m[4]))
        BY <1>3, BeforeMeans
    <2>8. \/ k[1] < m[1]
          \/ (k[1] = m[1] /\ BytesBefore(k[2], m[2]))
          \/ (k[1] = m[1] /\ k[2] = m[2] /\ BytesBefore(k[3], m[3]))
          \/ (k[1] = m[1] /\ k[2] = m[2] /\ k[3] = m[3] /\ BytesBefore(k[4], m[4]))
        BY <2>2, <2>3, <2>4, <2>5, <2>6, <2>7
    <2> QED
        BY <2>8, BeforeMeans
<1> QED
    BY <1>1, <1>2, <1>3

(* The rank of a key is a number, and grows with the key.                  *)
LEMMA RankNumber ==
    ASSUME NEW S, AreKeys(S), NEW k
    PROVE  Rank(S, k) \in Nat /\ IsFiniteSet({l \in S : Before(l, k)})
<1>1. IsFiniteSet(S) /\ {l \in S : Before(l, k)} \in SUBSET S
    BY DEF AreKeys
<1>2. IsFiniteSet({l \in S : Before(l, k)})
    BY <1>1, FS_Subset
<1> QED
    BY <1>2, FS_CardinalityType DEF Rank

LEMMA RankGrows ==
    ASSUME NEW S, AreKeys(S), NEW k \in S, NEW l \in S, Before(k, l)
    PROVE  Rank(S, k) < Rank(S, l)
<1> DEFINE lower == {m \in S : Before(m, k)}
           upper == {m \in S : Before(m, l)}
<1>1. IsFiniteSet(upper) /\ Rank(S, k) \in Nat /\ Rank(S, l) \in Nat
    BY RankNumber
<1>2. lower \in SUBSET upper
    BY KeysOrder DEF AreKeys
<1>3. k \in upper /\ k \notin lower
    BY KeysOrder DEF AreKeys
<1>4. Rank(S, k) = Cardinality(lower) /\ Rank(S, l) = Cardinality(upper)
    BY DEF Rank
<1> HIDE DEF lower, upper
<1>5. Cardinality(lower) <= Cardinality(upper) /\ Cardinality(lower) # Cardinality(upper)
    BY <1>1, <1>2, <1>3, FS_Subset
<1> QED
    BY <1>1, <1>4, <1>5

(* A set of keys has a first one, and a last one.                          *)
LEMMA FirstKey ==
    ASSUME NEW S, AreKeys(S), S # {}
    PROVE  \E k \in S : (\A l \in S : ~ Before(l, k)) /\ Rank(S, k) = 0
<1>1. PICK n \in {Rank(S, k) : k \in S} : \A m \in {Rank(S, k) : k \in S} : n <= m
    <2>1. {Rank(S, k) : k \in S} \in SUBSET Nat
        BY RankNumber
    <2>2. {Rank(S, k) : k \in S} # {}
        OBVIOUS
    <2> QED
        BY <2>1, <2>2, LeastNumber
<1>2. PICK k \in S : n = Rank(S, k)
    BY <1>1
<1>3. ASSUME NEW l \in S, Before(l, k) PROVE FALSE
    <2>1. Rank(S, l) < Rank(S, k) /\ Rank(S, l) \in Nat /\ Rank(S, k) \in Nat
        BY <1>3, RankGrows, RankNumber
    <2>2. Rank(S, k) <= Rank(S, l)
        BY <1>1, <1>2
    <2> QED
        BY <2>1, <2>2
<1>4. {l \in S : Before(l, k)} = {}
    BY <1>3
<1>5. Rank(S, k) = 0
    BY <1>4, FS_EmptySet DEF Rank
<1> QED
    BY <1>3, <1>5

LEMMA LastKey ==
    ASSUME NEW S, AreKeys(S), S # {}
    PROVE  \E k \in S : \A l \in S : ~ Before(k, l)
<1> DEFINE size == Cardinality(S)
           room(k) == size - Rank(S, k)
<1>1. size \in Nat
    BY FS_CardinalityType DEF AreKeys
<1>2. ASSUME NEW k \in S PROVE room(k) \in Nat
    <2>1. Rank(S, k) \in Nat
        BY RankNumber
    <2>2. Rank(S, k) <= size
        <3>1. {l \in S : Before(l, k)} \in SUBSET S /\ IsFiniteSet(S)
            BY DEF AreKeys
        <3> QED
            BY <3>1, FS_Subset DEF Rank
    <2> HIDE DEF size
    <2> QED
        BY <1>1, <2>1, <2>2
<1> HIDE DEF room
<1>3. PICK n \in {room(k) : k \in S} : \A m \in {room(k) : k \in S} : n <= m
    <2>1. {room(k) : k \in S} \in SUBSET Nat
        BY <1>2
    <2>2. {room(k) : k \in S} # {}
        OBVIOUS
    <2> QED
        BY <2>1, <2>2, LeastNumber
<1>4. PICK k \in S : n = room(k)
    BY <1>3
<1>5. ASSUME NEW l \in S, Before(k, l) PROVE FALSE
    <2>1. Rank(S, k) < Rank(S, l) /\ Rank(S, k) \in Nat /\ Rank(S, l) \in Nat
        BY <1>5, RankGrows, RankNumber
    <2>2. room(k) <= room(l)
        BY <1>3, <1>4
    <2> HIDE DEF size
    <2> QED
        BY <1>1, <2>1, <2>2 DEF room
<1> QED
    BY <1>5

(* The entry that follows the first.                                       *)
LEMMA SecondKey ==
    ASSUME NEW S, AreKeys(S), NEW p \in S, NEW q \in S, p # q
    PROVE  \E k \in S : /\ Rank(S, k) = 1
                        /\ ~ Before(p, k) \/ ~ Before(q, k)
<1>1. PICK f \in S : \A l \in S : ~ Before(l, f)
    BY FirstKey
<1> DEFINE T == S \ {f}
<1>2. AreKeys(T) /\ T # {}
    BY FS_Subset DEF AreKeys
<1>3. PICK k \in T : \A l \in T : ~ Before(l, k)
    <2> HIDE DEF T
    <2> QED
        BY <1>2, FirstKey
<1>4. {l \in S : Before(l, k)} = {f}
    <2>1. k \in S /\ k # f /\ ~ Before(k, f)
        BY <1>1, <1>3
    <2>2. Before(f, k)
        BY <2>1, KeysOrder DEF AreKeys
    <2> QED
        BY <1>3, <2>2
<1>5. Rank(S, k) = 1
    BY <1>4, FS_Singleton DEF Rank
<1>6. p \in T \/ q \in T
    OBVIOUS
<1>7. ~ Before(p, k) \/ ~ Before(q, k)
    BY <1>3, <1>6
<1> QED
    BY <1>3, <1>5, <1>7

----------------------------------------------------------------------------
(* A write keeps what it does not write.                                   *)
LEMMA WriteStores ==
    ASSUME NEW d, NEW batch
    PROVE  /\ DOMAIN Write(d, batch) = DOMAIN d \cup DOMAIN batch
           /\ \A k \in DOMAIN batch : Write(d, batch)[k] = batch[k]
           /\ \A k \in DOMAIN d \ DOMAIN batch : Write(d, batch)[k] = d[k]
BY DEF Write

(* Where a key is not the last one, a seek finds an entry.                 *)
LEMMA SeekFinds ==
    ASSUME NEW d, AreKeys(DOMAIN d), NEW key, NEW k \in DOMAIN d, ~ Before(k, key)
    PROVE  Seek(d, key) \in DOMAIN d /\ Seek(d, key) # PastEnd
<1> DEFINE rest == {l \in DOMAIN d : ~ Before(l, key)}
<1>1. AreKeys(rest) /\ rest # {} /\ rest \subseteq DOMAIN d
    BY FS_Subset DEF AreKeys
<1>2. Seek(d, key) = IF key \in rest THEN key ELSE IF rest = {} THEN PastEnd ELSE First(rest)
    BY DEF Seek
<1> HIDE DEF rest
<1>3. First(rest) \in rest
    BY <1>1, FirstKey DEF First
<1>4. Seek(d, key) \in DOMAIN d
    BY <1>1, <1>2, <1>3
<1>5. PastEnd[1] = 0
    BY DEF PastEnd
<1>6. Seek(d, key)[1] \in 1 .. 6
    BY <1>4 DEF AreKeys, IsKey
<1>7. 0 \notin 1 .. 6
    OBVIOUS
<1> QED
    BY <1>4, <1>5, <1>6, <1>7

----------------------------------------------------------------------------
(***************************************************************************)
(* The pages of a list                                                     *)
(***************************************************************************)
EntryOf(k, list) == k[1] = kListEntry /\ k[2] = list

(* All keys between the sentinels of a list are entries of it.             *)
LEMMA BetweenEntries ==
    ASSUME NEW list \in Nat, NEW token \in Nat, NEW k, IsKey(k),
           ~ Before(k, ListEntryKey(list, token, kBeginList)),
           ~ Before(ListEntryKey(list, kEndList, kEndList), k)
    PROVE  EntryOf(k, list)
<1> DEFINE t == ListEntryKey(list, token, kBeginList)
           e == ListEntryKey(list, kEndList, kEndList)
<1>1. t[1] = 3 /\ t[2] = list /\ e[1] = 3 /\ e[2] = list
    BY DEF ListEntryKey, kListEntry
<1>2. k[1] \in Int /\ k[2] \in Nat
    BY DEF IsKey
<1>3. ~ Before(k, t) /\ ~ Before(e, k)
    OBVIOUS
<1> HIDE DEF t, e
<1>4. ~ (k[1] < 3) /\ ~ (3 < k[1])
    BY <1>1, <1>3, BeforeMeans
<1>5. k[1] = 3
    BY <1>2, <1>4
<1>6. ~ BytesBefore(k[2], list) /\ ~ BytesBefore(list, k[2])
    BY <1>1, <1>3, <1>5, BeforeMeans
<1> QED
    BY <1>2, <1>5, <1>6, BytesOrder DEF EntryOf, kListEntry

(* An entry with the stamp of the token is not before the first entry that *)
(* may have it.                                                            *)
LEMMA TokenFirst ==
    ASSUME NEW list, NEW token \in Nat, NEW p, IsKey(p), EntryOf(p, list), p[3] = token
    PROVE  ~ Before(p, ListEntryKey(list, token, kBeginList))
<1> DEFINE t == ListEntryKey(list, token, kBeginList)
<1>1. t[1] = 3 /\ t[2] = list /\ t[3] = token /\ t[4] = 0
    BY DEF ListEntryKey, kListEntry, kBeginList
<1>2. p[1] = 3 /\ p[2] = list /\ p[2] \in Nat /\ p[4] \in Nat
    BY DEF EntryOf, IsKey, kListEntry
<1>3. ~ BytesBefore(list, list) /\ ~ BytesBefore(token, token)
    BY <1>2, BytesOrder
<1>4. ~ BytesBefore(p[4], 0)
    <2>1. 0 % Byte = 0 /\ p[4] % Byte \in 0 .. Byte - 1 /\ Byte \in Nat
        <3>1. Byte \in Nat \ {0}
            BY ByteAssumption
        <3>2. p[4] % Byte \in 0 .. Byte - 1
            BY <1>2, <3>1, DivMod
        <3>3. 0 % Byte = 0
            BY <3>1, SMT
        <3> QED
            BY <3>1, <3>2, <3>3
    <2>2. ~ (p[4] % Byte < 0)
        BY <2>1
    <2>3. ~ (p[4] < 0)
        BY <1>2
    <2> QED
        BY <2>1, <2>2, <2>3 DEF BytesBefore
<1> HIDE DEF t
<1>5. ~ Before(p, t)
    BY <1>1, <1>2, <1>3, <1>4, BeforeMeans
<1> QED
    BY <1>5 DEF t

(* An entry of the list that follows one at the token is on the page of    *)
(* getListNext or after all of it, and while the list and its end are      *)
(* stored a page that is asked for before the end is not empty             *)
(* (AssetDatabase.cpp:388-432).                                            *)
LEMMA PageFollows ==
    ASSUME NEW d, AreKeys(DOMAIN d), NEW list \in Nat, NEW token \in Nat,
           token # kEndList, NEW maxPairs \in Nat \ {0}
    PROVE  LET page == getListNext(d, list, token, maxPairs)
           IN  /\ page \subseteq {k \in DOMAIN d : EntryOf(k, list)}
               /\ \A p, e \in {k \in DOMAIN d : EntryOf(k, list)} :
                     p[3] = token /\ Before(p, e) /\ page # {} =>
                        e \in page \/ \A k \in page : Before(k, e)
               /\ \A p \in {k \in DOMAIN d : EntryOf(k, list)} :
                     /\ p[3] = token
                     /\ ListEntryKey(list, kEndList, kEndList) \in DOMAIN d
                     /\ ListKey(list) \in DOMAIN d
                     /\ Before(p, ListEntryKey(list, kEndList, kEndList))
                     => page # {}
<1> DEFINE t == ListEntryKey(list, token, kBeginList)
           rest == {k \in DOMAIN d : ~ Before(k, t)}
           following == {k \in rest : /\ k[1] = kListEntry /\ k[2] = list
                                      /\ Rank(rest, k) \in 1 .. maxPairs}
           pastEnd == Cardinality(following) < maxPairs
                      /\ Cardinality(rest) = Cardinality(following) + 1
           page == getListNext(d, list, token, maxPairs)
           here == {k \in DOMAIN d : EntryOf(k, list)}
           end == ListEntryKey(list, kEndList, kEndList)
<1>1. page = IF pastEnd THEN {} ELSE following
    BY DEF getListNext, Rank
<1>2. AreKeys(rest) /\ AreKeys(following) /\ IsKey(t)
    <2>1. rest \in SUBSET DOMAIN d /\ following \in SUBSET DOMAIN d
        OBVIOUS
    <2>2. IsFiniteSet(rest) /\ IsFiniteSet(following)
        <3> HIDE DEF rest, following
        <3> QED
            BY <2>1, FS_Subset DEF AreKeys
    <2>3. IsKey(t)
        BY DEF ListEntryKey, IsKey, kListEntry, kBeginList
    <2> QED
        BY <2>1, <2>2, <2>3 DEF AreKeys
<1>3. \A k \in DOMAIN d : IsKey(k)
    BY DEF AreKeys
<1>4. \A k \in rest : k \in DOMAIN d /\ ~ Before(k, t)
    OBVIOUS
<1>5. \A k : k \in following <=>
                k \in rest /\ EntryOf(k, list) /\ Rank(rest, k) \in 1 .. maxPairs
    BY DEF EntryOf
<1>6. ASSUME NEW p \in here, p[3] = token PROVE p \in rest
    <2>1. p \in DOMAIN d /\ IsKey(p) /\ EntryOf(p, list)
        BY <1>3
    <2>2. ~ Before(p, t)
        <3> HIDE DEF here
        <3> QED
            BY <2>1, <1>6, TokenFirst
    <2> QED
        BY <2>1, <2>2
<1>7. ASSUME NEW p \in rest, NEW e \in DOMAIN d, Before(p, e) PROVE e \in rest
    <2>1. IsKey(p) /\ IsKey(e) /\ ~ Before(p, t)
        BY <1>3
    <2>2. ~ Before(e, t)
        BY <1>7, <2>1, <1>2, KeysOrder
    <2> QED
        BY <2>2
<1> HIDE DEF t, rest, following, page
<1>8. page \subseteq here
    BY <1>1, <1>4, <1>5
<1>9. ASSUME NEW p \in here, NEW e \in here, p[3] = token, Before(p, e), page # {},
             e \notin page, NEW k \in page
      PROVE  Before(k, e)
    <2>1. p \in rest /\ e \in rest
        BY <1>6, <1>7, <1>9
    <2>2. k \in rest /\ Rank(rest, k) \in 1 .. maxPairs
        BY <1>1, <1>5, <1>9
    <2>3. Rank(rest, p) < Rank(rest, e) /\ Rank(rest, p) \in Nat /\ Rank(rest, e) \in Nat
        BY <1>2, <1>9, <2>1, RankGrows, RankNumber
    <2>4. Rank(rest, e) \notin 1 .. maxPairs
        BY <1>1, <1>5, <1>9, <2>1
    <2>5. Rank(rest, k) < Rank(rest, e)
        BY <2>2, <2>3, <2>4
    <2>6. ~ (Rank(rest, e) < Rank(rest, k)) /\ Rank(rest, k) # Rank(rest, e)
        BY <2>2, <2>3, <2>5
    <2>7. ~ Before(e, k) /\ k # e
        BY <1>2, <2>1, <2>2, <2>6, RankGrows
    <2> QED
        BY <2>1, <2>2, <2>7, <1>2, KeysOrder DEF AreKeys
<1>10. ASSUME NEW p \in here, p[3] = token, end \in DOMAIN d, ListKey(list) \in DOMAIN d,
              Before(p, end)
       PROVE  page # {}
    <2>1. p \in rest /\ end \in rest /\ IsKey(p) /\ IsKey(end)
        BY <1>3, <1>6, <1>7, <1>10
    <2>2. Before(p, ListKey(list)) /\ ListKey(list) \in rest /\ IsKey(ListKey(list))
        <3>1. p[1] = 3 /\ ListKey(list)[1] = 4
            BY DEF EntryOf, ListKey, kListEntry, kList
        <3>2. Before(p, ListKey(list))
            <4>1. p[1] < ListKey(list)[1]
                BY <3>1
            <4> QED
                BY <4>1, BeforeMeans
        <3> QED
            BY <3>2, <2>1, <1>3, <1>7, <1>10
    <2>3. PICK k \in rest : Rank(rest, k) = 1 /\ (~ Before(p, k) \/ ~ Before(end, k))
        <3>1. p # end
            BY <1>10, <2>1, KeysOrder
        <3> QED
            BY <1>2, <2>1, <3>1, SecondKey
    <2>4. IsKey(k) /\ ~ Before(end, k) /\ ~ Before(k, t)
        BY <1>2, <1>3, <1>4, <1>10, <2>1, <2>3, KeysOrder
    <2>5. EntryOf(k, list)
        BY <2>4, BetweenEntries DEF t
    <2>6. k \in following
        <3>1. 1 \in 1 .. maxPairs
            OBVIOUS
        <3> QED
            BY <1>5, <2>3, <2>5, <3>1
    <2>7. PICK f \in rest : (\A l \in rest : ~ Before(l, f)) /\ Rank(rest, f) = 0
        <3>1. rest # {}
            BY <2>1
        <3> QED
            BY <1>2, <3>1, FirstKey
    <2>8. f \notin following /\ ListKey(list) \notin following /\ f # ListKey(list)
        <3>1. f \notin following
            <4>1. 0 \notin 1 .. maxPairs
                OBVIOUS
            <4> QED
                BY <1>5, <2>7, <4>1
        <3>2. ListKey(list) \notin following
            <4>1. ~ EntryOf(ListKey(list), list)
                BY DEF EntryOf, ListKey, kListEntry, kList
            <4> QED
                BY <4>1, <1>5
        <3>3. f # ListKey(list)
            BY <2>1, <2>2, <2>7
        <3> QED
            BY <3>1, <3>2, <3>3
    <2>9. ~ pastEnd
        <3> DEFINE one == following \cup {f}
                   two == one \cup {ListKey(list)}
        <3>1. IsFiniteSet(following) /\ IsFiniteSet(rest)
            BY <1>2 DEF AreKeys
        <3>2. IsFiniteSet(one) /\ Cardinality(one) = Cardinality(following) + 1
            BY <2>8, <3>1, FS_AddElement
        <3>3. ListKey(list) \notin one
            BY <2>8
        <3>4. two \in SUBSET rest
            BY <1>5, <2>2, <2>7
        <3> HIDE DEF one
        <3>5. IsFiniteSet(two) /\ Cardinality(two) = Cardinality(one) + 1
            BY <3>2, <3>3, FS_AddElement
        <3> HIDE DEF two
        <3>6. Cardinality(two) <= Cardinality(rest)
            BY <3>1, <3>4, FS_Subset
        <3>7. /\ Cardinality(following) \in Nat /\ Cardinality(rest) \in Nat
            BY <3>1, FS_CardinalityType
        <3>8. Cardinality(rest) # Cardinality(following) + 1
            BY <3>2, <3>5, <3>6, <3>7
        <3> QED
            BY <3>8
    <2> QED
        BY <1>1, <2>6, <2>9
<1>11. \A p, e \in here : p[3] = token /\ Before(p, e) /\ page # {} =>
                        e \in page \/ \A k \in page : Before(k, e)
    BY <1>9
<1>12. \A p \in here :
          /\ p[3] = token
          /\ end \in DOMAIN d
          /\ ListKey(list) \in DOMAIN d
          /\ Before(p, end)
          => page # {}
    BY <1>10
<1> QED
    BY <1>8, <1>11, <1>12 DEF page

(* A page has a last entry.                                                *)
LEMMA PageLast ==
    ASSUME NEW d, AreKeys(DOMAIN d), NEW page, page \subseteq DOMAIN d, page # {}
    PROVE  \E k \in page : \A l \in page : ~ Before(k, l)
<1>1. page \in SUBSET DOMAIN d /\ AreKeys(page)
    BY FS_Subset DEF AreKeys
<1> QED
    BY <1>1, LastKey

(* The sentinels are the first and the last entry of a list.               *)
LEMMA Sentinels ==
    ASSUME NEW list, NEW k, IsKey(k), EntryOf(k, list)
    PROVE  /\ k # ListEntryKey(list, kBeginList, kBeginList) =>
                 Before(ListEntryKey(list, kBeginList, kBeginList), k)
           /\ k[3] \in Word /\ k[4] \in Word =>
                 ~ Before(ListEntryKey(list, kEndList, kEndList), k)
           /\ k[3] \in Word /\ k[4] \in Word /\ k[3] # kEndList =>
                 Before(k, ListEntryKey(list, kEndList, kEndList))
<1> DEFINE b == ListEntryKey(list, kBeginList, kBeginList)
           e == ListEntryKey(list, kEndList, kEndList)
<1>1. /\ k[1] = 3 /\ k[2] = list /\ list \in Nat /\ k[3] \in Nat /\ k[4] \in Nat
      /\ b[1] = 3 /\ b[2] = list /\ b[3] = 0 /\ b[4] = 0 /\ b = <<3, list, 0, 0>>
      /\ e[1] = 3 /\ e[2] = list /\ e[3] = kEndList /\ e[4] = kEndList
      /\ e = <<3, list, kEndList, kEndList>>
    BY DEF EntryOf, IsKey, ListEntryKey, kListEntry, kBeginList
<1>2. \A n \in Nat : ~ BytesBefore(n, 0)
    <2> TAKE n \in Nat
    <2>1. Byte \in Nat \ {0}
        BY ByteAssumption
    <2>2. n % Byte \in 0 .. Byte - 1 /\ 0 % Byte = 0
        <3>1. n % Byte \in 0 .. Byte - 1
            BY <2>1, DivMod
        <3>2. 0 % Byte = 0
            BY <2>1, SMT
        <3> QED
            BY <3>1, <3>2
    <2>3. ~ (n % Byte < 0) /\ ~ (n < 0)
        BY <2>1, <2>2
    <2> QED
        BY <2>2, <2>3 DEF BytesBefore
<1>3. IsKey(b) /\ IsKey(e)
    BY <1>1, EndIsLast DEF IsKey
<1>4. ~ BytesBefore(list, list) /\ ~ BytesBefore(0, 0) /\ ~ (3 < 3)
    BY <1>1, BytesOrder
<1> HIDE DEF b, e
<1>5. ~ Before(k, b)
    BY <1>1, <1>2, <1>4, BeforeMeans
<1>6. k # b => Before(b, k)
    BY <1>3, <1>5, KeysOrder
<1>7. k[3] \in Word /\ k[4] \in Word => ~ Before(e, k)
    BY <1>1, <1>4, EndIsLast, BeforeMeans
<1>8. k[3] \in Word /\ k[4] \in Word /\ k[3] # kEndList => Before(k, e)
    <2>1. k[3] # kEndList => k # e
        BY <1>1
    <2> QED
        BY <1>3, <1>7, <2>1, KeysOrder
<1> QED
    BY <1>6, <1>7, <1>8 DEF b, e

----------------------------------------------------------------------------
(***************************************************************************)
(* What the database is after an asset or a list is stored                 *)
(***************************************************************************)
NameKeys(asset) == IF asset.name = NoName THEN {} ELSE {AssetNameKey(asset.name)}
EntryKeys(asset, time, key) == {ListEntryKey(l, time, key) : l \in asset.lists}

IsAssetStored(d1, d, key, asset, time) ==
    /\ DOMAIN d1 = DOMAIN d \cup {AssetKey(key)} \cup EntryKeys(asset, time, key)
                     \cup NameKeys(asset)
    /\ d1[AssetKey(key)] = asset
    /\ \A k \in NameKeys(asset) : d1[k] = key
    /\ \A k \in DOMAIN d :
          k \notin {AssetKey(key)} \cup EntryKeys(asset, time, key) \cup NameKeys(asset)
             => d1[k] = d[k]

LEMMA AssetStored ==
    ASSUME NEW d, NEW key, NEW asset, NEW time
    PROVE  IsAssetStored(storeAsset(d, key, asset, time), d, key, asset, time)
<1> DEFINE entries == EntryKeys(asset, time, key)
           names == NameKeys(asset)
           batch == [k \in {AssetKey(key)} \cup entries \cup names |->
                      CASE k = AssetKey(key) -> asset
                        [] k \in entries     -> NoValue
                        [] k \in names       -> key]
           d1 == storeAsset(d, key, asset, time)
<1>1. d1 = Write(d, batch)
    BY DEF storeAsset, EntryKeys, NameKeys
<1>2. AssetKey(key)[1] = 1
    BY DEF AssetKey, kAsset
<1>3. \A k \in entries : k[1] = 3
    BY DEF EntryKeys, ListEntryKey, kListEntry
<1>4. \A k \in names : k[1] = 5
    BY DEF NameKeys, AssetNameKey, kAssetName
<1> HIDE DEF entries, names, d1
<1>5. DOMAIN batch = {AssetKey(key)} \cup entries \cup names
    BY Zenon
<1>6. batch[AssetKey(key)] = asset
    BY <1>2, <1>3, <1>4
<1>8. \A k \in names : batch[k] = key
    BY <1>2, <1>3, <1>4
<1> HIDE DEF batch
<1>9. /\ DOMAIN d1 = DOMAIN d \cup DOMAIN batch
      /\ \A k \in DOMAIN batch : d1[k] = batch[k]
      /\ \A k \in DOMAIN d \ DOMAIN batch : d1[k] = d[k]
    <2>1. PICK b : b = batch
        OBVIOUS
    <2>2. /\ DOMAIN Write(d, b) = DOMAIN d \cup DOMAIN b
          /\ \A k \in DOMAIN b : Write(d, b)[k] = b[k]
          /\ \A k \in DOMAIN d \ DOMAIN b : Write(d, b)[k] = d[k]
        BY WriteStores
    <2> QED
        BY <1>1, <2>1, <2>2
<1>10. /\ DOMAIN d1 = DOMAIN d \cup {AssetKey(key)} \cup entries \cup names
       /\ d1[AssetKey(key)] = asset
       /\ \A k \in names : d1[k] = key
       /\ \A k \in DOMAIN d : k \notin {AssetKey(key)} \cup entries \cup names
             => d1[k] = d[k]
    BY <1>5, <1>6, <1>8, <1>9
<1> QED
    BY <1>10, Zenon DEF d1, entries, names, IsAssetStored

SentinelKeys(list) == {ListEntryKey(list, kBeginList, kBeginList),
                       ListEntryKey(list, kEndList, kEndList)}
ListNameKeys(record) == IF record.name = NoName THEN {} ELSE {ListNameKey(record.name)}

IsListStored(d1, d, list, record) ==
    /\ DOMAIN d1 = DOMAIN d \cup {ListKey(list)} \cup SentinelKeys(list)
                     \cup ListNameKeys(record)
    /\ d1[ListKey(list)] = record
    /\ \A k \in ListNameKeys(record) : d1[k] = list
    /\ \A k \in DOMAIN d :
          k \notin {ListKey(list)} \cup SentinelKeys(list) \cup ListNameKeys(record)
             => d1[k] = d[k]

LEMMA ListStored ==
    ASSUME NEW d, NEW list, NEW record
    PROVE  IsListStored(storeList(d, list, record), d, list, record)
<1> DEFINE sentinels == SentinelKeys(list)
           names == ListNameKeys(record)
           batch == [k \in {ListKey(list)} \cup sentinels \cup names |->
                      CASE k = ListKey(list) -> record
                        [] k \in sentinels   -> NoValue
                        [] k \in names       -> list]
           d1 == storeList(d, list, record)
<1>1. d1 = Write(d, batch)
    BY DEF storeList, SentinelKeys, ListNameKeys
<1>2. ListKey(list)[1] = 4
    BY DEF ListKey, kList
<1>3. \A k \in sentinels : k[1] = 3
    BY DEF SentinelKeys, ListEntryKey, kListEntry
<1>4. \A k \in names : k[1] = 6
    BY DEF ListNameKeys, ListNameKey, kListName
<1> HIDE DEF sentinels, names, d1
<1>5. DOMAIN batch = {ListKey(list)} \cup sentinels \cup names
    BY Zenon
<1>6. batch[ListKey(list)] = record
    BY <1>2, <1>3, <1>4
<1>8. \A k \in names : batch[k] = list
    BY <1>2, <1>3, <1>4
<1> HIDE DEF batch
<1>9. /\ DOMAIN d1 = DOMAIN d \cup DOMAIN batch
      /\ \A k \in DOMAIN batch : d1[k] = batch[k]
      /\ \A k \in DOMAIN d \ DOMAIN batch : d1[k] = d[k]
    <2>1. PICK b : b = batch
        OBVIOUS
    <2>2. /\ DOMAIN Write(d, b) = DOMAIN d \cup DOMAIN b
          /\ \A k \in DOMAIN b : Write(d, b)[k] = b[k]
          /\ \A k \in DOMAIN d \ DOMAIN b : Write(d, b)[k] = d[k]
        BY WriteStores
    <2> QED
        BY <1>1, <2>1, <2>2
<1>10. /\ DOMAIN d1 = DOMAIN d \cup {ListKey(list)} \cup sentinels \cup names
       /\ d1[ListKey(list)] = record
       /\ \A k \in names : d1[k] = list
       /\ \A k \in DOMAIN d : k \notin {ListKey(list)} \cup sentinels \cup names
             => d1[k] = d[k]
    BY <1>5, <1>6, <1>8, <1>9
<1> QED
    BY <1>10, Zenon DEF d1, sentinels, names, IsListStored

(* Finite sets of keys stay so.                                            *)
LEMMA AssetStoredKeys ==
    ASSUME NEW d, AreKeys(DOMAIN d), NEW key \in Nat, NEW asset, NEW time \in Nat,
           asset.name \in Nat, asset.lists \subseteq Nat, IsFiniteSet(asset.lists)
    PROVE  AreKeys(DOMAIN storeAsset(d, key, asset, time))
<1> DEFINE entries == EntryKeys(asset, time, key)
           names == NameKeys(asset)
<1>1. DOMAIN storeAsset(d, key, asset, time)
         = DOMAIN d \cup {AssetKey(key)} \cup entries \cup names
    <2>1. PICK d1 : d1 = storeAsset(d, key, asset, time)
        OBVIOUS
    <2>2. IsAssetStored(d1, d, key, asset, time)
        BY <2>1, AssetStored
    <2> QED
        BY <2>1, <2>2 DEF IsAssetStored
<1>2. IsKey(AssetKey(key)) /\ \A k \in entries : IsKey(k)
    <2>1. IsKey(AssetKey(key))
        BY DEF IsKey, AssetKey, kAsset
    <2>2. ASSUME NEW l \in asset.lists PROVE IsKey(ListEntryKey(l, time, key))
        <3>1. l \in Nat
            OBVIOUS
        <3> QED
            BY <3>1 DEF IsKey, ListEntryKey, kListEntry
    <2> QED
        BY <2>1, <2>2 DEF EntryKeys
<1>3. \A k \in names : IsKey(k)
    <2>1. IsKey(AssetNameKey(asset.name))
        BY DEF IsKey, AssetNameKey, kAssetName
    <2> QED
        BY <2>1 DEF NameKeys
<1>4. IsFiniteSet(entries)
    <2> DEFINE f == [l \in asset.lists |-> ListEntryKey(l, time, key)]
    <2>1. f \in Surjection(asset.lists, entries)
        BY DEF Surjection, EntryKeys
    <2> HIDE DEF f
    <2> QED
        BY <2>1, FS_Surjection
<1>5. IsFiniteSet(names)
    BY FS_EmptySet, FS_Singleton DEF NameKeys
<1> HIDE DEF entries, names
<1>6. IsFiniteSet(DOMAIN d \cup {AssetKey(key)} \cup entries \cup names)
    <2>1. IsFiniteSet(DOMAIN d \cup {AssetKey(key)})
        BY FS_AddElement DEF AreKeys
    <2>2. IsFiniteSet(DOMAIN d \cup {AssetKey(key)} \cup entries)
        BY <1>4, <2>1, FS_Union
    <2> QED
        BY <1>5, <2>2, FS_Union
<1> QED
    BY <1>1, <1>2, <1>3, <1>6 DEF AreKeys

LEMMA ListStoredKeys ==
    ASSUME NEW d, AreKeys(DOMAIN d), NEW list \in Nat, NEW record, record.name \in Nat
    PROVE  AreKeys(DOMAIN storeList(d, list, record))
<1> DEFINE names == ListNameKeys(record)
           first == ListEntryKey(list, kBeginList, kBeginList)
           last == ListEntryKey(list, kEndList, kEndList)
<1>1. DOMAIN storeList(d, list, record)
         = DOMAIN d \cup {ListKey(list)} \cup {first, last} \cup names
    <2>1. PICK d1 : d1 = storeList(d, list, record)
        OBVIOUS
    <2>2. IsListStored(d1, d, list, record)
        BY <2>1, ListStored
    <2> QED
        BY <2>1, <2>2 DEF IsListStored, SentinelKeys
<1>2. IsKey(ListKey(list)) /\ IsKey(first) /\ IsKey(last)
    <2>1. IsKey(ListKey(list))
        BY DEF IsKey, ListKey, kList
    <2>2. IsKey(first)
        BY DEF IsKey, ListEntryKey, kListEntry, kBeginList
    <2>3. IsKey(last)
        BY EndIsLast DEF IsKey, ListEntryKey, kListEntry
    <2> QED
        BY <2>1, <2>2, <2>3
<1>3. \A k \in names : IsKey(k)
    <2>1. IsKey(ListNameKey(record.name))
        BY DEF IsKey, ListNameKey, kListName
    <2> QED
        BY <2>1 DEF ListNameKeys
<1>4. IsFiniteSet(names)
    BY FS_EmptySet, FS_Singleton DEF ListNameKeys
<1> HIDE DEF first, last, names
<1>5. IsFiniteSet(DOMAIN d \cup {ListKey(list)} \cup {first, last} \cup names)
    <2>1. IsFiniteSet(DOMAIN d \cup {ListKey(list)})
        BY FS_AddElement DEF AreKeys
    <2>2. IsFiniteSet({first, last})
        <3>1. {first, last} = {first} \cup {last}
            OBVIOUS
        <3>2. IsFiniteSet({first})
            BY FS_Singleton
        <3>3. IsFiniteSet({first} \cup {last})
            BY <3>2, FS_AddElement
        <3> QED
            BY <3>1, <3>3
    <2>3. IsFiniteSet(DOMAIN d \cup {ListKey(list)} \cup {first, last})
        BY <2>1, <2>2, FS_Union
    <2> QED
        BY <1>4, <2>3, FS_Union
<1> QED
    BY <1>1, <1>2, <1>3, <1>5 DEF AreKeys
=============================================================================
