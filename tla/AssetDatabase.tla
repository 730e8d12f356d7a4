--------------------------- MODULE AssetDatabase ---------------------------
(***************************************************************************)
(* The asset database of Confab, a LevelDB database kept both by the       *)
(* server and, as a cache of records, by each confab client.  A database   *)
(* value is a function from the keys it holds to their values; each        *)
(* operator is one method of the class AssetDatabase.                      *)
(*                                                                         *)
(* A key is a tuple <<prefix, n1, n2, n3>>, the numbers an entry does not  *)
(* have being 0.  LevelDB orders keys by their bytes, and the numbers are  *)
(* copied into the key in the byte order of the machine, lowest byte       *)
(* first.  A word of two bytes with Byte values each stands for the 64-bit *)
(* integers, so that numeric order and key order differ as they do there.  *)
(*                                                                         *)
(* A RecordPtr is what the code makes of it, the position of an iterator:  *)
(* a key of the database, EmptyRecord, or PastEnd for an iterator that is  *)
(* not valid, whose value cannot be read.                                  *)
(***************************************************************************)
EXTENDS Integers, FiniteSets

CONSTANT Byte          \* the number of values of a byte

ASSUME ByteAssumption == Byte \in Nat \ {0, 1}

kBeginList == 0
kEndList == Byte * Byte - 1

(* The prefixes, in the order of their characters: a d e l na nl           *)
kAsset == 1
kAssetData == 2
kListEntry == 3
kList == 4
kAssetName == 5
kListName == 6

AssetKey(key) == <<kAsset, key, 0, 0>>
AssetDataKey(key, chunk) == <<kAssetData, key, chunk, 0>>
ListEntryKey(list, time, key) == <<kListEntry, list, time, key>>
ListKey(list) == <<kList, list, 0, 0>>
AssetNameKey(name) == <<kAssetName, name, 0, 0>>
ListNameKey(name) == <<kListName, name, 0, 0>>

EmptyRecord == <<>>
PastEnd == <<0, 0, 0, 0>>

NoName == 0
NoValue == <<>>        \* the value of an entry that only has a key

(***************************************************************************)
(* The order of the keys, and the iterator                                 *)
(***************************************************************************)
BytesBefore(m, n) ==
    \/ m % Byte < n % Byte
    \/ m % Byte = n % Byte /\ m < n

Before(k, l) ==
    \E i \in 1..4 :
        /\ \A j \in 1 .. i - 1 : k[j] = l[j]
        /\ IF i = 1 THEN k[1] < l[1] ELSE BytesBefore(k[i], l[i])

First(keys) == CHOOSE k \in keys : \A l \in keys : ~ Before(l, k)

Seek(db, key) ==
    LET rest == {k \in DOMAIN db : ~ Before(k, key)}
    IN  IF key \in rest THEN key ELSE IF rest = {} THEN PastEnd ELSE First(rest)

(* leveldb::WriteBatch: all the entries of the batch are stored, or none.  *)
Write(db, batch) ==
    [k \in DOMAIN db \cup DOMAIN batch |->
        IF k \in DOMAIN batch THEN batch[k] ELSE db[k]]

(***************************************************************************)
(* Assets.  No code sets deprecatedBy in a record it stores, so the loop   *)
(* that follows deprecating assets in findAsset is never entered.          *)
(***************************************************************************)
findAsset(db, key) ==
    IF AssetKey(key) \in DOMAIN db THEN AssetKey(key) ELSE EmptyRecord

findNamedAsset(db, name) ==
    IF AssetNameKey(name) \in DOMAIN db
    THEN findAsset(db, db[AssetNameKey(name)])
    ELSE EmptyRecord

(* The record of an asset in no list has no lists field, and the size of   *)
(* that missing vector is read: the process dies.                          *)
StoreIsFatal(asset) == asset.lists = {}

storeAssetUnlisted(db, key, asset, time) ==                   \* mutant
    Write(db, [k \in {AssetKey(key)} |-> asset])
storeAssetLinks(db, key, asset, time) ==                      \* mutant
    Write(db, [k \in {ListEntryKey(l, time, key) : l \in asset.lists} |-> NoValue])
storeAsset(db, key, asset, time) ==
    LET entries == {ListEntryKey(l, time, key) : l \in asset.lists}
        names == IF asset.name = NoName THEN {} ELSE {AssetNameKey(asset.name)}
    IN  Write(db, [k \in {AssetKey(key)} \cup entries \cup names |->
                      CASE k = AssetKey(key) -> asset
                        [] k \in entries     -> NoValue
                        [] k \in names       -> key])

(* The record of a chunk that is missing is not empty: it is whatever      *)
(* entry comes next.                                                       *)
loadAssetDataChunk(db, key, chunk) == Seek(db, AssetDataKey(key, chunk))

storeAssetDataChunk(db, key, chunk, data) ==
    Write(db, [k \in {AssetDataKey(key, chunk)} |-> data])

(***************************************************************************)
(* Lists                                                                   *)
(***************************************************************************)
storeList(db, list, record) ==
    LET sentinels == {ListEntryKey(list, kBeginList, kBeginList),
                      ListEntryKey(list, kEndList, kEndList)}
        names == IF record.name = NoName THEN {} ELSE {ListNameKey(record.name)}
    IN  Write(db, [k \in {ListKey(list)} \cup sentinels \cup names |->
                      CASE k = ListKey(list) -> record
                        [] k \in sentinels   -> NoValue
                        [] k \in names       -> list])

loadList(db, list) == Seek(db, ListKey(list))

findNamedList(db, name) ==
    IF ListNameKey(name) \in DOMAIN db
    THEN loadList(db, db[ListNameKey(name)])
    ELSE EmptyRecord

(* The entries of the list that follow the one at the token, at most       *)
(* maxPairs of them.  The entry the iterator is first put on is skipped.   *)
(* When the walk runs past the last key of the database, what it collected *)
(* is dropped.                                                             *)
getListNextStamp(db, list, token, maxPairs) ==                \* mutant
    LET rest == {k \in DOMAIN db : ~ Before(k, ListEntryKey(list, token, kEndList))}
    IN  IF token = kEndList THEN {ListEntryKey(list, kEndList, kEndList)}
        ELSE {k \in rest :
                 /\ k[1] = kListEntry /\ k[2] = list
                 /\ Cardinality({l \in rest : Before(l, k)}) < maxPairs}
getListNext(db, list, token, maxPairs) ==
    LET rest == {k \in DOMAIN db : ~ Before(k, ListEntryKey(list, token, kBeginList))}
        page == {k \in rest :
                    /\ k[1] = kListEntry /\ k[2] = list
                    /\ Cardinality({l \in rest : Before(l, k)}) \in 1 .. maxPairs}
        pastEnd == Cardinality(page) < maxPairs /\ Cardinality(rest) = Cardinality(page) + 1
    IN  CASE token = kEndList               -> {ListEntryKey(list, kEndList, kEndList)}
          [] token # kEndList /\ pastEnd   -> {}
          [] token # kEndList /\ ~ pastEnd -> page
=============================================================================
