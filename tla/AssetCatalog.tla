---------------------------- MODULE AssetCatalog ---------------------------
(***************************************************************************)
(* Finding what others have added: the commands of SuperCollider about     *)
(* string assets, names and lists, from the call of SCLOrkConfab through   *)
(* its confab and the server to the callback.                              *)
(*                                                                         *)
(* Each musician has one SuperCollider and one confab, which exchange OSC  *)
(* messages over the loopback interface; these are not lost or reordered.  *)
(* A confab handles one message at a time and makes at most one HTTP       *)
(* request for it, so an action is the handling of one message.            *)
(*                                                                         *)
(* A key is drawn at random, or is the hash of a string with random salt;  *)
(* drawing the same key twice is left out.  Processes that end stay down:  *)
(* restarts are in module AssetTransfer.                                   *)
(***************************************************************************)
EXTENDS HttpEndpoint, Sequences, FiniteSetsExt

(* One list is there from an earlier session, with one unnamed asset.      *)
OldList == 1
OldName == 1
OldTime == 1
OldAsset == [key |-> 2, name |-> NoName, lists |-> {OldList}, content |-> NoValue]

CONSTANTS
    Client,
    Key,           \* the keys and names
    Draws,         \* bound: sequences of keys the random numbers may give
    Draft,         \* name -> [name, lists, fits]: the strings that are added
    Asks,          \* bound: client -> what it may ask -> how many times
    MaxAsks,       \* bound: client -> how many times it may ask at all
    MaxPairs,      \* pairs on a page of list items (120)
    MaxInFlight,   \* bound: client -> its messages not yet taken
    Time,          \* bound: the time stamps
    MaxFaults      \* bound: failed writes

ASSUME CatalogAssumption ==
    /\ Key \subseteq 1 .. kEndList - 1
    /\ Draws \subseteq Seq(Key)
    /\ \A drawn \in Draws :
          {OldList, OldAsset.key} \cap Range(drawn) = {} /\ IsInjective(drawn)
    (* The id of a list that does not exist yet cannot be known.           *)
    /\ \A d \in DOMAIN Draft :
          /\ Draft[d] \in [name : Key \cup {NoName}, lists : SUBSET Key, fits : BOOLEAN]
          /\ \A drawn \in Draws : Draft[d].lists \cap Range(drawn) = {}
    /\ Asks \in [Client -> {Asks[c] : c \in Client}]
    /\ \A c \in Client : Asks[c] \in [DOMAIN Asks[c] -> Nat]
    /\ MaxPairs \in Nat \ {0}
    /\ Time \subseteq OldTime + 1 .. kEndList - 1
    /\ MaxAsks \in [Client -> Nat]
    /\ MaxInFlight \in [Client -> Nat]
    /\ MaxFaults \in Nat

VARIABLES
    db,            \* the database of the server
    serverUp,
    now,           \* the last time stamp that was stored
    keys,          \* the keys that are drawn from now on
    up,            \* client -> its confab is running
    local,         \* client -> the database of its confab
    inbox,         \* client -> messages to its confab
    outbox,        \* client -> messages to its SuperCollider
    addSerial,     \* client -> the serial of its next asset
    callbacks,     \* client -> [add, find, list]: what has a callback
    walk,          \* client -> its walk through a list
    left,          \* client -> what it may ask -> times left
    added,         \* history: client -> <<serial, draft, key>> it was told
    strays,        \* history: client -> answers that met no callback
    faults

confabVars == <<db, serverUp, now, keys, up, local, faults>>
scVars == <<addSerial, callbacks, walk, left, added, strays>>
vars == <<db, serverUp, now, keys, up, local, faults, inbox, outbox,
          addSerial, callbacks, walk, left, added, strays>>

NoWalk == [state |-> "none", list |-> 0, there |-> FALSE, due |-> {}, seen |-> {}]

Init ==
    /\ db = storeAsset(storeList(<<>>, OldList, [key |-> OldList, name |-> OldName]),
                       OldAsset.key, OldAsset, OldTime)
    /\ serverUp = TRUE
    /\ now = OldTime
    /\ keys \in Draws
    /\ up = [c \in Client |-> TRUE]
    /\ local = [c \in Client |-> <<>>]
    /\ inbox = [c \in Client |-> <<>>]
    /\ outbox = [c \in Client |-> <<>>]
    /\ addSerial = [c \in Client |-> 1]
    /\ callbacks = [c \in Client |-> [add |-> {}, find |-> {}, list |-> {}]]
    /\ walk = [c \in Client |-> NoWalk]
    /\ left = Asks
    /\ added = [c \in Client |-> {}]
    /\ strays = [c \in Client |-> {}]
    /\ faults = 0

(* The keys of the assets that have an entry in a list, and all its        *)
(* entries.                                                                *)
Entries(l) == {k \in DOMAIN db : k[1] = kListEntry /\ k[2] = l}
Members(l) == {k[4] : k \in Entries(l)} \ {kBeginList, kEndList}

(***************************************************************************)
(* SuperCollider: the calls.  The identities in the find map are ids and   *)
(* names, in the list map names and the ids of lists.                      *)
(***************************************************************************)
Id(k) == <<"id", k>>
Named(n) == <<"name", n>>
Message(cmd, arg, n) == [cmd |-> cmd, arg |-> arg, n |-> n]

Asked(c) == MapThenSumSet(LAMBDA r : Asks[c][r] - left[c][r], DOMAIN Asks[c])

Ask(c, cmd, arg) ==
    /\ up[c]
    /\ <<cmd, arg>> \in DOMAIN left[c]
    /\ left[c][<<cmd, arg>>] > 0
    /\ Asked(c) < MaxAsks[c]
    /\ Len(inbox[c]) + Len(outbox[c]) < MaxInFlight[c]
    /\ left' = [left EXCEPT ![c][<<cmd, arg>>] = @ - 1]

(* A message to a confab that is down is lost.                             *)
Send(c, message) ==
    IF up[c] THEN inbox' = [inbox EXCEPT ![c] = Append(@, message)]
    ELSE UNCHANGED inbox

AddAssetStringOneSerial(c) ==                                 \* mutant
    \E d \in DOMAIN Draft :
        /\ Ask(c, "assetAddString", d)
        /\ Send(c, Message("assetAddString", d, addSerial[c]))
        /\ callbacks' = [callbacks EXCEPT ![c].add = @ \cup {<<addSerial[c], d>>}]
        /\ UNCHANGED <<confabVars, outbox, addSerial, walk, added, strays>>
AddAssetString(c) ==
    \E d \in DOMAIN Draft :
        /\ Ask(c, "assetAddString", d)
        /\ Send(c, Message("assetAddString", d, addSerial[c]))
        /\ callbacks' = [callbacks EXCEPT ![c].add = @ \cup {<<addSerial[c], d>>}]
        /\ addSerial' = [addSerial EXCEPT ![c] = @ + 1]
        /\ UNCHANGED <<confabVars, outbox, walk, added, strays>>

Find(c, cmd, arg, identity) ==
    /\ Ask(c, cmd, arg)
    /\ Send(c, Message(cmd, arg, 0))
    /\ callbacks' = [callbacks EXCEPT ![c].find = @ \cup {identity}]
    /\ UNCHANGED <<confabVars, outbox, addSerial, walk, added, strays>>

FindAssetById(c) == \E k \in Key \cup {0} : Find(c, "assetFind", k, Id(k))
FindAssetByName(c) == \E n \in Key : Find(c, "assetFindName", n, Named(n))

NameList(c, cmd, name) ==
    /\ Ask(c, cmd, name)
    /\ Send(c, Message(cmd, name, 0))
    /\ callbacks' = [callbacks EXCEPT ![c].list = @ \cup {Named(name)}]
    /\ UNCHANGED <<confabVars, outbox, addSerial, walk, added, strays>>

CreateList(c) == \E n \in Key : NameList(c, "listAdd", n)
FindListByName(c) == \E n \in Key : NameList(c, "listFind", n)

(* A walk through a list: its first page is asked for, and the callback    *)
(* asks for the next, until the page with the end of the list.             *)
GetListNext(c) ==
    \E l \in Key :
        /\ walk[c].state # "on"
        /\ Ask(c, "listNext", l)
        /\ Send(c, Message("listNext", l, kBeginList))
        /\ callbacks' = [callbacks EXCEPT ![c].list = @ \cup {Id(l)}]
        /\ walk' = [walk EXCEPT ![c] =
              [state |-> "on", list |-> l, there |-> ListKey(l) \in DOMAIN db,
               due |-> Members(l), seen |-> {}]]
        /\ UNCHANGED <<confabVars, outbox, addSerial, added, strays>>

(***************************************************************************)
(* Confab: OscListener::ProcessMessage and the methods of OscHandler       *)
(***************************************************************************)
Serves(c, cmd) ==
    /\ up[c]
    /\ inbox[c] # <<>>
    /\ Head(inbox[c]).cmd = cmd

Answers(c, reply, to, data) ==
    /\ outbox' = [outbox EXCEPT ![c] =
                     Append(@, [reply |-> reply, to |-> to, data |-> data])]
    /\ inbox' = [inbox EXCEPT ![c] = Tail(@)]
    /\ UNCHANGED up

(* The process ends; what it had sent still arrives.                       *)
Dies(c) ==
    /\ up' = [up EXCEPT ![c] = FALSE]
    /\ inbox' = [inbox EXCEPT ![c] = <<>>]
    /\ UNCHANGED outbox

(* A string that is too long is refused, and an id that is no key dropped, *)
(* before the server is asked.                                             *)
NoKey == 0
TooLong(c) == Head(inbox[c]).cmd = "assetAddString" /\ ~ Draft[Head(inbox[c]).arg].fits
NotAKey(c) == Head(inbox[c]).cmd = "assetFind" /\ Head(inbox[c]).arg = NoKey
InLocal(c) ==
    /\ Head(inbox[c]).cmd = "assetFind"
    /\ findAsset(local[c], Head(inbox[c]).arg) # EmptyRecord
NeedsServer(c) == ~ TooLong(c) /\ ~ NotAKey(c) /\ ~ InLocal(c)

Rejected(c) ==
    /\ ~ serverUp
    /\ up[c]
    /\ inbox[c] # <<>>
    /\ NeedsServer(c)
    /\ Dies(c)
    /\ UNCHANGED <<db, serverUp, now, keys, local, faults>>

(* Bound: there are as many random keys as the run has.                    *)
Draw ==
    /\ keys # <<>>
    /\ keys' = Tail(keys)

(* A stamp is read from the clock before the write, by any thread of the   *)
(* server, so that stamps need not be stored in their order; bound: no     *)
(* more list entries have the same microsecond than a page has.            *)
Stamps(t) ==
    /\ Cardinality({k \in DOMAIN db : k[1] = kListEntry /\ k[3] = t}) < MaxPairs
    /\ now' = t

Status(written) ==
    IF written THEN UNCHANGED faults
    ELSE faults < MaxFaults /\ faults' = faults + 1

AssetOf(d, key, content) ==
    [key |-> key, name |-> Draft[d].name, lists |-> Draft[d].lists,
     content |-> content]

HandleAddString(c) ==
    LET d == Head(inbox[c]).arg
        key == Head(keys)
        serial == Head(inbox[c]).n
        AnswersAdded(k) == Answers(c, "assetAdded", serial, k)
    IN  /\ Serves(c, "assetAddString")
        /\ \/ /\ TooLong(c)
              /\ AnswersAdded(0)
              /\ UNCHANGED <<db, serverUp, now, keys, faults>>
           \/ \E t \in Time, written \in BOOLEAN :
                 LET asset == AssetOf(d, key, <<c, serial>>)
                     response == postAsset(db, key, asset, t, written)
                 IN  /\ ~ TooLong(c)
                     /\ serverUp
                     /\ ~ StoreIsFatal(asset)
                     /\ Stamps(t)
                     /\ Status(written)
                     /\ db' = response.db
                     /\ Draw
                     /\ AnswersAdded(IF response.code = Ok THEN key ELSE 0)
                     /\ UNCHANGED serverUp
           \/ /\ ~ TooLong(c)
              /\ serverUp
              /\ StoreIsFatal(Draft[d])
              /\ serverUp' = FALSE
              /\ Dies(c)
              /\ UNCHANGED <<db, now, keys, faults>>
        /\ UNCHANGED local

SendAssetByKey(c, identity, asset) ==                         \* mutant
    IF asset.name = NoName THEN Dies(c)
    ELSE Answers(c, "assetFound", Id(asset.key), asset)
(* An asset with no name has no name field, and it is read: confab dies.   *)
SendAsset(c, identity, asset) ==
    IF asset.name = NoName THEN Dies(c)
    ELSE Answers(c, "assetFound", identity, asset)

(* Lists are read on the server only: the stamp is of no importance here.  *)
Keeps(c, key, asset, written) ==
    local' = IF written
             THEN [local EXCEPT ![c] = storeAsset(@, key, asset, now)]
             ELSE local

RetrievedSilently(c, identity, response) ==                   \* mutant
    /\ response.code # Ok
    /\ inbox' = [inbox EXCEPT ![c] = Tail(@)]
    /\ UNCHANGED <<up, outbox, local, faults>>
RetrievedUnderAsked(c, identity, response) ==                 \* mutant
    /\ response.code = Ok
    /\ SendAsset(c, identity, db[response.record])
    /\ Keeps(c, identity[2], db[response.record], TRUE)
    /\ UNCHANGED faults
(* What the server found is stored in the local database, and sent though  *)
(* the write may have failed.                                              *)
Retrieved(c, identity, response) ==
    \/ /\ response.code # Ok
       /\ Answers(c, "assetError", identity, NoValue)
       /\ UNCHANGED <<local, faults>>
    \/ /\ response.code = Ok
       /\ SendAsset(c, identity, db[response.record])
       /\ \E written \in BOOLEAN :
             /\ Status(written)
             /\ Keeps(c, db[response.record].key, db[response.record], written)

HandleFind(c) ==
    LET k == Head(inbox[c]).arg
    IN  /\ Serves(c, "assetFind")
        /\ \/ /\ InLocal(c)
              /\ SendAsset(c, Id(k), local[c][findAsset(local[c], k)])
              /\ UNCHANGED <<local, faults>>
           \/ /\ NotAKey(c)
              /\ inbox' = [inbox EXCEPT ![c] = Tail(@)]
              /\ UNCHANGED <<up, local, outbox, faults>>
           \/ /\ NeedsServer(c)
              /\ serverUp
              /\ Retrieved(c, Id(k), getAsset(db, k))
        /\ UNCHANGED <<db, serverUp, now, keys>>

(* Names are always looked up on the server.                               *)
HandleFindName(c) ==
    LET n == Head(inbox[c]).arg
    IN  /\ Serves(c, "assetFindName")
        /\ serverUp
        /\ Retrieved(c, Named(n), getNamedAsset(db, n))
        /\ UNCHANGED <<db, serverUp, now, keys>>

HandleListAdd(c) ==
    LET n == Head(inbox[c]).arg
        key == Head(keys)
    IN  /\ Serves(c, "listAdd")
        /\ serverUp
        /\ Draw
        /\ \E written \in BOOLEAN :
              LET response == postList(db, key, [key |-> key, name |-> n], written)
              IN  /\ Status(written)
                  /\ db' = response.db
                  /\ IF response.code = Ok
                     THEN Answers(c, "listFound", Named(n), key)
                     ELSE Answers(c, "listError", Named(n), NoValue)
        /\ UNCHANGED <<serverUp, now, local>>

HandleListFind(c) ==
    LET n == Head(inbox[c]).arg
        response == getNamedList(db, n)
    IN  /\ Serves(c, "listFind")
        /\ serverUp
        /\ IF response.code = Ok
           THEN Answers(c, "listFound", Named(n), db[response.record].key)
           ELSE Answers(c, "listError", Named(n), NoValue)
        /\ UNCHANGED <<db, serverUp, now, keys, local, faults>>

HandleListNext(c) ==
    LET l == Head(inbox[c]).arg
        token == Head(inbox[c]).n
    IN  /\ Serves(c, "listNext")
        /\ serverUp
        /\ Answers(c, "listItems", Id(l), getListItems(db, l, token, MaxPairs).page)
        /\ UNCHANGED <<db, serverUp, now, keys, local, faults>>

Handle(c) ==
    /\ \/ HandleAddString(c) \/ HandleFind(c) \/ HandleFindName(c)
       \/ HandleListAdd(c) \/ HandleListFind(c) \/ HandleListNext(c)
       \/ Rejected(c)
    /\ UNCHANGED scVars

(***************************************************************************)
(* SuperCollider: the callbacks                                            *)
(***************************************************************************)
Hears(c, reply) ==
    /\ outbox[c] # <<>>
    /\ Head(outbox[c]).reply = reply
    /\ outbox' = [outbox EXCEPT ![c] = Tail(@)]
    /\ UNCHANGED confabVars

Strayed(c) ==
    strays' = [strays EXCEPT ![c] =
                  @ \cup {<<Head(outbox[c]).reply, Head(outbox[c]).to>>}]

OnAssetAdded(c) ==
    LET serial == Head(outbox[c]).to
        mine == {cb \in callbacks[c].add : cb[1] = serial}
    IN  /\ Hears(c, "assetAdded")
        /\ callbacks' = [callbacks EXCEPT ![c].add = @ \ mine]
        /\ added' = [added EXCEPT ![c] =
                        @ \cup {<<cb[1], cb[2], Head(outbox[c]).data>> : cb \in mine}]
        /\ UNCHANGED <<inbox, addSerial, walk, left, strays>>

(* The callback is called first and removed then, with whatever it has put *)
(* in its place by asking for the same again.                              *)
OnFound(c, reply) ==
    LET to == Head(outbox[c]).to
        cmd == IF to[1] = "id" THEN "assetFind" ELSE "assetFindName"
    IN  /\ Hears(c, reply)
        /\ \/ /\ to \in callbacks[c].find
              /\ UNCHANGED <<inbox, left, strays>>
           \/ /\ to \in callbacks[c].find
              /\ Ask(c, cmd, to[2])
              /\ Send(c, Message(cmd, to[2], 0))
              /\ UNCHANGED strays
           \/ /\ to \notin callbacks[c].find
              /\ Strayed(c)
              /\ UNCHANGED <<inbox, left>>
        /\ callbacks' = [callbacks EXCEPT ![c].find = @ \ {to}]
        /\ UNCHANGED <<addSerial, walk, added>>

OnAssetFound(c) == OnFound(c, "assetFound")
OnAssetError(c) == OnFound(c, "assetError")

OnListFound(c) ==
    LET to == Head(outbox[c]).to
    IN  /\ Hears(c, "listFound")
        /\ \/ /\ to \in callbacks[c].list
              /\ UNCHANGED <<inbox, left, strays>>
           \/ /\ to \in callbacks[c].list
              /\ \E cmd \in {"listAdd", "listFind"} :
                    /\ Ask(c, cmd, to[2])
                    /\ Send(c, Message(cmd, to[2], 0))
              /\ UNCHANGED strays
           \/ /\ to \notin callbacks[c].list
              /\ Strayed(c)
              /\ UNCHANGED <<inbox, left>>
        /\ callbacks' = [callbacks EXCEPT ![c].list = @ \ {to}]
        /\ UNCHANGED <<addSerial, walk, added>>

(* The callback stays in its map.                                          *)
OnListError(c) ==
    /\ Hears(c, "listError")
    /\ IF Head(outbox[c]).to \in callbacks[c].list THEN UNCHANGED strays ELSE Strayed(c)
    /\ UNCHANGED <<inbox, addSerial, callbacks, walk, left, added>>

(* The callback of the walk takes the items, and asks for what follows the *)
(* last of them unless that is the end of the list.                        *)
OnListItems(c) ==
    LET page == Head(outbox[c]).data
        last == CHOOSE k \in page : \A other \in page : ~ Before(k, other)
        seen == walk[c].seen \cup {k[4] : k \in page}
        On(state) == walk' = [walk EXCEPT ![c].state = state, ![c].seen = seen]
    IN  /\ Hears(c, "listItems")
        /\ \/ /\ page = {}
              /\ On("failed")
              /\ UNCHANGED inbox
           \/ /\ page # {}
              /\ last[3] = kEndList
              /\ On("done")
              /\ UNCHANGED inbox
           \/ /\ page # {}
              /\ last[3] # kEndList
              /\ On("on")
              /\ Send(c, Message("listNext", walk[c].list, last[3]))
        /\ UNCHANGED <<addSerial, callbacks, left, added, strays>>

Calls(c) ==
    \/ AddAssetString(c) \/ FindAssetById(c) \/ FindAssetByName(c)
    \/ CreateList(c) \/ FindListByName(c) \/ GetListNext(c)

Receives(c) ==
    \/ OnAssetAdded(c) \/ OnAssetFound(c) \/ OnAssetError(c)
    \/ OnListFound(c) \/ OnListError(c) \/ OnListItems(c)

Next == \E c \in Client : Calls(c) \/ Handle(c) \/ Receives(c)

(* A confab and a SuperCollider that are running take their next message.  *)
Spec ==
    /\ Init /\ [][Next]_vars
    /\ \A c \in Client : WF_vars(Handle(c)) /\ WF_vars(Receives(c))
----------------------------------------------------------------------------
(***************************************************************************)
(* Properties                                                              *)
(***************************************************************************)
(* The variables have their types, and the clients their bounds.           *)
TypeOK ==
    /\ serverUp \in BOOLEAN
    /\ now \in Time \cup {OldTime}
    /\ up \in [Client -> BOOLEAN]
    /\ addSerial \in [Client -> Nat \ {0}]
    /\ faults \in 0 .. MaxFaults
    /\ \A c \in Client :
          /\ Len(inbox[c]) + Len(outbox[c]) <= MaxInFlight[c]
          /\ ~ up[c] => inbox[c] = <<>>
          /\ \A cb \in callbacks[c].add : cb[1] < addSerial[c]
          /\ callbacks[c].find \subseteq {"id", "name"} \X (Key \cup {NoKey})
          /\ callbacks[c].list \subseteq {"id", "name"} \X Key
          /\ walk[c].state \in {"none", "on", "done", "failed"}

(* No name or list entry of the database leads nowhere, whatever write     *)
(* failed or process died: each points at a record that is stored          *)
(* (AssetDatabase.cpp:243-286, 318-357).                                   *)
ReferencesResolve ==
    /\ \A k \in DOMAIN db :
          /\ k[1] = kAssetName => AssetKey(db[k]) \in DOMAIN db
          /\ k[1] = kListName => ListKey(db[k]) \in DOMAIN db
    /\ \A l \in Key : \A k \in Members(l) : AssetKey(k) \in DOMAIN db

(* What a find answers is the asset that was asked for, as it is on the    *)
(* server, although it may come from the database of the confab, which     *)
(* nothing refreshes (OscHandler.cpp:231, 259).                            *)
FoundIsCurrent ==
    \A c \in Client : \A i \in 1 .. Len(outbox[c]) :
        LET answer == outbox[c][i]
        IN  answer.reply = "assetFound" =>
              /\ answer.data = db[AssetKey(answer.data.key)]
              /\ answer.to \in {Id(answer.data.key), Named(answer.data.name)}

(* An asset whose key came to the callback of its addition is there: under *)
(* this key, in the lists it was added to, and its name leads to an asset  *)
(* of this name (SCLOrkConfab.sc:88, HttpClient.cpp:233).                  *)
AddedIsFindable ==
    \A c \in Client : \A told \in {t \in added[c] : t[3] # 0} :
        LET draft == Draft[told[2]]
            key == told[3]
        IN  /\ AssetKey(key) \in DOMAIN db
            /\ db[AssetKey(key)].content = <<c, told[1]>>
            /\ \A l \in draft.lists : key \in Members(l)
            /\ draft.name # NoName =>
                  LET found == findNamedAsset(db, draft.name)
                  IN  found # EmptyRecord /\ db[found].name = draft.name

(* A walk that comes to the end of a list has seen all that was in it when *)
(* it began, whatever was added in the meantime, and however the stamps of *)
(* the entries compare byte by byte; and only a walk through a list that   *)
(* was not there fails (AssetDatabase.cpp:265, 388-432).                   *)
WalkIsComplete ==
    \A c \in Client :
        /\ walk[c].state = "done" => walk[c].due \subseteq walk[c].seen
        /\ walk[c].state = "failed" => ~ walk[c].there

(* An answer meets no callback only if what it answers was asked for more  *)
(* than once: the first answer removes the callback of the later call      *)
(* (SCLOrkConfab.sc:48, 122, 149).                                         *)
Times(c, cmd, to) ==
    IF <<cmd, to[2]>> \in DOMAIN left[c]
    THEN Asks[c][<<cmd, to[2]>>] - left[c][<<cmd, to[2]>>] ELSE 0

StrayOnlyIfRepeated ==
    \A c \in Client : \A stray \in strays[c] :
        LET to == stray[2]
        IN  IF stray[1] \in {"listFound", "listError"}
            THEN Times(c, "listAdd", to) + Times(c, "listFind", to) > 1
            ELSE Times(c, IF to[1] = "id" THEN "assetFind" ELSE "assetFindName", to) > 1

(* Unless its confab ends, everything a client waits for comes: no add or  *)
(* find keeps its callback, except a find of an id that is no key          *)
(* (OscHandler.cpp:53), and every walk ends.                               *)
EveryoneIsAnswered ==
    \A c \in Client :
        []<>(up[c] => /\ callbacks[c].add = {}
                      /\ callbacks[c].find \subseteq {Id(NoKey)}
                      /\ walk[c].state # "on")
=============================================================================
