--------------------------- MODULE AssetTransfer ---------------------------
(***************************************************************************)
(* File assets from one confab client through the server to another: the   *)
(* upload of a record and its chunks, the download into the file cache,    *)
(* and the processes that may die between any two requests.                *)
(*                                                                         *)
(* A confab runs one command of SuperCollider at a time: OscListener       *)
(* starts each with std::async, and the future it drops waits for it.  A   *)
(* command makes one HTTP request after the other and waits for each, so   *)
(* an action is one request with what the client does until the next.      *)
(*                                                                         *)
(* A request that cannot be made rejects its promise, and the NoExcept     *)
(* given to then() ends the process.  The pid file of a process that ends  *)
(* so stays; a confab that finds one does not start.                       *)
(***************************************************************************)
EXTENDS HttpEndpoint, CacheManager

CONSTANTS
    Confab,        \* the confab clients, each with its data directory
    Asks,          \* bound: <<confab, "add" or "load", file>> SuperCollider asks
    MaxFaults      \* bound: crashes and failed writes

ASSUME AsksAssumption == Asks \subseteq Confab \X {"add", "load"} \X File
ASSUME FaultsAssumption == MaxFaults \in Nat

VARIABLES
    db,            \* the database of the server
    serverUp,
    up,            \* confab -> it is running
    pidFile,       \* confab -> its sentinel file exists
    local,         \* confab -> its database, a cache of records
    cache,         \* confab -> its file cache
    task,          \* confab -> the command it is at
    waiting,       \* confab -> loads SuperCollider has no answer to
    added,         \* history: files whose key was answered to their adder
    faults         \* crashes and failed writes so far

vars == <<db, serverUp, up, pidFile, local, cache, task, waiting, added, faults>>

Idle == [op |-> "idle", file |-> 0, n |-> 0]
Task(op, f, n) == [op |-> op, file |-> f, n |-> n]

Init ==
    /\ db = <<>>
    /\ serverUp = TRUE
    /\ up = [c \in Confab |-> FALSE]
    /\ pidFile = [c \in Confab |-> FALSE]
    /\ local = [c \in Confab |-> <<>>]
    /\ cache = [c \in Confab |-> NewCache]
    /\ task = [c \in Confab |-> Idle]
    /\ waiting = [c \in Confab |-> {}]
    /\ added = {}
    /\ faults = 0

(* What an upload sends.  The list and the time stand for any.             *)
List == 1
Now == 1
RecordOf(f) == [key |-> f, name |-> NoName, lists |-> {List},
                size |-> Size[f], chunks |-> Size[f] \div ChunkSize + 1]
ChunkOfItsHash(f, i) == [data |-> <<f, i>>, hash |-> <<<<f, i>>>>]   \* mutant
ChunkOf(f, i) == [data |-> <<f, i>>, hash |-> SubSeq(Content(f), 1, i + 1)]

(* The chunks that the record a command holds announces: the copy kept of  *)
(* it or, when that could not be written, what the server has just sent.   *)
Announced(c, f) ==
    LET kept == findAsset(local[c], f)
    IN  IF kept = EmptyRecord THEN db[AssetKey(f)].chunks ELSE local[c][kept].chunks

Fault ==
    /\ faults < MaxFaults
    /\ faults' = faults + 1

(* The status of a LevelDB write: a failed one counts as a fault.          *)
Status(written) == IF written THEN UNCHANGED faults ELSE Fault

At(c, op) == up[c] /\ task[c].op = op

(* The command ends; answered is what SuperCollider has an answer to.      *)
Ends(c, answered) ==
    /\ task' = [task EXCEPT ![c] = Idle]
    /\ waiting' = [waiting EXCEPT ![c] = @ \ answered]

(***************************************************************************)
(* Processes                                                               *)
(***************************************************************************)
Dies(c) ==
    /\ up' = [up EXCEPT ![c] = FALSE]
    /\ task' = [task EXCEPT ![c] = Idle]
    /\ waiting' = [waiting EXCEPT ![c] = {}]
    /\ \E remains \in
            IF task[c].op = "download"
            THEN {Flushed(cache[c], task[c].file, n) : n \in 0 .. task[c].n}
            ELSE {Forgotten(cache[c])} :
          cache' = [cache EXCEPT ![c] = remains]
    /\ UNCHANGED <<pidFile, local, added>>

Crash(c) ==
    /\ up[c]
    /\ Fault
    /\ Dies(c)
    /\ UNCHANGED <<db, serverUp>>

RejectedUnheard(c) ==                                         \* mutant
    /\ ~ serverUp /\ At(c, "get")
    /\ UNCHANGED vars
(* The promise of the request is rejected.                                 *)
Rejected(c) ==
    /\ ~ serverUp
    /\ \/ At(c, "get")
       \/ At(c, "post") /\ task[c].n <= Chunks(task[c].file)
       \/ At(c, "download") /\ task[c].n < Announced(c, task[c].file)
    /\ Dies(c)
    /\ UNCHANGED <<db, serverUp, faults>>

(* initialize writes the sentinel file before it opens the database, and   *)
(* leaves it when that fails.  The existing entries are checked before     *)
(* main goes on: the future of that task is dropped too.                   *)
Start(c) ==
    /\ ~ up[c]
    /\ ~ pidFile[c]
    /\ pidFile' = [pidFile EXCEPT ![c] = TRUE]
    /\ \/ /\ up' = [up EXCEPT ![c] = TRUE]
          /\ cache' = [cache EXCEPT ![c] = checkExistingEntries(@)]
          /\ UNCHANGED faults
       \/ /\ Fault
          /\ UNCHANGED <<up, cache>>
    /\ UNCHANGED <<db, serverUp, local, task, waiting, added>>

(* Somebody deletes the sentinel file of a confab that is gone.            *)
RemovePidFile(c) ==
    /\ ~ up[c]
    /\ pidFile[c]
    /\ pidFile' = [pidFile EXCEPT ![c] = FALSE]
    /\ UNCHANGED <<db, serverUp, up, local, cache, task, waiting, added, faults>>

ServerStops ==
    /\ serverUp
    /\ Fault
    /\ serverUp' = FALSE
    /\ UNCHANGED <<db, up, pidFile, local, cache, task, waiting, added>>

ServerStarts ==
    /\ ~ serverUp
    /\ serverUp' = TRUE
    /\ UNCHANGED <<db, up, pidFile, local, cache, task, waiting, added, faults>>

(***************************************************************************)
(* Upload.  n counts the posts that were answered: the record, then the    *)
(* chunks.                                                                 *)
(***************************************************************************)
AddAssetFile(c, f) ==
    /\ At(c, "idle")
    /\ <<c, "add", f>> \in Asks
    /\ task' = [task EXCEPT ![c] = Task("post", f, 0)]
    /\ UNCHANGED <<db, serverUp, up, pidFile, local, cache, waiting, added, faults>>

AnsweredAnyway(c, response) ==                                \* mutant
    /\ db' = response.db
    /\ task' = [task EXCEPT ![c].n = @ + 1]
    /\ UNCHANGED <<serverUp, up, pidFile, local, cache, waiting, added>>
(* The response to a post of the upload: on an error the key answered is 0.*)
Answered(c, response) ==
    /\ db' = response.db
    /\ IF response.code = Ok
       THEN task' = [task EXCEPT ![c].n = @ + 1]
       ELSE task' = [task EXCEPT ![c] = Idle]
    /\ UNCHANGED <<serverUp, up, pidFile, local, cache, waiting, added>>

PostRecord(c) ==
    LET f == task[c].file
    IN  /\ At(c, "post")
        /\ task[c].n = 0
        /\ serverUp
        /\ \E written \in BOOLEAN :
              /\ Status(written)
              /\ Answered(c, postAsset(db, f, RecordOf(f), Now, written))

PostChunk(c) ==
    LET f == task[c].file
        i == task[c].n - 1
    IN  /\ At(c, "post")
        /\ task[c].n \in 1 .. Chunks(f)
        /\ serverUp
        /\ \E written \in BOOLEAN :
              /\ Status(written)
              /\ Answered(c, postAssetData(db, f, i, ChunkOf(f, i), written))

AnswerAdded(c) ==
    /\ At(c, "post")
    /\ task[c].n = Chunks(task[c].file) + 1
    /\ added' = added \cup {task[c].file}
    /\ Ends(c, {})
    /\ UNCHANGED <<db, serverUp, up, pidFile, local, cache, faults>>

(***************************************************************************)
(* Download.  n counts the chunks written.                                 *)
(***************************************************************************)
Downloads(c, f) ==
    /\ task' = [task EXCEPT ![c] = Task("download", f, 0)]
    /\ cache' = [cache EXCEPT ![c] = Opened(@, f)]

LoadAsset(c, f) ==
    /\ At(c, "idle")
    /\ <<c, "load", f>> \in Asks
    /\ waiting' = [waiting EXCEPT ![c] = @ \cup {f}]
    /\ \/ /\ checkCacheHits(cache[c], f)
          /\ UNCHANGED <<task, cache>>
       \/ /\ ~ checkCacheHits(cache[c], f)
          /\ findAsset(local[c], f) # EmptyRecord
          /\ Downloads(c, f)
       \/ /\ ~ checkCacheHits(cache[c], f)
          /\ findAsset(local[c], f) = EmptyRecord
          /\ task' = [task EXCEPT ![c] = Task("get", f, 0)]
          /\ UNCHANGED cache
    /\ UNCHANGED <<db, serverUp, up, pidFile, local, added, faults>>

GetRecordUnanswered(c) ==                                     \* mutant
    LET f == task[c].file
    IN  /\ At(c, "get")
        /\ serverUp
        /\ getAsset(db, f).code = Not_Found
        /\ Ends(c, {})
        /\ UNCHANGED <<db, serverUp, up, pidFile, local, cache, added, faults>>
(* The download goes on whether or not the record could be kept.           *)
GetRecord(c) ==
    LET f == task[c].file
        response == getAsset(db, f)
    IN  /\ At(c, "get")
        /\ serverUp
        /\ \/ /\ response.code = Ok
              /\ \E written \in BOOLEAN :
                    /\ Status(written)
                    /\ local' = IF written
                                THEN [local EXCEPT
                                         ![c] = storeAsset(@, f, db[response.record], Now)]
                                ELSE local
              /\ Downloads(c, f)
              /\ UNCHANGED waiting
           \/ /\ response.code = Not_Found
              /\ Ends(c, {f})
              /\ UNCHANGED <<local, cache, faults>>
        /\ UNCHANGED <<db, serverUp, up, pidFile, added>>

(* What the server sends is a chunk, of this file or of another, or an     *)
(* entry that does not verify as one.                                      *)
Verifies(record) == record \in DOMAIN db /\ record[1] = kAssetData

GetChunk(c) ==
    LET f == task[c].file
        record == getAssetData(db, f, task[c].n).record
        fits == Verifies(record) /\ ChunkFits(cache[c], f, db[record])
    IN  /\ At(c, "download")
        /\ task[c].n < Announced(c, f)
        /\ serverUp
        /\ \/ /\ fits
              /\ cache' = [cache EXCEPT ![c] = Written(@, f, db[record])]
              /\ task' = [task EXCEPT ![c].n = @ + 1]
              /\ UNCHANGED waiting
           \/ /\ ~ fits
              /\ cache' = [cache EXCEPT ![c] = Removed(@, f)]
              /\ Ends(c, {f})
        /\ UNCHANGED <<db, serverUp, up, pidFile, local, added, faults>>

AnswerLoaded(c) ==
    LET f == task[c].file
    IN  /\ At(c, "download")
        /\ task[c].n = Announced(c, f)
        /\ cache' = [cache EXCEPT ![c] =
                        IF IsWhole(@, f) THEN Entered(@, f) ELSE Removed(@, f)]
        /\ Ends(c, {f})
        /\ UNCHANGED <<db, serverUp, up, pidFile, local, added, faults>>

Step(c) ==
    \/ PostRecord(c) \/ PostChunk(c) \/ AnswerAdded(c)
    \/ GetRecord(c) \/ GetChunk(c) \/ AnswerLoaded(c)
    \/ Rejected(c)

Next ==
    \/ \E c \in Confab :
          \/ Step(c) \/ Crash(c) \/ Start(c) \/ RemovePidFile(c)
          \/ \E f \in File : AddAssetFile(c, f) \/ LoadAsset(c, f)
    \/ ServerStops \/ ServerStarts

Spec == Init /\ [][Next]_vars /\ \A c \in Confab : WF_vars(Step(c))
----------------------------------------------------------------------------
(***************************************************************************)
(* The inductive invariant                                                 *)
(***************************************************************************)
ChunkIds == File \X Nat
FileState == [data : Seq(ChunkIds), time : Nat]

(* The variables have their types (what a cache counts is CacheAccounts);  *)
(* a confab that is down is at no command.                                 *)
TypeOK ==
    /\ serverUp \in BOOLEAN
    /\ up \in [Confab -> BOOLEAN]
    /\ pidFile \in [Confab -> BOOLEAN]
    /\ DOMAIN cache = Confab
    /\ task \in [Confab -> [op : {"idle", "post", "get", "download"},
                            file : File \cup {0}, n : Nat]]
    /\ waiting \in [Confab -> SUBSET File]
    /\ DOMAIN local = Confab
    /\ added \subseteq File
    /\ faults \in 0 .. MaxFaults
    /\ \A c \in Confab :
          /\ cache[c].files \in [File -> FileState]
          /\ cache[c].map \subseteq File
          /\ task[c].op # "idle" => up[c] /\ task[c].file \in File
          /\ ~ up[c] => cache[c].map = {} /\ waiting[c] = {}

Stored(f, i) == AssetDataKey(f, i) \in DOMAIN db
Complete(f) ==
    /\ AssetKey(f) \in DOMAIN db
    /\ \A i \in 0 .. Chunks(f) - 1 : Stored(f, i)

(* Nothing is stored but records and chunks of files.                      *)
DbOK ==
    \A k \in DOMAIN db :
        /\ k[1] = kAsset =>
              \E f \in File : k = AssetKey(f) /\ db[k] = RecordOf(f)
        /\ k[1] = kAssetData =>
              \E f \in File : \E i \in 0 .. Chunks(f) - 1 :
                  k = AssetDataKey(f, i) /\ db[k] = ChunkOf(f, i)

LocalOK ==
    \A c \in Confab : \A f \in File :
        AssetKey(f) \in DOMAIN local[c] =>
            /\ AssetKey(f) \in DOMAIN db
            /\ local[c][AssetKey(f)] = RecordOf(f)

(* What is in a file was read from the server.                             *)
FilesOK ==
    \A c \in Confab : \A f \in Present(cache[c].files) :
        /\ AssetKey(f) \in DOMAIN db
        /\ \A j \in 1 .. Len(cache[c].files[f].data) :
              LET id == cache[c].files[f].data[j] IN Stored(id[1], id[2])

TaskOK ==
    \A c \in Confab : LET f == task[c].file  n == task[c].n IN
        /\ task[c].op = "post" =>
              /\ n <= Chunks(f) + 1
              /\ n > 0 => AssetKey(f) \in DOMAIN db
              /\ \A i \in 0 .. n - 2 : Stored(f, i)
        /\ task[c].op = "get" => f \in waiting[c] /\ f \notin cache[c].map
        /\ task[c].op = "download" =>
              /\ f \in waiting[c]
              /\ f \notin cache[c].map
              /\ f \in Present(cache[c].files)
              /\ Len(cache[c].files[f].data) = n

(***************************************************************************)
(* Properties                                                              *)
(***************************************************************************)
(* A file of the cache has the whole content of the asset it is named      *)
(* after: half an upload, a chunk of another file sent for one that is     *)
(* missing, a crash in a download and what it leaves in the directory      *)
(* never make an entry of the cache (CacheManager.cpp:144, 162, 41-78).    *)
CacheIsWhole ==
    \A c \in Confab : \A f \in cache[c].map :
        cache[c].files[f].data = Content(f)

(* When the key of a file has been answered, the server has its record and *)
(* all its chunks, whatever failed on the way (HttpClient.cpp:389).        *)
AddedIsComplete == \A f \in added : Complete(f)

(* A load that is not answered, and is not under way, is one of a file     *)
(* that is in the cache: checkCache throws on every hit                    *)
(* (CacheManager.cpp:101, 109).  Every miss is answered.                   *)
OnlyHitsUnanswered ==
    \A c \in Confab : \A f \in waiting[c] :
        \/ f \in cache[c].map
        \/ task[c].op \in {"get", "download"} /\ task[c].file = f

IInv ==
    /\ TypeOK /\ DbOK /\ LocalOK /\ FilesOK /\ TaskOK
    /\ CacheIsWhole /\ AddedIsComplete /\ OnlyHitsUnanswered

(* What a running confab counts is what it has: the bytes of the files it  *)
(* has entered, and these, with the one it is downloading, are the files   *)
(* of the directory; no failed download or eviction leaves one behind      *)
(* (CacheManager.cpp:168, 179, 199, 210).                                  *)
CacheAccounts ==
    \A c \in Confab : up[c] =>
        /\ cache[c].size = Total(cache[c].map)
        /\ Present(cache[c].files) = cache[c].map \cup
              (IF task[c].op = "download" THEN {task[c].file} ELSE {})

(* A load goes wrong, that is, fails or takes a chunk of another asset for *)
(* its own, only while the server does not have the whole asset, or when   *)
(* the size of the asset is a multiple of the chunk size.  So one that     *)
(* begins after the end of the upload never fails (AssetDatabase.cpp:299,  *)
(* CacheManager.cpp:144, 162).                                             *)
Mixed(c) ==
    /\ task[c].op = "download"
    /\ cache[c].files[task[c].file].data #
          SubSeq(Content(task[c].file), 1, task[c].n)

LoadFails(c) ==
    /\ task[c].op \in {"get", "download"}
    /\ task'[c] = Idle
    /\ up'[c]
    /\ task[c].file \notin cache'[c].map

LoadsFailOnlyIncomplete ==
    [][\A c \in Confab :
          LoadFails(c) \/ Mixed(c)' =>
              \/ Mixed(c)
              \/ ~ Complete(task[c].file)
              \/ Size[task[c].file] % ChunkSize = 0]_vars

(* What the documents say, and the code does not do.  Of an asset that has *)
(* been added, SCLOrkAsset-Design-Document.schelp:43 says "If the Asset is *)
(* requested by a future call a separate copy of the Asset file will be    *)
(* made", and CacheManager.hpp:48-50 that download "downloads AssetData    *)
(* chunks of the provided Asset until complete, then returns a path to the *)
(* newly created cache entry, or an empty path on error": a load of it, if *)
(* it has not met half an upload before, does not fail.                    *)
AddedAssetsLoad ==
    [][\A c \in Confab :
          LoadFails(c) => Mixed(c) \/ task[c].file \notin added]_vars

(* The entry that is sent for a missing chunk is one: the server never     *)
(* reads past the end of its database, which would be its end, because the *)
(* list entry of a record that is asked about comes after all its chunks   *)
(* (AssetDatabase.cpp:297-299).                                            *)
ServerReadsAnEntry ==
    \A c \in Confab : task[c].op = "download" =>
        getAssetData(db, task[c].file, task[c].n).record # PastEnd

(* The server and the caches of the clients implement the asset library.   *)
Library == INSTANCE AssetLibrary WITH
    Clients <- Confab,
    Assets <- File,
    library <- {f \in File : Complete(f)},
    held <- [c \in Confab |-> cache[c].map]

ImplementsAssetLibrary == Library!Spec

(* Every command ends, although the server may stop at any moment: the     *)
(* server handles each request it gets, and a request it cannot get ends   *)
(* the process.                                                            *)
CommandsEnd == \A c \in Confab : []<>(task[c].op = "idle")
=============================================================================
