# SCLOrkTools in TLA+

SCLOrkTools is what the Stanford Computer Laptop Orchestra plays with:
SuperCollider classes (`classes/`, `scide_scqt/`) and two C++ processes,
`confab` and `confab-server` (`src/`). Its program logic is in four protocols:
a reliable message transport over UDP (SCLOrkWire), a chat over TCP, clocks that
share a beat over a network (SCLOrkClock, on top of SCLOrkWire), and a store of
shared assets (confab). This directory models the four, checks them with TLC on small
instances, and proves with TLAPS, for every instance, all of the safety and action
properties TLC finds to hold, and the three refinements.

Paths below are those of the repository; `SCLOrkWire.sc` is
`classes/SCLOrkWire.sc`, and so on.

## 1. The system

| Component | State | Operations | Interacts with |
|---|---|---|---|
| Wire (`SCLOrkWire.sc`) | connection state, peer address and ids, serial of the last message sent, acknowledged and received, ring buffers of retry jobs and of early messages | `knock`, `connect`, `sendMsg`, `disconnect`, `free`, one handler per datagram, the retry timer, Cmd-period | its peer by UDP; its owner by `onConnected` and `onMessageReceived` |
| Chat server (`confab/ChatServer.cpp`) | users, time of each one's last poll, ring of recent messages, serial numbers | sign in, get all clients, get messages, send, rename, sign out; timeouts noticed during a poll | chat clients by TCP (liblo) |
| Chat client (`SCLOrkChatClient.sc`) | user id, last serial heard, roster, poll task | connect, poll, send, rename, disconnect, four responders | chat server; the chat window |
| Clock server (`SCLOrkClockServer.sc`) | for each cohort the current state and a queue of changes; the connected wires | get all, create, change | a wire to each client |
| Clock (`SCLOrkClock.sc`, `SCLOrkClockState.sc`) | current state, queue of changes, calls scheduled on the SystemClock; estimate of the server's time | new, change tempo, receive an update, advance to a queued state | clock server by a wire |
| Confab client (`SCLOrkConfab.sc`, `SCLOrkAsset.sc`) | callbacks by serial, id, name and list | add, find and load assets, make, find and walk lists | `confab` by OSC |
| Confab OSC handler (`OscHandler.cpp`) | none of its own | one per OSC message, one at a time | local database, file cache, HTTP client |
| Asset cache (`CacheManager.cpp`) | map of entries, time queue, bytes counted; files, which outlive the process | check at the start and evict, look up, download | HTTP client; file system |
| Asset HTTP client and endpoint (`HttpClient.cpp`, `HttpEndpoint.cpp`) | the request being waited for | post and get records, chunks, lists | database of the server |
| Asset database (`AssetDatabase.cpp`), on the server and in each confab | records, chunks, names, list entries, in one ordered map | store, load, find by name, list pages | LevelDB |
| Confab processes (`confab.cpp`, `ConfabCommon.cpp`) | pid file | start, end | data directory |

The rest of the repository is start-up code, user interface, sound, hardware
controllers and tables of data; `PROJECT.json` lists each with the reason why
it is not modelled.

### What is hard, and what makes each component correct

* **Wire.** Datagrams are lost, repeated, late and out of order; the buffers are
  rings indexed by a serial number modulo their size; the retry job, the
  acknowledgement and Cmd-period all act on the same slot; handlers do not ask
  in which connection state they run. *Correct:* each message is delivered once
  and in order; an acknowledgement means delivery; every message is
  acknowledged or the wire fails; a connected wire has a peer that took part;
  every half-way state ends and every timer stops.
* **Chat.** A client builds its roster from a snapshot and a stream of changes
  that overlap; polls overlap; the ring drops what a slow client has not asked
  for; connections break and users are timed out only by other users' polls.
  *Correct:* a client hears every message once and in order, its roster becomes
  the server's, it catches up, and users who are gone leave the roster.
* **Clocks.** Changes of several clients reach the server in any order and come
  back to each client interleaved with timers that apply earlier ones; clients
  join while changes are on their way. *Correct:* a queued change is never left
  without a timer, and when everything has arrived all clocks agree.
* **Confab.** Callbacks are found by id or name, so repeated requests collide;
  uploads and downloads go chunk by chunk, cross each other, and may stop between
  two because a write failed or a process ended; a download that died leaves part
  of a file in the directory the cache is read from; a missing chunk is answered
  with whatever entry comes next; lists are walked page by page, in an order
  that is not that of time, while others add to them. *Correct:* a cached file is
  the asset it is named after; an addition that was answered is there, whole, and
  can be found; a load of a whole asset succeeds; a walk misses nothing; each
  request is answered, by its own answer.

## 2. The modules

| Module | What it is |
|---|---|
| `ReliableChannel` | What a wire promises: an abstract FIFO channel that carries messages (`Carry`) and may be given up (`GiveUp`) |
| `WireSession` | One direction of a connected wire on an adverse network; implements `ReliableChannel` |
| `WireSessionProofs` | The proofs about `WireSession` and `WireOnLAN` |
| `NumberLemmas` | Lemmas about remainders and least numbers that the proof modules share |
| `WireOnLAN` | `WireSession` on the network it was designed for, with bounded loss and timers in turn; implements the channel that is never given up |
| `SCLOrkWire`, `MCSCLOrkWire` | Whole wires: knock, handshake, data, disconnect, failure; the wires and calls TLC gets |
| `SCLOrkWireProofs` | The proofs about `SCLOrkWire` |
| `ChatServer` | The server's state and the cases of `handleMessage` |
| `ChatClient` | The clients; EXTENDS `ChatServer` and composes the two over TCP connections |
| `ChatClientProofs` | The proofs about the two |
| `SCLOrkClock`, `MCSCLOrkClock` | The clock server and the clocks of one cohort, over wires that are FIFO channels |
| `SCLOrkClockProofs` | The proofs about `SCLOrkClock` |
| `AssetDatabase` | The methods of `AssetDatabase` on ordered keys |
| `AssetDatabaseProofs` | Lemmas about the order of keys, seeks, pages and writes, for every size of a byte |
| `HttpEndpoint` | The server's answer to each request; EXTENDS `AssetDatabase` |
| `CacheManager` | The methods of the file cache, and the turns of its download loop |
| `AssetLibrary` | What confab promises about files: an abstract library and the copies clients hold |
| `AssetTransfer`, `MCAssetTransfer` | Files from one confab through the server to another, with crashes; composes `HttpEndpoint` and `CacheManager`, implements `AssetLibrary` |
| `AssetTransferProofs` | The proofs about `AssetTransfer` |
| `AssetCatalog`, `MCAssetCatalog` | String assets, names and lists, from the calls of `SCLOrkConfab` through confab and `HttpEndpoint` to the callbacks |
| `AssetCatalogProofs` | The proofs about `AssetCatalog` |

`SCLOrkClock` takes a wire to be a FIFO channel that may fail. `WireSession`
implements one (`ImplementsReliableChannel`), which is why the clocks are not
modelled datagram by datagram.

### Wires (`WireSession`, `SCLOrkWire`)

The variables carry the names of the instance variables. One call of a method,
one OSC handler and one tick of a `SCLOrkWireSendRetry` are each one action, as
each runs to completion in the interpreter. The network is a set of datagrams:
taking one may leave it in the set (repetition and delay), `Lose` removes one,
and any may be taken next (reordering). In `SCLOrkWire` no action loses a
datagram: one that is never taken is lost. One that is taken may stay to be
delivered again, `MaxCopies` times in all; retry jobs repeat any number of times
their retries allow.

A retry job is on the clock (`scheduled`) and has, or has not, a next time
(`armed`); `stop` only takes away the next time, so a stopped job still ticks
once and Cmd-period drops it. A job whose retries are used up fails the wire
without asking whether its message has been acknowledged: `GiveUp` has no such
guard because the code has none.

`WireSession` starts with both ends connected and nothing in flight. The
handshake before that, and what it does to data that overtakes it, is the
subject of `SCLOrkWire`, where wires knock, connect, disconnect, are freed and
try again, and datagrams of earlier attempts come late.

`WireOnLAN` takes the actions of `WireSession` and adds when they may happen. On a
LAN a datagram is delivered once or lost, and what it brings about has happened
before its job ticks again. All jobs have one period, so they tick in turn:
`ahead` gives each scheduled job those that tick before it. A tick puts its job
behind all others, as does a send.

The code has no send window. `Window` bounds how many messages the application
keeps unacknowledged; the proofs assume `Window <= BufferSize`, which the code
does not enforce ("completely possible to clobber old data", `SCLOrkWire.sc:177`).

### Chat (`ChatServer`, `ChatClient`)

An action of a client that sends a request includes the server's handling of it:
whatever can happen while the request travels can happen while the reply does.
Replies wait in `toClient` in order, as TCP keeps it, and are lost when the
connection breaks. The message ring, its truncation of long answers, and the
messages freed are those of `handleMessage` and `queueMessage`. Time
is a count of ticks since each user's last poll, up to the timeout. A client may
speak, rename itself or leave before it has signed in, with an id that is nil, or
the one of an earlier connection; the server refuses the nil one (`Refuse`).

What is said, and to whom, is only displayed, and is left out.

### Clocks (`SCLOrkClock`)

One cohort. A state is a beat, the time it falls on and the ticks each beat
lasts, the inverse of a tempo, so that all times are whole. `HasCome(s, b)`
stands for `b <= secs2beats(now)`. A client's `timers` are the calls of
`prAdvanceState` on the SystemClock, and time passes only when none is due.
Client time is server time: `timeDiff` is taken to be exact.

`Groomed` is the loop of `prGroomState`, where each state that becomes current
decides when the next is due. `AdvanceState` is the loop of `prAdvanceState`,
where all are compared with the beats of the state before. The server's wire is
connected before the client's. A wire that has failed still receives, on both
sides, and nothing knocks again. A change of a cohort the server does not know
throws in its handler (`SCLOrkClockServer.sc:94`) and changes nothing.

### Assets (`AssetDatabase` to `AssetCatalog`)

A database value is a function from keys to values, and a key a tuple in the
order LevelDB gives its bytes: a prefix, then little-endian integers
(`BytesBefore`). So list entries sort by the lowest byte of their stamp first,
as they do in the code. `Seek` is the iterator; a record pointer is a key,
`EmptyRecord`, or `PastEnd`. The operators of `HttpEndpoint` and `CacheManager`
bear the names of the handlers and methods.

*Concurrency.* The documents call confab threaded. In the code `ProcessMessage`
starts each command with `std::async` and drops the future, whose destructor
waits for the command: a confab runs one command at a time. A command makes one
HTTP request after another and waits for each. So an action of `AssetTransfer`
is one request, its handling by the server, and what the client does until its
next; commands of different clients interleave between requests. The server
does have several threads, but each handler touches its database in one LevelDB
operation. `task` is where a confab is in its command (`op`, `file`, and `n`
posts answered or chunks written).

*Failure.* `Crash` ends a confab anywhere, `ServerStops` the server, and a
write of the server's database may fail (`Status`, with the answer 500). So may
that of the copy of a record a client keeps, whose status is ignored; the download
then goes by what the server has just sent (`Announced`). A
request that cannot be made rejects a promise whose handler is Pistache's
`NoExcept`, which ends the process (`Rejected`). What a confab that ends leaves
is its database, its pid file, and its files, the one it was writing flushed up to
any chunk (`Flushed`). The pid file keeps it from starting again until somebody
removes it, so `RemovePidFile` is an action of the user. `Start` runs
`checkExistingEntries` to its end, as that future is dropped too.

*Hashes* are free of collisions: the hash of a content is the content. An asset's
key is the hash of its file, so `File` is also the set of keys. The chunk that is
answered for a missing one comes with its own hash, and it is accepted when that
matches what the download has hashed so far, as when it is the first chunk of
another file; the file is refused at its end.

`AssetCatalog` has one confab and one SuperCollider for each musician and an OSC
queue each way between them. Keys are drawn from a given sequence, since they
are random in the code; keys and names are small numbers. The server reads the
time of a list entry before it writes the entry, in several threads, so stamps are
stored in any order (`Stamps`). A callback may ask again for what it was
called with, found or not, and that request is lost when the callback is removed
(`OnFound`, `OnListFound`).

## 3. What is checked

`tlc -workers 2 -config X.cfg M` for each run of `PROJECT.json`.

| Run | Instance | Distinct states | Shows |
|---|---|---|---|
| `wire_session` | 2 bodies, 2 slots, 1 retry, window 2, 3 messages | 137,181 | the invariant that is proved, exactly-once in-order delivery, a retry job for each unacknowledged message, refinement of the channel, and that every message is acknowledged or the wire fails |
| `wire_on_lan` | 3 slots, 6 retries, window 3, 6 messages, 1 loss | 107,024 | how many retries a number of losses takes; with so many, refinement of the channel without `GiveUp`, and that everything is delivered and acknowledged |
| `wire_lifecycle` | a client and the server wire that answers it, 2 slots, 1 retry, one datagram delivered twice, three scripts of calls | 627,089 | a connected wire has a peer that took part, no wire stays half way, timers run out |
| `chat` | 1 client, 2 sign-ins, a ring of 2, 2 messages per poll, 4 messages, and a broken connection, Cmd-period or server restart | 310,295 | a client hears all, its roster agrees, no poll is answered with a message overwritten or freed; through failures, clients catch up and departed users time out |
| `clock` | 2 clients, 2 tempos, beats to 2, time to 3, two tempo changes or failures | 2,212,049 | no queued change is forgotten; no clock goes back; clocks agree at last |
| `assets` | 2 clients, files of 1, 2 and 3 bytes in chunks of 2, a cache of 3 bytes, 1 fault | 129,705 | the invariant that is proved, whole caches, complete uploads, which loads may fail and which go unanswered, the cache's accounts, that the server reads entries only, refinement of the library, and that commands end |
| `catalog` | 2 clients, 5 keys, 3 drafts, pages of 2, 2 asks each, 1 failed write | 56,264 | no reference leads nowhere, finds are current, additions are findable, walks are complete, answers go astray only if a request was repeated, and everybody is answered |
| `wire_lost_confirm` | two clients that connect directly | violated | a message is acknowledged and never delivered |
| `wire_revived` | a client that knocks once and the server wire | violated | a wire that has failed is connected after all |
| `clock_jumps` | one client, two tempo changes | violated | a change is applied at a time that is not its beat's |
| `clock_diverge` | as `clock` | violated | server and clients keep different tempos |
| `assets_multiple` | as `assets`, without faults | violated | a file of exactly one chunk is added and cannot be loaded |

The bounds are chosen for the case that matters to happen:

* 3 messages over 2 slots make serials share a slot, in both rings; with one
  retry each of resending, finishing and giving up occurs, and so does giving up
  with an acknowledgement on its way. The two bodies let a wrong message be told
  from the right one.
* 6 messages over 3 slots wrap twice on the LAN. `RetriesSuffice` is
  `MaxLosses + 2 * (Window - 1) < MaxRetries`; with one retry less, TLC finds
  the wire failing. With the defaults (5 retries) and one loss, a window of two
  is safe and a window of three is not.
* 4 messages over a ring of 2 wrap the chat ring twice, and a poll limited to 2
  truncates. `Timeout` is one tick: a user who misses one tick is stale. One
  client with two sign-ins is two users, of whom the first may be timed out by the
  polls of the second, renamed late, or left behind. The connection carries what
  answers to two polls that overlap. That several clients do not disturb each other's
  messages and rosters is what the theorems of section 4 say, for any number of
  them.
* One datagram delivered twice by the network, beside those the retry jobs repeat,
  lets a request, an accept or a confirm come again after its connection is over.
* Two tempo changes are what it takes for changes to meet, and a client that joins
  meets the first of them in the server's state, in its queue, or on its way. A
  third change would let equal beats in the queue be sent in heap order, which is
  not that of their arrival; such changes are counted as meeting.

* Files of 3, 2 and 1 bytes in chunks of 2 have two chunks, exactly one (so one
  too many is recorded), and less than one. They add up to 6 in a cache of 3, so a
  start after two downloads evicts. One client adds every file and the other loads
  every file and adds one, so that loads meet uploads, two uploads of one file
  cross, and a chunk of one file stands where one of another is missing. One
  fault is a crash, a failed write, a failed start or a stop of the server, at
  any point, with as many restarts as it takes.
* `Byte = 3` gives stamps of two bytes whose byte order is not their numeric
  order; with the two stamps and the keys of `catalog` a page of 2 ends in the
  middle of a list, an addition made during a walk sorts before or after the
  token, and two entries share a stamp. The three drafts are a named asset, one
  in no list (which ends the server) and one that is too long. Asking twice is
  what it takes for answers to go astray. Each client asks two things, of those
  `Asks` allows it, which leaves room for every pair of them. `Stamps` keeps the
  entries of one microsecond below a page.

Deadlock is checked in the wire session, the LAN and the asset transfers. The
other systems may really stop: wires that are disconnected and clients that have
left have nothing to do, and the bounds on time, messages, requests and users
stop the rest.

### Premises of the properties

* `PeerTookPart` is about wires that have begun to connect at most once: by
  `knock`, by `connect`, or by making a request or an accept of their own in answer
  to a knock or a request. In a second attempt a late accept of the first connects
  a wire to a peer that is still waiting. `attempts`, a history variable, counts.
* `NoSpuriousFailure`, `EverythingArrives` and the lossless channel are
  about wires with enough retries (`RetriesSuffice`).
* `HearsAll` and `RosterAgrees` are about a server that was not restarted and
  clients whose polls were not cut short. Message 0 is never sent to anybody.
* `AgreeWithoutClash` is about changes that do not meet. Changes meet when one
  arrives for a beat at or before the current state's, or for the beat of a
  queued one, or when a client replaces its current state while an earlier change
  is due and its timer has not run. `clock_diverge` shows clocks that disagree
  after the first; without the third, TLC finds others in the instance of `clock`.
  The second takes three changes (two queued for one beat, which a client that
  joins is sent in heap order), more than `clock` has; on scripted behaviours
  with three changes TLC found clocks that disagree without it and none with it.
* `NeverBack` has the same premise as `AgreeWithoutClash`: a change for the current
  beat, or an earlier one, replaces the server's state and those of later clocks.
* `PollsReadTheRing` says that what `queueMessage` overwrites and frees is behind
  what a poll is answered with. It does not count what is allocated: the messages
  that leak are described in section 5.
* `AgreeAtLast` is about clients whose wire is connected at both ends.
* `LoadsFailOnlyIncomplete` leaves out the assets whose size is a multiple of the
  chunk size: `assets_multiple` shows that they do not load. Every other one that
  is whole on the server does.
* `OnlyHitsUnanswered` has the exception the code has: `checkCache` throws on
  every hit, and SuperCollider hears nothing.
* `CacheAccounts` does not say that the cache keeps its limit or evicts the
  oldest file: it does neither. `makeRoomFor` runs only at a start, and its queue
  gives the newest file first.
* `WalkIsComplete` is about what is in a list when the walk begins.
* `EveryoneIsAnswered` is about clients whose confab is up, and leaves out the find
  of an id that is no key, which is never answered.

### Fairness

* Wires: every retry job on the SystemClock ticks (WF of `Tick`). The network
  promises nothing, except on the LAN, where a datagram that is not lost arrives.
* Chat: the clock goes on, a running poll task polls (it has a fixed period),
  and what a connection carries is read (TCP and the interpreter's event loop).
* Clocks: none; their properties are safety properties.
* Assets: a command that is under way goes on (WF of `Step` for each confab), since
  its thread runs and the server handles a request it gets or the request is
  rejected. In the catalog, a confab takes the next message of its queue and
  SuperCollider the next answer. Nothing is fair about adding, loading, starting
  or crashing.

## 4. What is proved

### Wires

`tlapm WireSessionProofs.tla`. The theorems hold for every set of messages,
buffer size, retry count and number of messages, given the named assumptions on
the constants and `WindowFits == Window <= BufferSize`, and those about a LAN for any
number of losses.

| Theorem | States |
|---|---|
| `Invariance` | `Spec => []IInv` |
| `Delivery` | what is delivered is a prefix of what was sent (`DeliveredInOrder`), and what is acknowledged was delivered (`AckedWasDelivered`) |
| `RetryJobsInPlace` | each unacknowledged message of a connected wire has a retry job, found in its own slot (`UnackedIsRetried`) |
| `Refinement` | `Spec => Channel!Spec`: the wire implements `ReliableChannel` |
| `LANInvariance` | with enough retries, the inductive invariant of the retry jobs on a LAN (`LANInv`) |
| `RetriesSufficeOnLAN` | with enough retries, a wire on a LAN never fails (`NoSpuriousFailure`) |
| `LANRefinement` | and it implements `ReliableChannel` without its step `GiveUp` (`ImplementsLosslessChannel`) |

*Why an invariant is needed.* That what is delivered is what was sent is not
inductive. A message may be delivered out of the receive buffer, so the buffer
must hold the right message for each serial that its slot stands for; a slot
stands for several serials, so at most one may be possible at a time. `IInv`
says that a buffered message is within `BufferSize` of the next one due
(`BufferHoldsTheFuture`), that the slot of the next one due is empty, and that
datagrams carry what was sent (`DataIsGenuine`). That a buffered message is so
near follows from the window: the sender is at most `Window` ahead of its
acknowledgements, and acknowledgements are not ahead of delivery
(`AckedWasDelivered`). This is where `WindowFits` is used, and without it the
invariant fails.

*How.* Lemmas on `%` come first (`DivMod`, `SlotsApart`: two serials less than
`BufferSize` apart have different slots; `SlotPeriod`). Then one lemma for each
action preserves `IInv`, with `ReceiveSend` split into its three cases, of which
`DeliverInOrder` is the long one. `UnackedIsRetried` is inductive relative to
`IInv`. `Refinement` maps `sendAckSerial` to what the channel has forgotten and
"connected" to open; each action is a step of the channel or a stutter, and a
delivery of n buffered messages is one `Deliver`.

*On a LAN.* `RetriesSuffice` (`MaxLosses + 2 * (Window - 1) < MaxRetries`) asks
for two retransmissions for each other message of the window, beside one for each
loss. The reason is the guard of `prBindAck`: an acknowledgement that comes while
an earlier message has none is thrown away, and its message is sent again although
nothing was lost. `IInv` says nothing of how often. `LANInv`, which TLC checked on
the instance of `wire_on_lan` before it was proved, adds that the jobs tick in
some order (`InTurn`), and for each scheduled message how many retransmissions it
may still make without a loss (`Allowed`): for the oldest unacknowledged one, one
if nothing of it is in flight; for the n-th behind it, 2n - 1, and one each if its
job ticks before the oldest's and if nothing of the oldest is in flight. What a
message has used and may still use is never more than the losses so far and `2 *
(Window - 1)` (`RetriesBounded`): a loss allows for one more on both sides, a
retransmission uses up what was allowed, and an acknowledgement that counts moves
each message one place up. Then a job that has no retry left is never ticked, and
every step is one of the channel other than `GiveUp`.

### Assets

`tlapm AssetTransferProofs.tla`. The theorems hold for every finite set of files,
all sizes from 1 on, every chunk size, cache size, set of clients, set of
requests and number of faults, from the assumptions `FileAssumption`,
`SizeAssumption`, `AsksAssumption`, `FaultsAssumption` and `ByteAssumption`,
which TLC evaluates in every run of the module.

| Theorem | States |
|---|---|
| `Invariance`, `TypeCorrect` | `Spec => []IInv`, `Spec => []TypeOK` |
| `WholeCaches` | a cached file is the asset it is named after (`CacheIsWhole`) |
| `CompleteUploads` | what was answered as added is whole on the server (`AddedIsComplete`) |
| `MissesAnswered` | a load that is not answered is under way or of a cached file (`OnlyHitsUnanswered`) |
| `CompleteLoads` | a load goes wrong only while the asset is incomplete, or an exact multiple (`LoadsFailOnlyIncomplete`) |
| `Refinement` | `Spec => Library!Spec`: the store implements `AssetLibrary` |

*Why an invariant is needed.* That a cached file is whole is checked by hashes,
but that the library has what a client holds is not, and that a download
succeeds depends on what the server stores under each key. `IInv` adds that the
server stores nothing but genuine records and chunks (`DbOK`), that a record kept
by a client is the server's (`LocalOK`), that what is in a file was read from
the server (`FilesOK`, which is what makes the entries found at a start copies
of library assets), and how far each command has come (`TaskOK`: the chunks an
upload has posted are stored; a download is of a file that is present, with as
many chunks as it has counted, and not in the cache). `AddedIsComplete` needs
`TaskOK`, and all of them that nothing is ever deleted from the server's
database.

*How.* Lemmas on the keys come first (keys of different kinds differ; where
`Seek` lands when the key is there), then on `Chunks` and the number of chunks a
record announces, which is one too many exactly when the size is a multiple
(Euclidean division), then on the cache's operators (a start keeps only whole
files). One lemma for each action preserves `IInv`. The action properties
follow from `IInv` with one step per action: for `CompleteLoads`, with the whole
asset stored, `Seek` finds each chunk under its own key, and its hash fits an
unmixed file. `Refinement` maps `library` to the complete assets and `held` to
the maps of the caches; the post of the last chunk is `Publish`, the entry
of a download `Fetch`, the end of a process `Stop`, a start `Recover`.

Two more theorems have invariants of their own. The first needs `Listed`:

| Theorem | States |
|---|---|
| `MissingChunksReadEntries` | the server never reads past its last entry (`ServerReadsAnEntry`) |

Each record is in its list, by the one write that stores both, and a list entry
sorts after all chunks; so `Seek` finds something for every chunk of an asset
that a client may ask for. That a non-empty set of keys has a first one is
`FirstKey` of `AssetDatabaseProofs`, which rests on the order of keys being total
(`KeysOrder`) for bytes of any size.

| Theorem | States |
|---|---|
| `CachesAccount` | the bytes a cache counts are the sizes of its entries, which with the file under way are the files of its directory (`CacheAccounts`) |

The bytes are a sum over a set, which the fold of the community modules defines as a
recursive function on its subsets. That there is such a function, that there is one
only, and that an element adds its size whichever the fold takes first, are each
shown for all finite sets by taking a smallest one for which they fail
(`LeastNumber` of `NumberLemmas`), in place of a theorem of induction.

### Wire handshakes

`tlapm SCLOrkWireProofs.tla`. For all sets of client and server wires, buffers,
retries, scripts of calls and numbers of datagrams delivered again, from
`WiresAssumption` (each server wire has a port of its own, which is not a client's),
`ScriptsAssumption`, `SizesAssumption` and `CopiesAssumption`.

| Theorem | States |
|---|---|
| `TypeCorrect` | the types; no datagram is sent to nil (`TypeOK`) |
| `HandshakesAgree` | a connected wire has a peer that took part (`PeerTookPart`) |

*Why an invariant is needed.* What a datagram does is decided when it is taken, by
a wire that may have changed since it was sent, and a retry job may send it again.
So `IInv` speaks of all datagrams that may still arrive (`Arriving`: those in
flight and those of the retry jobs). A request that may arrive comes from a wire
that has its receiver's address; an accept or a confirm comes from a wire that has
pledged itself to its receiver and has taken its part (`Honest`). Even that no
datagram goes to nil needs this: each id in a datagram is that of a wire that has an
address (`Names`). A pledge is never withdrawn in one attempt, and this is what
the hypothesis `attempts[w] <= 1` is used for.

*How.* Each action is shown to be a step in which one wire gets a new record and
some new datagrams may arrive (`Moves`); one lemma says what such a step may not
do to the invariant, and one lemma per action that it does not.

### Chat

`tlapm ChatClientProofs.tla`. For all sets of clients and names, ring sizes, request
limits, timeouts and bounds, from `SizesAssumption` and `BoundsAssumption`.

| Theorem | States |
|---|---|
| `TypeCorrect` | the types; no poll is answered from an empty slot, or with a message not yet numbered (`TypeOK`) |
| `HearsInOrder` | a client acts on every message after its first, in order and once (`HearsAll`) |
| `RostersAgree` | a client that has caught up has the server's roster (`RosterAgrees`) |
| `PollsAnswered` | a poll is answered with messages that are in the ring and not freed (`PollsReadTheRing`) |

*Why an invariant is needed.* What a client is owed may have left the ring, and
its roster is a snapshot to which changes older and newer than it are applied. The
argument is about the log of all messages numbered since the server was started.
It is no variable: `IInv` says that there is one (`\E log : LogInv(log)`), in which
the ring and each answer on its way have their place, and where the last change
about a user is what the server's roster says. Each roster, on its way or at
a client, then agrees with the server's on every id but those that a message of
the log the client has still to read is about (`Covered`). An answer is a run of
consecutive messages, so that the first of a queue that is new is the one after the
last (`InTurn`), however polls overlap. With nothing left to read nothing is
uncovered.

*How.* Each action other than a restart is shown to number some messages and to
move each client in one of seven ways (`Steps`); the invariant is kept by each.
After a restart nothing is claimed of these two. `PollsAnswered` holds after
restarts too. It needs that the ring holds the last messages, each in its slot
(`RingHolds`), that those freed are older (`FreedBefore`), and that a poll starts after
the one asked for or, when that is too far behind, at most a request limit back, which
`SizesAssumption` takes to be no more than the ring.

### Clocks

`tlapm SCLOrkClockProofs.tla`. For all sets of clients and tempos and all bounds,
from `TemposAssumption`, `NilAssumption` and `BoundsAssumption`.

| Theorem | States |
|---|---|
| `TypeCorrect` | the types (`TypeOK`) |
| `ChangesAreScheduled` | a queued change is looked at no later than it is due (`NoChangeForgotten`) |
| `ClocksAgree` | when all is read and due, clocks and server agree, unless changes met (`AgreeWithoutClash`) |
| `ClocksGoOn` | no step takes a clock back to a state of an earlier beat, unless changes met (`NeverBack`) |

*Why an invariant is needed.* For the second theorem, a queue must be sorted by
beat: a call is scheduled for its first state only, and taking some from the
front leaves the others in order (`Base`). For the third, `Agreement` is about the
public states, those the server has told or a clock holds for later. No two
are for one beat (`Alone`), which is what not meeting preserves, and those the
server has let go of are earlier than what it has as current (`LetGo`); a client
lets go of a state only for a later one. So the last state of the server is the
last of all, and a client whose question was answered holds it or has it on the
way (`Knows`). `ClocksGoOn` follows from the invariant of the third and what `Groomed` and
`AdvanceState` make current: the last of the states that have come, in a sorted
queue.

*How.* First what the priority queue, `Groomed` and `AdvanceState` return, then
each action as a change of the server's cohort or of one clock.

### Catalog

`tlapm AssetCatalogProofs.tla` (the longest: some minutes). For all sets of
clients, keys and drafts, draws, requests, page sizes, sizes of a byte, time stamps
and numbers of faults, from `CatalogAssumption` and `ByteAssumption`.

| Theorem | States |
|---|---|
| `TypeCorrect` | the types (`TypeOK`) |
| `ReferencesAlwaysResolve` | no name and no list entry leads nowhere (`ReferencesResolve`) |
| `FoundStaysCurrent` | what is answered as found is what the server has (`FoundIsCurrent`) |
| `AddedStaysFindable` | what was answered as added can be found by id, name and list (`AddedIsFindable`) |
| `StraysAreRepeated` | an answer goes astray only if its request was repeated (`StrayOnlyIfRepeated`) |
| `WalksAreComplete` | a walk that ends has seen all that was there when it began (`WalkIsComplete`) |

*Why invariants are needed.* They are three, over the types.

* `CatalogInv`: each entry of the database is sound (`Sound`) and keys that are
  still drawn are new, so that the database only grows (`Grows`); local databases
  are copies; each answer in flight is true of the database, and an answered addition
  is that of the draft its callback is for.
* `CountInv`: while a question was asked once, at most one message or answer
  about it is in flight, and its callback waits for it. `Uses` counts by what is
  left of `Asks`, and a request for a list counts with the making of one of that name.
* `WalkInv`: a walk has at most one question or page in flight. A question leaves
  no entry behind that the walk must see: for each, one sorts after an entry at
  the token (`AsksOn`); a page has those it was to have, or they sort after all of it
  (`IsPage`). A page goes on from the last of its stamps, and in byte order; this
  is where `PageFollows` of `AssetDatabaseProofs` comes in, whose core is that
  an entry at the token is never the first one skipped unless it is the token's own.
  Entries that others add do not matter, as each entry once stored stays.

*How.* A handler is a step of the queues (`Serve`) and of the database (`Stores`);
one lemma per handler and call shows that it is, and one per invariant what
such a step keeps.

### What the proofs changed

A failed proof showed something about the model four times, and each time the
module was corrected and checked again:

* `PeerTookPart` once counted only calls of `knock` and `connect`. With several
  wires it is false so, as a wire also begins to connect without a call, when a
  request comes that it accepts. It counts attempts of every kind now.
* `StrayOnlyIfRepeated` was a `CASE` whose guards overlapped, so that it did not
  say which of two counts was meant. It is an `IF` now.
* `Queued` of `SCLOrkClock` is defined by where the priority queue puts a state,
  with `NotAfter`, where it once chose a sorted sequence. `Nil` is assumed not to be
  a clock.
* In `AssetCatalog` a key is drawn only while there is one (`Draw`), and the lists
  of drafts are not keys that are drawn later: an id that is random in the code
  cannot be known before.

### Only model-checked

Liveness: `EveryMessageResolved`, `EverythingArrives`, `NoLimbo`, `TimersRunOut`,
`CatchesUp`, `DepartedTimeOut`, `CommandsEnd` and `EveryoneIsAnswered`. TLAPS has no
rules for fairness and ENABLED that its provers here can use. That the bound on
retries of `RetriesSuffice` is tight is known only for the instances TLC was given.

## 5. Where code and documents differ

Shown by a run (`findings` in `PROJECT.json`):

* `wire_lost_confirm`: the connect confirmation resets the serials in any
  state; early data that was acknowledged is forgotten (`SCLOrkWire.sc:316`).
* `wire_revived`: the accept and the confirmation connect a wire in any state, one
  that has reported `failureTimeout` as well, which the class documentation calls
  terminal (`SCLOrkWire.sc:303`).
* `clock_jumps`: a queued tempo change carries the time that the current state gave
  its beat when the change was made. When another is applied between, that time is
  stale, and the beats jump when its turn comes (`SCLOrkClockState.sc:78`).
* `clock_diverge`: the server takes a change its clients drop
  (`SCLOrkClockServer.sc:83`, `SCLOrkClock.sc:174`).
* `assets_multiple`: a file whose size is a multiple of the chunk size is recorded
  with a chunk it does not have (`HttpClient.cpp:295`), and its download is given up
  there, though the documents say that an asset that was added can be requested. The
  only way it gets into a cache is a process that ends after its last chunk was
  written, and the check at the next start.

Stated by properties that hold:

* A job that has used its retries fails the wire even if the last retransmission
  was acknowledged (`SCLOrkWire.sc:485`): `RetriesSuffice` asks for one retry more
  than can be needed to get an acknowledgement.

Seen while modelling, without a run:

* `queueMessage` does not free the first message it overwrites
  (`ChatServer.cpp:252`), where its header says that it frees "any existing old
  message" (`ChatServer.hpp:35`); `Frees` is that test. A `/chatSendMessage` with an
  argument that is no number and no string, such as the id of a client that has
  not signed in, is left allocated, neither queued nor freed (`ChatServer.cpp:189-191`);
  in the model that is `Refuse`.
* The wire design document says that early packets are not acknowledged until
  the missing one arrives (line 70); in the code every `/wireSend` is
  acknowledged when it arrives. It says that a repeated connect request makes the
  responder repeat its accept (line 54); the code ignores it, as its own comment
  explains, and the accept is repeated by its timer alone.
* A repeated knock makes a second server wire for a client that has one. It can
  only time out, or take over a client that has disconnected.
* `free` disconnects and then removes the handler of the confirmation, so it can
  only end in `failureTimeout`.
* The chat server is restarted with serial 0, and clients that reconnect keep
  theirs: they ignore what is new until the count has passed it. The documented
  `/clientTimeOut` has no counterpart in the code.
* `SCLOrkClock.stopClock` sends `/clockStop`, for which the server has no
  handler. A clock made before the wire is connected is never announced, and the
  guard `timeDiffs.size < 5` in `new` never holds, as the array is made with its
  full size. Cmd-period empties the SystemClock, and a queued change then waits
  for the next update.

Seen in confab; most of it is in the models and in the premises of section 3:

* No file that is in the cache can be loaded: the path lacks its slash
  (`CacheManager.cpp:101`).
* The cache keeps its limit only at a start, and evicts the newest files
  (`CacheManager.cpp:179, 194`).
* The documents say that names and lists are optional. Adding an asset in no list
  ends the server (`AssetDatabase.cpp:258`); finding one with no name ends the
  confab that looks (`OscHandler.cpp:366`), as does loading a file with no
  extension.
* `deprecates` of a file asset is lost by a misspelt variable
  (`OscHandler.cpp:101`), and nothing ever sets `deprecatedBy`, so the loop over
  deprecating assets in `AssetDatabase::findAsset` is not entered.
* `OscHandler::run` does not return, as the future it drops waits for the socket:
  `main` never waits for its signals, and the pid file is never removed.
* `getListNext` is documented not to return the token it is given
  (`AssetDatabase.hpp:120`); it skips one entry with the stamp of the token and
  returns the others again, and with more than a page of them in a microsecond a
  walk does not end. A client that keeps a token and comes back later misses
  entries whose stamps sort before it. Assets added to a list that was not made
  have no entries of its begin and end, and a walk skips the first of them.
* Two lists of one name: the name leads to the second (`AssetDatabase.cpp:318`).
* A callback that asks for its own id, name or list again loses that request
  (`SCLOrkConfab.sc:107, 132, 163`); `/listError` and `/listItems` never remove theirs.
  An id asked for in another spelling is answered under its normal one and meets
  no callback.

## 6. What is not modelled

* Wires: `unbind` and a second bound port; two server wires for one client.
* Clocks: several cohorts; meters; Cmd-period; `startSync`'s mean of time
  differences, which is arithmetic on floats; the underlying TempoClock in the
  0.2 s before `beatSyncTask` corrects it.
* Assets: `validate_file_cache` off (its default is on); `getList`, which confab
  never calls; the configuration record; opening and closing a database; base64,
  routing and the text of keys, so neither two spellings of an id nor a name that
  reads like one; records larger than a page, which are a failed `CHECK`; files
  that are empty, have no extension, cannot be read, or change between the two readings of an
  upload; a disk that is full; loss on the loopback interface; recompiling
  SuperCollider while confab runs. The build file `confab/CMakeLists.txt` has the
  targets `confab` and `test_confab` commented out and builds `confab-server` with
  the chat alone: the models are of the sources of all of them.
* Commands with wrong types or missing arguments: the clients send none.
* User interface, instruments, controllers, audio and sample tools, emoji tables,
  flags and logging: they keep no state the protocols depend on.

## 7. Plan

Done: the transport, the chat, the clocks and the assets are modelled and checked,
and their safety and refinements proved.

Next, in this order:

1. Two server wires for one client in `MCSCLOrkWire`; Cmd-period in `SCLOrkClock`.
2. Restarts in `AssetCatalog`, and several walks through one list at a time.
