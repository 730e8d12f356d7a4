---------------------------- MODULE CacheManager ---------------------------
(***************************************************************************)
(* The file cache of a confab client.  A cache value has the files of the  *)
(* cache directory, which outlive the process, and what the process keeps  *)
(* in memory: the keys it has a file for (m_extensionMap) and the bytes it *)
(* counts (m_currentSize).  Each operator is a method of CacheManager, or  *)
(* one turn of its download loop.                                          *)
(*                                                                         *)
(* A chunk of an asset is <<file, number>>, the content of a file is the   *)
(* sequence of its chunks, and a hash is modelled by the sequence hashed,  *)
(* that is, as free of collisions.  The key of an asset is the hash of its *)
(* content, so File stands for the keys too.                               *)
(*                                                                         *)
(* m_timeQueue has the paths of m_extensionMap with the write times of     *)
(* their files.  It is read only by makeRoomFor, and makeRoomFor is called *)
(* only by checkExistingEntries, just after the queue has been filled from *)
(* the directory; so the model reads the times of the files instead, and   *)
(* the branch for a file written since it was queued is not reachable.     *)
(***************************************************************************)
EXTENDS Integers, Sequences, FiniteSets, FiniteSetsExt

CONSTANTS
    File,          \* the keys of the file assets
    Size,          \* key -> size of the asset in bytes
    ChunkSize,     \* kDataChunkSize
    MaxSize        \* the size of the cache

ASSUME FileAssumption == File \subseteq Nat \ {0} /\ IsFiniteSet(File)
ASSUME SizeAssumption ==
    /\ ChunkSize \in Nat \ {0}
    /\ Size \in [File -> Nat \ {0}]
    /\ MaxSize \in Nat

(* The pieces an upload cuts the file into.                                *)
Chunks(f) == (Size[f] + ChunkSize - 1) \div ChunkSize
Content(f) == [i \in 1 .. Chunks(f) |-> <<f, i - 1>>]

Total(files) == MapThenSumSet(LAMBDA f : Size[f], files)

(* A file has a time of its last write, from 1 on; there is at most one    *)
(* file for a key.                                                         *)
NoFile == [data |-> <<>>, time |-> 0]
Present(files) == {f \in File : files[f] # NoFile}

NewCache == [files |-> [f \in File |-> NoFile], map |-> {}, size |-> 0]

(* The queue is ordered to give the newest file first: those that stay are *)
(* the oldest, as many as fit.                                             *)
makeRoomFor(files, keys, addedBytes) ==
    LET UpTo(t) == {f \in keys : files[f].time <= t}
    IN  UNION {S \in {UpTo(files[f].time) : f \in keys} :
                  Total(S) + addedBytes <= MaxSize}

checkExistingEntriesUnvalidated(cache) ==                     \* mutant
    LET kept == makeRoomFor(cache.files, Present(cache.files), 0)
    IN  [files |-> [f \in File |-> IF f \in kept THEN cache.files[f] ELSE NoFile],
         map |-> kept, size |-> Total(kept)]
(* Run once, before the first request is taken: a file whose content does  *)
(* not have the hash its name says is removed, and then the newest files   *)
(* until the others fit.                                                   *)
checkExistingEntries(cache) ==
    LET valid == {f \in Present(cache.files) : cache.files[f].data = Content(f)}
        kept == makeRoomFor(cache.files, valid, 0)
    IN  [files |-> [f \in File |-> IF f \in kept THEN cache.files[f] ELSE NoFile],
         map |-> kept, size |-> Total(kept)]

checkCacheMisses(cache, f) == FALSE                           \* mutant
(* A hit never returns: the path it touches lacks the "/" between the      *)
(* directory and the name, is the path of no file, and last_write_time     *)
(* throws.                                                                 *)
checkCacheHits(cache, f) == f \in cache.map

OpenedAndEntered(cache, f) ==                                 \* mutant
    [files |-> [cache.files EXCEPT ![f] = [data |-> <<>>, time |-> 1]],
     map |-> cache.map \cup {f}, size |-> cache.size + Size[f]]
(* download: the file is opened, emptying one that is there;               *)
Opened(cache, f) ==
    LET now == 1 + Max({cache.files[g].time : g \in File})
    IN  [files |-> [cache.files EXCEPT ![f] = [data |-> <<>>, time |-> now]],
         map |-> cache.map, size |-> cache.size]

(* the chunk is written when the hash of all there is matches its hash;    *)
ChunkFits(cache, f, chunk) ==
    Append(cache.files[f].data, chunk.data) = chunk.hash

Written(cache, f, chunk) ==
    [files |-> [cache.files EXCEPT ![f].data = Append(@, chunk.data)],
     map |-> cache.map, size |-> cache.size]

LeftBehind(cache, f) == cache                                 \* mutant
(* the file is removed when anything was wrong,                            *)
Removed(cache, f) ==
    [files |-> [cache.files EXCEPT ![f] = NoFile],
     map |-> cache.map, size |-> cache.size]

(* and entered, without making room for it, when its hash is the key.      *)
IsWhole(cache, f) == cache.files[f].data = Content(f)

Entered(cache, f) ==
    [files |-> cache.files, map |-> cache.map \cup {f}, size |-> cache.size + Size[f]]

(* What a process that dies leaves: of a file it was writing, the part     *)
(* that was flushed.                                                       *)
Flushed(cache, f, n) ==
    [files |-> [cache.files EXCEPT ![f].data = SubSeq(@, 1, n)],
     map |-> {}, size |-> 0]

Forgotten(cache) == [files |-> cache.files, map |-> {}, size |-> 0]
=============================================================================
