----------------------------- MODULE RemoteCache -----------------------------
(* RemoteShardHandles and TieredHandles: tensors read over HTTP ranges and    *)
(* kept in a directory that survives the process.  A get_tensor is one call   *)
(* of a single thread; it is cut where the directory changes, so that the     *)
(* process can die between two of its writes.                                 *)
EXTENDS Integers, Sequences, FiniteSets, SequencesExt, Functions

CONSTANTS
    Tensor,       \* the keys of the remote weight map
    LocalTensor,  \* the keys of the local weight map
    ShardOf,      \* Tensor -> shard, the remote weight map
    Hashed,       \* the keys that have an expected hash
    Size,         \* Tensor -> bytes of a whole tensor
    Cap,          \* cache_cap_bytes
    MaxCalls      \* bound: calls of get_tensor in a behaviour

ASSUME RemoteAssumption ==
    /\ Size \in [Tensor -> Nat \ {0, 1}]
    /\ IsFiniteSet(Tensor)
    /\ Cap \in Nat /\ MaxCalls \in Nat /\ Hashed \subseteq Tensor

VARIABLES
    hub,       \* the handles come from from_hub, whose requests are its own
    file,      \* Tensor -> what its .bin holds
    listed,    \* lru.json (a torn one loads as the empty list)
    manifest,  \* manifest.json: shards whose header, whose data start it holds
    recency,       \* self._lru, the oldest first
    used,      \* self._used_bytes
    shards,    \* self._headers and self._manifest["data_start"]
    call, asked,   \* where the running call is, and the key it asks for
    answer,    \* what the last call returned
    calls
remoteVars == <<hub, file, listed, manifest, recency, used, shards, call, asked, answer, calls>>

Shard == Range(ShardOf)
Nothing == [headers |-> {}, starts |-> {}]
\* from_hub reads and saves every header before it hands the handles out.
FromHub(saved) == [saved EXCEPT !.headers = Shard]
Opened(saved) == IF hub THEN FromHub(saved) ELSE saved
\* A file that is not whole is one byte long: its length only must differ.
Bytes(content, k) == CASE content = "none" -> 0 [] content = "part" -> 1 [] OTHER -> Size[k]
TotalBytes(f, keys) == FoldFunctionOnSet(+, 0, [k \in Tensor |-> Bytes(f[k], k)], keys)

RemoteInit ==
    /\ file = [k \in Tensor |-> "none"] /\ listed = <<>>
    /\ hub \in BOOLEAN
    /\ manifest = Opened(Nothing) /\ shards = manifest
    /\ recency = <<>> /\ used = 0
    /\ call = "idle" /\ answer = "none" /\ calls = 0
    /\ asked = CHOOSE k \in Tensor : TRUE

Continue(label) == call' = label /\ UNCHANGED <<hub, asked, answer, calls>>
Answer(what) == call' = "idle" /\ answer' = what /\ UNCHANGED <<hub, asked, calls>>
OnlyControl == UNCHANGED <<file, listed, manifest, recency, used, shards>>

\* A key held locally is read there; where that fails, and for every other
\* key, the remote handles are asked, which know the keys of their own map.
GetTensor(k) ==
    /\ call = "idle" /\ calls < MaxCalls /\ calls' = calls + 1
    /\ OnlyControl /\ UNCHANGED hub
    /\ \/ k \in LocalTensor /\ call' = "idle" /\ answer' = "local" /\ UNCHANGED asked
       \/ k \in Tensor /\ call' = "header" /\ asked' = k /\ answer' = "none"
       \/ k \notin Tensor /\ call' = "idle" /\ answer' = "error" /\ UNCHANGED asked

\* Any request can fail, which raises.
NetworkFails == call \in {"header", "start", "fetch"} /\ Answer("error") /\ OnlyControl

ReadHeader ==
    /\ call = "header"
    /\ IF ShardOf[asked] \in shards.headers
       THEN Continue("look") /\ UNCHANGED shards
       ELSE Continue("saveHeader") /\ shards' = [shards EXCEPT !.headers = @ \cup {ShardOf[asked]}]
    /\ UNCHANGED <<file, listed, manifest, recency, used>>

SaveManifest ==
    /\ call \in {"saveHeader", "saveStart"}
    /\ manifest' = shards
    /\ Continue(IF call = "saveHeader" THEN "look" ELSE "fetch")
    /\ UNCHANGED <<file, listed, recency, used, shards>>

\* The file is trusted if its length is that of the tensor.
FaultyWhole(k) == file[k] /= "none"
Whole(k) == Bytes(file[k], k) = Size[k]

LookOnDisk ==
    /\ call = "look"
    /\ UNCHANGED <<listed, manifest, recency, used, shards>>
    /\ IF Whole(asked) THEN Continue("touchHit") /\ UNCHANGED file
                     ELSE Continue("start") /\ file' = [file EXCEPT ![asked] = "none"]

DataStart ==
    /\ call = "start"
    /\ IF ShardOf[asked] \in shards.starts
       THEN Continue("fetch") /\ UNCHANGED shards
       ELSE Continue("saveStart") /\ shards' = [shards EXCEPT !.starts = @ \cup {ShardOf[asked]}]
    /\ UNCHANGED <<file, listed, manifest, recency, used>>

\* The bytes fetched are the tensor's or others, which are noticed where a
\* hash is expected.  Their number is checked too, but not from the hub.
Verified(k) == k \in Hashed

FetchTensor ==
    /\ call = "fetch" /\ OnlyControl
    /\ \/ Continue("write")
       \/ IF Verified(asked) THEN Answer("error") ELSE Continue("writeBad")
       \/ IF Verified(asked) \/ ~hub THEN Answer("error") ELSE Continue("writePart")

WriteFile ==
    /\ call \in {"write", "writeBad", "writePart"}
    /\ file' = [file EXCEPT ![asked] =
                 CASE call = "write" -> "whole" [] call = "writeBad" -> "bad" [] OTHER -> "part"]
    /\ Continue("touchMiss")
    /\ UNCHANGED <<listed, manifest, recency, used, shards>>

Moved(list, k) == Append(RemoveFirst(list, k), k)
FaultyStored(k) == IF Contains(recency, k) THEN used ELSE used + Bytes(file[k], k)
Stored(k) == used + Bytes(file[k], k)

\* _touch moves the key in memory and rewrites the list; a miss also counts
\* the bytes it has stored.
Touch ==
    /\ call \in {"touchHit", "touchMiss"}
    /\ used' = IF call = "touchMiss" THEN Stored(asked) ELSE used
    /\ recency' = Moved(recency, asked)
    /\ listed' = recency'
    /\ IF call = "touchMiss" THEN Continue("evict") ELSE Answer(file[asked])
    /\ UNCHANGED <<file, manifest, shards>>

EvictOldest ==
    /\ call = "evict" /\ used > Cap /\ recency /= <<>>
    /\ used' = used - Bytes(file[Head(recency)], Head(recency))
    /\ file' = [file EXCEPT ![Head(recency)] = "none"]
    /\ recency' = Tail(recency)
    /\ answer' = IF Head(recency) = asked THEN file[asked] ELSE answer   \* the bytes are still in memory
    /\ UNCHANGED <<hub, listed, manifest, shards, call, asked, calls>>

EvictEnds ==
    /\ call = "evict" /\ (used <= Cap \/ recency = <<>>)
    /\ listed' = recency
    /\ Answer(IF answer = "none" THEN file[asked] ELSE answer)
    /\ UNCHANGED <<file, manifest, recency, used, shards>>

\* The process dies and another starts over the same directory.  Whatever
\* was being written is torn: a tensor is left short, a JSON file is read as
\* if it were missing.
RemoteCrash ==
    /\ calls < MaxCalls
    /\ IF call \in {"write", "writeBad", "writePart"} THEN file' \in {file, [file EXCEPT ![asked] = "part"]} ELSE UNCHANGED file
    /\ listed' \in {listed} \cup (IF call \in {"touchHit", "touchMiss", "evict"} THEN {<<>>} ELSE {})
    /\ manifest' \in {Opened(manifest)} \cup (IF call \in {"saveHeader", "saveStart"} THEN {Opened(Nothing)} ELSE {})
    /\ recency' = listed' /\ used' = TotalBytes(file', Tensor) /\ shards' = manifest'
    /\ call' = "idle" /\ answer' = "none" /\ UNCHANGED <<hub, asked, calls>>

RemoteDone == call = "idle" /\ calls = MaxCalls /\ UNCHANGED remoteVars

RemoteNext ==
    \/ \E k \in Tensor \cup LocalTensor : GetTensor(k)
    \/ NetworkFails \/ ReadHeader \/ SaveManifest \/ LookOnDisk \/ DataStart \/ FetchTensor
    \/ WriteFile \/ Touch \/ EvictOldest \/ EvictEnds \/ RemoteCrash \/ RemoteDone

----------------------------------------------------------------------------
\* A call answers with the tensor's own bytes where a hash is expected
\* ("verify-once": files found on disk are checked by length only), and never
\* with fewer ("partial file from an interrupted fetch: drop and refetch"),
\* whatever was torn by a crash; the hub's answers are the exception, which
\* are kept whatever their number.  Bytes of another number make it raise.
WholeAnswers ==
    /\ answer = "bad" => asked \notin Hashed
    /\ answer = "part" => hub /\ asked \notin Hashed

\* A miss leaves what the list names within the cap ("LRU byte-cap
\* eviction"), also when earlier processes died with files written and not
\* counted, or counted and not listed: only files the list has lost stay.
Listed == TotalBytes(file, Range(recency))
MissLeavesCap == [][EvictEnds => Listed' <= Cap]_remoteVars
=============================================================================
