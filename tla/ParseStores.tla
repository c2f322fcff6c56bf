----------------------------- MODULE ParseStores ----------------------------
(***************************************************************************)
(* The two stores that let a run skip the parse of an unchanged chunk: the *)
(* parse cache (storage/parse-cache.ts) and the durable ParsedFile store   *)
(* (storage/parsedfile-store.ts), as the chunk loop of parse-impl.ts, the  *)
(* flush of parse-worker.ts, the scope-resolution phase and the end of     *)
(* runFullAnalysis use them, over any number of runs on one repository.    *)
(*                                                                         *)
(* A chunk is its content hash, so the same key always stands for the same *)
(* files; what parsing them yields depends only on the installed version.  *)
(* A crash keeps what is on disk; single file writes are atomic.           *)
(***************************************************************************)
EXTENDS Integers, FiniteSets

CONSTANTS
    Keys,           \* chunk hashes
    Files,          \* positions of the files of a chunk
    Names,          \* worker thread and sequence number, the name of a shard
    MaxVersion,     \* versions of the program that may be installed in turn
    MayCrash,       \* a run may crash, be killed or fail
    MayQuarantine,  \* the worker pool may give up files
    MayLoseResult   \* a worker may be replaced after it wrote its shard

ASSUME StoresAssumption ==
    /\ IsFiniteSet(Names) /\ Files # {}
    /\ MaxVersion \in Nat \ {0}
    /\ {MayCrash, MayQuarantine, MayLoseResult} \subseteq BOOLEAN

VARIABLES
    version,        \* PARSE_CACHE_VERSION of the installed program
    \* on disk
    cache,          \* parse-cache/: index.json and one shard per chunk
    durIndex,       \* parsedfile-cache/index.json
    durShards,      \* parsedfile-cache/<chunk>/<name>.json
    runStore,       \* parsedfile-store/, by chunk and name
    \* of the current run
    phase,          \* where it is, see Phase
    onDiskKeys, durableHitKeys,
    todo,           \* chunks the loop has not come to
    current,        \* the chunk being dispatched, and its files not yet parsed
    parked,         \* pendingWorkerChunk
    usedKeys,
    quarantined,    \* files given up, by chunk
    graph,          \* version that produced what the graph was built from
    tmp             \* parse-cache.tmp/

diskVars == <<cache, durIndex, durShards, runStore>>
loopVars == <<onDiskKeys, durableHitKeys, todo, current, parked, usedKeys, quarantined, graph>>
vars == <<version, diskVars, phase, loopVars, tmp>>

\* "parsing": the chunk loop; "resolving": scope resolution reads the run store;
\* "saving", "built", "pruning": the steps of the two saves.
Phase == {"idle", "parsing", "resolving", "saving", "built", "pruning"}

Versions == 1..MaxVersion

\* An absent shard or index has version 0.
Shard == [files : SUBSET Files, version : 0..MaxVersion]
NoShard == [files |-> {}, version |-> 0]
NoShards == [k \in Keys |-> [n \in Names |-> NoShard]]

Index == [version : 0..MaxVersion, keys : SUBSET Keys]

\* A parse-cache shard is only written for a whole chunk: its version says all.
CacheDir == [version : 0..MaxVersion, keys : SUBSET Keys, shards : [Keys -> 0..MaxVersion]]
NoCache == [version |-> 0, keys |-> {}, shards |-> [k \in Keys |-> 0]]

None == [keys |-> {}, left |-> {}]      \* no chunk is being dispatched

Named(shards) == {n \in Names : shards[n] # NoShard}
FilesOf(shards) == UNION {shards[n].files : n \in Names}

FreshLoop ==
    /\ todo' = {} /\ current' = None /\ parked' = {} /\ usedKeys' = {}
    /\ onDiskKeys' = {} /\ durableHitKeys' = {}
    /\ quarantined' = [k \in Keys |-> {}] /\ graph' = [k \in Keys |-> 0]

Init ==
    /\ version = 1 /\ phase = "idle"
    /\ cache = NoCache /\ durIndex = [version |-> 0, keys |-> {}]
    /\ durShards = NoShards /\ runStore = NoShards /\ tmp = NoCache
    /\ todo = {} /\ current = None /\ parked = {} /\ usedKeys = {}
    /\ onDiskKeys = {} /\ durableHitKeys = {}
    /\ quarantined = [k \in Keys |-> {}] /\ graph = [k \in Keys |-> 0]

-----------------------------------------------------------------------------
(* The start of a run *)

\* Mutant: the version of an index is not compared.
VouchedAnyVersion(index) == index.keys

\* loadParseCache and loadDurableParsedFileIndex: an index of another version
\* counts as none.
Vouched(index) == IF index.version = version THEN index.keys ELSE {}

\* The repository now consists of `chunks`.
StartRun ==
    /\ phase = "idle" /\ phase' = "parsing"
    /\ \E chunks \in (SUBSET Keys) \ {{}} : todo' = chunks
    /\ onDiskKeys' = Vouched(cache)
    /\ durableHitKeys' = Vouched(durIndex)
    /\ runStore' = NoShards
    /\ current' = None /\ parked' = {} /\ usedKeys' = {} /\ tmp' = NoCache
    /\ quarantined' = [k \in Keys |-> {}] /\ graph' = [k \in Keys |-> 0]
    /\ UNCHANGED <<version, cache, durIndex, durShards>>

-----------------------------------------------------------------------------
(* The chunk loop *)

\* The cached results are readable and the durable index vouches for the chunk.
Cached(k) == k \in onDiskKeys /\ cache.shards[k] # 0 /\ k \in durableHitKeys

\* The loop comes to its next chunk; the chunks are in no particular order.
Comes(k) == phase = "parsing" /\ current = None /\ k \in todo

\* Mutant: the loop does not remember what it touched.
TouchUnrecorded(k) == todo' = todo \ {k} /\ UNCHANGED usedKeys

Touch(k) == todo' = todo \ {k} /\ usedKeys' = usedKeys \cup {k}

\* Replay the results and restore the chunk's shards, after the parked chunk.
Hit(k) ==
    /\ Comes(k) /\ Cached(k) /\ parked = {}
    /\ Touch(k)
    /\ graph' = [graph EXCEPT ![k] = cache.shards[k]]
    /\ runStore' = [runStore EXCEPT ![k] = durShards[k]]
    /\ UNCHANGED <<version, cache, durIndex, durShards, phase, onDiskKeys, durableHitKeys,
                   current, parked, quarantined, tmp>>

Dispatch(k) ==
    /\ Comes(k) /\ ~Cached(k)
    /\ Touch(k)
    /\ current' = [keys |-> {k}, left |-> Files]
    /\ UNCHANGED <<version, diskVars, phase, onDiskKeys, durableHitKeys, parked,
                   quarantined, graph, tmp>>

\* Mutant: a durable shard that exists is not written again.
WriteShardOnce(k, n, files) ==
    LET shard == [files |-> files, version |-> version]
    IN /\ durShards' = IF durShards[k][n] = NoShard THEN [durShards EXCEPT ![k][n] = shard]
                       ELSE durShards
       /\ runStore' = [runStore EXCEPT ![k][n] = shard]

\* flush of a job with `files`: the same shard, under a name new to this run,
\* goes to both stores; it may overwrite a shard of an earlier run.
WriteShard(k, n, files) ==
    LET shard == [files |-> files, version |-> version]
    IN /\ durShards' = [durShards EXCEPT ![k][n] = shard]
       /\ runStore' = [runStore EXCEPT ![k][n] = shard]

\* A job's shard is written and its result delivered.
Flush(k) ==
    /\ k \in current.keys
    /\ \E n \in Names \ Named(runStore[k]), files \in (SUBSET current.left) \ {{}} :
         /\ WriteShard(k, n, files)
         /\ current' = [current EXCEPT !.left = @ \ files]
    /\ UNCHANGED <<version, cache, durIndex, phase, onDiskKeys, durableHitKeys, todo, parked,
                   usedKeys, quarantined, graph, tmp>>

\* The worker is replaced, by a timeout or a death, after the write: the job is
\* parsed again.  Names are kept for the files that are left.
FlushLost(k) ==
    /\ MayLoseResult /\ k \in current.keys
    /\ Cardinality(Names \ Named(runStore[k])) > Cardinality(current.left)
    /\ \E n \in Names \ Named(runStore[k]), files \in (SUBSET current.left) \ {{}} :
         WriteShard(k, n, files)
    /\ UNCHANGED <<version, cache, durIndex, phase, loopVars, tmp>>

GiveUp(k) ==
    /\ MayQuarantine /\ k \in current.keys
    /\ \E f \in current.left :
         /\ current' = [current EXCEPT !.left = @ \ {f}]
         /\ quarantined' = [quarantined EXCEPT ![k] = @ \cup {f}]
    /\ UNCHANGED <<version, diskVars, phase, onDiskKeys, durableHitKeys, todo, parked,
                   usedKeys, graph, tmp>>

\* The dispatch is settled and the chunk before it was finalized meanwhile.
Park(k) ==
    /\ k \in current.keys /\ current.left = {} /\ parked = {}
    /\ parked' = {k} /\ current' = None
    /\ UNCHANGED <<version, diskVars, phase, onDiskKeys, durableHitKeys, todo, usedKeys,
                   quarantined, graph, tmp>>

Complete(k) == quarantined[k] = {}

\* finalizeWorkerChunk: merge the results and store them if they are complete.
Finalize(k) ==
    /\ k \in parked /\ parked' = {}
    /\ graph' = [graph EXCEPT ![k] = version]
    /\ IF Complete(k)
       THEN /\ cache' = [cache EXCEPT !.shards[k] = version]
            /\ onDiskKeys' = onDiskKeys \cup {k}
       ELSE UNCHANGED <<cache, onDiskKeys>>
    /\ UNCHANGED <<version, durIndex, durShards, runStore, phase, durableHitKeys, todo,
                   current, usedKeys, quarantined, tmp>>

EndOfLoop ==
    /\ phase = "parsing" /\ todo = {} /\ current = None /\ parked = {}
    /\ phase' = "resolving"
    /\ UNCHANGED <<version, diskVars, loopVars, tmp>>

-----------------------------------------------------------------------------
(* Scope resolution and the saves at the end of a run *)

\* The phase read the run store and clears it; pruneCache.
Resolve ==
    /\ phase = "resolving" /\ phase' = "saving"
    /\ runStore' = NoShards
    /\ onDiskKeys' = onDiskKeys \cap usedKeys
    /\ UNCHANGED <<version, cache, durIndex, durShards, durableHitKeys, todo, current, parked,
                   usedKeys, quarantined, graph, tmp>>

\* Mutant: the index lists every used key.
KeptAll == usedKeys

\* saveParseCache keeps the used keys whose shard it could copy.
Kept == {k \in usedKeys : cache.shards[k] # 0}

BuildTmp ==
    /\ phase = "saving" /\ phase' = "built"
    /\ tmp' = [version |-> version, keys |-> Kept,
               shards |-> [k \in Keys |-> IF k \in Kept THEN cache.shards[k] ELSE 0]]
    /\ UNCHANGED <<version, diskVars, loopVars>>

\* The cache directory is removed, which is not atomic: entry by entry.
RemoveEntry ==
    /\ phase = "built"
    /\ \/ /\ cache.version # 0
          /\ cache' = [cache EXCEPT !.version = 0, !.keys = {}]
       \/ \E k \in Keys : cache.shards[k] # 0 /\ cache' = [cache EXCEPT !.shards[k] = 0]
    /\ UNCHANGED <<version, durIndex, durShards, runStore, phase, loopVars, tmp>>

RenameTmp ==
    /\ phase = "built" /\ cache = NoCache /\ phase' = "pruning"
    /\ cache' = tmp /\ tmp' = NoCache
    /\ UNCHANGED <<version, durIndex, durShards, runStore, loopVars>>

\* Mutant: the durable store keeps what its own index listed.
KeepsIndexed(k) == k \in durIndex.keys

\* savedKeys, the keys the parse cache kept.
Keeps(k) == k \in cache.keys

\* pruneAndSaveDurableParsedFileStore, one directory at a time, then the index.
PruneChunk(k) ==
    /\ phase = "pruning" /\ ~Keeps(k) /\ Named(durShards[k]) # {}
    /\ durShards' = [durShards EXCEPT ![k] = NoShards[k]]
    /\ UNCHANGED <<version, cache, durIndex, runStore, phase, loopVars, tmp>>

SaveDurableIndex ==
    /\ phase = "pruning" /\ phase' = "idle"
    /\ \A k \in Keys : Named(durShards[k]) # {} => Keeps(k)
    /\ durIndex' = [version |-> version, keys |-> {k \in Keys : Named(durShards[k]) # {}}]
    /\ UNCHANGED <<version, cache, durShards, runStore, loopVars, tmp>>

-----------------------------------------------------------------------------
(* The environment *)

\* The process ends, or an exception leaves the run, at any point.
Crash ==
    /\ MayCrash /\ phase # "idle" /\ phase' = "idle"
    /\ FreshLoop /\ tmp' = NoCache
    /\ UNCHANGED <<version, diskVars>>

\* Another version is installed between two runs.
Upgrade ==
    /\ phase = "idle" /\ version < MaxVersion
    /\ version' = version + 1
    /\ FreshLoop
    /\ UNCHANGED <<diskVars, phase, tmp>>

ChunkStep(k) ==
    \/ Hit(k) \/ Dispatch(k) \/ Flush(k) \/ FlushLost(k) \/ GiveUp(k) \/ Park(k)
    \/ Finalize(k) \/ PruneChunk(k)

Next ==
    \/ StartRun \/ (\E k \in Keys : ChunkStep(k)) \/ EndOfLoop \/ Resolve
    \/ BuildTmp \/ RemoveEntry \/ RenameTmp \/ SaveDurableIndex
    \/ Crash \/ Upgrade

Spec == Init /\ [][Next]_vars

-----------------------------------------------------------------------------
(* Properties *)

TypeOK ==
    /\ version \in Versions
    /\ cache \in CacheDir /\ tmp \in CacheDir
    /\ durIndex \in Index
    /\ durShards \in [Keys -> [Names -> Shard]]
    /\ runStore \in [Keys -> [Names -> Shard]]
    /\ phase \in Phase
    /\ onDiskKeys \in SUBSET Keys /\ durableHitKeys \in SUBSET Keys
    /\ usedKeys \in SUBSET Keys /\ todo \in SUBSET (Keys \ usedKeys)
    /\ parked \in SUBSET usedKeys
    /\ current \in [keys : SUBSET usedKeys, left : SUBSET Files]
    /\ quarantined \in [Keys -> SUBSET Files]
    /\ graph \in [Keys -> 0..MaxVersion]

\* Scope resolution finds the ParsedFiles of every file that was not given up,
\* parsed or restored: it has nothing to re-extract on the main thread.
ServedIsComplete ==
    phase = "resolving" =>
        \A k \in usedKeys : Files \ quarantined[k] \subseteq FilesOf(runStore[k])

\* The graph is never built from parse results of another version.
GraphIsCurrent == \A k \in usedKeys : graph[k] \in {0, version}

\* Scope resolution never reads ParsedFiles of another version.
ParsedFilesAreCurrent ==
    phase = "resolving" =>
        \A k \in usedKeys : \A n \in Named(runStore[k]) : runStore[k][n].version = version

\* After a run that got to its end every chunk that was parsed completely is
\* served from both stores next time, unless another version is installed.
CompleteIsServedNext ==
    phase = "idle" =>
        \A k \in usedKeys : quarantined[k] = {} =>
            /\ k \in Vouched(cache)
            /\ cache.shards[k] # 0 /\ k \in Vouched(durIndex)

\* A chunk with a quarantined file is in neither store and dispatched again by
\* the next run.
QuarantinedIsRetried ==
    phase = "idle" =>
        \A k \in usedKeys : quarantined[k] # {} => k \notin cache.keys \cup durIndex.keys

\* The indexes vouch for what is there: a chunk in both whose result is readable
\* has the ParsedFiles of all its files.
HitIsBacked ==
    phase \in {"idle", "parsing"} =>
        \A k \in Vouched(cache) \cap Vouched(durIndex) :
            cache.shards[k] # 0 => FilesOf(durShards[k]) = Files

\* A shard is in the run store only if its result was delivered.
ShardsAreDelivered ==
    phase = "resolving" => \A k \in usedKeys : FilesOf(runStore[k]) \cap quarantined[k] = {}

=============================================================================
