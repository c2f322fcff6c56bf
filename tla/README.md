# GitNexus in TLA+

GitNexus turns a source repository into a knowledge graph (an embedded graph
database under `.gitnexus/`) and serves it to agents and to a web client. This
directory holds TLA+ modules translated from its TypeScript sources, the TLC
configurations that check them on small instances and the theorems that TLAPS
proves about them for every instance. Paths below are relative to
`gitnexus/src/` in the repository unless they say otherwise.

Contents: [the system](#the-system) · [modules and code](#modules-and-code) ·
[runs](#runs) · [fairness](#fairness) · [proofs](#proofs) ·
[where code and documentation disagree](#where-code-and-documentation-disagree) ·
[not modelled](#not-modelled) · [plan](#plan)

## The system

`gitnexus analyze`, a job of the HTTP server or a hook runs one *analysis* of a
repository: it decides between nothing to do, incremental and full rebuild, runs
a pipeline of phases, writes the graph database and then the metadata and caches
that let the next analysis be short. Parsing is the long phase. It runs on
worker threads, chunk by chunk, and its results are kept on disk by content
hash. The MCP server and the HTTP server read the database meanwhile.

| component | state it keeps | operations | talks to | what is hard | what makes it correct | model |
|---|---|---|---|---|---|---|
| parse worker pool `core/ingestion/workers/` | slots, job queue, per-slot respawn and failure counts, quarantine, breaker, the pending promise | dispatch, runWorker, messages, death, timeout, replacement, terminate | worker threads by messages; the chunk loop by a promise | concurrent deaths and timeouts, routines suspended over the end of their dispatch | every file is parsed once or quarantined, the promise settles or the pool is broken, budgets hold | `WorkerPool`, `ParseDispatch` |
| startup gate of the pool | one bring-up loop per slot, crash signatures, backoff timers | spawn, ready, crash, backoff, terminate | as above | loops cut each other short; terminate at any time | the gate settles and leaves a worker in every slot of the rotation | `PoolStartup` |
| chunked parse loop `core/ingestion/pipeline-phases/parse-impl.ts` | chunks to come, the one dispatched, the one parked | hit, dispatch, finalize | pool, both stores | one chunk is finalized while the next is dispatched | what is stored is complete | `ParseStores` (partly) |
| parse cache and ParsedFile stores `storage/parse-cache.ts`, `storage/parsedfile-store.ts` | three directories on disk and their indexes | load, replay, restore, write, prune, save | chunk loop, worker threads (which write shards), scope resolution | crashes between any two steps, two stores saved one after the other, upgrades | a replayed chunk is complete and of this version | `ParseStores` |
| background jobs of the server `server/` | jobs, forked workers, locks per repository | analyze, embed, delete, cancel, retry | child processes by messages; backend | late messages, retries, locks released by the wrong hand | one user of a repository at a time, every job ends | `ServerJobs` |
| pipeline runner `core/ingestion/pipeline-phases/runner.ts` | results by phase | sort, run | phases | cycles, failures | dependencies run first | planned |
| scope resolution `core/ingestion/scope-resolution/`, `gitnexus-shared` | import graph, per-run store | finalize by strongly connected groups | stores | cyclic re-exports | the fixpoint is independent of the order | planned |
| analysis driver `core/run-analyze.ts`, `core/incremental/` | `meta.json`, database rows, dirty flag, registry entry | shortcut, incremental, full rebuild | all of the above | interrupted runs, metadata and import rows of an earlier run | a clean `meta.json` stands next to what a full rebuild would have written | `AnalyzeIndex` |
| database adapter `core/lbug/lbug-adapter.ts`, `sidecar-recovery.ts`, `lbug-config.ts` | the connection of the process, session lock, init lock file, sidecar files | open, query, update, retry, repair, close | database engine, other processes, checkpoint driver | a connection shared by operations that queue, retry and clean up; stale-lock takeover; dead processes | an operation keeps the connection it asked for; one process at a time repairs and opens a database; every operation ends | `DatabaseAdapter` |
| read connection pool `core/lbug/pool-adapter.ts` | connections, waiters, shared handles | checkout, checkin, evict, close | MCP and HTTP requests | close under a checked-out connection, concurrent initialisation | no connection is lost or handed out twice, counts fit, who waits is served | `ConnectionPool` |
| checkpoint driver `core/lbug/wal-checkpoint-driver.ts` | timer, one reference to a checkpoint | tick, retry, stop | adapter | overlapping ticks | none runs after stop() | `WalCheckpoint`, in `DatabaseAdapter` |
| registry `storage/repo-manager.ts` | `registry.json` | register, unregister | several processes | lost updates | a registration survives | planned |
| group bridge `core/group/bridge-db.ts`, `cross-impact.ts` | database, backup, staging directory | write and swap, look, restore, open | readers | crash or reader in the swap | a reader opens a whole database, never an older one | `BridgeSwap` |
| MCP server, embeddings, search, wiki, extractors, web client | mostly none of their own | requests, batch jobs | the above | little control | results | not modelled |

The hazards are listed with their lines, and with the properties that cover
them, in `PROJECT.json`.

## Modules and code

`PROJECT.json` maps every definition to its lines. What follows is how to read a
module next to the code.

### WorkerPool

One action is one turn of the main thread's event loop, that is what runs
between two awaits or from the arrival of a message to the end of its handler.
A turn may call `runWorker` for several slots; `turn` holds those it is still
to be called for, and while it is not empty nothing else happens. `Continue`
is the end of such a handler with its call of `maybeDone`.

| module | worker-pool.ts and parse-worker.ts |
|---|---|
| `Dispatch`, `DispatchEmpty`, `DispatchRefused` | `dispatch()` and its early returns; `Batchings`, `JobsOf` are `createJobs` |
| `RunWorker`, `Dispatchable` | `runWorker` with the quarantine filter and the put-back of a slot without worker |
| `StartingFile`, `Progress`, `SubBatchDone`, `Result` | the protocol of the worker, both sides: the worker's own view is `left` and `doing`, the pool's is `inFlight` (`inFlightPath`) and `seen` (`lastProgress`) |
| `Crash`, `Death`, `RequeueRemainder`, `ExcludePaths` | `error`, `exit`, `messageerror` and bad messages; `handleWorkerDeath`, `requeueRemainder`, `resolveExcludePaths` |
| `TimeoutRetry`, `TimeoutGiveUp`, `Pieces` | the idle timer, `requeueAfterTimeout` with split and retry |
| `recovery`, `WorkerEnded` … `SlotLost` | the routines suspended inside `replaceWorker`, each with the dispatch it belongs to: `Stale` is the `stopped` flag of that closure |
| `LoseSlot`, `TripBreaker` | `dropSlot`, `wakeIdleSlots`, `tripBreaker` |
| `Terminate`, `DoomedExit`, `TerminateDone`, `RetiredEnds` | `terminate()` and threads set aside after a timeout |

Abstractions. A file is its position in the chunk. Time is not modelled: a timer
may fire whenever its job is unanswered, and the budget of a job is counted in
the integers the code counts in. Jobs are shorter than ten files, so the worker
posts progress after each. A worker never answers before it is asked to flush,
so that protocol error is left out. An exit event of a worker of a tripped pool
only touches counters that no one reads any more. When the worker skips a
language group without a word, `SubBatchDone` leaves those files behind and the
job still counts as delivered, as in the code. The persistent quarantine file and
the statistics are left out.

`ParseDispatch` is what the caller is promised: files of a chunk are delivered
in groups or given up one by one, and the promise settles once, and resolves
only when nothing is left. `WorkerPool!ImplementsParseDispatch` states, with the
mapping `parsed <- Delivered`, `skipped <- quarantine`, that the pool implements it.

### PoolStartup

`createWorkerPool` and `bringSlotReady`: per slot a loop of spawn, handshake,
crash, end of the worker and backoff, with the signature of the last crash and
the set of slots that reproduced theirs. The final state of a gate that was not
terminated is an initial state of `WorkerPool` (any subset of the slots is
active, `GateLeavesWorkers`). That a worker dies between its ready message and
the first dispatch is `IdleExit` there.

### ParseStores

`cache` is `parse-cache/` (index and one file per chunk), `durIndex` and
`durShards` are `parsedfile-cache/`, `runStore` is `parsedfile-store/`, `tmp` the
directory a new cache is built in. A chunk is its content hash, so its files never
change; what depends on the run is the version of the program that produced a
shard. The actions follow one run: `StartRun` (load both indexes, clear the run
store), `Hit` or `Dispatch`, `Flush` and `Park`, `Finalize`, `EndOfLoop`,
`Resolve` (scope resolution read the run store; `pruneCache`), `BuildTmp`,
`RemoveEntry`, `RenameTmp` (`saveParseCache`), `PruneChunk`, `SaveDurableIndex`
(`pruneAndSaveDurableParsedFileStore`). `Crash` may come at any step and stands
for a killed process, an exception and the caught failure of a save.
`Upgrade` installs the next version.

Abstractions. Writing one file is atomic: a torn shard or index does not parse and
is a miss, which is version 0. The old cache directory goes entry by entry; a
durable chunk directory goes in one step. Every chunk has a file and yields ParsedFiles. The
version only grows. `Finalize` may come any time while the chunk is parked, the
code does it while the next dispatch runs. Shards are named by thread and
sequence number per chunk directory: `Names`.

### ServerJobs

`jobs` and `embeds` are the two job managers, `routine` what carries a job on in
the server (an awaited clone, a forked worker, the timer of a retry), `child` the
forked process, `sigterm` signals under way, `reloads` awaited calls of
`backend.init()`, `pipelines` running embeddings, `deleting` running deletions
and `locks` is `activeRepoPaths`. A job for a URL from which no repository name can be
read fails in the turn that made it, before it has a routine. The handlers of a worker's messages are
`Progress`, `Complete`, `AnalysisFails`, `Uncaught`, `SeesSigterm`; `Exit` is the
exit event with retry or give-up.

`Disturbances` says which of five things may happen besides crashes of
workers: cancellation (by a client or the 30-minute timer), an exception that
escapes an analysis, a failing clone, a reload slower than the worker's exit, an
embedding that reaches its time limit. Without them the lock works
(`LockWorksWhenCalm`); each of them breaks it, see below.

Abstractions. A worker's message is handled in the step that sends it, and
before the exit event. The clean-up of finished jobs after an hour, shutdown,
the event stream and the hold queue of `resolveRepo` only read or drop jobs. A
repository has one deletion at a time. `MaxPipelines` bounds how many
pipelines run for one embedding job, which only matters once a lock was lost.

### AnalyzeIndex

The runs of `runFullAnalysis` on one repository, one after the other, with a user who commits, edits and
upgrades in between. `meta`, `db` and `registered` are on disk; `forced`, `commit`, `seen`, `parsed`,
`hashes`, `writeSet` and `todo` are the locals of the run, named as in the code.

| action | `run-analyze.ts` |
|---|---|
| `StartRun` | `loadMeta`, the forced rebuild of a dirty index |
| `FastPath`, `FastPathOfJob` | the up-to-date shortcut, as the command line answers it (with `assertAnalysisFinalized`, `cli/analyze.ts:1120-1125`) and as the worker of a server job does (`analyze-worker.ts:73-82`, without) |
| `Parse` | the pipeline |
| `MarkDirty`, `Wipe` | hashing and the choice of the path: dirty flag, or removal of the database files |
| `PlanWrite` | `diffFileHashes`, shadow candidates, the walk over importers, `computeEffectiveWriteSet` |
| `DeleteRows`, `DropGroups`, `LoadNodes`, `LoadEdges` | `deleteNodesForFile` file by file, communities and processes, `loadGraphToLbug` |
| `SaveMeta`, `Register` | `saveMeta`, `registerRepo` |
| `Stop` | the process dies, or an await throws an error that nobody catches; locals are lost, files stay |

What a file contributes to the graph is reduced to a kind (defines, re-exports, calls, plain) and the file it imports,
because the write set depends on nothing else: `GraphOf` yields IMPORTS edges and, through chains of
re-exports, CALLS edges. `Steals` are the pairs of `shadowCandidatesFor`: a file that, when it exists,
takes over the imports of another.

`Disturbances` adds forced runs, a new index schema, a crash
between wiping and the new `meta.json`, a checkout that changes during a run, and analysis of uncommitted changes.
Three more are errors that the code catches, and after which the run goes on to a clean `meta.json`. What they leave undone is chosen by `Skips`:

| disturbance | code | in the model |
|---|---|---|
| "readError" | `computeFileHash` answers null and the file is omitted (`file-hash.ts:29-36`, 56) | `Hashed(unread)` in `MarkDirty` and `Wipe` |
| "queryError" | `queryImporters` answers `[]` (`lbug-adapter.ts:1781`; skipped again in `run-analyze.ts:661-663`) | `WritableFiles(failed)` in `PlanWrite`: for a file of a level nobody is found |
| "writeError" | removal of the database files (`run-analyze.ts:564-577`), deletion per table (`lbug-adapter.ts:1721`) and per file (`run-analyze.ts:703-705`), removal of communities (`lbug-adapter.ts:1813`), COPY with `IGNORE_ERRORS` (902-916), edges one by one (960-964, 1089) | `Wipe`, `DeleteRows`, `DropGroups`, `LoadNodes`, `LoadEdges` leave out what they like |

A file's rows are one row here, so a deletion that fails for one table keeps the file's row, and any of its edges. The communities
and processes are kept or dropped together.
Left out: `--repair-fts`, cached embeddings, the full-text indexes, context files, and folders without git.

### ConnectionPool

`executeParameterized` with `checkout` and `checkin` (`Checkout`, `Enqueue`, `Finish`, `WaiterTimeout`,
`QueryTimeout`), `initLbug` cut at its awaits (`StartInit` with `evictLRU` in the same turn, `Opened` or
`OpenFails`, `Ready`), and `closeOne` by the idle timer, by eviction and by `closeLbug`. An
initialisation has an id, which names the pool entry it builds and the native database it opens, so that an entry or a
handle that was replaced stays visible. `native` holds connections whose call outlived
the timeout of its caller. `Disturbances`: "close" (an explicit `closeLbug`), "queryTimeout", and "sharedOpen", two
repositories that open one path at the same time.

Abstractions. Which idle entry is the least recently used is left open. Loading the full-text extension is
an await also when it was loaded before, which only adds interleavings. A failing
`createConnection`, databases injected by `initLbugWithDb`, lock retries inside the opening, listeners and the silencing
of stdout are left out.

### BridgeSwap

`writeBridge` from the finished staging database on, one action per file operation, and `ensureBridgeReady`
with `openBridgeDbReadOnly` on the readers' side (`Look`, `LookAgain`, `Restore`, `RestoreSide`, `Open`). A database is the number of
the sync that built it; one sidecar stands for the suffixes of `LBUG_SIDECAR_SUFFIXES`, and a sync either leaves one that
belongs to its database or none. Left out: building the staging database, failing renames of
sidecars and removals (best effort in the code), the version gate, `contracts.json`. `Disturbances`: "crash" between any two
operations, but for those of a swap that moves sidecars; "sidecarFault", the same (or a reader) in the middle of a swap that moves sidecars;
"lateRecovery", a reader that restores a backup it saw before the swap ended; "parallelSync".

### DatabaseAdapter and WalCheckpoint

A process of the server runs queries and updates (`withLbugDb`, read-only and writing); an analysis is a process of
its own that opens with `initLbug`, then works without the session lock beside its checkpoint driver. `queue[p]` is the
session lock of a process, its head has it; `conn[p]` the module's connection.

| actions | code |
|---|---|
| `Request`, `Enter`, `Ready` | `runWithSessionLock`, `ensureLbugInitialized`: the connection is reused or closed for another one |
| `Throw`, `Busy`, `Cleanup`, `Wake`, `Fail` | the retry of `withLbugDb`: give the lock back, queue again to close, sleep, queue again |
| `CreateLock`, `WriteLock`, `LockExists`, `ReadLock`, `BreakLock` | `acquireInitLock`, `tryBreakStaleLock`: the file is empty between creation and write, and what is unlinked is what is there by then |
| `CheckMain`, `Sweep` | orphaned sidecars are removed if there is no database |
| `Preflight`, `Quarantine`, `SafeClose` | `preflightLbugSidecars` (look, then rename), `finalizeLbugSidecarsAfterClose` |
| `Open`, `Release` | `openLbugConnection`; the `finally` that unlinks the lock file |
| `DriverTicks`, `CheckpointRetries`, `CheckpointEnds`, `StopDriver`, `StopReturns`, `CloseAnalysis` | `WalCheckpoint`: ticks, `runCheckpointWithRetry`, `stop()`; then `closeLbug` |
| `CloseForDelete` | `DELETE /api/repo`, which closes without the session lock |
| `Crash` | a process dies: its lock file stays, a checkpoint it was writing leaves sidecars |

`disk` keeps of a database whether its file exists, whether sidecars of a checkpoint do, and whether the log is missing, tiny (what
preflight takes for a leftover) or large. That an exhausted wait for the lock file is retried like a busy database is the
code's matching of the word "lock" in the message (`isDbBusyError`). `Disturbances`: "crash"; "slowOpen", an
open that outlives the 30 s after which its lock counts as stale; "busyDelete", a deletion while another operation runs;
"slowCheckpoint", a checkpoint with its retries that outlives the period of the timer.
Left out: recovery of a large log without its shadow file, symbolic links, schema and FTS loading, the waits for Windows handles,
removal of database files. The wait of the close-time repair is one step.

## Runs

Sizes are distinct states. Deadlock is checked in `jobs_calm` and in all runs of
`ParseStores` and `AnalyzeIndex`; in the others the system really stops: after the last dispatch of
the caller and `terminate()`, when the gate has settled, when the job ids, initialisations or syncs are
used up, when every operation has ended.

| run | instance | what it shows |
|---|---|---|
| `pool_dispatches` | 3 dispatches of 3, 2 and 1 files, 2 slots, jobs of at most 2, one respawn, breaker at 3 deaths, one timeout retry, terminate between dispatches; 359 251 | no file is lost or left out of a resolved dispatch; results sort into file order; stale routines; nothing outlives `terminate()`; refinement of `ParseDispatch`; a dispatch settles or the pool is broken |
| `pool_stale_trip` | violation: 2 dispatches, as above | a dispatch is pending for ever after a routine of the one before has tripped the breaker |
| `startup_gate` | 3 slots, 2 signatures, 2 retries, threshold 2; 394 332 | the gate settles, is consistent, and nothing outlives `terminate()` |
| `stores_crash` | 2 chunks of 2 files, 2 shard names, 2 versions, crashes; 2 009 567 | after any number of crashes and an upgrade, what is replayed is complete and of this version, and a completed run is served from the stores |
| `stores_quarantine` | the same with 3 names, one version, workers that give up files or are lost after writing; 68 903 | incomplete chunks are never served and are tried again |
| `jobs_calm` | 2 jobs, 2 embeddings, 2 repositories, one retry, no disturbance; 11 664 | over crashes and retries the lock keeps users apart, is owned, and the slot is single |
| `jobs_disturbed` | 1 job, 2 embeddings, 2 repositories, every disturbance; 212 652 | an active job is always carried on, and every job and its worker end |
| `index_runs` | 5 files, 18 trees, walk of depth 2, forced runs and upgrades, stops; 646 796 | a clean index is the index of a full rebuild; the shortcut tells the truth; success is registered, but for a server job with nothing to do |
| `index_restored` | violation: a chain of 5 files, depth 4 | calls stay missing after a file is added or restored |
| `conn_pool` | 3 repositories on 2 paths, 3 callers, 2 connections, 2 entries, 3 initialisations, close and query timeouts; 651 133 | connections, reference counts and handles fit; who waits is served or told |
| `bridge_swap` | 2 writers, 2 readers, 4 syncs, crashes; 256 618 | the group keeps a database, never an older one, and readers open it whole |
| `adapter_sessions` | a query and an update of the server, an analysis in another process, one database, crashes; 191 219 | the lock file excludes; a session keeps its connection; `stop()` is final; every operation ends |

Why the bounds are enough. Two slots give every pair of concurrent deaths,
timeouts and recoveries, including the last two to go; three files give a job
that splits and one that does not, a culprit and two by-standers. One respawn
puts a slot on and over its budget; with a threshold of three, a slot reaches
its budget before the breaker and the breaker through deaths and timeouts
together. A base timeout of 1, factor 2 and cap 5 allow one retry and refuse the
second for want of budget; a single file also meets the limit on attempts. Three dispatches let a routine
resume one and two dispatches late, the first of them with a full chunk. In the stores two chunks are the parked and the dispatched one; two files make a chunk that is
half written; two versions are old and new. In `jobs_disturbed` one analysis job
suffices because the property is about each job by itself, and jobs only meet
through the slot and the locks, which `jobs_calm` and the configurations below explore with two.

In `index_runs` the five files are a caller, two re-exporting files, a definition and a file that takes over imports, so that an edge
may change two files away from every file that changed; the depth of 2 (`MAX_IMPORTER_BFS_DEPTH` is 4) makes the walk repeat itself, and
chains longer than the depth, which the code gives up on, are excluded as `WalkSuffices` says. Runs are not counted: any sequence is explored. In
`conn_pool` two repositories share a path and the third competes for the two entries; three callers on two connections make
one wait; three initialisations are enough to evict, reopen and join. In `bridge_swap` the backup of one sync may outlive the next two. In
`adapter_sessions` the query switches the connection the update has opened and back, both compete with the analysis for the lock file
and the database, two attempts at the lock and three tries let each limit be reached after a success and after a failure, and a
crash at any step leaves a lock file, sidecars or a log behind.

Several runs use symmetry over slots, keys, names or jobs; those with liveness
properties do not.

Properties worth a word:

* `DispatchSettlesOrBreaks` — the last of several handlers, routines and timers of a dispatch settles its promise, whatever routines
  of earlier dispatches do meanwhile. The second disjunct is what disagreement 8 leaves of the promise to settle: without it TLC finds the
  dispatch that nobody rejects.
* `ResultsInOrder` — jobs shrink, split and are retried under start indexes that are
  the only key of the final sort.
* `ServedIsComplete` — two indexes, saved one after the other by different code, vouch for a
  chunk only if the durable shards hold all its files.
* `OneUser`, `LockIsOwned` — the lock is a bare set of paths; the first says that it
  excludes, the second that it does not leak.
* `IndexIsWhole`, `WalkReachesChanges` — the second is the obligation of an incremental run: every edge that
  the new content adds or takes away has an end in a file whose rows are rewritten, although the walk only
  knows the import rows of the run before. The first is what it buys, over interrupted runs. Both are checked for runs whose
  queries, deletions and insertions work or throw to the top; disagreement 18 is about those whose errors are caught.
* `ConnectionsAccounted` — with waiters that time out, entries that close under their queries and
  connections handed from one caller to the next, the count the code checks its "pool integrity" by is exact.
* `DatabaseServesItsEntries` — `closeOne` releases whatever database the path has *now*; that this is the one of
  the entry takes reference counts that fit across the awaits of initialisations.
* `ServedOnlyAdvances` — counting the backup, a group never falls back to an older sync.
* `SessionKeepsDatabase` — the connection is global to a process; between the error of one operation and its clean-up
  others take their turn.
* `LockExcludes`, `SweepsOnlyOrphans` — the lock file is there so that a check for the database and the removal of
  sidecars are not parted by another process that creates it.

## Fairness

* `WorkerPool!FairSpec`: `runWorker` calls of a turn are made; each slot's job makes an event (its
  worker posts or its idle timer fires); each suspended routine goes on (a
  worker that was told to end ends, the ready handshake has a deadline). The
  events are one disjunction per slot: nothing says that a particular one comes.
* `PoolStartup!FairSpec`: each slot's loop goes on, for the same reasons and
  because backoff timers fire or are cancelled with their promise resolved.
* `ServerJobs!FairSpec`: a clone ends, timers fire, `backend.init()` settles, a worker
  ends — it has 30 minutes before SIGTERM. `git` has no time limit of its own in
  the code; that a clone ends is an assumption about git. A worker may be cancelled or crash as often as it likes.
* `ConnectionPool!FairSpec`: the native engine answers every query it runs. Nothing else is assumed, not even
  the 15 s timer of a waiter: `WaiterServed` says that check-ins and closes alone serve or reject it.
* `DatabaseAdapter!FairSpec`: each operation's steps of opening, waiting and cleaning up go on (file operations return,
  timers fire), a working operation returns or throws, an analysis ends, a checkpoint answers. One
  disjunction for each operation; nobody has to crash, and a crashed process satisfies `OpsEnd` by itself.

## Proofs

The eight `...Proofs` modules hold for all sets of
slots, files, chunks, shard names, jobs, trees, repositories, connections, syncs, processes and databases and all budgets
that satisfy the named assumptions of the modules
(finite sets, natural numbers, positive thresholds) and the condition a theorem states: on `Disturbances`, or `WalkSuffices` on the trees.

| theorem | statement | argument |
|---|---|---|
| `TypeCorrect` | `Spec => []TypeOK` of the pool | inductive by itself, with lemmas on splitting, batching and ranks |
| `FilesAccounted`, `DispatchComplete` | `[]NoFileLost`, `[]ResolvedComplete` | `IInv == TypeOK /\ WorkInProgress /\ NoFileLost` |
| `ResultsStayInOrder` | `[]ResultsInOrder` | `OInv == IInv /\ WorkApart /\ WorkIsNew /\ TaskFits` |
| `TerminateEndsThreads` | without `MidDispatchTerminate`: `[]NoThreadSurvives` | `NoRevival` |
| `PoolImplementsParseDispatch` | `Spec => ImplementsParseDispatch`, the refinement of `ParseDispatch` | step by step from `OInv` |
| `StartupTypeCorrect`, `GateIsConsistent`, `TerminateIsFinal`, `ShortCircuitIsJustified` | `TypeOK`; `GateLeavesWorkers`; no timer and no worker after terminate; `DeterministicNeedsRespawns` | `IInv == TypeOK /\ WorkersFollowLoops /\ CrashesCounted /\ NoTimerAfterTerminate` |
| `StoresTypeCorrect` | `TypeOK` of the stores | inductive by itself |
| `StoresAreSound`, `GraphNeverMixesVersions`, `FinishedRunIsServed` | if no file is quarantined: `[](ServedIsComplete /\ HitIsBacked)`, `[]GraphIsCurrent`, `[]CompleteIsServedNext`, over crashes and upgrades | `IInv`, below |
| `QuarantineIsNotStored`, `QuarantineSparesTheRest` | without crashes and upgrades, whatever is quarantined: `[]QuarantinedIsRetried`, `[](ServedIsComplete /\ CompleteIsServedNext)` | `QInv`, below |
| `JobsTypeCorrect`, `EveryJobIsCarried` | `TypeOK`, `JobIsCarried` of the jobs, all disturbances allowed | `IInv == TypeOK /\ RoutinesFit /\ JobIsCarried` |
| `LockWorksWhenCalm`, `LockNeverLeaks`, `OneAnalysisAtATime` | if `Calm`: `[]OneUser`, `[]LockIsOwned`, `[]SingleSlot` | `CInv`, below |
| `IndexTypeCorrect`, `SuccessIsRegistered` | `TypeOK`, `SuccessIsDiscoverable` of the runs, all disturbances allowed | `Reports`: what a phase has already put on disk |
| `RowsStayRecorded` | if `Undisturbed`, that is without "edit", "rebuildCrash", "readError" and "writeError": under a clean `meta.json` the rows of files and communities are those of the recorded files, whatever the walk finds | `RunInv`, below |
| `WholeIfWalkReaches`, `UpToDateIsSound` | if `Undisturbed`: `Spec /\ []WalkReachesChanges => []IndexIsWhole`; without "dirtyTree" as well: `=> []UpToDateIsTrue` | `RunInv /\ EdgesFollow`, below |
| `WalkIsEnough`, `IndexStaysWhole`, `UpToDateStaysTrue` | if also `QueriesAnswered` (no "queryError") and `WalkSuffices`: `[]WalkReachesChanges`, and the two above without that premise | the graph lemmas, below |
| `PoolTypeCorrect`, `ConnectionsAlwaysAccounted` | `TypeOK`, `ConnectionsAccounted` of the read pool, all disturbances allowed | `Strong == IInv /\ Unclosed` |
| `DatabaseAlwaysServes` | without "sharedOpen": `Spec => []DatabaseServesItsEntries` | `Counted == Strong /\ DatabasesCounted` |
| `BridgeTypeCorrect` | `TypeOK` of the bridge, all disturbances allowed | inductive by itself |
| `SwapLeavesWholeBridge`, `BridgeOnlyAdvances` | `Disturbances \subseteq {"crash"}`: `[](ReadersGetWholeBridge /\ SyncIsInPlace)`, `ServedOnlyAdvances` | `IInv == TypeOK /\ OneSync /\ SwapProgress /\ SidecarsFollow /\ SyncIsInPlace` |
| `AdapterTypeCorrect` | `TypeOK` of the adapter, all disturbances allowed | `IInv == TypeOK /\ Sessions /\ TriesLeft /\ DbKnown /\ BackoffsEnd` |
| `SessionAlwaysKept` | without "busyDelete": `[]SessionKeepsDatabase` | `Kept` |
| `LockAlwaysExcludes`, `SweepIsSafe` | without "slowOpen": `[]LockExcludes`, `SweepsOnlyOrphans` | `Exclusive` |
| `StopIsQuiet` | without "slowCheckpoint": `[]QuietAfterStop` | `Remembered` |

*The pool.* `NoFileLost` alone is not inductive: a step could start from a state in
which `RunWorker` overwrites the task of a slot that has one, or in which a
suspended routine frees a slot that works. `WorkInProgress` excludes these: a
settled dispatch has no work, a slot that is to be called has none, a slot with
a job counts as busy, and a slot under recovery has neither worker nor job.
Then every action keeps `KeepsFiles`, that the files accounted for only grow;
the heart are the lemmas on `Pieces` and `RequeueRemainder`, which show
that splitting keeps all files and requeueing all but the quarantined.
`ResolvedComplete` follows because a resolved dispatch has an empty queue and no task.

For the order of the results every piece of work — a result, a queued job, the job of a busy slot — gets
the range of indexes from its start to its start plus its number of files. `WorkApart` says that these ranges are in the order of
the files and disjoint, `TaskFits` that what a worker still has to do is of its job and at most one file is in flight, `WorkIsNew` that no
work is empty or on a quarantined file. That holds through splitting, and through requeueing what a dead worker did not deliver. The refinement needs the same invariant: that a delivery is of files not yet accounted for,
and a quarantined file one of those still to be done. `ParseDispatch` has one `Skip` for each file, so the
proof also shows that no step of the pool gives up two.

`TerminateEndsThreads` has the hypothesis of the run `pool_dispatches`, that `terminate()` is not called during a dispatch; disagreement 9
shows that it is needed.

*The gate.* `WorkersFollowLoops` ties a slot's worker and its place in the rotation
to the stage of its loop, in each phase of a shutdown. `CrashesCounted` says that a
reproduced signature took a respawn, which needs that a slot in its first attempt has
no signature yet.

*The stores.* `Backed` says in every phase that a chunk both indexes vouch for, and whose
result can be read, has all its ParsedFiles. To carry it through the window in which the old cache is
removed entry by entry and through crashes in it, four parts are needed: `LoopFits` (what the loop
took from the indexes is still so, and a chunk that is dispatched or parked is not vouched for),
`RunStoreFilled` (the shards of this run are in both stores), `SavesFit` (what `tmp` and the pruning
pass hold in each phase of the two saves) and `ResultsAreCurrent` (what the index vouches for is of its version).
The assumption that no file is quarantined is needed for these: disagreements 3 and 13.

With quarantine the theorems assume the conditions of `stores_quarantine`: runs end, and one version. `QInv` then says that a result in
the cache is one of a complete chunk (`ResultsAreWhole`, `ResultsAreListed`, `ResultsAreKept`, `DispatchedHaveNoResult`), and that the shards of this run's
chunks hold all but the quarantined files (`RunStoreFilledButForQuarantine`), which needs that one chunk is finalized at a time
with at most one parked (`OneAtATime`, `LeftOf`). With crashes or an upgrade the first part fails: a shard that an earlier run left on disk is
kept for the quarantined chunk.

*The lock.* `Calm` says that there are no disturbances and at most one repository for
embeddings. `Claims(j)` is the right to a repository, from the fork to the last
report or the last failed retry. `LocksFit`: who has a claim, a pipeline
or a deletion has the lock, no two have the same, and no lock is without one;
`ClaimsAreActive`: a claim ends with its job, and a worker that is done
and whose job is still active has a reload under way, so its exit starts no retry.

*The index.* `RunInv` says phase by phase what a run has read and what it has done to the rows: its hashes are those of the tree it parsed
(`OneTree`), `seen` is the `meta.json` it found (`RunReads`), and the rows are, between runs and until the dirty flag is set, those of the recorded
files; while rows are deleted, what the write set does not touch; after a wipe or the deletions only rows that were kept; then the new ones (`RowsFollow`).
None of this depends on the walk: it is why `RowsStayRecorded` holds also when queries fail or the walk is too short. `EdgesFollow` says the same of the edges. The step from the
deletions to the loaded index is where `WalkReachesChanges`
is used: an edge outside the write set is in the old index if and only if it is in the new one. Whether the walk
reaches everything is a question of the graph, its depth and the answers to its queries, so it is a premise of `WholeIfWalkReaches` and `UpToDateIsSound`, which hold for all graphs.
`Undisturbed` excludes the errors of deletion, insertion and hashing that the code catches: with them the theorems are false, as
disagreement 18 shows.

`WalkSuffices` says for which sets of trees it does. `ChainsAreShort`: a definition is called over at most `MaxDepth` re-exports, or one
more if no file can take over its imports. `ArrivalsAreShallow`: a file that fills an import which nothing served, or becomes one of several
targets, does not re-export another re-export. Both are conditions on the trees alone, and both are needed. `MCAnalyzeIndex` has TLC evaluate that
`index_runs` satisfies `WalkSuffices` and that the trees of `index_restored` do not: they break `ArrivalsAreShallow`, and this is disagreement 1. The bound of
`ChainsAreShort` is exact: with `Steals` = {<<s, d>>} and `MaxDepth` = 1 the definition d is called over two re-exports, and TLC finds `WalkReachesChanges` violated in `MCTrees`. The proof follows
an unchanged caller whose rows are left alone. `WalkClimbs`: a changed file that it reaches over n re-exports leads the walk after n steps to one of its
imports, hence, with the ring of neighbours that `EffectiveWriteSet` adds, to the caller itself. So within that depth it reaches only unchanged files, whose
imports can be added to but not lost (`ImportsStay`, from `ImportsChange`). By induction over the levels it keeps what it reached (`CallerKeeps`), and what it gains is a new file or
an import of one (`CallerGains`), and those are written. The levels are recursive functions; that they exist and how they unfold comes from
`SmallestNat`, `IteratesExist` and `IteratesIn`, inductions by a smallest counterexample. How the walk unfolds level
by level, over the queries that fail, is `WalkLevels`.

*The read pool.* `IInv` gives every entry its accounts: idle connections, those of running queries and the count add up, a query
refers to an entry that exists, ids of different repositories differ. An entry that is still being built has no
query and is not closed (`Unclosed`). `DatabasesCounted` adds that the reference count of a path's database is the number of
repositories whose entry is registered or half built on it, and that a path under opening has no database, which "sharedOpen" breaks.

*The bridge.* `SwapProgress` says where old and new database and backup are at each step of the one sync, `SidecarsFollow` that a sidecar is
next to the database it belongs to except in the middle of its two renames; `SyncIsInPlace` is needed because the next swap
starts from what the last one left.

*The adapter.* `Sessions` says that an operation in a stage that needs the session lock is at the head of its process's queue; so at
most one operation of a process opens or closes the connection, a clean-up included. `Kept` extends that to the connection:
the holder of the session lock keeps the one it opened, and analyses have a process of their own. For the lock, while no process has
died, no operation is about to break a lock (`NoBreak`: without "slowOpen" only a dead owner makes it stale), so the file names whoever
is in the critical section (`Named`), and a database that was missing stays missing until its owner opens it
(`Orphaned`, with `Writers`: outside the lock only a query opens, and it does not create). `Remembered` says that the driver's `inflight`,
and what `stop()` awaits, is the one checkpoint under way.

Model-checked only: liveness (`DispatchSettlesOrBreaks`, `GateSettles`, `JobsEnd`, `WaiterServed`, `OpsEnd`), which the
provers do not reach. Every invariant and action property of a passing run is stated by a theorem, each under the conditions
of its run or weaker ones.

## Where code and documentation disagree

1 and 8 are violation runs; the others have a configuration of
their own, which TLC ends with a counterexample. A configuration that lists several properties holds none of them: TLC
stops at the first, and shows the next when those before it are left out.

1. `index_restored` (`IndexIsWhole`). The walk over importers reads the import rows of the run before (`run-analyze.ts:648-668`). A
   re-exporting file that was missing then, deleted or not there yet, has none, so when it comes the callers further up the chain are not rewritten and
   their calls stay missing, within the depth to which 614-615 claims that incremental and full rebuild agree.
2. `PoolBlame.cfg` (`BlamesTheFileInFlight`). A worker posts `progress` after the parse of
   a file and before its extraction (`parse-worker.ts:1151`), the pool clears
   `inFlightPath` on it, and a death during extraction is charged to the *next* file. The
   comment (1108-1109) says exactly the file that dies in parse or extract is excluded.
3. `StoresOldResults.cfg` (`GraphIsCurrent`). `saveParseCache` copies the shard of any used key
   that is on disk (`parse-cache.ts:378`), also one of the version before whose new
   results were not stored because a file was quarantined, and indexes it under the new
   version. The next run replays it, which the version is to rule out (38-42).
4. `JobsReopened.cfg` (`SingleSlot`). A late `progress` message, or the end of a clone, sets a
   cancelled job to `analyzing` again (`api.ts:1531`, 1492) while its successor is active;
   `analyze-job.ts:6` promises one active job.
5. `JobsLockLeak.cfg` (`LockIsOwned`). `POST /api/embed` locks, then `createJob` throws
   because another embedding is active, and the catch does not unlock (`api.ts:1693-1699`).
6. `JobsUnlock.cfg` (`OneUser`). The catch of an analysis unlocks although the clone failed
   before the lock was taken (`api.ts:1622`): it takes the lock of an embedding or deletion.
   `OneUser` also falls to each of `cancel`, `throw`, `slow` and `timeout` alone: unlocking
   on a report of a worker that works on, on an exit before the reload has settled, or at
   the time limit of an embedding that is not told.
7. `PoolDropsReadySlot.cfg` (`DroppedForCause`). A replacement that is ready after its
   dispatch has settled is terminated and its slot leaves the rotation for good
   (`worker-pool.ts:1252-1255`, 1428), though 845 describes dropping as a matter of the budget.
8. `pool_stale_trip` (`DispatchSettles`). A dispatch may stay pending for ever. Both slots die in a first dispatch, which the replacement
   of one of them finishes. In the second that slot takes a job and dies over its budget (`worker-pool.ts:1394-1415`); the other is still
   active, without a worker, so nothing trips and the job goes back on the queue. Then the routine of the first dispatch
   recalls its replacement (1252-1255), drops the last slot and trips, in the closure of the first dispatch: `poolBroken` is set, and
   `if (stopped) return` (1278) leaves the second promise as it is. 1266-1267 says a trip rejects the outer dispatch promise.
9. `PoolMidTerminate.cfg` (`NoThreadSurvives`). With `terminate()` during a dispatch a replacement
   that comes up meanwhile survives it (1256, 1977-1992; doc at 116). The callers await their dispatch first.
10. `StartupRules.cfg` (`SelfHealsOnce`). A slot is dropped after its first crash if two others
   reproduced theirs (1021-1023); 981 promises each slot a retry.
11. `StartupRules.cfg` (`SameSignature`). The slots counted as reproducing may have different
    signatures (1013-1017); 421-422 speaks of the same.
12. `StoresOldShards.cfg` (`ParsedFilesAreCurrent`). Shards left by an older version in a chunk's
    directory under names not reused are restored with the new ones
    (`parsedfile-store.ts:350-352`, 359-362).
13. `StoresOrphan.cfg` (`QuarantinedIsRetried`). With crashes, a chunk with a quarantined file may be
    found in the cache of an earlier run (`parse-cache.ts:380`) and is served, against
    `parsedfile-store.ts:382-383` and `run-analyze.ts:1000-1001`. `ServedIsComplete` falls with it:
    an old result that is indexed anew brings its incomplete shards.
14. `StoresLostResult.cfg` (`ShardsAreDelivered`). A shard is written before its result is delivered
    (`parse-worker.ts:2434-2451`); if the worker is replaced in between and the file then quarantined, scope
    resolution sees a file the graph does not have (2417-2418).
15. `IndexDisturbed.cfg` (`UpToDateIsTrue`). Only the incremental path sets the dirty flag (`run-analyze.ts:557`). A forced rebuild that
   stops after it wiped the database (564-577) leaves a clean `meta.json` of the same commit, and the next run answers "up to date".
16. The same with `Disturbances = {"dirtyTree"}`. Uncommitted changes are analysed under the commit they sit on; after they are reverted the
   commit and the working tree agree, and the shortcut (345-389) answers for a database of the reverted files.
17. `IndexEdited.cfg` (`IndexIsWhole`). The files are hashed after they were parsed (515-524); a change in between is recorded as analysed.
18. `IndexErrors.cfg` (`WalkReachesChanges`). A query for importers that fails finds nobody (`lbug-adapter.ts:1781`), the files it would
   have named are not rewritten, and a clean `meta.json` follows; `run-analyze.ts:661-663` says as much of itself ("correctness degrades on that branch"), but nothing records it
   for the next run, and the invariant claimed at 614-615 has no such exception. With {"writeError"} instead, rows or communities that were not deleted (1721, 1813;
   `run-analyze.ts:703-705`), rows and edges that were not inserted (902-916, 960-964, 1089) or a database that was not removed (`run-analyze.ts:564-577`)
   break `IndexIsWhole`, and `UpToDateIsTrue` with it. So does {"readError"}: a file that cannot be read is to be assumed changed by `file-hash.ts:26-27`, but
   has no entry in the new hashes, which `diffFileHashes` takes for a deletion, or for an unknown file by the next run.
19. `IndexUnregistered.cfg` (`CompleteJobIsDiscoverable`). A run that stops between `meta.json` and the registry (`run-analyze.ts:981`, 1021) leaves an
   index nobody finds. The comment at `cli/analyze.ts:1121-1124` says that even the fast path must prove that the repository is discoverable, and the command line does;
   the worker of a server job does not (`analyze-worker.ts:73-82`), and the job is reported complete (`api.ts:1536`).
20. `ConnDisturbed.cfg`. `PoolBounded`: the limit is checked before the awaits and the entry added after them (`pool-adapter.ts:160`).
    `OneQueryPerConnection`: a query that timed out gives its connection back while the native call runs on it (755-761, 734).
    `DatabaseOpenUnderQuery`: closing an entry closes the native database under the queries of its connections (225). `DatabaseServesItsEntries`:
    two repositories that open one path at once replace each other's handle (522-533).
21. `BridgeDisturbed.cfg`. `ReadersGetWholeBridge`: between the renames of a database and of its sidecar a crash or a reader parts them
    (`bridge-db.ts:583-609`). `ServedOnlyAdvances`: a reader that saw the backup renames it over a database that was
    installed meanwhile (676-690), and two overlapping syncs move each other's database to the backup.
22. `BridgeRefused.cfg` (`NeverRefused`). `ensureBridgeReady` looks for the database before the opening that would restore it
    (`cross-impact.ts:361`), so that after a sync that stopped between its two renames queries are turned away, the case
    `bridge-db.ts:670` and `test/unit/group/bridge-db-edge.test.ts:60` have the restore for.
23. `AdapterStuckLock.cfg` (`LocksAreReclaimed`). A process that dies between the creation of its lock file and the write of its payload
    (`lbug-adapter.ts:341-343`) leaves an empty file, which does not parse and is never reclaimed, against 252-253, by which the file
    is there so that "stale locks from crashed processes can be reclaimed".
24. `AdapterDisturbed.cfg`. `QuietAfterStop`: a tick during a checkpoint that is still retried overwrites `inflight`, and the first to settle clears
    it (`wal-checkpoint-driver.ts:167`, 184), so `stop()` does not await the other; `run-analyze.ts:1065` relies on it.
    `SessionKeepsDatabase`: `DELETE /api/repo` closes the connection outside the session lock (`api.ts:953`). `OneOpener`: two
    processes that take over a dead owner's lock, or one whose open outlives 30 s, are in the critical section together, because the
    unlink of a stale lock removes whatever is there by then (`lbug-adapter.ts:299`). `LargeLogStays`: preflight looks at the log and then moves
    it away while another process that holds the database has written to it (`sidecar-recovery.ts:230-249`).

## Not modelled

Extraction of symbols per language, search, embeddings and wiki text are
functions of data with little control. The engine under `@ladybugdb/core` is native and external: modelled are its exclusion of
writers, its refusal of sidecars without a database and the effect of a checkpoint on the log.
The MCP server and the web client translate requests. Of the modelled components the parts left out are named in their sections above.
The registry, the pipeline runner and scope resolution are marked *planned* in the table.

## Plan

1. `Registry` — read-modify-write of `registry.json` by several processes (`repo-manager.ts:537`).
2. `PhaseRunner` and `FinalizeOrder` — algorithms as recursive functions against reference
   definitions over all small graphs.
3. Composition: the chunk loop over `ParseDispatch` instead of its own `Flush` and `GiveUp`, so that
   `ParseStores` rests on what the pool is shown to promise; the analysis of `AnalyzeIndex` over the database of `DatabaseAdapter`.
4. Proofs: what still holds under the disturbances the theorems exclude, such as the stores with both quarantine and crashes.
