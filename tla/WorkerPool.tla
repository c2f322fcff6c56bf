----------------------------- MODULE WorkerPool -----------------------------
(***************************************************************************)
(* The parse worker pool (core/ingestion/workers/worker-pool.ts): serial   *)
(* dispatches over a fixed set of worker slots, with per-slot respawn      *)
(* budget, circuit breaker, quarantine, timeout split/retry and terminate. *)
(*                                                                         *)
(* One action is one turn of the main thread's event loop, or, inside a    *)
(* turn that hands out several jobs, one call of runWorker: while `turn`   *)
(* is not empty nothing else happens.  The order in which one turn serves  *)
(* idle slots is left open.  A file is its position in the chunk; an array *)
(* of paths that holds at most one path is a set.                          *)
(***************************************************************************)
EXTENDS Integers, Sequences, FiniteSets

CONSTANTS
    Slots,              \* the worker slots
    Files,              \* the files, numbered in the order the caller lists them
    Chunks,             \* Chunks[n]: the files of the caller's n-th dispatch
    SubBatchSize,       \* most files in one job
    BaseTimeout, BackoffFactor, MaxCumulative, MaxTimeoutRetries,
    MaxRespawns,        \* replacement spawns a slot may have
    FailureThreshold,   \* consecutive deaths of a slot that trip the breaker
    MidDispatchTerminate \* the caller may terminate() an unsettled dispatch

ASSUME PoolAssumption ==
    /\ Slots # {} /\ IsFiniteSet(Slots)
    /\ Files \in SUBSET Nat /\ IsFiniteSet(Files)
    /\ Chunks \in Seq(SUBSET Files)
    /\ SubBatchSize \in Nat \ {0}
    /\ BaseTimeout \in Nat \ {0} /\ BackoffFactor \in Nat \ {0}
    /\ MaxCumulative \in Nat /\ MaxTimeoutRetries \in Nat
    /\ MaxRespawns \in Nat /\ FailureThreshold \in Nat \ {0}
    /\ MidDispatchTerminate \in BOOLEAN

VARIABLES
    \* of the current dispatch (the closure of dispatch())
    dispatchNo,     \* how many dispatches the caller has made
    promise,        \* "idle", then "pending", "resolved" or "rejected"
    jobs,           \* queue; jobs are shifted and unshifted at its head
    results,        \* delivered jobs: start index and files
    busySlots,      \* slots counted by activeWorkers
    diedOnce,       \* start indexes with an unattributed death
    task,           \* what each slot's attached handlers know of its job
    turn,           \* slots runWorker is still to be called for in this turn
    \* of the pool
    worker,         \* workers[w]: see WorkerState
    recovery,       \* the suspended death or retry routine of each slot
    activeSlots, respawnCount, failures, quarantine, poolBroken,
    retired,        \* timed-out threads that still run
    shutdown        \* "no", then "terminating" and "done"

dispatchVars == <<dispatchNo, promise, jobs, results, busySlots, diedOnce, task, turn>>
poolVars == <<worker, recovery, activeSlots, respawnCount, failures,
              quarantine, poolBroken, retired, shutdown>>
vars == <<dispatchVars, poolVars>>

-----------------------------------------------------------------------------
(* Jobs, tasks and recoveries *)

Job == [start : Nat, items : SUBSET Files, attempt : Nat, timeout : Nat, cumulative : Nat]

NoJob == [start |-> 0, items |-> {}, attempt |-> 0, timeout |-> 0, cumulative |-> 0]

\* `left`, `doing`: the worker's own view, files not begun and the one it is on.
\* `inFlight`, `seen`: inFlightPath and lastProgress, the pool's view of it.
Task == [job : Job, left : SUBSET Files, doing : SUBSET Files,
         inFlight : SUBSET Files, seen : Nat, flushing : BOOLEAN]

Assigned(job) == [job |-> job, left |-> job.items, doing |-> {},
                  inFlight |-> {}, seen |-> 0, flushing |-> FALSE]

NoTask == Assigned(NoJob)

\* "dead": the thread exited while no handler was attached; "doomed":
\* terminate() was called on it; "orphan": it outlived the pool's reference.
WorkerState == {"none", "live", "dead", "doomed", "orphan"}

\* The await a routine is suspended at.  "terminating", "spawning": inside
\* replaceWorker; "failed", "recalled": ending the replacement that did not come
\* up, or came up after the dispatch; "dropping": ending the worker of a slot
\* over its budget.  `held`: the slot still counts in activeWorkers.
Stage == {"none", "terminating", "spawning", "failed", "recalled", "dropping"}

Recovery == [stage : Stage, held : BOOLEAN, from : Nat]

NoRecovery == [stage |-> "none", held |-> FALSE, from |-> 0]

Rank(f, S) == Cardinality({g \in S : g < f})

First(S) == {f \in S : Rank(f, S) = 0}

\* createJobs: consecutive batches of at most SubBatchSize files; the byte
\* budget may close a batch earlier.
Batchings(files) ==
    {bs \in UNION {[1..n -> (SUBSET files) \ {{}}] : n \in 1..Cardinality(files)} :
        /\ UNION {bs[k] : k \in DOMAIN bs} = files
        /\ \A k \in DOMAIN bs : Cardinality(bs[k]) <= SubBatchSize
        /\ \A k, l \in DOMAIN bs : k < l => \A f \in bs[k], g \in bs[l] : f < g}

JobsOf(bs) ==
    [k \in DOMAIN bs |->
        [start |-> Cardinality(UNION {bs[i] : i \in 1..(k - 1)}), items |-> bs[k],
         attempt |-> 0, timeout |-> BaseTimeout, cumulative |-> BaseTimeout]]

Init ==
    /\ dispatchNo = 0 /\ promise = "idle" /\ jobs = <<>> /\ results = {}
    /\ busySlots = {} /\ diedOnce = {} /\ turn = {}
    /\ task = [w \in Slots |-> NoTask]
    /\ activeSlots \in SUBSET Slots     \* what the startup gate left over
    /\ worker = [w \in Slots |-> IF w \in activeSlots THEN "live" ELSE "none"]
    /\ recovery = [w \in Slots |-> NoRecovery]
    /\ respawnCount = [w \in Slots |-> 0] /\ failures = [w \in Slots |-> 0]
    /\ quarantine = {} /\ poolBroken = FALSE /\ retired = 0 /\ shutdown = "no"

-----------------------------------------------------------------------------
(* Ends of turns, shared by the handlers *)

\* The `stopped` flag of dispatch n's closure.
Stopped(n) == n # dispatchNo \/ promise # "pending"

Busy(w) == task[w].job.items # {}

\* Mutant: maybeDone that forgets the queue.
MaybeDoneActiveOnly == promise' = IF busySlots' = {} THEN "resolved" ELSE "pending"

\* maybeDone: no queued job and no active worker settles the promise.
MaybeDone == promise' = IF jobs' = <<>> /\ busySlots' = {} THEN "resolved" ELSE "pending"

\* Call runWorker for `slots`, then maybeDone.
Continue(slots) ==
    /\ MaybeDone
    /\ turn' = IF promise' = "resolved" THEN {} ELSE slots

\* tripBreaker of an unsettled dispatch.  Handlers of other slots stay attached
\* and find `stopped` set: their tasks are over.
TripBreaker ==
    /\ poolBroken' = TRUE /\ promise' = "rejected"
    /\ worker' = [w \in Slots |-> IF worker[w] = "orphan" THEN "orphan" ELSE "none"]
    /\ activeSlots' = {}
    /\ task' = [w \in Slots |-> NoTask] /\ turn' = {}

\* Mutant: a dropped slot wakes nobody for the work it put back.
LoseSlotWakesNobody(w, from) ==
    \/ /\ activeSlots \ {w} = {} /\ ~Stopped(from)
       /\ TripBreaker
    \/ /\ activeSlots \ {w} # {} \/ Stopped(from)
       /\ activeSlots' = activeSlots \ {w}
       /\ poolBroken' = (poolBroken \/ (activeSlots' = {} /\ ~recovery[w].held))
       /\ worker' = [worker EXCEPT ![w] = "none"]
       /\ task' = [task EXCEPT ![w] = NoTask]
       /\ IF Stopped(from) THEN UNCHANGED <<promise, turn>> ELSE Continue({})

\* activeSlots.delete(w), then tripBreaker when it was the last one; otherwise
\* wake the slot's peers.  After the dispatch of the routine is over nobody is
\* woken and tripBreaker, which a timeout retry then skips, only marks the pool.
LoseSlot(w, from) ==
    \/ /\ activeSlots \ {w} = {} /\ ~Stopped(from)
       /\ TripBreaker
    \/ /\ activeSlots \ {w} # {} \/ Stopped(from)
       /\ activeSlots' = activeSlots \ {w}
       /\ poolBroken' = (poolBroken \/ (activeSlots' = {} /\ ~recovery[w].held))
       /\ worker' = [worker EXCEPT ![w] = "none"]
       /\ task' = [task EXCEPT ![w] = NoTask]
       /\ IF Stopped(from) THEN UNCHANGED <<promise, turn>>
                           ELSE Continue(activeSlots' \ busySlots')

\* Threads set aside by retireWorkerAfterTimeout; a trip terminates them all.
Retire(w) ==
    retired' = IF promise' = "rejected" THEN 0
               ELSE IF worker[w] = "live" THEN retired + 1 ELSE retired

\* A routine of the current dispatch suspends at `stage`.
Suspend(w, stage, held) ==
    /\ recovery' = [recovery EXCEPT ![w] = [stage |-> stage, held |-> held, from |-> dispatchNo]]
    /\ worker' = [worker EXCEPT ![w] = "none"]
    /\ task' = [task EXCEPT ![w] = NoTask]
    /\ UNCHANGED <<promise, turn, activeSlots, poolBroken>>

-----------------------------------------------------------------------------
(* dispatch *)

\* The files quarantine.has() lets through, on dispatch and in runWorker.
Dispatchable(files) == files \ quarantine

CanDispatch ==
    /\ turn = {} /\ promise # "pending" /\ shutdown = "no"
    /\ dispatchNo < Len(Chunks)

\* A broken pool refuses a chunk, and so does one without slots, unless there is
\* nothing to parse.
Refuses == poolBroken \/ (activeSlots = {} /\ Chunks[dispatchNo + 1] # {})

DispatchRefused ==
    /\ CanDispatch /\ Refuses
    /\ dispatchNo' = dispatchNo + 1 /\ promise' = "rejected"
    /\ jobs' = <<>> /\ results' = {} /\ busySlots' = {} /\ diedOnce' = {}
    /\ UNCHANGED <<task, turn, poolVars>>

\* Every file of the chunk is quarantined (or there is none).
DispatchEmpty ==
    /\ CanDispatch /\ ~Refuses
    /\ Dispatchable(Chunks[dispatchNo + 1]) = {}
    /\ dispatchNo' = dispatchNo + 1 /\ promise' = "resolved"
    /\ jobs' = <<>> /\ results' = {} /\ busySlots' = {} /\ diedOnce' = {}
    /\ UNCHANGED <<task, turn, poolVars>>

Dispatch ==
    /\ CanDispatch /\ ~Refuses
    /\ Dispatchable(Chunks[dispatchNo + 1]) # {}
    /\ \E bs \in Batchings(Dispatchable(Chunks[dispatchNo + 1])) : jobs' = JobsOf(bs)
    /\ dispatchNo' = dispatchNo + 1 /\ promise' = "pending"
    /\ results' = {} /\ busySlots' = {} /\ diedOnce' = {}
    /\ turn' = activeSlots
    /\ UNCHANGED <<task, poolVars>>

-----------------------------------------------------------------------------
(* runWorker *)

Quarantined(job) == Dispatchable(job.items) = {}

\* Jobs whose files are all quarantined are dropped on the way to the first
\* that has one left; a slot without a worker puts that one back.
RunWorker(w) ==
    /\ w \in turn
    /\ IF \A i \in DOMAIN jobs : Quarantined(jobs[i])
       THEN jobs' = <<>> /\ UNCHANGED <<task, busySlots>>
       ELSE \E k \in DOMAIN jobs :
              LET job  == [jobs[k] EXCEPT !.items = Dispatchable(@)]
                  rest == SubSeq(jobs, k + 1, Len(jobs))
              IN /\ ~Quarantined(jobs[k])
                 /\ \A i \in 1..(k - 1) : Quarantined(jobs[i])
                 /\ IF worker[w] = "none"
                    THEN jobs' = <<job>> \o rest /\ UNCHANGED <<task, busySlots>>
                    ELSE /\ jobs' = rest
                         /\ task' = [task EXCEPT ![w] = Assigned(job)]
                         /\ busySlots' = busySlots \cup {w}
    /\ Continue(turn \ {w})
    /\ UNCHANGED <<dispatchNo, results, diedOnce, poolVars>>

-----------------------------------------------------------------------------
(* Messages of the worker thread; parse-worker's processFileGroup and flush *)

\* Handlers run between turns, on a thread that still posts.
Listening(w) == turn = {} /\ Busy(w) /\ worker[w] \in {"live", "doomed", "orphan"}

View(w, new) ==
    /\ task' = [task EXCEPT ![w] = new]
    /\ UNCHANGED <<dispatchNo, promise, jobs, results, busySlots, diedOnce, turn, poolVars>>

\* 'starting-file': files come grouped by language, so in any order.
StartingFile(w) ==
    /\ Listening(w) /\ ~task[w].flushing
    /\ \E f \in task[w].left :
         View(w, [task[w] EXCEPT !.left = @ \ {f}, !.doing = {f}, !.inFlight = {f}])

\* 'progress': posted once the file is parsed, before its symbols are extracted,
\* or for a file of a language that is not parsed here.  (Jobs of more than ten
\* files report every few files.)
Progress(w) ==
    /\ Listening(w) /\ ~task[w].flushing
    /\ \/ /\ task[w].doing # {} /\ task[w].inFlight = task[w].doing
          /\ View(w, [task[w] EXCEPT !.seen = @ + 1, !.inFlight = {}])
       \/ \E f \in task[w].left :
            View(w, [task[w] EXCEPT !.left = @ \ {f}, !.doing = {}, !.seen = @ + 1,
                                    !.inFlight = {}])

\* 'sub-batch-done', answered by flush.  Files left over were skipped silently.
SubBatchDone(w) ==
    /\ Listening(w) /\ ~task[w].flushing
    /\ View(w, [task[w] EXCEPT !.left = {}, !.doing = {}, !.flushing = TRUE])

\* 'result', the reply to flush: commit the job and take the next.
Result(w) ==
    /\ Listening(w) /\ task[w].flushing
    /\ results' = results \cup {[start |-> task[w].job.start, items |-> task[w].job.items]}
    /\ failures' = [failures EXCEPT ![w] = 0]
    /\ busySlots' = busySlots \ {w}
    /\ task' = [task EXCEPT ![w] = NoTask]
    /\ UNCHANGED <<dispatchNo, jobs, diedOnce, worker, recovery, activeSlots,
                   respawnCount, quarantine, poolBroken, retired, shutdown>>
    /\ Continue(activeSlots \cap {w})

-----------------------------------------------------------------------------
(* Deaths *)

\* Mutant: a death condemns every file of the job.
CulpritsWholeJob(job, excluded) ==
    IF excluded # {} \/ job.start \in diedOnce THEN job.items ELSE {}

\* requeueRemainder: the second unattributed death at a start index blames the
\* first file of the job.
Culprits(job, excluded) ==
    IF excluded # {} THEN excluded
    ELSE IF job.start \in diedOnce THEN First(job.items) ELSE {}

\* Mutant: a job with a culprit is dropped with its other files.
RequeueNothing(job, excluded) ==
    /\ jobs' = IF Culprits(job, excluded) # {} THEN jobs ELSE <<job>> \o jobs
    /\ quarantine' = quarantine \cup Culprits(job, excluded)
    /\ diedOnce' = IF excluded = {} THEN diedOnce \cup {job.start} ELSE diedOnce

\* The job goes back to the head of the queue without its culprit.
RequeueRemainder(job, excluded) ==
    LET rest == job.items \ Culprits(job, excluded)
    IN /\ jobs' = IF rest = {} THEN jobs ELSE <<[job EXCEPT !.items = rest]>> \o jobs
       /\ quarantine' = quarantine \cup Culprits(job, excluded)
       /\ diedOnce' = IF excluded = {} THEN diedOnce \cup {job.start} ELSE diedOnce

\* resolveExcludePaths: the file in flight, or else the one after those acknowledged.
ExcludePaths(w) ==
    IF task[w].inFlight # {} THEN task[w].inFlight
    ELSE {f \in task[w].job.items : Rank(f, task[w].job.items) = task[w].seen}

OverBudget(w) == respawnCount[w] + 1 > MaxRespawns

TooManyFailures(w) == failures[w] + 1 >= FailureThreshold

\* handleWorkerDeath up to its first await.  A retired worker is not awaited.
Death(w, retire) ==
    /\ failures' = [failures EXCEPT ![w] = @ + 1]
    /\ busySlots' = busySlots \ {w}
    /\ \/ /\ TooManyFailures(w)
          /\ TripBreaker
          /\ UNCHANGED <<respawnCount, recovery>>
       \/ /\ ~TooManyFailures(w)
          /\ respawnCount' = [respawnCount EXCEPT ![w] = @ + 1]
          /\ \/ /\ ~OverBudget(w)
                /\ Suspend(w, IF retire THEN "spawning" ELSE "terminating", FALSE)
             \/ /\ OverBudget(w) /\ ~retire
                /\ Suspend(w, "dropping", FALSE)
             \/ /\ OverBudget(w) /\ retire
                /\ LoseSlot(w, dispatchNo)
                /\ UNCHANGED recovery
    /\ IF retire THEN Retire(w)
       ELSE retired' = IF promise' = "rejected" THEN 0 ELSE retired

\* 'error' message or event, exit, messageerror or a malformed message.
Crash(w) ==
    /\ Listening(w)
    /\ RequeueRemainder(task[w].job, ExcludePaths(w))
    /\ Death(w, FALSE)
    /\ UNCHANGED <<dispatchNo, results, shutdown>>

\* The thread of an idle slot exits: nobody listens, the reference stays.
IdleExit(w) ==
    /\ turn = {} /\ ~Busy(w) /\ worker[w] = "live"
    /\ worker' = [worker EXCEPT ![w] = "dead"]
    /\ UNCHANGED <<dispatchVars, recovery, activeSlots, respawnCount, failures,
                   quarantine, poolBroken, retired, shutdown>>

-----------------------------------------------------------------------------
(* Idle timeouts *)

NextTimeout(job) == job.timeout * BackoffFactor

\* Mutant: the budget counts down although it is compared with the cap.
NextCumulativeDown(job) == job.cumulative - NextTimeout(job)

NextCumulative(job) == job.cumulative + NextTimeout(job)

\* requeueAfterTimeout: out of budget, or a single file out of attempts.
GivesUp(job) ==
    \/ NextCumulative(job) > MaxCumulative
    \/ Cardinality(job.items) = 1 /\ job.attempt >= MaxTimeoutRetries

Stalled(w) == IF task[w].inFlight # {} THEN task[w].inFlight ELSE First(task[w].job.items)

\* Mutant: the second half keeps the start index of the whole job.
PiecesSameStart(job) ==
    LET again == [job EXCEPT !.timeout = NextTimeout(job), !.cumulative = NextCumulative(job)]
        half  == (Cardinality(job.items) + 1) \div 2
        lower == {f \in job.items : Rank(f, job.items) < half}
    IN IF Cardinality(job.items) = 1
       THEN <<[again EXCEPT !.attempt = @ + 1]>>
       ELSE <<[again EXCEPT !.items = lower], [again EXCEPT !.items = job.items \ lower]>>

\* A retry splits the job in two halves, or repeats a single file once more.
Pieces(job) ==
    LET again == [job EXCEPT !.timeout = NextTimeout(job), !.cumulative = NextCumulative(job)]
        half  == (Cardinality(job.items) + 1) \div 2
        lower == {f \in job.items : Rank(f, job.items) < half}
    IN IF Cardinality(job.items) = 1
       THEN <<[again EXCEPT !.attempt = @ + 1]>>
       ELSE <<[again EXCEPT !.items = lower],
              [again EXCEPT !.start = @ + half, !.items = job.items \ lower]>>

\* The timer fires on a job nobody answered for; time itself is not modelled.
TimesOut(w) == turn = {} /\ Busy(w)

TimeoutGiveUp(w) ==
    /\ TimesOut(w) /\ GivesUp(task[w].job)
    /\ RequeueRemainder(task[w].job, Stalled(w))
    /\ Death(w, TRUE)
    /\ UNCHANGED <<dispatchNo, results, shutdown>>

\* The slot stays busy until its replacement is up.
TimeoutRetry(w) ==
    /\ TimesOut(w) /\ ~GivesUp(task[w].job)
    /\ jobs' = Pieces(task[w].job) \o jobs
    /\ respawnCount' = [respawnCount EXCEPT ![w] = @ + 1]
    /\ failures' = [failures EXCEPT ![w] = @ + 1]
    /\ \/ /\ TooManyFailures(w)
          /\ busySlots' = busySlots \ {w}
          /\ TripBreaker
          /\ UNCHANGED recovery
       \/ /\ ~TooManyFailures(w) /\ OverBudget(w)
          /\ busySlots' = busySlots \ {w}
          /\ LoseSlot(w, dispatchNo)
          /\ UNCHANGED recovery
       \/ /\ ~TooManyFailures(w) /\ ~OverBudget(w)
          /\ Suspend(w, "spawning", TRUE)
          /\ UNCHANGED busySlots
    /\ Retire(w)
    /\ UNCHANGED <<dispatchNo, results, diedOnce, quarantine, shutdown>>

-----------------------------------------------------------------------------
(* replaceWorker and the rest of the routine that awaits it *)

At(w, stages) == turn = {} /\ recovery[w].stage \in stages

\* Mutant: replaceWorker does not look at `stopped`.
StaleNever(w) == FALSE

Stale(w) == Stopped(recovery[w].from)

Advance(w, stage) ==
    /\ recovery' = [recovery EXCEPT ![w].stage = stage]
    /\ UNCHANGED <<dispatchVars, worker, activeSlots, respawnCount, failures,
                   quarantine, poolBroken, retired, shutdown>>

\* The old worker is gone: spawn its replacement, unless the dispatch is over.
WorkerEnded(w) ==
    /\ At(w, {"terminating"}) /\ ~Stale(w)
    /\ Advance(w, "spawning")

ReplacementFails(w) ==
    /\ At(w, {"spawning"})
    /\ Advance(w, "failed")

\* A replacement that is ready after its dispatch is terminated again.
ReplacementRecalled(w) ==
    /\ At(w, {"spawning"}) /\ Stale(w)
    /\ Advance(w, "recalled")

\* The slot of a timed-out job counted in activeWorkers until here.
Release(w) == busySlots' = IF recovery[w].held THEN busySlots \ {w} ELSE busySlots

ReplacementReady(w) ==
    /\ At(w, {"spawning"}) /\ ~Stale(w)
    /\ worker' = [worker EXCEPT ![w] = "live"]
    /\ recovery' = [recovery EXCEPT ![w] = NoRecovery]
    /\ Release(w)
    /\ UNCHANGED <<dispatchNo, jobs, results, diedOnce, task, activeSlots, respawnCount,
                   failures, quarantine, poolBroken, retired, shutdown>>
    /\ Continue(activeSlots \ busySlots')

\* No replacement, or no budget for one.
SlotLost(w) ==
    /\ \/ At(w, {"failed", "recalled", "dropping"})
       \/ At(w, {"terminating"}) /\ Stale(w)
    /\ recovery' = [recovery EXCEPT ![w] = NoRecovery]
    /\ Release(w)
    /\ UNCHANGED <<dispatchNo, jobs, results, diedOnce, respawnCount, failures,
                   quarantine, shutdown>>
    /\ LoseSlot(w, recovery[w].from)
    /\ retired' = IF promise' = "rejected" THEN 0 ELSE retired

-----------------------------------------------------------------------------
(* Retired threads and terminate *)

\* A retired thread posts again, and is terminated, or exits by itself.
RetiredEnds ==
    /\ turn = {} /\ retired > 0
    /\ retired' = retired - 1
    /\ UNCHANGED <<dispatchVars, worker, recovery, activeSlots, respawnCount, failures,
                   quarantine, poolBroken, shutdown>>

\* terminate() up to its await: every referenced and every retired thread.
Terminate ==
    /\ turn = {} /\ shutdown = "no"
    /\ promise = "pending" => MidDispatchTerminate
    /\ shutdown' = "terminating" /\ retired' = 0
    /\ worker' = [w \in Slots |-> IF worker[w] = "live" THEN "doomed" ELSE worker[w]]
    /\ UNCHANGED <<dispatchVars, recovery, activeSlots, respawnCount, failures,
                   quarantine, poolBroken>>

DoomedExit(w) ==
    /\ turn = {} /\ ~Busy(w) /\ worker[w] = "doomed"
    /\ worker' = [worker EXCEPT ![w] = "dead"]
    /\ UNCHANGED <<dispatchVars, recovery, activeSlots, respawnCount, failures,
                   quarantine, poolBroken, retired, shutdown>>

TerminateDone ==
    /\ turn = {} /\ shutdown = "terminating"
    /\ \A w \in Slots : worker[w] # "doomed"
    /\ shutdown' = "done"
    /\ worker' = [w \in Slots |-> IF worker[w] = "live" THEN "orphan" ELSE "none"]
    /\ activeSlots' = {}
    /\ UNCHANGED <<dispatchVars, recovery, respawnCount, failures, quarantine,
                   poolBroken, retired>>

-----------------------------------------------------------------------------

JobEvent(w) ==
    \/ StartingFile(w) \/ Progress(w) \/ SubBatchDone(w) \/ Result(w)
    \/ Crash(w) \/ TimeoutGiveUp(w) \/ TimeoutRetry(w)

RecoveryStep(w) ==
    \/ WorkerEnded(w) \/ ReplacementFails(w) \/ ReplacementRecalled(w)
    \/ ReplacementReady(w) \/ SlotLost(w)

Next ==
    \/ DispatchRefused \/ DispatchEmpty \/ Dispatch
    \/ \E w \in Slots : RunWorker(w) \/ JobEvent(w) \/ RecoveryStep(w)
                        \/ IdleExit(w) \/ DoomedExit(w)
    \/ RetiredEnds \/ Terminate \/ TerminateDone

Spec == Init /\ [][Next]_vars

\* The main thread runs on; a job's timer fires unless its worker posts; a
\* worker that was told to end ends; the ready handshake has a deadline.
Fairness ==
    /\ WF_vars(\E w \in Slots : RunWorker(w))
    /\ \A w \in Slots : WF_vars(JobEvent(w)) /\ WF_vars(RecoveryStep(w))

FairSpec == Spec /\ Fairness

-----------------------------------------------------------------------------
(* Properties *)

TypeOK ==
    /\ dispatchNo \in 0..Len(Chunks)
    /\ promise \in {"idle", "pending", "resolved", "rejected"}
    /\ jobs \in Seq(Job)
    /\ results \in SUBSET [start : Nat, items : SUBSET Files]
    /\ busySlots \in SUBSET Slots
    /\ diedOnce \in SUBSET Nat
    /\ task \in [Slots -> Task]
    /\ turn \in SUBSET Slots
    /\ worker \in [Slots -> WorkerState]
    /\ recovery \in [Slots -> Recovery]
    /\ activeSlots \in SUBSET Slots
    /\ respawnCount \in [Slots -> Nat] /\ failures \in [Slots -> Nat]
    /\ quarantine \in SUBSET Files
    /\ poolBroken \in BOOLEAN
    /\ retired \in Nat
    /\ shutdown \in {"no", "terminating", "done"}

Chunk == IF dispatchNo = 0 THEN {} ELSE Chunks[dispatchNo]

FilesIn(queue) == UNION {queue[i].items : i \in DOMAIN queue}

Queued == FilesIn(jobs)
Running == UNION {task[w].job.items : w \in Slots}
Delivered == UNION {r.items : r \in results}

\* However jobs are split, requeued and retried, a dispatch that resolves has
\* parsed or quarantined every file of its chunk (the array dispatch returns).
ResolvedComplete == promise = "resolved" => Chunk \subseteq Delivered \cup quarantine

\* No file is dropped on the way: until the promise settles each is delivered,
\* quarantined, queued or in some worker's hands.
NoFileLost ==
    promise \in {"pending", "resolved"} =>
        Chunk \subseteq Delivered \cup quarantine \cup Queued \cup Running

\* Sorting by startIndex gives the results in the order of the files, though
\* shrunken jobs keep their start index and splits make up a new one.
ResultsInOrder ==
    \A r, s \in results : r # s =>
        /\ r.start # s.start
        /\ r.start < s.start => \A f \in r.items, g \in s.items : f < g

\* A slot leaves the rotation when its budget is exhausted, when a replacement
\* does not come up or when the breaker clears the pool.
DroppedForCause ==
    [][\A w \in activeSlots \ activeSlots' :
          \/ respawnCount'[w] > MaxRespawns \/ recovery[w].stage = "failed"
          \/ poolBroken' \/ shutdown' = "done"]_vars

\* A death while the worker is on a file quarantines that file and no other.
BlamesTheFileInFlight ==
    [][\A w \in Slots : Crash(w) /\ task[w].doing # {} =>
          quarantine' \subseteq quarantine \cup task[w].doing]_vars

\* terminate() ends all workers.
NoThreadSurvives ==
    shutdown = "done" => \A w \in Slots : worker[w] \notin {"live", "orphan"}

\* Seen by its caller the pool is ParseDispatch: every step delivers files that
\* were not accounted for, gives up one of them, or settles the promise.
Promised == INSTANCE ParseDispatch WITH
    round <- dispatchNo, outcome <- promise, parsed <- Delivered, skipped <- quarantine

ImplementsParseDispatch == Promised!Spec

\* Every dispatch settles: a trip of the breaker rejects the outer promise.
DispatchSettles == promise = "pending" ~> promise # "pending"

\* Of several dispatches in a row each settles, unless a routine that an earlier
\* one left behind trips the breaker: that trip rejects only the earlier promise.
DispatchSettlesOrBreaks == promise = "pending" ~> (promise # "pending" \/ poolBroken)

=============================================================================
