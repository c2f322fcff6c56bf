-------------------------- MODULE DatabaseAdapter --------------------------
(***************************************************************************)
(* The write side of the graph database: the one connection a process      *)
(* keeps in its module, the session lock that lets its operations take     *)
(* turns, and the lock file and the repairs around opening a database that *)
(* other processes open too.  Queries and updates of the server go through *)
(* withLbugDb; an analysis has a process of its own, opens with initLbug   *)
(* and then works outside the session lock beside its checkpoint driver.   *)
(***************************************************************************)
EXTENDS WalCheckpoint, FiniteSets, Sequences

CONSTANTS
  Procs, Databases,
  Queries, Updates,  \* operations under withLbugDb, read-only and writing
  ProcOf,            \* the process of each operation
  MaxLockAttempts,   \* INIT_LOCK_MAX_ATTEMPTS
  MaxTries           \* DB_LOCK_RETRY_ATTEMPTS

Ops == Queries \cup Updates \cup Analyses

NoDb == "no database"
NoOp == "no operation"

(* "crash": a process dies.  "slowOpen": an open holds the lock file for   *)
(* more than 30 s.  "busyDelete": a repository is deleted while another    *)
(* operation of the server runs.                                           *)
ASSUME AdapterAssumption ==
  /\ ProcOf \in [Ops -> Procs]
  /\ NoDb \notin Databases /\ NoOp \notin Ops
  /\ Queries \cap Updates = {} /\ (Queries \cup Updates) \cap Analyses = {}
  /\ \A a \in Analyses, o \in Ops : ProcOf[a] = ProcOf[o] => a = o
  /\ MaxLockAttempts \in Nat \ {0} /\ MaxTries \in Nat \ {0}
  /\ Disturbances \subseteq {"crash", "slowOpen", "busyDelete", "slowCheckpoint"}

VARIABLES
  op,     \* what each operation is doing
  queue,  \* the session lock of each process: its head has it
  conn,   \* the connection each process keeps
  lock,   \* <database>.init.lock
  disk,   \* the database file, sidecars of a checkpoint, and the log
  alive   \* processes that have not died

vars == <<op, queue, conn, lock, disk, alive, driver>>

Stages == {"idle", "queued", "lock", "held", "break", "created", "check", "sweep",
           "preflight", "quarantine", "open", "opened", "refused", "working",
           "stopping", "stopped", "cleanup", "asleep", "done", "failed", "dead"}
Settled == {"done", "failed", "dead"}
\* From the creation of the lock file to its removal.
Critical == {"created", "check", "sweep", "preflight", "quarantine", "open", "opened", "refused"}

NoConn == [db |-> NoDb, readOnly |-> FALSE]
NoLock == [by |-> NoOp, written |-> FALSE]
Idle == [at |-> "idle", db |-> NoDb, attempt |-> 1, try |-> 1]

Init ==
  /\ op = [o \in Ops |-> Idle] /\ queue = [p \in Procs |-> <<>>]
  /\ conn = [p \in Procs |-> NoConn] /\ lock = [d \in Databases |-> NoLock]
  /\ disk \in [Databases -> [main : BOOLEAN, sidecar : BOOLEAN, wal : {"none"}]]
  /\ alive = Procs /\ driver = [a \in Analyses |-> NewDriver]

At(o, s) == op[o].at = s
ReadOnly(o) == o \in Queries
Critically(o) == op[o].at \in Critical /\ ~ReadOnly(o)
HasSession(o) == queue[ProcOf[o]] # <<>> /\ Head(queue[ProcOf[o]]) = o
Wanted(o) == [db |-> op[o].db, readOnly |-> ReadOnly(o)]
Connected(o) == conn[ProcOf[o]] = Wanted(o)

Go(o, s) == op' = [op EXCEPT ![o].at = s]
Enqueue(o) == queue' = [queue EXCEPT ![ProcOf[o]] = Append(@, o)]
Dequeue(o) == queue' = [queue EXCEPT ![ProcOf[o]] = Tail(@)]

-----------------------------------------------------------------------------
(* safeClose on database d: the checkpoint empties the log unless it       *)
(* fails, as it does on a read-only connection, and finalizeLbug... moves  *)
(* a tiny log away that has no shadow file.                                *)
WalsAfterClose(c) ==
  LET wal == disk[c.db].wal
      kept == IF wal = "tiny" /\ ~disk[c.db].sidecar THEN "none" ELSE wal
  IN IF c.readOnly THEN {kept} ELSE {"none", kept}

SafeClose(p) ==
  /\ conn' = [conn EXCEPT ![p] = NoConn]
  /\ IF conn[p] = NoConn
       THEN disk' = disk
       ELSE \E w \in WalsAfterClose(conn[p]) : disk' = [disk EXCEPT ![conn[p].db].wal = w]

(* initLbug and withLbugDb queue for the session lock.                     *)
Request(o, d) ==
  /\ At(o, "idle")
  /\ op' = [op EXCEPT ![o] = [@ EXCEPT !.at = "queued", !.db = d]]
  /\ Enqueue(o)
  /\ UNCHANGED <<conn, lock, disk, alive, driver>>

(* initLbug gives the session lock back, withLbugDb keeps it for the       *)
(* operation.                                                              *)
Ready(o) ==
  /\ Go(o, "working")
  /\ IF o \in Analyses THEN Dequeue(o) ELSE UNCHANGED queue

(* ensureLbugInitialized: the connection is reused if it is the one        *)
(* wanted; otherwise doInitLbug closes it first.                           *)
Enter(o) ==
  /\ At(o, "queued") /\ HasSession(o)
  /\ \/ Connected(o) /\ Ready(o) /\ UNCHANGED <<conn, disk>>
     \/ /\ ~Connected(o)
        /\ Go(o, IF ReadOnly(o) THEN "open" ELSE "lock") /\ UNCHANGED queue
        /\ SafeClose(ProcOf[o])
  /\ UNCHANGED <<lock, alive, driver>>

\* Mutant: the error path does not give the session lock back.
FailInSession(o) == Go(o, "failed") /\ UNCHANGED queue

(* The operation ends with an error.                                       *)
Fail(o) == Go(o, "failed") /\ Dequeue(o)

\* Mutant: the attempts are counted from nought.
BusyOnceMore(o) ==
  IF o \in Analyses \/ op[o].try > MaxTries
    THEN Fail(o)
    ELSE /\ Go(o, "cleanup")
         /\ queue' = [queue EXCEPT ![ProcOf[o]] = Append(Tail(@), o)]

(* withLbugDb retries a lock-shaped error: it gives the session lock back  *)
(* and queues for it again to close the connection.                        *)
Busy(o) ==
  IF o \in Analyses \/ op[o].try = MaxTries
    THEN Fail(o)
    ELSE /\ Go(o, "cleanup")
         /\ queue' = [queue EXCEPT ![ProcOf[o]] = Append(Tail(@), o)]

\* Mutant: the clean-up does not wait for its turn.
CleanupAtOnce(o) ==
  /\ At(o, "cleanup")
  /\ SafeClose(ProcOf[o]) /\ Go(o, "asleep")
  /\ queue' = [queue EXCEPT ![ProcOf[o]] = SelectSeq(@, LAMBDA x : x # o)]
  /\ UNCHANGED <<lock, alive, driver>>

Cleanup(o) ==
  /\ At(o, "cleanup") /\ HasSession(o)
  /\ SafeClose(ProcOf[o]) /\ Go(o, "asleep") /\ Dequeue(o)
  /\ UNCHANGED <<lock, alive, driver>>

Wake(o) ==
  /\ At(o, "asleep")
  /\ op' = [op EXCEPT ![o] = [at |-> "queued", db |-> @.db, attempt |-> 1, try |-> @.try + 1]]
  /\ Enqueue(o)
  /\ UNCHANGED <<conn, lock, disk, alive, driver>>

-----------------------------------------------------------------------------
\* Mutant: the file is opened without O_EXCL.
CreateAnyway(o) ==
  /\ At(o, "lock")
  /\ lock' = [lock EXCEPT ![op[o].db] = [by |-> o, written |-> FALSE]]
  /\ Go(o, "created")
  /\ UNCHANGED <<queue, conn, disk, alive, driver>>

(* acquireInitLock: the file is created if there is none, and filled.      *)
CreateLock(o) ==
  /\ At(o, "lock") /\ lock[op[o].db] = NoLock
  /\ lock' = [lock EXCEPT ![op[o].db] = [by |-> o, written |-> FALSE]]
  /\ Go(o, "created")
  /\ UNCHANGED <<queue, conn, disk, alive, driver>>

LockExists(o) ==
  /\ At(o, "lock") /\ lock[op[o].db] # NoLock
  /\ Go(o, "held")
  /\ UNCHANGED <<queue, conn, lock, disk, alive, driver>>

\* The handle still names the file it created, which may be gone.
WriteLock(o) ==
  /\ At(o, "created")
  /\ lock' = [lock EXCEPT ![op[o].db].written = @ \/ lock[op[o].db].by = o]
  /\ Go(o, "check")
  /\ UNCHANGED <<queue, conn, disk, alive, driver>>

NextAttempt(o) ==
  IF op[o].attempt < MaxLockAttempts
    THEN /\ op' = [op EXCEPT ![o].at = "lock", ![o].attempt = @ + 1]
         /\ UNCHANGED queue
    ELSE Busy(o)

\* Mutant: a lock whose time stamp is old is not told from a fresh one.
EveryLock(l) == l.written

(* tryBreakStaleLock: a dead owner or an old time stamp make the lock      *)
(* stale; an empty file does not parse.                                    *)
Abandoned(l) == l.written /\ ProcOf[l.by] \notin alive
Stale(l) == Abandoned(l) \/ (l.written /\ "slowOpen" \in Disturbances)

ReadLock(o) ==
  /\ At(o, "held")
  /\ \/ Stale(lock[op[o].db]) /\ Go(o, "break") /\ UNCHANGED queue
     \/ ~Abandoned(lock[op[o].db]) /\ NextAttempt(o)
  /\ UNCHANGED <<conn, lock, disk, alive, driver>>

\* It removes the file that is there now, whoever made it.
BreakLock(o) ==
  /\ At(o, "break")
  /\ lock' = [lock EXCEPT ![op[o].db] = NoLock]
  /\ NextAttempt(o)
  /\ UNCHANGED <<conn, disk, alive, driver>>

(* Under the lock: sidecars of a checkpoint are removed if there is no     *)
(* database they could belong to.                                          *)
CheckMain(o) ==
  /\ At(o, "check")
  /\ Go(o, IF disk[op[o].db].main THEN "preflight" ELSE "sweep")
  /\ UNCHANGED <<queue, conn, lock, disk, alive, driver>>

Sweep(o) ==
  /\ At(o, "sweep")
  /\ disk' = [disk EXCEPT ![op[o].db].sidecar = FALSE]
  /\ Go(o, "preflight")
  /\ UNCHANGED <<queue, conn, lock, alive, driver>>

(* preflightLbugSidecars: a log of at most 4 KB without a shadow file is   *)
(* taken for a leftover and moved away.                                    *)
Preflight(o) ==
  /\ At(o, "preflight")
  /\ Go(o, IF disk[op[o].db].wal = "tiny" /\ ~disk[op[o].db].sidecar
            THEN "quarantine" ELSE "open")
  /\ UNCHANGED <<queue, conn, lock, disk, alive, driver>>

Quarantine(o) ==
  /\ At(o, "quarantine")
  /\ Go(o, IF disk[op[o].db].wal = "none" THEN "refused" ELSE "open")
  /\ disk' = [disk EXCEPT ![op[o].db].wal = "none"]
  /\ UNCHANGED <<queue, conn, lock, alive, driver>>

-----------------------------------------------------------------------------
(* The engine lets one process write a database, or several read it.       *)
OpenElsewhere(o, readOnlyToo) ==
  \E p \in Procs \ {ProcOf[o]} :
    conn[p].db = op[o].db /\ (readOnlyToo \/ ~conn[p].readOnly)

(* It refuses sidecars without a database, and replays those it finds with *)
(* one.  A query first opens for writing, without the lock file, if there  *)
(* is something to replay.                                                 *)
CanOpen(o) ==
  LET f == disk[op[o].db]
  IN IF ReadOnly(o) THEN f.main /\ ~OpenElsewhere(o, f.sidecar)
                    ELSE (f.main \/ ~f.sidecar) /\ ~OpenElsewhere(o, TRUE)

Open(o) ==
  /\ At(o, "open")
  /\ IF CanOpen(o)
       THEN /\ conn' = [conn EXCEPT ![ProcOf[o]] = Wanted(o)]
            /\ disk' = [disk EXCEPT ![op[o].db].main = TRUE, ![op[o].db].sidecar = FALSE]
            /\ IF ReadOnly(o) THEN Ready(o) ELSE Go(o, "opened") /\ UNCHANGED queue
       ELSE /\ IF ReadOnly(o) THEN Fail(o) ELSE Go(o, "refused") /\ UNCHANGED queue
            /\ UNCHANGED <<conn, disk>>
  /\ UNCHANGED <<lock, alive, driver>>

\* The finally of the open, after which the operation runs or fails.
Release(o) ==
  /\ op[o].at \in {"opened", "refused"}
  /\ lock' = [lock EXCEPT ![op[o].db] = NoLock]
  /\ IF At(o, "opened") THEN Ready(o) ELSE Fail(o)
  /\ UNCHANGED <<conn, disk, alive, driver>>

-----------------------------------------------------------------------------
\* A transaction commits and its log grows.
Commit(o) ==
  /\ At(o, "working") /\ ~ReadOnly(o) /\ Connected(o)
  /\ disk[op[o].db].wal # "large"
  /\ disk' = [disk EXCEPT ![op[o].db].wal = IF @ = "none" THEN "tiny" ELSE "large"]
  /\ UNCHANGED <<op, queue, conn, lock, alive, driver>>

(* An operation under withLbugDb returns (an update after flushWAL, which  *)
(* may fail), throws, or meets a lock-shaped error.                        *)
Return(o) ==
  /\ At(o, "working") /\ o \notin Analyses
  /\ Go(o, "done") /\ Dequeue(o)
  /\ \/ UNCHANGED disk
     \/ ~ReadOnly(o) /\ Connected(o) /\ disk' = [disk EXCEPT ![op[o].db].wal = "none"]
  /\ UNCHANGED <<conn, lock, alive, driver>>

Throw(o) ==
  /\ At(o, "working") /\ o \notin Analyses
  /\ Fail(o) \/ (Connected(o) /\ Busy(o))
  /\ UNCHANGED <<conn, lock, disk, alive, driver>>

-----------------------------------------------------------------------------
(* An analysis works while the driver ticks, stops it and closes the       *)
(* database, whether it succeeded or not.                                  *)
DriverTicks(a) ==
  /\ At(a, "working") /\ \E t \in Ticks : Tick(a, t)
  /\ UNCHANGED <<op, queue, conn, lock, disk, alive>>

CheckpointRetries(a) ==
  /\ \E t \in Ticks : IoError(a, t) \/ Again(a, t)
  /\ UNCHANGED <<op, queue, conn, lock, disk, alive>>

\* CHECKPOINT runs on the connection there is, or fails for another reason.
CheckpointEnds(a) ==
  /\ \E t \in Ticks : driver[a].run[t].at = "query" /\ Settle(a, t)
  /\ \/ UNCHANGED disk
     \/ Connected(a) /\ disk' = [disk EXCEPT ![op[a].db].wal = "none"]
  /\ UNCHANGED <<op, queue, conn, lock, alive>>

StopDriver(a) ==
  /\ At(a, "working")
  /\ Stop(a) /\ Go(a, "stopping")
  /\ UNCHANGED <<queue, conn, lock, disk, alive>>

StopReturns(a) ==
  /\ At(a, "stopping") /\ Stopped(a) /\ Go(a, "stopped")
  /\ UNCHANGED <<queue, conn, lock, disk, alive, driver>>

CloseAnalysis(a) ==
  /\ At(a, "stopped")
  /\ SafeClose(ProcOf[a]) /\ Go(a, "done")
  /\ UNCHANGED <<queue, lock, alive, driver>>

(* DELETE /api/repo calls closeLbug without the session lock.              *)
CloseForDelete(p) ==
  /\ p \in alive /\ conn[p] # NoConn /\ \A a \in Analyses : ProcOf[a] # p
  /\ queue[p] = <<>> \/ "busyDelete" \in Disturbances
  /\ SafeClose(p)
  /\ UNCHANGED <<op, queue, lock, alive, driver>>

(* A process dies: a checkpoint it was writing leaves sidecars, its lock   *)
(* file and its log stay.                                                  *)
Crash(p) ==
  /\ "crash" \in Disturbances /\ p \in alive
  /\ alive' = alive \ {p}
  /\ op' = [o \in Ops |-> IF ProcOf[o] = p /\ op[o].at \notin {"done", "failed"}
                          THEN [op[o] EXCEPT !.at = "dead"] ELSE op[o]]
  /\ queue' = [queue EXCEPT ![p] = <<>>] /\ conn' = [conn EXCEPT ![p] = NoConn]
  /\ driver' = [a \in Analyses |-> IF ProcOf[a] = p THEN NewDriver ELSE driver[a]]
  /\ \/ UNCHANGED disk
     \/ /\ conn[p] # NoConn /\ ~conn[p].readOnly
        /\ disk' = [disk EXCEPT ![conn[p].db].sidecar = TRUE]
  /\ UNCHANGED lock

-----------------------------------------------------------------------------
OpenStep(o) ==
  \/ Enter(o) \/ CreateLock(o) \/ LockExists(o) \/ WriteLock(o) \/ ReadLock(o)
  \/ BreakLock(o) \/ CheckMain(o) \/ Sweep(o) \/ Preflight(o) \/ Quarantine(o)
  \/ Open(o) \/ Release(o) \/ Cleanup(o) \/ Wake(o)

Ends(o) == Return(o) \/ Throw(o)

AnalysisStep(a) == StopDriver(a) \/ StopReturns(a) \/ CloseAnalysis(a)

CheckpointStep(a) == CheckpointRetries(a) \/ CheckpointEnds(a)

Next ==
  \/ \E o \in Ops : OpenStep(o) \/ Ends(o) \/ Commit(o) \/ \E d \in Databases : Request(o, d)
  \/ \E a \in Analyses : AnalysisStep(a) \/ CheckpointStep(a) \/ DriverTicks(a)
  \/ \E p \in Procs : CloseForDelete(p) \/ Crash(p)

Spec == Init /\ [][Next]_vars

(* Timers fire, file operations and the engine answer.                     *)
FairSpec ==
  /\ Spec
  /\ \A o \in Ops : WF_vars(OpenStep(o)) /\ WF_vars(Ends(o))
  /\ \A a \in Analyses : WF_vars(AnalysisStep(a)) /\ WF_vars(CheckpointStep(a))

-----------------------------------------------------------------------------
TypeOK ==
  /\ op \in [Ops -> [at : Stages, db : Databases \cup {NoDb},
                     attempt : 1..MaxLockAttempts, try : 1..MaxTries]]
  /\ queue \in [Procs -> Seq(Ops)]
  /\ conn \in [Procs -> [db : Databases \cup {NoDb}, readOnly : BOOLEAN]]
  /\ lock \in [Databases -> [by : Ops \cup {NoOp}, written : BOOLEAN]]
  /\ disk \in [Databases -> [main : BOOLEAN, sidecar : BOOLEAN, wal : {"none", "tiny", "large"}]]
  /\ alive \in SUBSET Procs
  /\ driver \in [Analyses -> Drivers]

OneOpener ==
  \A o1, o2 \in Ops :
    Critically(o1) /\ Critically(o2) /\ op[o1].db = op[o2].db => o1 = o2

(* As long as no process has died, one operation at a time is between the  *)
(* creation of a database's lock file and its removal.                     *)
LockExcludes == alive = Procs => OneOpener

(* As long as no process has died, the sidecars that are removed as        *)
(* orphans have no database: none was created after the check.             *)
SweepsOnlyOrphans ==
  [][\A o \in Ops :
       At(o, "sweep") /\ ~At(o, "sweep")' /\ alive' = Procs => ~disk[op[o].db].main]_vars

(* While an operation works, the process keeps the connection it asked     *)
(* for: no other operation switches it to another database or mode, and no *)
(* clean-up after another one's error closes it.                           *)
SessionKeepsDatabase == \A o \in Ops : At(o, "working") => Connected(o)

(* Once stop() has returned no checkpoint of the driver is under way, so   *)
(* none runs into the checkpoint of the close or after it.                 *)
QuietAfterStop ==
  \A a \in Analyses : op[a].at \in {"stopped", "done"} => UnderWay(a) = {}

(* A lock file is in use, or the next to come may take it for stale.       *)
LocksAreReclaimed ==
  \A d \in Databases :
    lock[d] # NoLock => Stale(lock[d]) \/ Critically(lock[d].by)

(* A log of more than 4 KB is never moved away as a leftover.              *)
LargeLogStays ==
  [][\A o \in Ops :
       At(o, "quarantine") /\ ~At(o, "quarantine")' => disk[op[o].db].wal # "large"]_vars

(* Every operation that asked for a database returns or fails, or its      *)
(* process dies: no one keeps the session lock or waits for a lock file    *)
(* for ever.                                                               *)
OpsEnd == \A o \in Ops : At(o, "queued") ~> op[o].at \in Settled

=============================================================================
