-------------------------- MODULE WorkerPoolProofs --------------------------
(***************************************************************************)
(* What holds of WorkerPool for every pool size, chunk list, budget and    *)
(* threshold: its variables keep their types, no dispatch resolves with a  *)
(* file of its chunk neither parsed nor quarantined, the sorted results    *)
(* are in the order of the files, terminate() between dispatches leaves no *)
(* thread, and the pool implements ParseDispatch.                          *)
(***************************************************************************)
EXTENDS WorkerPool, TLAPS, FiniteSetTheorems

-----------------------------------------------------------------------------
(* Operators of the model *)

\* The counting that ranks, halves and start indexes rest on is defined.
LEMMA FilesCardinality ==
    ASSUME NEW S \in SUBSET Files
    PROVE  IsFiniteSet(S) /\ Cardinality(S) \in Nat
BY PoolAssumption, FS_Subset, FS_CardinalityType

LEMMA RankType ==
    ASSUME NEW S \in SUBSET Files, NEW f \in Files
    PROVE  Rank(f, S) \in Nat
<1>1. {g \in S : g < f} \in SUBSET Files
  OBVIOUS
<1>2. QED
  BY <1>1, FilesCardinality DEF Rank

\* An idle slot's task is a task, and holds no file.
LEMMA NoTaskType == NoTask \in Task /\ NoTask.job.items = {}
BY DEF NoTask, NoJob, Assigned, Task, Job

LEMMA AssignedType ==
    ASSUME NEW job \in Job
    PROVE  Assigned(job) \in Task
BY DEF Assigned, Task, Job

LEMMA NextBudgets ==
    ASSUME NEW job \in Job
    PROVE  NextTimeout(job) \in Nat /\ NextCumulative(job) \in Nat
<1>1. job.timeout \in Nat /\ job.cumulative \in Nat /\ BackoffFactor \in Nat
  BY PoolAssumption DEF Job
<1>2. job.timeout * BackoffFactor \in Nat
  BY <1>1
<1>3. QED
  BY <1>1, <1>2 DEF NextTimeout, NextCumulative

\* Splitting or repeating a job makes jobs that hold its files, all of them.
LEMMA PiecesOfJob ==
    ASSUME NEW job \in Job
    PROVE  /\ Pieces(job) \in Seq(Job)
           /\ FilesIn(Pieces(job)) = job.items
<1> DEFINE again == [job EXCEPT !.timeout = NextTimeout(job), !.cumulative = NextCumulative(job)]
           half == (Cardinality(job.items) + 1) \div 2
           lower == {f \in job.items : Rank(f, job.items) < half}
<1>1. again \in Job /\ again.items = job.items
  BY NextBudgets DEF Job
<1>2. Cardinality(job.items) \in Nat /\ half \in Nat
  BY FilesCardinality DEF Job
<1>3. CASE Cardinality(job.items) = 1
  <2> DEFINE once == [again EXCEPT !.attempt = @ + 1]
  <2>1. Pieces(job) = <<once>>
    BY <1>3 DEF Pieces
  <2>2. once \in Job /\ once.items = job.items
    <3> HIDE DEF again
    <3>1. QED
      BY <1>1 DEF Job
  <2> HIDE DEF once
  <2>3. DOMAIN Pieces(job) = {1}
    BY <2>1
  <2>4. QED
    BY <2>1, <2>2, <2>3 DEF FilesIn
<1>4. CASE Cardinality(job.items) # 1
  <2> DEFINE first == [again EXCEPT !.items = lower]
             second == [again EXCEPT !.start = @ + half, !.items = job.items \ lower]
  <2>1. Pieces(job) = <<first, second>>
    BY <1>4 DEF Pieces
  <2>2. /\ first \in Job /\ second \in Job
        /\ first.items = lower /\ second.items = job.items \ lower
    <3> HIDE DEF again, half
    <3>1. lower \in SUBSET Files /\ job.items \in SUBSET Files
      BY DEF Job
    <3>2. again.start + half \in Nat
      BY <1>1, <1>2 DEF Job
    <3> HIDE DEF lower
    <3>3. first \in Job /\ first.items = lower
      BY <1>1, <3>1 DEF Job
    <3>4. second = [again EXCEPT !.start = again.start + half, !.items = job.items \ lower]
      OBVIOUS
    <3>5. second \in Job /\ second.items = job.items \ lower
      BY <1>1, <3>1, <3>2, <3>4 DEF Job
    <3>6. QED
      BY <3>3, <3>5
  <2>3. first.items \cup second.items = job.items
    BY <2>2
  <2> HIDE DEF first, second
  <2>4. DOMAIN Pieces(job) = {1, 2}
    BY <2>1
  <2>5. QED
    BY <2>1, <2>2, <2>3, <2>4 DEF FilesIn
<1>5. QED
  BY <1>3, <1>4

\* createJobs covers the files it is given.
LEMMA JobsOfBatches ==
    ASSUME NEW files \in SUBSET Files, NEW bs \in Batchings(files)
    PROVE  /\ JobsOf(bs) \in Seq(Job)
           /\ FilesIn(JobsOf(bs)) = files
<1>1. PICK n \in Nat : bs \in [1..n -> (SUBSET files) \ {{}}]
  <2>1. Cardinality(files) \in Nat
    BY FilesCardinality
  <2>2. bs \in UNION {[1..n -> (SUBSET files) \ {{}}] : n \in 1..Cardinality(files)}
    BY DEF Batchings
  <2>3. \A n \in 1..Cardinality(files) : n \in Nat
    BY <2>1
  <2>4. QED
    BY <2>2, <2>3
<1>2. UNION {bs[k] : k \in 1..n} = files
  BY <1>1 DEF Batchings
<1>3. \A k \in 1..n : Cardinality(UNION {bs[i] : i \in 1..(k - 1)}) \in Nat
  <2> SUFFICES ASSUME NEW k \in 1..n
               PROVE  Cardinality(UNION {bs[i] : i \in 1..(k - 1)}) \in Nat
    OBVIOUS
  <2>1. \A i \in 1..(k - 1) : i \in 1..n
    BY <1>1
  <2>2. UNION {bs[i] : i \in 1..(k - 1)} \in SUBSET Files
    BY <1>1, <2>1
  <2>3. QED
    BY <2>2, FilesCardinality
<1>4. \A k \in 1..n : JobsOf(bs)[k] \in Job /\ JobsOf(bs)[k].items = bs[k]
  BY <1>1, <1>3, PoolAssumption DEF JobsOf, Job
<1>5. DOMAIN JobsOf(bs) = 1..n /\ JobsOf(bs) = [k \in 1..n |-> JobsOf(bs)[k]]
  BY <1>1 DEF JobsOf
<1>6. JobsOf(bs) \in Seq(Job)
  BY <1>4, <1>5
<1>7. FilesIn(JobsOf(bs)) = files
  BY <1>2, <1>4, <1>5 DEF FilesIn
<1>8. QED
  BY <1>6, <1>7

-----------------------------------------------------------------------------
(* Type correctness: the shared ends of turns, then one lemma per action *)

\* What the ends of turns leave in the variables they all set.
EndTyped ==
    /\ promise' \in {"idle", "pending", "resolved", "rejected"}
    /\ turn' \in SUBSET Slots
    /\ worker' \in [Slots -> WorkerState]
    /\ task' \in [Slots -> Task]
    /\ activeSlots' \in SUBSET Slots
    /\ poolBroken' \in BOOLEAN

LEMMA ContinueTyped ==
    ASSUME NEW S \in SUBSET Slots, Continue(S)
    PROVE  promise' \in {"resolved", "pending"} /\ turn' \in SUBSET Slots
BY DEF Continue, MaybeDone

LEMMA TripBreakerTyped ==
    ASSUME TypeOK, TripBreaker
    PROVE  EndTyped
<1>1. worker' \in [Slots -> WorkerState]
  BY DEF TypeOK, TripBreaker, WorkerState
<1>2. task' \in [Slots -> Task]
  BY NoTaskType DEF TripBreaker
<1>3. QED
  BY <1>1, <1>2 DEF TripBreaker, EndTyped

LEMMA LoseSlotTyped ==
    ASSUME TypeOK, NEW w \in Slots, NEW n, LoseSlot(w, n)
    PROVE  EndTyped
<1>1. CASE TripBreaker
  BY <1>1, TripBreakerTyped
<1>2. CASE ~TripBreaker
  <2>1. /\ activeSlots' \in SUBSET Slots /\ poolBroken' \in BOOLEAN
        /\ worker' \in [Slots -> WorkerState]
    BY <1>2 DEF LoseSlot, TypeOK, WorkerState
  <2>2. task' \in [Slots -> Task]
    BY <1>2, NoTaskType DEF LoseSlot, TypeOK
  <2>3. promise' \in {"idle", "pending", "resolved", "rejected"} /\ turn' \in SUBSET Slots
    <3>1. CASE Stopped(n)
      BY <1>2, <3>1 DEF LoseSlot, TypeOK
    <3>2. CASE ~Stopped(n)
      <4>1. Continue(activeSlots' \ busySlots')
        BY <1>2, <3>2 DEF LoseSlot
      <4>2. QED
        BY <2>1, <4>1, ContinueTyped
    <3>3. QED
      BY <3>1, <3>2
  <2>4. QED
    BY <2>1, <2>2, <2>3 DEF EndTyped
<1>3. QED
  BY <1>1, <1>2

LEMMA SuspendTyped ==
    ASSUME TypeOK, NEW w \in Slots, NEW stage \in Stage, NEW held \in BOOLEAN,
           Suspend(w, stage, held)
    PROVE  EndTyped /\ recovery' \in [Slots -> Recovery]
<1>1. dispatchNo \in Nat
  BY PoolAssumption DEF TypeOK
<1>2. recovery' \in [Slots -> Recovery]
  BY <1>1 DEF Suspend, TypeOK, Recovery
<1>3. task' \in [Slots -> Task]
  BY NoTaskType DEF Suspend, TypeOK
<1>4. worker' \in [Slots -> WorkerState]
  BY DEF Suspend, TypeOK, WorkerState
<1>5. QED
  BY <1>2, <1>3, <1>4 DEF Suspend, TypeOK, EndTyped

LEMMA RetireTyped ==
    ASSUME TypeOK, NEW w, Retire(w)
    PROVE  retired' \in Nat
BY DEF Retire, TypeOK

LEMMA FirstType ==
    ASSUME NEW S \in SUBSET Files
    PROVE  First(S) \in SUBSET S
BY DEF First

LEMMA RequeueTyped ==
    ASSUME TypeOK, NEW job \in Job, NEW excluded \in SUBSET Files,
           RequeueRemainder(job, excluded)
    PROVE  /\ jobs' \in Seq(Job)
           /\ quarantine' \in SUBSET Files
           /\ diedOnce' \in SUBSET Nat
<1> DEFINE rest == job.items \ Culprits(job, excluded)
<1>1. job.items \in SUBSET Files /\ job.start \in Nat
  BY DEF Job
<1>2. Culprits(job, excluded) \in SUBSET Files
  BY <1>1, FirstType DEF Culprits
<1>3. [job EXCEPT !.items = rest] \in Job
  BY <1>1 DEF Job
<1>4. jobs' \in Seq(Job)
  <2>1. jobs' = IF rest = {} THEN jobs ELSE <<[job EXCEPT !.items = rest]>> \o jobs
    BY DEF RequeueRemainder
  <2>2. jobs \in Seq(Job)
    BY DEF TypeOK
  <2> HIDE DEF rest
  <2>3. QED
    BY <1>3, <2>1, <2>2
<1>5. QED
  BY <1>1, <1>2, <1>4 DEF RequeueRemainder, TypeOK

LEMMA DeathTyped ==
    ASSUME TypeOK, NEW w \in Slots, NEW retire \in BOOLEAN, Death(w, retire)
    PROVE  /\ EndTyped
           /\ failures' \in [Slots -> Nat] /\ respawnCount' \in [Slots -> Nat]
           /\ busySlots' \in SUBSET Slots
           /\ recovery' \in [Slots -> Recovery]
           /\ retired' \in Nat
<1>1. failures' \in [Slots -> Nat] /\ busySlots' \in SUBSET Slots
  BY DEF Death, TypeOK
<1>2. retired' \in Nat
  BY RetireTyped DEF Death, TypeOK
<1>3. respawnCount' \in [Slots -> Nat]
  <2>1. CASE TooManyFailures(w)
    BY <2>1 DEF Death, TypeOK
  <2>2. CASE ~TooManyFailures(w)
    <3>1. respawnCount' = [respawnCount EXCEPT ![w] = @ + 1]
      BY <2>2 DEF Death
    <3>2. QED
      BY <3>1 DEF TypeOK
  <2>3. QED
    BY <2>1, <2>2
<1>4. EndTyped /\ recovery' \in [Slots -> Recovery]
  <2>1. CASE TooManyFailures(w)
    BY <2>1, TripBreakerTyped DEF Death, TypeOK
  <2>2. CASE ~TooManyFailures(w) /\ ~OverBudget(w)
    <3>1. (IF retire THEN "spawning" ELSE "terminating") \in Stage
      BY DEF Stage
    <3>2. Suspend(w, IF retire THEN "spawning" ELSE "terminating", FALSE)
      BY <2>2 DEF Death
    <3>3. QED
      BY <3>1, <3>2, SuspendTyped
  <2>3. CASE ~TooManyFailures(w) /\ OverBudget(w) /\ ~retire
    <3>1. Suspend(w, "dropping", FALSE) /\ "dropping" \in Stage
      BY <2>3 DEF Death, Stage
    <3>2. QED
      BY <3>1, SuspendTyped
  <2>4. CASE ~TooManyFailures(w) /\ OverBudget(w) /\ retire
    <3>1. LoseSlot(w, dispatchNo) /\ recovery' = recovery
      BY <2>4 DEF Death
    <3>2. QED
      BY <3>1, LoseSlotTyped DEF TypeOK
  <2>5. QED
    BY <2>1, <2>2, <2>3, <2>4
<1>5. QED
  BY <1>1, <1>2, <1>3, <1>4

LEMMA DispatchTyped ==
    ASSUME TypeOK, DispatchRefused \/ DispatchEmpty \/ Dispatch
    PROVE  TypeOK'
<1>1. dispatchNo + 1 \in DOMAIN Chunks /\ dispatchNo' \in 0..Len(Chunks)
  BY PoolAssumption DEF TypeOK, CanDispatch, DispatchRefused, DispatchEmpty, Dispatch
<1>2. jobs' \in Seq(Job)
  <2>1. CASE Dispatch
    <3>1. Dispatchable(Chunks[dispatchNo + 1]) \in SUBSET Files
      BY <1>1, PoolAssumption DEF Dispatchable
    <3>2. PICK bs \in Batchings(Dispatchable(Chunks[dispatchNo + 1])) : jobs' = JobsOf(bs)
      BY <2>1 DEF Dispatch
    <3>3. QED
      BY <3>1, <3>2, JobsOfBatches
  <2>2. CASE DispatchRefused \/ DispatchEmpty
    <3>1. jobs' = <<>>
      BY <2>2 DEF DispatchRefused, DispatchEmpty
    <3>2. QED
      BY <3>1
  <2>3. QED
    BY <2>1, <2>2
<1>3. turn' \in SUBSET Slots
  BY DEF TypeOK, DispatchRefused, DispatchEmpty, Dispatch
<1>4. QED
  BY <1>1, <1>2, <1>3 DEF TypeOK, DispatchRefused, DispatchEmpty, Dispatch, poolVars

LEMMA RunWorkerTyped ==
    ASSUME TypeOK, NEW w \in Slots, RunWorker(w)
    PROVE  TypeOK'
<1>1. promise' \in {"resolved", "pending"} /\ turn' \in SUBSET Slots
  BY ContinueTyped DEF RunWorker, TypeOK
<1>2. jobs' \in Seq(Job) /\ task' \in [Slots -> Task] /\ busySlots' \in SUBSET Slots
  <2>1. CASE \A i \in DOMAIN jobs : Quarantined(jobs[i])
    <3>1. jobs' = <<>> /\ task' = task /\ busySlots' = busySlots
      BY <2>1 DEF RunWorker
    <3>2. QED
      BY <3>1 DEF TypeOK
  <2>2. CASE ~ \A i \in DOMAIN jobs : Quarantined(jobs[i])
    <3> DEFINE Taken(k) == [jobs[k] EXCEPT !.items = Dispatchable(@)]
               Rest(k) == SubSeq(jobs, k + 1, Len(jobs))
    <3>1. PICK k \in DOMAIN jobs :
             IF worker[w] = "none"
             THEN jobs' = <<Taken(k)>> \o Rest(k) /\ UNCHANGED <<task, busySlots>>
             ELSE /\ jobs' = Rest(k)
                  /\ task' = [task EXCEPT ![w] = Assigned(Taken(k))]
                  /\ busySlots' = busySlots \cup {w}
      BY <2>2 DEF RunWorker
    <3>2. jobs[k] \in Job /\ k \in 1..Len(jobs) /\ Len(jobs) \in Nat /\ jobs \in Seq(Job)
      BY DEF TypeOK
    <3>3. Taken(k) \in Job
      BY <3>2 DEF Dispatchable, Job
    <3>4. Rest(k) \in Seq(Job)
      BY <3>2
    <3> HIDE DEF Taken, Rest
    <3>5. jobs' \in Seq(Job)
      BY <3>1, <3>3, <3>4, SMTT(30)
    <3>6. task' \in [Slots -> Task] /\ busySlots' \in SUBSET Slots
      BY <3>1, <3>3, AssignedType DEF TypeOK
    <3>7. QED
      BY <3>5, <3>6
  <2>3. QED
    BY <2>1, <2>2
<1>3. QED
  BY <1>1, <1>2 DEF RunWorker, TypeOK, poolVars

LEMMA ViewTyped ==
    ASSUME TypeOK, NEW w \in Slots, NEW new \in Task, View(w, new)
    PROVE  TypeOK'
BY DEF View, TypeOK, poolVars

LEMMA MessageTyped ==
    ASSUME TypeOK, NEW w \in Slots, StartingFile(w) \/ Progress(w) \/ SubBatchDone(w)
    PROVE  TypeOK'
<1>1. task[w] \in Task
  BY DEF TypeOK
<1>2. CASE StartingFile(w)
  <2>1. PICK f \in task[w].left :
           View(w, [task[w] EXCEPT !.left = @ \ {f}, !.doing = {f}, !.inFlight = {f}])
    BY <1>2 DEF StartingFile
  <2>2. f \in Files
    BY <1>1 DEF Task
  <2>3. [task[w] EXCEPT !.left = @ \ {f}, !.doing = {f}, !.inFlight = {f}] \in Task
    BY <1>1, <2>2 DEF Task
  <2>4. QED
    BY <2>1, <2>3, ViewTyped
<1>3. CASE Progress(w)
  <2> DEFINE Counted(f) == [task[w] EXCEPT !.left = @ \ {f}, !.doing = {}, !.seen = @ + 1,
                                           !.inFlight = {}]
             parsed == [task[w] EXCEPT !.seen = @ + 1, !.inFlight = {}]
  <2>1. task[w].seen + 1 \in Nat
    BY <1>1 DEF Task
  <2>2. parsed \in Task /\ \A f : Counted(f) \in Task
    BY <1>1, <2>1 DEF Task
  <2>3. View(w, parsed) \/ \E f \in task[w].left : View(w, Counted(f))
    BY <1>3 DEF Progress
  <2> HIDE DEF parsed, Counted
  <2>4. QED
    BY <2>2, <2>3, ViewTyped
<1>4. CASE SubBatchDone(w)
  <2>1. [task[w] EXCEPT !.left = {}, !.doing = {}, !.flushing = TRUE] \in Task
    BY <1>1 DEF Task
  <2>2. QED
    BY <1>4, <2>1, ViewTyped DEF SubBatchDone
<1>5. QED
  BY <1>2, <1>3, <1>4

LEMMA ResultTyped ==
    ASSUME TypeOK, NEW w \in Slots, Result(w)
    PROVE  TypeOK'
<1>1. promise' \in {"resolved", "pending"} /\ turn' \in SUBSET Slots
  BY ContinueTyped DEF Result, TypeOK
<1>2. task[w].job \in Job
  BY DEF TypeOK, Task
<1>3. results' \in SUBSET [start : Nat, items : SUBSET Files]
  BY <1>2 DEF Result, TypeOK, Job
<1>4. task' \in [Slots -> Task]
  BY NoTaskType DEF Result, TypeOK
<1>5. QED
  BY <1>1, <1>3, <1>4 DEF Result, TypeOK

LEMMA ExcludePathsType ==
    ASSUME TypeOK, NEW w \in Slots
    PROVE  ExcludePaths(w) \in SUBSET Files /\ Stalled(w) \in SUBSET Files
<1>1. task[w] \in Task /\ task[w].job \in Job
  BY DEF TypeOK, Task
<1>2. QED
  BY <1>1, FirstType DEF ExcludePaths, Stalled, Task, Job

LEMMA CrashTyped ==
    ASSUME TypeOK, NEW w \in Slots, Crash(w) \/ TimeoutGiveUp(w)
    PROVE  TypeOK'
<1>1. task[w].job \in Job /\ ExcludePaths(w) \in SUBSET Files /\ Stalled(w) \in SUBSET Files
  BY ExcludePathsType DEF TypeOK, Task
<1>2. jobs' \in Seq(Job) /\ quarantine' \in SUBSET Files /\ diedOnce' \in SUBSET Nat
  BY <1>1, RequeueTyped DEF Crash, TimeoutGiveUp
<1>3. /\ EndTyped
      /\ failures' \in [Slots -> Nat] /\ respawnCount' \in [Slots -> Nat]
      /\ busySlots' \in SUBSET Slots
      /\ recovery' \in [Slots -> Recovery]
      /\ retired' \in Nat
  BY DeathTyped DEF Crash, TimeoutGiveUp
<1>4. UNCHANGED <<dispatchNo, results, shutdown>>
  BY DEF Crash, TimeoutGiveUp
<1>5. QED
  BY <1>2, <1>3, <1>4 DEF TypeOK, EndTyped

LEMMA TimeoutRetryTyped ==
    ASSUME TypeOK, NEW w \in Slots, TimeoutRetry(w)
    PROVE  TypeOK'
<1>1. jobs' \in Seq(Job)
  <2>1. Pieces(task[w].job) \in Seq(Job)
    BY PiecesOfJob DEF TypeOK, Task
  <2>2. QED
    BY <2>1 DEF TimeoutRetry, TypeOK
<1>2. /\ respawnCount' \in [Slots -> Nat] /\ failures' \in [Slots -> Nat]
      /\ busySlots' \in SUBSET Slots
  <2>1. respawnCount' \in [Slots -> Nat] /\ failures' \in [Slots -> Nat]
    BY DEF TimeoutRetry, TypeOK
  <2>2. busySlots' = busySlots \/ busySlots' = busySlots \ {w}
    BY DEF TimeoutRetry
  <2>3. QED
    BY <2>1, <2>2 DEF TypeOK
<1>3. EndTyped /\ recovery' \in [Slots -> Recovery]
  <2>1. CASE TooManyFailures(w)
    BY <2>1, TripBreakerTyped DEF TimeoutRetry, TypeOK
  <2>2. CASE ~TooManyFailures(w) /\ OverBudget(w)
    <3>1. LoseSlot(w, dispatchNo) /\ recovery' = recovery
      BY <2>2 DEF TimeoutRetry
    <3>2. QED
      BY <3>1, LoseSlotTyped DEF TypeOK
  <2>3. CASE ~TooManyFailures(w) /\ ~OverBudget(w)
    <3>1. Suspend(w, "spawning", TRUE) /\ "spawning" \in Stage
      BY <2>3 DEF TimeoutRetry, Stage
    <3>2. QED
      BY <3>1, SuspendTyped
  <2>4. QED
    BY <2>1, <2>2, <2>3
<1>4. retired' \in Nat
  BY RetireTyped DEF TimeoutRetry
<1>5. UNCHANGED <<dispatchNo, results, diedOnce, quarantine, shutdown>>
  BY DEF TimeoutRetry
<1>6. QED
  BY <1>1, <1>2, <1>3, <1>4, <1>5 DEF TypeOK, EndTyped

LEMMA AdvanceTyped ==
    ASSUME TypeOK, NEW w \in Slots, NEW stage \in Stage, Advance(w, stage)
    PROVE  TypeOK'
<1>1. recovery' \in [Slots -> Recovery]
  BY DEF Advance, TypeOK, Recovery
<1>2. QED
  BY <1>1 DEF Advance, TypeOK, dispatchVars

LEMMA RecoveryStepTyped ==
    ASSUME TypeOK, NEW w \in Slots, RecoveryStep(w)
    PROVE  TypeOK'
<1> USE DEF Stage
<1>1. CASE WorkerEnded(w)
  BY <1>1, AdvanceTyped DEF WorkerEnded
<1>2. CASE ReplacementFails(w)
  BY <1>2, AdvanceTyped DEF ReplacementFails
<1>3. CASE ReplacementRecalled(w)
  BY <1>3, AdvanceTyped DEF ReplacementRecalled
<1>4. NoRecovery \in Recovery
  BY DEF NoRecovery, Recovery
<1>5. CASE ReplacementReady(w)
  <2>1. promise' \in {"resolved", "pending"} /\ turn' \in SUBSET Slots
    BY <1>5, ContinueTyped DEF ReplacementReady, TypeOK
  <2>2. worker' \in [Slots -> WorkerState] /\ recovery' \in [Slots -> Recovery]
    BY <1>4, <1>5 DEF ReplacementReady, TypeOK, WorkerState
  <2>3. busySlots' \in SUBSET Slots
    BY <1>5 DEF ReplacementReady, Release, TypeOK
  <2>4. QED
    BY <1>5, <2>1, <2>2, <2>3 DEF ReplacementReady, TypeOK
<1>6. CASE SlotLost(w)
  <2>1. EndTyped
    BY <1>6, LoseSlotTyped DEF SlotLost
  <2>2. recovery' \in [Slots -> Recovery] /\ busySlots' \in SUBSET Slots /\ retired' \in Nat
    BY <1>4, <1>6 DEF SlotLost, Release, TypeOK
  <2>3. UNCHANGED <<dispatchNo, jobs, results, diedOnce, respawnCount, failures,
                    quarantine, shutdown>>
    BY <1>6 DEF SlotLost
  <2>4. QED
    BY <2>1, <2>2, <2>3 DEF TypeOK, EndTyped
<1>7. QED
  BY <1>1, <1>2, <1>3, <1>5, <1>6 DEF RecoveryStep

LEMMA PoolStepTyped ==
    ASSUME TypeOK,
           \/ \E w \in Slots : IdleExit(w) \/ DoomedExit(w)
           \/ RetiredEnds \/ Terminate \/ TerminateDone
    PROVE  TypeOK'
<1> USE DEF TypeOK, WorkerState, dispatchVars
<1>1. ASSUME NEW w \in Slots, IdleExit(w) \/ DoomedExit(w)
      PROVE  TypeOK'
  BY <1>1 DEF IdleExit, DoomedExit
<1>2. CASE RetiredEnds
  BY <1>2 DEF RetiredEnds
<1>3. CASE Terminate
  BY <1>3 DEF Terminate
<1>4. CASE TerminateDone
  BY <1>4 DEF TerminateDone
<1>5. QED
  BY <1>1, <1>2, <1>3, <1>4

\* The pool's variables have their types in every state of every run.
THEOREM TypeCorrect == Spec => []TypeOK
<1>1. Init => TypeOK
  <2> SUFFICES ASSUME Init
               PROVE  TypeOK
    OBVIOUS
  <2>1. dispatchNo \in 0..Len(Chunks)
    BY PoolAssumption DEF Init
  <2>2. task \in [Slots -> Task]
    BY NoTaskType DEF Init
  <2>3. recovery \in [Slots -> Recovery]
    BY DEF Init, NoRecovery, Recovery, Stage
  <2>4. worker \in [Slots -> WorkerState]
    BY DEF Init, WorkerState
  <2>5. jobs \in Seq(Job) /\ results = {} /\ quarantine = {} /\ retired \in Nat
    BY DEF Init
  <2>6. QED
    BY <2>1, <2>2, <2>3, <2>4, <2>5 DEF Init, TypeOK
<1>2. TypeOK /\ [Next]_vars => TypeOK'
  <2> SUFFICES ASSUME TypeOK, [Next]_vars
               PROVE  TypeOK'
    OBVIOUS
  <2>1. CASE UNCHANGED vars
    BY <2>1 DEF TypeOK, vars, dispatchVars, poolVars
  <2>2. CASE DispatchRefused \/ DispatchEmpty \/ Dispatch
    BY <2>2, DispatchTyped
  <2>3. ASSUME NEW w \in Slots, RunWorker(w)
        PROVE  TypeOK'
    BY <2>3, RunWorkerTyped
  <2>4. ASSUME NEW w \in Slots, JobEvent(w)
        PROVE  TypeOK'
    BY <2>4, MessageTyped, ResultTyped, CrashTyped, TimeoutRetryTyped DEF JobEvent
  <2>5. ASSUME NEW w \in Slots, RecoveryStep(w)
        PROVE  TypeOK'
    BY <2>5, RecoveryStepTyped
  <2>6. CASE \/ \E w \in Slots : IdleExit(w) \/ DoomedExit(w)
             \/ RetiredEnds \/ Terminate \/ TerminateDone
    BY <2>6, PoolStepTyped
  <2>7. QED
    BY <2>1, <2>2, <2>3, <2>4, <2>5, <2>6 DEF Next
<1>3. QED
  BY <1>1, <1>2, PTL DEF Spec

-----------------------------------------------------------------------------
(* No file is lost *)

LEMMA FilesInConcat ==
    ASSUME NEW p \in Seq(Job), NEW q \in Seq(Job)
    PROVE  FilesIn(p \o q) = FilesIn(p) \cup FilesIn(q)
<1>1. /\ DOMAIN (p \o q) = 1..(Len(p) + Len(q))
      /\ DOMAIN p = 1..Len(p) /\ DOMAIN q = 1..Len(q)
      /\ Len(p) \in Nat /\ Len(q) \in Nat
  OBVIOUS
<1>2. \A i \in 1..Len(p) : i \in DOMAIN (p \o q) /\ (p \o q)[i] = p[i]
  BY <1>1
<1>3. \A i \in 1..Len(q) : Len(p) + i \in DOMAIN (p \o q) /\ (p \o q)[Len(p) + i] = q[i]
  BY <1>1
<1>4. \A i \in DOMAIN (p \o q) :
         i \in 1..Len(p) \/ \E j \in 1..Len(q) : i = Len(p) + j
  <2> SUFFICES ASSUME NEW i \in DOMAIN (p \o q), i \notin 1..Len(p)
               PROVE  \E j \in 1..Len(q) : i = Len(p) + j
    OBVIOUS
  <2>1. i - Len(p) \in 1..Len(q) /\ i = Len(p) + (i - Len(p))
    BY <1>1
  <2>2. QED
    BY <2>1
<1>5. FilesIn(p \o q) \subseteq FilesIn(p) \cup FilesIn(q)
  <2> SUFFICES ASSUME NEW i \in DOMAIN (p \o q), NEW f \in (p \o q)[i].items
               PROVE  f \in FilesIn(p) \cup FilesIn(q)
    BY DEF FilesIn
  <2>1. CASE i \in 1..Len(p)
    BY <1>1, <1>2, <2>1 DEF FilesIn
  <2>2. CASE \E j \in 1..Len(q) : i = Len(p) + j
    BY <1>1, <1>3, <2>2 DEF FilesIn
  <2>3. QED
    BY <1>4, <2>1, <2>2
<1>6. FilesIn(p) \cup FilesIn(q) \subseteq FilesIn(p \o q)
  BY <1>1, <1>2, <1>3 DEF FilesIn
<1>7. QED
  BY <1>5, <1>6

\* A death moves the files of the job to the queue or into quarantine.
LEMMA RequeueKeepsFiles ==
    ASSUME TypeOK, NEW job \in Job, NEW excluded \in SUBSET Files,
           RequeueRemainder(job, excluded)
    PROVE  Queued \cup quarantine \cup job.items \subseteq Queued' \cup quarantine'
<1> DEFINE rest == job.items \ Culprits(job, excluded)
           kept == [job EXCEPT !.items = rest]
<1>1. quarantine' = quarantine \cup Culprits(job, excluded)
  BY DEF RequeueRemainder
<1>2. Queued \cup rest \subseteq Queued'
  <2>1. CASE rest = {}
    <3>1. jobs' = jobs
      BY <2>1 DEF RequeueRemainder
    <3>2. QED
      BY <2>1, <3>1 DEF Queued
  <2>2. CASE rest # {}
    <3>1. jobs' = <<kept>> \o jobs
      BY <2>2 DEF RequeueRemainder
    <3>2. kept \in Job /\ kept.items = rest
      BY DEF Job
    <3>3. jobs \in Seq(Job)
      BY DEF TypeOK
    <3> HIDE DEF kept
    <3>4. FilesIn(<<kept>>) = kept.items
      <4>1. DOMAIN <<kept>> = {1} /\ <<kept>>[1] = kept
        OBVIOUS
      <4>2. QED
        BY <4>1 DEF FilesIn
    <3>5. FilesIn(jobs') = FilesIn(<<kept>>) \cup FilesIn(jobs)
      <4>1. <<kept>> \in Seq(Job)
        BY <3>2
      <4>2. FilesIn(<<kept>> \o jobs) = FilesIn(<<kept>>) \cup FilesIn(jobs)
        BY <3>3, <4>1, FilesInConcat
      <4>3. QED
        BY <3>1, <4>2
    <3>6. QED
      BY <3>2, <3>4, <3>5 DEF Queued
  <2>3. QED
    BY <2>1, <2>2
<1>3. QED
  BY <1>1, <1>2

\* What makes NoFileLost inductive: only an unsettled dispatch has work in
\* progress, a slot that is about to be given a job has none, a slot with a job
\* counts in activeWorkers, and a slot under recovery has no worker and no job.
WorkInProgress ==
    /\ promise # "pending" => turn = {} /\ \A w \in Slots : ~Busy(w)
    /\ promise = "resolved" => jobs = <<>>
    /\ promise = "pending" => turn \cap busySlots = {}
    /\ promise = "pending" => \A w \in Slots : Busy(w) => w \in busySlots
    /\ \A w \in Slots : recovery[w].stage # "none" => worker[w] = "none" /\ ~Busy(w)

IInv == TypeOK /\ WorkInProgress /\ NoFileLost

\* The files known of at the end of a step include those known of before it.
KeepsFiles ==
    Delivered \cup quarantine \cup Queued \cup Running
        \subseteq Delivered' \cup quarantine' \cup Queued' \cup Running'

LEMMA KeepsFilesSuffices ==
    ASSUME NoFileLost, promise \in {"pending", "resolved"}, dispatchNo' = dispatchNo, KeepsFiles
    PROVE  NoFileLost'
BY DEF NoFileLost, Chunk, KeepsFiles

LEMMA TaskEnds ==
    ASSUME TypeOK, NEW w \in Slots, task' = [task EXCEPT ![w] = NoTask]
    PROVE  /\ ~Busy(w)'
           /\ \A v \in Slots \ {w} : task'[v] = task[v] /\ (Busy(v)' <=> Busy(v))
           /\ Running \subseteq Running' \cup task[w].job.items
<1>1. task'[w] = NoTask /\ \A v \in Slots \ {w} : task'[v] = task[v]
  BY DEF TypeOK
<1>2. QED
  BY <1>1, NoTaskType DEF Busy, Running

LEMMA TripBreakerInv ==
    ASSUME IInv, TripBreaker,
           \A v \in Slots : recovery'[v].stage # "none" => recovery[v].stage # "none"
    PROVE  WorkInProgress' /\ NoFileLost'
<1>1. \A v \in Slots : task'[v] = NoTask /\ ~Busy(v)'
  BY NoTaskType DEF TripBreaker, Busy
<1>2. promise' = "rejected" /\ turn' = {}
  BY DEF TripBreaker
<1>3. \A v \in Slots : recovery'[v].stage # "none" => worker'[v] = "none"
  BY DEF TripBreaker, IInv, WorkInProgress
<1>4. QED
  BY <1>1, <1>2, <1>3 DEF WorkInProgress, NoFileLost

\* A step that ends the turn with Continue.
LEMMA ContinueInv ==
    ASSUME IInv, promise = "pending", NEW S \in SUBSET Slots, Continue(S),
           S \cap busySlots' = {},
           dispatchNo' = dispatchNo, KeepsFiles,
           \A v \in Slots : Busy(v)' => v \in busySlots',
           \A v \in Slots : recovery'[v].stage # "none" => worker'[v] = "none" /\ ~Busy(v)'
    PROVE  WorkInProgress' /\ NoFileLost'
<1>1. NoFileLost'
  BY KeepsFilesSuffices DEF IInv
<1>2. CASE promise' = "resolved"
  <2>1. jobs' = <<>> /\ busySlots' = {} /\ turn' = {}
    BY <1>2 DEF Continue, MaybeDone
  <2>2. QED
    BY <1>1, <1>2, <2>1 DEF WorkInProgress
<1>3. CASE promise' = "pending"
  <2>1. turn' = S
    BY <1>3 DEF Continue
  <2>2. QED
    BY <1>1, <1>3, <2>1 DEF WorkInProgress
<1>4. QED
  BY <1>2, <1>3 DEF Continue, MaybeDone

LEMMA LoseSlotInv ==
    ASSUME IInv, NEW w \in Slots, NEW n, LoseSlot(w, n), turn = {},
           promise = "pending" \/ (Stopped(n) /\ jobs' = jobs),
           busySlots' = busySlots \ {w} \/ (busySlots' = busySlots /\ ~Busy(w)),
           ~Stopped(n) => w \notin busySlots' \/ ~Busy(w),
           dispatchNo' = dispatchNo, results' = results,
           Queued \cup quarantine \cup task[w].job.items \subseteq Queued' \cup quarantine',
           \A v \in Slots : recovery'[v].stage # "none" => recovery[v].stage # "none"
    PROVE  WorkInProgress' /\ NoFileLost'
<1>1. CASE TripBreaker
  BY <1>1, TripBreakerInv
<1>2. CASE ~TripBreaker
  <2>1. /\ task' = [task EXCEPT ![w] = NoTask]
        /\ worker' = [worker EXCEPT ![w] = "none"]
        /\ activeSlots' = activeSlots \ {w}
        /\ IF Stopped(n) THEN UNCHANGED <<promise, turn>>
                         ELSE Continue(activeSlots' \ busySlots')
    BY <1>2 DEF LoseSlot
  <2>2. /\ ~Busy(w)'
        /\ \A v \in Slots \ {w} : Busy(v)' <=> Busy(v)
        /\ Running \subseteq Running' \cup task[w].job.items
    BY <2>1, TaskEnds DEF IInv
  <2>3. KeepsFiles
    BY <2>2 DEF KeepsFiles, Delivered
  <2>4. \A v \in Slots : recovery'[v].stage # "none" => worker'[v] = "none" /\ ~Busy(v)'
    <3>1. \A v \in Slots : recovery'[v].stage # "none" => worker[v] = "none" /\ ~Busy(v)
      BY DEF IInv, WorkInProgress
    <3>2. \A v \in Slots : worker[v] = "none" => worker'[v] = "none"
      BY <2>1 DEF IInv, TypeOK
    <3>3. QED
      BY <2>2, <3>1, <3>2
  <2>5. CASE Stopped(n)
    <3>1. promise' = promise /\ turn' = {}
      BY <2>1, <2>5
    <3>2. CASE promise = "pending"
      <4>1. NoFileLost'
        BY <2>3, <3>2, KeepsFilesSuffices DEF IInv
      <4>2. \A v \in Slots : Busy(v)' => v \in busySlots'
        BY <2>2, <3>2 DEF IInv, WorkInProgress
      <4>3. QED
        BY <2>4, <3>1, <3>2, <4>1, <4>2 DEF WorkInProgress
    <3>3. CASE promise # "pending"
      <4>1. \A v \in Slots : ~Busy(v)'
        BY <2>2, <3>3 DEF IInv, WorkInProgress
      <4>2. NoFileLost'
        <5>1. CASE promise = "resolved"
          BY <2>3, <5>1, KeepsFilesSuffices DEF IInv
        <5>2. CASE promise # "resolved"
          BY <3>1, <3>3, <5>2 DEF NoFileLost
        <5>3. QED
          BY <5>1, <5>2
      <4>3. promise' = "resolved" => jobs' = <<>>
        BY <3>1, <3>3 DEF IInv, WorkInProgress
      <4>4. QED
        BY <2>4, <3>1, <3>3, <4>1, <4>2, <4>3 DEF WorkInProgress
    <3>4. QED
      BY <3>2, <3>3
  <2>6. CASE ~Stopped(n)
    <3>1. promise = "pending" /\ Continue(activeSlots' \ busySlots')
      BY <2>1, <2>6 DEF Stopped
    <3>2. activeSlots' \ busySlots' \in SUBSET Slots
      BY <2>1 DEF IInv, TypeOK
    <3>3. \A v \in Slots : Busy(v)' => v \in busySlots'
      BY <2>2, <3>1 DEF IInv, WorkInProgress
    <3>4. QED
      BY <2>3, <2>4, <3>1, <3>2, <3>3, ContinueInv
  <2>7. QED
    BY <2>5, <2>6
<1>3. QED
  BY <1>1, <1>2

LEMMA SuspendInv ==
    ASSUME IInv, NEW w \in Slots, NEW stage \in Stage, NEW held \in BOOLEAN,
           Suspend(w, stage, held), turn = {}, promise = "pending",
           busySlots \ {w} \subseteq busySlots',
           dispatchNo' = dispatchNo, results' = results,
           Queued \cup quarantine \cup task[w].job.items \subseteq Queued' \cup quarantine'
    PROVE  WorkInProgress' /\ NoFileLost'
<1>1. /\ ~Busy(w)'
      /\ \A v \in Slots \ {w} : Busy(v)' <=> Busy(v)
      /\ Running \subseteq Running' \cup task[w].job.items
  BY TaskEnds DEF Suspend, IInv
<1>2. KeepsFiles
  BY <1>1 DEF KeepsFiles, Delivered
<1>3. NoFileLost'
  BY <1>2, KeepsFilesSuffices DEF IInv
<1>4. promise' = "pending" /\ turn' = {}
  BY DEF Suspend
<1>5. \A v \in Slots : Busy(v)' => v \in busySlots'
  BY <1>1 DEF IInv, WorkInProgress
<1>6. \A v \in Slots : recovery'[v].stage # "none" => worker'[v] = "none" /\ ~Busy(v)'
  <2>1. worker'[w] = "none" /\ \A v \in Slots \ {w} : worker'[v] = worker[v] /\ recovery'[v] = recovery[v]
    BY DEF Suspend, IInv, TypeOK
  <2>2. QED
    BY <1>1, <2>1 DEF IInv, WorkInProgress
<1>7. QED
  BY <1>3, <1>4, <1>5, <1>6 DEF WorkInProgress

LEMMA DispatchInv ==
    ASSUME IInv, DispatchRefused \/ DispatchEmpty \/ Dispatch
    PROVE  WorkInProgress' /\ NoFileLost'
<1>1. promise # "pending" /\ dispatchNo \in 0..Len(Chunks) /\ dispatchNo < Len(Chunks)
  BY DEF DispatchRefused, DispatchEmpty, Dispatch, CanDispatch, IInv, TypeOK
<1>2. \A w \in Slots : ~Busy(w)
  BY <1>1 DEF IInv, WorkInProgress
<1>3. UNCHANGED <<task, worker, recovery>>
  BY DEF DispatchRefused, DispatchEmpty, Dispatch, poolVars
<1>4. /\ \A w \in Slots : ~Busy(w)'
      /\ \A w \in Slots : recovery'[w].stage # "none" => worker'[w] = "none" /\ ~Busy(w)'
  BY <1>2, <1>3 DEF Busy, IInv, WorkInProgress
<1>5. Chunk' = Chunks[dispatchNo + 1]
  <2>1. dispatchNo' = dispatchNo + 1
    BY DEF DispatchRefused, DispatchEmpty, Dispatch
  <2>2. dispatchNo + 1 # 0
    BY <1>1
  <2>3. QED
    BY <2>1, <2>2 DEF Chunk
<1>6. CASE DispatchRefused
  BY <1>4, <1>6 DEF DispatchRefused, CanDispatch, WorkInProgress, NoFileLost
<1>7. CASE DispatchEmpty
  <2>1. Chunk' \subseteq quarantine'
    BY <1>5, <1>7 DEF DispatchEmpty, Dispatchable, poolVars
  <2>2. QED
    BY <1>4, <1>7, <2>1 DEF DispatchEmpty, CanDispatch, WorkInProgress, NoFileLost
<1>8. CASE Dispatch
  <2>1. PICK bs \in Batchings(Dispatchable(Chunks[dispatchNo + 1])) : jobs' = JobsOf(bs)
    BY <1>8 DEF Dispatch
  <2>2. Dispatchable(Chunks[dispatchNo + 1]) \in SUBSET Files
    BY <1>1, PoolAssumption DEF Dispatchable
  <2>3. Queued' = Dispatchable(Chunks[dispatchNo + 1])
    BY <2>1, <2>2, JobsOfBatches DEF Queued
  <2>4. quarantine' = quarantine
    BY <1>8 DEF Dispatch, poolVars
  <2>5. Chunk' \subseteq Queued' \cup quarantine'
    BY <1>5, <2>3, <2>4 DEF Dispatchable
  <2>6. promise' = "pending" /\ busySlots' = {}
    BY <1>8 DEF Dispatch
  <2>7. QED
    BY <1>4, <2>5, <2>6 DEF WorkInProgress, NoFileLost
<1>9. QED
  BY <1>6, <1>7, <1>8

\* Skipping the jobs whose files are all in quarantine loses none of them.
LEMMA NextJobKeepsFiles ==
    ASSUME TypeOK, NEW k \in DOMAIN jobs, \A i \in 1..(k - 1) : Quarantined(jobs[i])
    PROVE  Queued \subseteq quarantine \cup Dispatchable(jobs[k].items)
                            \cup FilesIn(SubSeq(jobs, k + 1, Len(jobs)))
<1> DEFINE rest == SubSeq(jobs, k + 1, Len(jobs))
<1>1. jobs \in Seq(Job) /\ Len(jobs) \in Nat /\ DOMAIN jobs = 1..Len(jobs) /\ k \in 1..Len(jobs)
  BY DEF TypeOK
<1>2. SUFFICES ASSUME NEW i \in DOMAIN jobs, NEW f \in jobs[i].items
               PROVE  f \in quarantine \cup Dispatchable(jobs[k].items) \cup FilesIn(rest)
  BY DEF Queued, FilesIn
<1>3. CASE i < k
  <2>1. i \in 1..(k - 1)
    BY <1>1, <1>3
  <2>2. QED
    BY <2>1 DEF Quarantined, Dispatchable
<1>4. CASE i = k
  BY <1>4 DEF Dispatchable
<1>5. CASE i > k
  <2>1. /\ i - k \in 1..(Len(jobs) - k)
        /\ DOMAIN rest = 1..(Len(jobs) - k)
        /\ \A j \in 1..(Len(jobs) - k) : rest[j] = jobs[k + j]
    BY <1>1, <1>5
  <2>2. rest[i - k] = jobs[i]
    <3>1. rest[i - k] = jobs[k + (i - k)]
      BY <2>1
    <3>2. k + (i - k) = i
      BY <1>1
    <3>3. QED
      BY <3>1, <3>2
  <2>3. QED
    BY <2>1, <2>2 DEF FilesIn
<1>6. QED
  BY <1>1, <1>3, <1>4, <1>5

LEMMA RunWorkerInv ==
    ASSUME IInv, NEW w \in Slots, RunWorker(w)
    PROVE  WorkInProgress' /\ NoFileLost'
<1>1. w \in turn /\ promise = "pending" /\ turn \in SUBSET Slots
  BY DEF RunWorker, IInv, WorkInProgress, TypeOK
<1>2. UNCHANGED <<dispatchNo, results, worker, recovery, quarantine>>
  BY DEF RunWorker, poolVars
<1>3. w \notin busySlots /\ ~Busy(w) /\ busySlots \in SUBSET Slots
  BY <1>1 DEF IInv, WorkInProgress, TypeOK
<1> DEFINE Taken(k) == [jobs[k] EXCEPT !.items = Dispatchable(@)]
           Rest(k) == SubSeq(jobs, k + 1, Len(jobs))
<1>4. CASE UNCHANGED <<task, busySlots>> /\ Queued \subseteq quarantine \cup Queued'
  <2>1. KeepsFiles
    BY <1>2, <1>4 DEF KeepsFiles, Delivered, Running
  <2>2. \A v \in Slots : Busy(v)' => v \in busySlots'
    BY <1>1, <1>4 DEF IInv, WorkInProgress, Busy
  <2>3. \A v \in Slots : recovery'[v].stage # "none" => worker'[v] = "none" /\ ~Busy(v)'
    BY <1>2, <1>4 DEF IInv, WorkInProgress, Busy
  <2>4. turn \ {w} \in SUBSET Slots /\ (turn \ {w}) \cap busySlots' = {}
    BY <1>1, <1>4 DEF IInv, WorkInProgress
  <2>5. QED
    BY <1>1, <1>2, <2>1, <2>2, <2>3, <2>4, ContinueInv DEF RunWorker
<1>5. CASE \A i \in DOMAIN jobs : Quarantined(jobs[i])
  <2>1. jobs' = <<>> /\ UNCHANGED <<task, busySlots>>
    BY <1>5 DEF RunWorker
  <2>2. Queued \subseteq quarantine
    BY <1>5 DEF Quarantined, Dispatchable, Queued, FilesIn
  <2>3. QED
    BY <1>4, <2>1, <2>2
<1>6. CASE ~ \A i \in DOMAIN jobs : Quarantined(jobs[i])
  <2>1. PICK k \in DOMAIN jobs :
           /\ \A i \in 1..(k - 1) : Quarantined(jobs[i])
           /\ ~Quarantined(jobs[k])
           /\ IF worker[w] = "none"
              THEN jobs' = <<Taken(k)>> \o Rest(k) /\ UNCHANGED <<task, busySlots>>
              ELSE /\ jobs' = Rest(k)
                   /\ task' = [task EXCEPT ![w] = Assigned(Taken(k))]
                   /\ busySlots' = busySlots \cup {w}
    BY <1>6 DEF RunWorker
  <2>2. /\ jobs[k] \in Job /\ k \in 1..Len(jobs) /\ Len(jobs) \in Nat /\ jobs \in Seq(Job)
    BY DEF IInv, TypeOK
  <2>3. Taken(k) \in Job /\ Taken(k).items = Dispatchable(jobs[k].items)
    BY <2>2 DEF Dispatchable, Job
  <2>4. Rest(k) \in Seq(Job)
    BY <2>2
  <2>5. Queued \subseteq quarantine \cup Dispatchable(jobs[k].items) \cup FilesIn(Rest(k))
    BY <2>1, NextJobKeepsFiles DEF IInv
  <2> HIDE DEF Taken, Rest
  <2>6. CASE worker[w] = "none"
    <3>1. jobs' = <<Taken(k)>> \o Rest(k) /\ UNCHANGED <<task, busySlots>>
      BY <2>1, <2>6
    <3>2. FilesIn(<<Taken(k)>>) = Taken(k).items
      <4>1. DOMAIN <<Taken(k)>> = {1} /\ <<Taken(k)>>[1] = Taken(k)
        OBVIOUS
      <4>2. QED
        BY <4>1 DEF FilesIn
    <3>3. <<Taken(k)>> \in Seq(Job)
      BY <2>3
    <3>4. Queued' = Taken(k).items \cup FilesIn(Rest(k))
      BY <2>4, <3>1, <3>2, <3>3, FilesInConcat DEF Queued
    <3>5. QED
      BY <1>4, <2>3, <2>5, <3>1, <3>4
  <2>7. CASE worker[w] # "none"
    <3>1. /\ jobs' = Rest(k)
          /\ task' = [task EXCEPT ![w] = Assigned(Taken(k))]
          /\ busySlots' = busySlots \cup {w}
      BY <2>1, <2>7
    <3>2. /\ task'[w].job.items = Dispatchable(jobs[k].items)
          /\ \A v \in Slots \ {w} : task'[v] = task[v]
      BY <2>3, <3>1 DEF IInv, TypeOK, Assigned
    <3>3. Running \cup Dispatchable(jobs[k].items) \subseteq Running'
      BY <1>3, <3>2 DEF Running, Busy
    <3>4. KeepsFiles
      BY <1>2, <2>5, <3>1, <3>3 DEF KeepsFiles, Delivered, Queued
    <3>5. \A v \in Slots : Busy(v)' => v \in busySlots'
      BY <1>1, <3>1, <3>2 DEF IInv, WorkInProgress, Busy
    <3>6. \A v \in Slots : recovery'[v].stage # "none" => worker'[v] = "none" /\ ~Busy(v)'
      BY <1>2, <2>7, <3>2 DEF IInv, WorkInProgress, Busy
    <3>7. turn \ {w} \in SUBSET Slots /\ (turn \ {w}) \cap busySlots' = {}
      BY <1>1, <3>1 DEF IInv, WorkInProgress
    <3>8. QED
      BY <1>1, <1>2, <3>4, <3>5, <3>6, <3>7, ContinueInv DEF RunWorker
  <2>8. QED
    BY <2>6, <2>7
<1>7. QED
  BY <1>5, <1>6

\* A step that changes no job in hand and takes no worker's place.
LEMMA QuietStepInv ==
    ASSUME IInv, UNCHANGED <<dispatchNo, promise, jobs, results, busySlots, turn, quarantine>>,
           \A v \in Slots : task'[v].job = task[v].job,
           \A v \in Slots : recovery'[v].stage # "none" =>
                               recovery[v].stage # "none" /\ worker'[v] = worker[v]
    PROVE  WorkInProgress' /\ NoFileLost'
<1>1. \A v \in Slots : Busy(v)' <=> Busy(v)
  BY DEF Busy
<1>2. WorkInProgress'
  BY <1>1 DEF IInv, WorkInProgress
<1>3. Queued' = Queued /\ Delivered' = Delivered /\ Running' = Running /\ Chunk' = Chunk
  BY DEF Queued, Delivered, Running, Chunk
<1>4. QED
  BY <1>2, <1>3 DEF IInv, NoFileLost

LEMMA MessageInv ==
    ASSUME IInv, NEW w \in Slots, StartingFile(w) \/ Progress(w) \/ SubBatchDone(w)
    PROVE  WorkInProgress' /\ NoFileLost'
<1>1. task \in [Slots -> Task]
  BY DEF IInv, TypeOK
<1>2. \A v \in Slots : task'[v].job = task[v].job
  <2>1. CASE StartingFile(w)
    <3>1. PICK f \in task[w].left :
             task' = [task EXCEPT ![w] = [task[w] EXCEPT !.left = @ \ {f}, !.doing = {f},
                                                         !.inFlight = {f}]]
      BY <2>1 DEF StartingFile, View
    <3>2. QED
      BY <1>1, <3>1 DEF Task
  <2>2. CASE Progress(w)
    <3> DEFINE Counted(f) == [task[w] EXCEPT !.left = @ \ {f}, !.doing = {}, !.seen = @ + 1,
                                             !.inFlight = {}]
               parsed == [task[w] EXCEPT !.seen = @ + 1, !.inFlight = {}]
    <3>1. parsed.job = task[w].job /\ \A f : Counted(f).job = task[w].job
      BY <1>1 DEF Task
    <3>2. \/ task' = [task EXCEPT ![w] = parsed]
          \/ \E f \in task[w].left : task' = [task EXCEPT ![w] = Counted(f)]
      BY <2>2 DEF Progress, View
    <3> HIDE DEF parsed, Counted
    <3>3. QED
      BY <1>1, <3>1, <3>2
  <2>3. CASE SubBatchDone(w)
    BY <1>1, <2>3 DEF SubBatchDone, View, Task
  <2>4. QED
    BY <2>1, <2>2, <2>3
<1>3. UNCHANGED <<dispatchNo, promise, jobs, results, busySlots, turn, poolVars>>
  BY DEF StartingFile, Progress, SubBatchDone, View
<1>4. QED
  BY <1>2, <1>3, QuietStepInv DEF poolVars

LEMMA ResultInv ==
    ASSUME IInv, NEW w \in Slots, Result(w)
    PROVE  WorkInProgress' /\ NoFileLost'
<1>1. promise = "pending"
  BY DEF Result, Listening, IInv, WorkInProgress
<1>2. /\ ~Busy(w)'
      /\ \A v \in Slots \ {w} : Busy(v)' <=> Busy(v)
      /\ Running \subseteq Running' \cup task[w].job.items
  BY TaskEnds DEF Result, IInv
<1>3. Delivered \cup task[w].job.items \subseteq Delivered'
  <2> DEFINE result == [start |-> task[w].job.start, items |-> task[w].job.items]
  <2>1. results' = results \cup {result} /\ result.items = task[w].job.items
    BY DEF Result
  <2> HIDE DEF result
  <2>2. QED
    BY <2>1 DEF Delivered
<1>4. KeepsFiles
  BY <1>2, <1>3 DEF Result, KeepsFiles, Queued
<1>5. \A v \in Slots : Busy(v)' => v \in busySlots'
  BY <1>1, <1>2 DEF Result, IInv, WorkInProgress
<1>6. \A v \in Slots : recovery'[v].stage # "none" => worker'[v] = "none" /\ ~Busy(v)'
  BY <1>2 DEF Result, IInv, WorkInProgress
<1>7. (activeSlots \cap {w}) \in SUBSET Slots /\ (activeSlots \cap {w}) \cap busySlots' = {}
  BY DEF Result
<1>8. QED
  BY <1>1, <1>4, <1>5, <1>6, <1>7, ContinueInv DEF Result

LEMMA CrashInv ==
    ASSUME IInv, NEW w \in Slots, Crash(w) \/ TimeoutGiveUp(w)
    PROVE  WorkInProgress' /\ NoFileLost'
<1>1. /\ Busy(w) /\ turn = {} /\ promise = "pending"
      /\ dispatchNo' = dispatchNo /\ results' = results
  BY DEF Crash, TimeoutGiveUp, Listening, TimesOut, IInv, WorkInProgress
<1>2. Queued \cup quarantine \cup task[w].job.items \subseteq Queued' \cup quarantine'
  <2>1. task[w].job \in Job /\ ExcludePaths(w) \in SUBSET Files /\ Stalled(w) \in SUBSET Files
    BY ExcludePathsType DEF IInv, TypeOK, Task
  <2>2. QED
    BY <2>1, RequeueKeepsFiles DEF Crash, TimeoutGiveUp, IInv
<1>3. PICK retire \in BOOLEAN : Death(w, retire)
  BY DEF Crash, TimeoutGiveUp
<1>4. busySlots' = busySlots \ {w}
  BY <1>3 DEF Death
<1>5. CASE TooManyFailures(w)
  BY <1>3, <1>5, TripBreakerInv DEF Death
<1>6. CASE ~TooManyFailures(w) /\ ~(OverBudget(w) /\ retire)
  <2>1. PICK stage \in Stage : Suspend(w, stage, FALSE)
    BY <1>3, <1>6 DEF Death, Stage
  <2>2. QED
    BY <1>1, <1>2, <1>4, <2>1, SuspendInv
<1>7. CASE ~TooManyFailures(w) /\ OverBudget(w) /\ retire
  <2>1. LoseSlot(w, dispatchNo) /\ recovery' = recovery
    BY <1>3, <1>7 DEF Death
  <2>2. QED
    BY <1>1, <1>2, <1>4, <2>1, LoseSlotInv
<1>8. QED
  BY <1>5, <1>6, <1>7

LEMMA TimeoutRetryInv ==
    ASSUME IInv, NEW w \in Slots, TimeoutRetry(w)
    PROVE  WorkInProgress' /\ NoFileLost'
<1>1. /\ Busy(w) /\ turn = {} /\ promise = "pending"
      /\ dispatchNo' = dispatchNo /\ results' = results /\ quarantine' = quarantine
  BY DEF TimeoutRetry, TimesOut, IInv, WorkInProgress
<1>2. Queued \cup quarantine \cup task[w].job.items \subseteq Queued' \cup quarantine'
  <2>1. task[w].job \in Job /\ jobs \in Seq(Job)
    BY DEF IInv, TypeOK, Task
  <2>2. /\ Pieces(task[w].job) \in Seq(Job)
        /\ FilesIn(Pieces(task[w].job)) = task[w].job.items
    BY <1>1, <2>1, PiecesOfJob DEF Busy
  <2>3. Queued' = task[w].job.items \cup Queued
    BY <2>1, <2>2, FilesInConcat DEF TimeoutRetry, Queued
  <2>4. QED
    BY <1>1, <2>3
<1>3. CASE TooManyFailures(w)
  BY <1>3, TripBreakerInv DEF TimeoutRetry
<1>4. CASE ~TooManyFailures(w) /\ OverBudget(w)
  <2>1. LoseSlot(w, dispatchNo) /\ recovery' = recovery /\ busySlots' = busySlots \ {w}
    BY <1>4 DEF TimeoutRetry
  <2>2. QED
    BY <1>1, <1>2, <2>1, LoseSlotInv
<1>5. CASE ~TooManyFailures(w) /\ ~OverBudget(w)
  <2>1. Suspend(w, "spawning", TRUE) /\ "spawning" \in Stage /\ busySlots' = busySlots
    BY <1>5 DEF TimeoutRetry, Stage
  <2>2. QED
    BY <1>1, <1>2, <2>1, SuspendInv
<1>6. QED
  BY <1>3, <1>4, <1>5

LEMMA RecoveryStepInv ==
    ASSUME IInv, NEW w \in Slots, RecoveryStep(w)
    PROVE  WorkInProgress' /\ NoFileLost'
<1>1. /\ turn = {} /\ recovery[w].stage # "none"
      /\ worker[w] = "none" /\ ~Busy(w)
  BY DEF RecoveryStep, WorkerEnded, ReplacementFails, ReplacementRecalled, ReplacementReady,
         SlotLost, At, IInv, WorkInProgress
<1>2. recovery \in [Slots -> Recovery] /\ worker \in [Slots -> WorkerState]
  BY DEF IInv, TypeOK
<1>3. CASE WorkerEnded(w) \/ ReplacementFails(w) \/ ReplacementRecalled(w)
  <2>1. PICK stage \in {"spawning", "failed", "recalled"} : Advance(w, stage)
    BY <1>3 DEF WorkerEnded, ReplacementFails, ReplacementRecalled
  <2>2. UNCHANGED <<dispatchVars, worker, quarantine>>
    BY <2>1 DEF Advance
  <2>3. \A v \in Slots : recovery'[v].stage # "none" => recovery[v].stage # "none"
    BY <1>1, <1>2, <2>1 DEF Advance
  <2>4. QED
    BY <2>2, <2>3, QuietStepInv DEF dispatchVars
<1>4. CASE ReplacementReady(w)
  <2>1. promise = "pending"
    BY <1>4 DEF ReplacementReady, Stale, Stopped
  <2>2. UNCHANGED <<dispatchNo, jobs, results, task, activeSlots, quarantine>>
    BY <1>4 DEF ReplacementReady
  <2>3. KeepsFiles
    BY <2>2 DEF KeepsFiles, Queued, Delivered, Running
  <2>4. \A v \in Slots : Busy(v)' => v \in busySlots'
    BY <1>1, <1>4, <2>1, <2>2 DEF ReplacementReady, Release, IInv, WorkInProgress, Busy
  <2>5. \A v \in Slots : recovery'[v].stage # "none" => worker'[v] = "none" /\ ~Busy(v)'
    <3>1. recovery'[w].stage = "none"
      BY <1>2, <1>4 DEF ReplacementReady, NoRecovery
    <3>2. \A v \in Slots \ {w} : worker'[v] = worker[v] /\ recovery'[v] = recovery[v]
      BY <1>2, <1>4 DEF ReplacementReady
    <3>3. QED
      BY <2>2, <3>1, <3>2 DEF IInv, WorkInProgress, Busy
  <2>6. activeSlots \ busySlots' \in SUBSET Slots
    BY DEF IInv, TypeOK
  <2>7. Continue(activeSlots \ busySlots')
    BY <1>4 DEF ReplacementReady
  <2>8. QED
    BY <2>1, <2>2, <2>3, <2>4, <2>5, <2>6, <2>7, ContinueInv
<1>5. CASE SlotLost(w)
  <2>1. /\ LoseSlot(w, recovery[w].from)
        /\ UNCHANGED <<dispatchNo, jobs, results, quarantine>>
    BY <1>5 DEF SlotLost
  <2>2. promise = "pending" \/ Stopped(recovery[w].from)
    BY DEF Stopped
  <2>3. busySlots' = busySlots \ {w} \/ busySlots' = busySlots
    BY <1>5 DEF SlotLost, Release
  <2>4. Queued \cup quarantine \cup task[w].job.items \subseteq Queued' \cup quarantine'
    BY <1>1, <2>1 DEF Busy, Queued
  <2>5. \A v \in Slots : recovery'[v].stage # "none" => recovery[v].stage # "none"
    BY <1>1, <1>2, <1>5 DEF SlotLost
  <2>6. QED
    BY <1>1, <2>1, <2>2, <2>3, <2>4, <2>5, LoseSlotInv
<1>6. QED
  BY <1>3, <1>4, <1>5 DEF RecoveryStep

LEMMA PoolStepInv ==
    ASSUME IInv,
           \/ \E w \in Slots : IdleExit(w) \/ DoomedExit(w)
           \/ RetiredEnds \/ Terminate \/ TerminateDone
    PROVE  WorkInProgress' /\ NoFileLost'
<1>1. worker \in [Slots -> WorkerState]
  BY DEF IInv, TypeOK
<1>2. UNCHANGED <<dispatchVars, recovery, quarantine>>
  BY DEF IdleExit, DoomedExit, RetiredEnds, Terminate, TerminateDone
<1>3. \A v \in Slots : worker[v] = "none" => worker'[v] = "none"
  <2>1. CASE \E w \in Slots : IdleExit(w) \/ DoomedExit(w)
    BY <1>1, <2>1 DEF IdleExit, DoomedExit
  <2>2. CASE RetiredEnds \/ Terminate \/ TerminateDone
    BY <1>1, <2>2 DEF RetiredEnds, Terminate, TerminateDone
  <2>3. QED
    BY <2>1, <2>2
<1>4. \A v \in Slots : recovery'[v].stage # "none" =>
                          recovery[v].stage # "none" /\ worker'[v] = worker[v]
  BY <1>2, <1>3 DEF IInv, WorkInProgress
<1>5. QED
  BY <1>2, <1>4, QuietStepInv DEF dispatchVars

LEMMA Inductive == Spec => []IInv
<1>1. Init /\ TypeOK => IInv
  BY NoTaskType DEF Init, IInv, WorkInProgress, NoFileLost, NoRecovery, Busy
<1>2. IInv /\ TypeOK' /\ [Next]_vars => IInv'
  <2> SUFFICES ASSUME IInv, [Next]_vars
               PROVE  WorkInProgress' /\ NoFileLost'
    BY DEF IInv
  <2>1. CASE UNCHANGED vars
    BY <2>1, QuietStepInv DEF vars, dispatchVars, poolVars
  <2>2. CASE DispatchRefused \/ DispatchEmpty \/ Dispatch
    BY <2>2, DispatchInv
  <2>3. ASSUME NEW w \in Slots, RunWorker(w)
        PROVE  WorkInProgress' /\ NoFileLost'
    BY <2>3, RunWorkerInv
  <2>4. ASSUME NEW w \in Slots, JobEvent(w)
        PROVE  WorkInProgress' /\ NoFileLost'
    BY <2>4, MessageInv, ResultInv, CrashInv, TimeoutRetryInv DEF JobEvent
  <2>5. ASSUME NEW w \in Slots, RecoveryStep(w)
        PROVE  WorkInProgress' /\ NoFileLost'
    BY <2>5, RecoveryStepInv
  <2>6. CASE \/ \E w \in Slots : IdleExit(w) \/ DoomedExit(w)
             \/ RetiredEnds \/ Terminate \/ TerminateDone
    BY <2>6, PoolStepInv
  <2>7. QED
    BY <2>1, <2>2, <2>3, <2>4, <2>5, <2>6 DEF Next
<1>3. QED
  BY <1>1, <1>2, TypeCorrect, PTL DEF Spec

\* However jobs are split, requeued, retried and taken over, every file of the
\* chunk stays accounted for until dispatch() settles.
THEOREM FilesAccounted == Spec => []NoFileLost
BY Inductive, PTL DEF IInv

\* The array a resolved dispatch() returns, with the quarantine, covers the chunk.
THEOREM DispatchComplete == Spec => []ResolvedComplete
<1>1. IInv => ResolvedComplete
  <2> SUFFICES ASSUME IInv, promise = "resolved"
               PROVE  Chunk \subseteq Delivered \cup quarantine
    BY DEF ResolvedComplete
  <2>1. jobs = <<>> /\ \A w \in Slots : ~Busy(w)
    BY DEF IInv, WorkInProgress
  <2>2. Queued = {} /\ Running = {}
    BY <2>1 DEF Queued, FilesIn, Running, Busy
  <2>3. QED
    BY <2>2 DEF IInv, NoFileLost
<1>2. QED
  BY <1>1, Inductive, PTL

-----------------------------------------------------------------------------
(* Ranks: how a job is halved and whom a death is blamed on *)

LEMMA RankBelow ==
    ASSUME NEW S \in SUBSET Files, NEW f \in S
    PROVE  Rank(f, S) \in 0..(Cardinality(S) - 1)
<1> DEFINE below == {g \in S : g < f}
<1>1. below \in SUBSET S /\ f \notin below /\ f \in Nat
  BY PoolAssumption
<1>2. IsFiniteSet(S) /\ Cardinality(S) \in Nat
  BY FilesCardinality
<1>3. Cardinality(below) \in Nat /\ Cardinality(below) <= Cardinality(S)
  BY <1>1, <1>2, FS_Subset, FS_CardinalityType
<1>4. Cardinality(below) # Cardinality(S)
  BY <1>1, <1>2, FS_Subset
<1>5. QED
  BY <1>2, <1>3, <1>4 DEF Rank

LEMMA RankIncreases ==
    ASSUME NEW S \in SUBSET Files, NEW f \in S, NEW g \in S, f < g
    PROVE  Rank(f, S) < Rank(g, S)
<1> DEFINE under == {h \in S : h < g}
<1>1. f \in under /\ under \in SUBSET Files
  BY PoolAssumption
<1>2. {h \in under : h < f} = {h \in S : h < f}
  <2>1. f \in Nat /\ g \in Nat /\ S \subseteq Nat
    BY PoolAssumption
  <2>2. \A h \in S : h < f => h < g
    BY <2>1
  <2>3. QED
    BY <2>2
<1>3. Rank(f, under) \in 0..(Cardinality(under) - 1)
  BY <1>1, RankBelow
<1>4. Rank(f, under) = Rank(f, S) /\ Cardinality(under) = Rank(g, S)
  BY <1>2 DEF Rank
<1>5. Cardinality(under) \in Nat
  BY <1>1, FilesCardinality
<1>6. QED
  BY <1>3, <1>4, <1>5

\* No two files of a job have the same rank.
LEMMA RankInjective ==
    ASSUME NEW S \in SUBSET Files, NEW f \in S, NEW g \in S, Rank(f, S) = Rank(g, S)
    PROVE  f = g
<1>1. f \in Nat /\ g \in Nat
  BY PoolAssumption
<1>2. Rank(f, S) \in Nat /\ Rank(g, S) \in Nat
  BY RankType
<1>3. QED
  BY <1>1, <1>2, RankIncreases

\* The n files of the lowest ranks are n files: ranks leave no gap.
LEMMA LowestRanks ==
    ASSUME NEW S \in SUBSET Files, NEW n \in 0..Cardinality(S)
    PROVE  LET lower == {f \in S : Rank(f, S) < n}
           IN  Cardinality(lower) = n /\ Cardinality(S \ lower) = Cardinality(S) - n
<1> DEFINE c == Cardinality(S)
           lower == {f \in S : Rank(f, S) < n}
           rank == [f \in S |-> Rank(f, S)]
           low == [f \in lower |-> Rank(f, S)]
<1>1. IsFiniteSet(S) /\ c \in Nat /\ n \in Nat /\ n <= c
  BY FilesCardinality
<1>2. rank \in Injection(S, 0..(c - 1))
  BY RankBelow, RankInjective DEF Injection, IsInjective
<1>3. IsFiniteSet(0..(c - 1)) /\ Cardinality(0..(c - 1)) = c
  <2>1. 0 \in Int /\ c - 1 \in Int
    BY <1>1
  <2>2. QED
    BY <1>1, <2>1, FS_Interval
<1>4. rank \in Surjection(S, 0..(c - 1))
  BY <1>2, <1>3, FS_Injection
<1>5. \A i \in 0..(n - 1) : \E f \in lower : Rank(f, S) = i
  <2> SUFFICES ASSUME NEW i \in 0..(n - 1)
               PROVE  \E f \in lower : Rank(f, S) = i
    OBVIOUS
  <2>1. i \in 0..(c - 1) /\ i < n
    BY <1>1
  <2>2. PICK f \in S : rank[f] = i
    BY <1>4, <2>1 DEF Surjection
  <2>3. QED
    BY <2>1, <2>2
<1>6. low \in [lower -> 0..(n - 1)]
  BY <1>1, RankType
<1>7. low \in Bijection(lower, 0..(n - 1))
  BY <1>5, <1>6, RankInjective DEF Bijection, Injection, Surjection, IsInjective
<1>8. IsFiniteSet(lower) /\ lower \subseteq S
  BY <1>1, FS_Subset
<1>9. Cardinality(0..(n - 1)) = Cardinality(lower)
  BY <1>7, <1>8, FS_Bijection DEF ExistsBijection
<1>10. Cardinality(lower) = n
  <2>1. 0 \in Int /\ n - 1 \in Int
    BY <1>1
  <2>2. QED
    BY <1>1, <1>9, <2>1, FS_Interval
<1>11. S \cap lower = lower
  OBVIOUS
<1> HIDE DEF lower
<1>12. Cardinality(S \ lower) = Cardinality(S) - Cardinality(S \cap lower)
  BY <1>1, FS_Difference
<1>13. QED
  BY <1>10, <1>11, <1>12 DEF lower

\* A death blames at most one file, and one of the job.
LEMMA AtMostOneFirst ==
    ASSUME NEW S \in SUBSET Files, NEW f \in First(S), NEW g \in First(S)
    PROVE  f = g
BY RankInjective DEF First

-----------------------------------------------------------------------------
(* Pieces of work never overlap *)

\* What a queued job, a job in hand and a result have in common.
IsWork(p) == p.start \in Nat /\ p.items \in SUBSET Files

\* p comes before q among the files, and its start index leaves room for its
\* files below that of q.
Before(p, q) ==
    /\ p.start + Cardinality(p.items) <= q.start
    /\ \A f \in p.items, g \in q.items : f < g

Apart(p, q) == Before(p, q) \/ Before(q, p)

\* p is what is left of q, or a half of it.
Within(p, q) ==
    /\ q.start <= p.start
    /\ p.start + Cardinality(p.items) <= q.start + Cardinality(q.items)
    /\ p.items \subseteq q.items

LEMMA ApartWithin ==
    ASSUME NEW p, NEW q, NEW r, IsWork(p), IsWork(q), IsWork(r), Within(p, q), Apart(q, r)
    PROVE  Apart(p, r) /\ Apart(r, p)
<1>1. /\ Cardinality(p.items) \in Nat /\ Cardinality(q.items) \in Nat
      /\ Cardinality(r.items) \in Nat
  BY FilesCardinality DEF IsWork
<1>2. Before(q, r) => Before(p, r)
  BY <1>1 DEF IsWork, Within, Before
<1>3. Before(r, q) => Before(r, p)
  BY <1>1 DEF IsWork, Within, Before
<1>4. QED
  BY <1>2, <1>3 DEF Apart

\* Pieces of work that are apart share no file, and differ in their start index
\* as far as they hold files.
LEMMA ApartDisjoint ==
    ASSUME NEW p, NEW q, IsWork(p), IsWork(q), Apart(p, q)
    PROVE  /\ p.items \cap q.items = {}
           /\ p.items # {} /\ q.items # {} =>
                /\ p.start # q.start
                /\ p.start < q.start => \A f \in p.items, g \in q.items : f < g
<1>1. p.items \subseteq Nat /\ q.items \subseteq Nat
  BY PoolAssumption DEF IsWork
<1>2. /\ IsFiniteSet(p.items) /\ Cardinality(p.items) \in Nat
      /\ IsFiniteSet(q.items) /\ Cardinality(q.items) \in Nat
  BY FilesCardinality DEF IsWork
<1>3. /\ p.items # {} => Cardinality(p.items) # 0
      /\ q.items # {} => Cardinality(q.items) # 0
  BY <1>2, FS_EmptySet
<1>4. p.items \cap q.items = {}
  BY <1>1 DEF Apart, Before
<1>5. ASSUME p.items # {}, q.items # {}
      PROVE  /\ p.start # q.start
             /\ p.start < q.start => \A f \in p.items, g \in q.items : f < g
  BY <1>2, <1>3, <1>5 DEF Apart, Before, IsWork
<1>6. QED
  BY <1>4, <1>5

\* A split or repeated job leaves no more than its own place among the files.
LEMMA PiecesApart ==
    ASSUME NEW job \in Job, job.items # {}
    PROVE  /\ \A i \in DOMAIN Pieces(job) :
                 Within(Pieces(job)[i], job) /\ Pieces(job)[i].items # {}
           /\ \A i, j \in DOMAIN Pieces(job) : i # j => Apart(Pieces(job)[i], Pieces(job)[j])
<1> DEFINE c == Cardinality(job.items)
           again == [job EXCEPT !.timeout = NextTimeout(job), !.cumulative = NextCumulative(job)]
           half == (c + 1) \div 2
           lower == {f \in job.items : Rank(f, job.items) < half}
<1>1. /\ again \in Job /\ again.items = job.items /\ again.start = job.start
      /\ job.start \in Nat /\ job.items \in SUBSET Files
  BY NextBudgets DEF Job
<1>2. IsFiniteSet(job.items) /\ c \in Nat /\ c # 0
  BY <1>1, FilesCardinality, FS_EmptySet
<1>3. CASE c = 1
  <2> DEFINE once == [again EXCEPT !.attempt = @ + 1]
  <2>1. Pieces(job) = <<once>>
    BY <1>3 DEF Pieces
  <2>2. once.items = job.items /\ once.start = job.start
    <3> HIDE DEF again
    <3>1. QED
      BY <1>1 DEF Job
  <2> HIDE DEF once
  <2>3. DOMAIN Pieces(job) = {1} /\ Pieces(job)[1] = once
    BY <2>1
  <2>4. Within(once, job)
    BY <1>1, <1>2, <2>2 DEF Within
  <2>5. QED
    BY <2>2, <2>3, <2>4
<1>4. CASE c # 1
  <2> DEFINE first == [again EXCEPT !.items = lower]
             second == [again EXCEPT !.start = @ + half, !.items = job.items \ lower]
  <2>1. Pieces(job) = <<first, second>>
    BY <1>4 DEF Pieces
  <2>2. half \in 1..(c - 1)
    BY <1>2, <1>4
  <2>3. lower \in SUBSET job.items /\ lower \in SUBSET Files
    BY <1>1
  <2>4. Cardinality(lower) = half /\ Cardinality(job.items \ lower) = c - half
    <3>1. half \in 0..Cardinality(job.items)
      BY <1>2, <2>2
    <3> HIDE DEF half
    <3>2. QED
      BY <1>1, <3>1, LowestRanks
  <2>5. /\ first.items = lower /\ first.start = job.start
        /\ second.items = job.items \ lower /\ second.start = job.start + half
    <3> HIDE DEF again, half, lower
    <3>1. QED
      BY <1>1 DEF Job
  <2>6. \A f \in lower, g \in job.items \ lower : f < g
    <3> SUFFICES ASSUME NEW f \in lower, NEW g \in job.items \ lower
                 PROVE  f < g
      OBVIOUS
    <3>1. f \in Nat /\ g \in Nat /\ f # g
      BY <1>1, PoolAssumption
    <3>2. Rank(f, job.items) \in Nat /\ Rank(g, job.items) \in Nat
      BY <1>1, RankType
    <3>3. Rank(f, job.items) < half /\ ~(Rank(g, job.items) < half)
      OBVIOUS
    <3>4. ~(g < f)
      BY <1>1, <2>2, <3>2, <3>3, RankIncreases
    <3>5. QED
      BY <3>1, <3>4
  <2> HIDE DEF first, second, lower, half
  <2>7. DOMAIN Pieces(job) = {1, 2} /\ Pieces(job)[1] = first /\ Pieces(job)[2] = second
    BY <2>1
  <2>8. Within(first, job) /\ Within(second, job)
    BY <1>1, <1>2, <2>2, <2>3, <2>4, <2>5 DEF Within
  <2>9. first.items # {} /\ second.items # {}
    <3>1. Cardinality(first.items) # 0 /\ Cardinality(second.items) # 0
      BY <1>2, <2>2, <2>4, <2>5
    <3>2. QED
      BY <3>1, FS_EmptySet
  <2>10. Before(first, second)
    BY <1>1, <2>2, <2>4, <2>5, <2>6 DEF Before
  <2>11. QED
    BY <2>7, <2>8, <2>9, <2>10 DEF Apart
<1>5. QED
  BY <1>3, <1>4

\* createJobs numbers its batches by the files that come before them.
LEMMA JobsOfApart ==
    ASSUME NEW files \in SUBSET Files, NEW bs \in Batchings(files)
    PROVE  /\ \A k \in DOMAIN JobsOf(bs) : JobsOf(bs)[k].items # {}
           /\ \A k, l \in DOMAIN JobsOf(bs) : k # l => Apart(JobsOf(bs)[k], JobsOf(bs)[l])
<1> DEFINE U(k) == UNION {bs[i] : i \in 1..(k - 1)}
<1>1. PICK n \in Nat : bs \in [1..n -> (SUBSET files) \ {{}}]
  <2>1. Cardinality(files) \in Nat
    BY FilesCardinality
  <2>2. bs \in UNION {[1..n -> (SUBSET files) \ {{}}] : n \in 1..Cardinality(files)}
    BY DEF Batchings
  <2>3. \A n \in 1..Cardinality(files) : n \in Nat
    BY <2>1
  <2>4. QED
    BY <2>2, <2>3
<1>2. \A k, l \in 1..n : k < l => \A f \in bs[k], g \in bs[l] : f < g
  BY <1>1 DEF Batchings
<1>3. /\ DOMAIN JobsOf(bs) = 1..n
      /\ \A k \in 1..n : JobsOf(bs)[k].items = bs[k] /\ JobsOf(bs)[k].start = Cardinality(U(k))
  BY <1>1 DEF JobsOf
<1>4. ASSUME NEW k \in 1..n, NEW l \in 1..n, k < l
      PROVE  Cardinality(U(k)) + Cardinality(bs[k]) <= Cardinality(U(l))
  <2>1. U(k) \in SUBSET Files /\ U(l) \in SUBSET Files /\ bs[k] \in SUBSET Files
    BY <1>1
  <2>2. U(k) \cap bs[k] = {}
    <3> SUFFICES ASSUME NEW i \in 1..(k - 1), NEW f \in bs[i], f \in bs[k]
                 PROVE  FALSE
      OBVIOUS
    <3>1. i \in 1..n /\ i < k
      BY <1>1
    <3>2. f < f /\ f \in Nat
      BY <1>2, <2>1, <3>1, PoolAssumption
    <3>3. QED
      BY <3>2
  <2>3. U(k) \cup bs[k] \subseteq U(l)
    <3>1. k \in 1..(l - 1) /\ \A i \in 1..(k - 1) : i \in 1..(l - 1)
      BY <1>1, <1>4
    <3>2. QED
      BY <3>1
  <2> HIDE DEF U
  <2>4. /\ IsFiniteSet(U(k)) /\ IsFiniteSet(U(l)) /\ IsFiniteSet(bs[k])
        /\ Cardinality(U(k)) \in Nat /\ Cardinality(U(l)) \in Nat /\ Cardinality(bs[k]) \in Nat
    BY <2>1, FilesCardinality
  <2>5. Cardinality(U(k) \cup bs[k]) = Cardinality(U(k)) + Cardinality(bs[k])
    <3>1. Cardinality(U(k) \cap bs[k]) = 0
      BY <2>2, FS_EmptySet
    <3>2. Cardinality(U(k) \cup bs[k])
            = Cardinality(U(k)) + Cardinality(bs[k]) - Cardinality(U(k) \cap bs[k])
      BY <2>4, FS_Union
    <3>3. QED
      BY <2>4, <3>1, <3>2
  <2>6. Cardinality(U(k) \cup bs[k]) <= Cardinality(U(l))
    BY <2>3, <2>4, FS_Subset
  <2>7. QED
    BY <2>5, <2>6
<1>5. ASSUME NEW k \in 1..n, NEW l \in 1..n, k < l
      PROVE  Before(JobsOf(bs)[k], JobsOf(bs)[l])
  <2> HIDE DEF U
  <2>1. QED
    BY <1>2, <1>3, <1>4, <1>5 DEF Before
<1>6. \A k, l \in 1..n : k # l => k < l \/ l < k
  OBVIOUS
<1>7. \A k \in 1..n : bs[k] # {}
  BY <1>1
<1>8. QED
  BY <1>3, <1>5, <1>6, <1>7 DEF Apart

\* The jobs in the queue, the jobs in hand and the results are apart from each
\* other: no two hold the same file, and their start indexes are in the order of
\* their files.
WorkApart ==
    /\ \A i, j \in DOMAIN jobs : i # j => Apart(jobs[i], jobs[j])
    /\ \A r, s \in results : r # s => Apart(r, s)
    /\ \A v, w \in Slots : v # w /\ Busy(v) /\ Busy(w) => Apart(task[v].job, task[w].job)
    /\ \A i \in DOMAIN jobs, r \in results : Apart(jobs[i], r)
    /\ \A i \in DOMAIN jobs, w \in Slots : Busy(w) => Apart(jobs[i], task[w].job)
    /\ \A w \in Slots, r \in results : Busy(w) => Apart(task[w].job, r)

\* No work is empty, and none is on a file of another chunk or in quarantine.
WorkIsNew ==
    /\ \A i \in DOMAIN jobs : jobs[i].items # {} /\ jobs[i].items \subseteq Chunk \ quarantine
    /\ \A w \in Slots : task[w].job.items \subseteq Chunk \ quarantine
    /\ \A r \in results : r.items # {} /\ r.items \subseteq Chunk \ quarantine

\* The worker, and the pool's view of it, stay within the job.
TaskFits ==
    \A w \in Slots :
        /\ task[w].left \cup task[w].inFlight \subseteq task[w].job.items
        /\ \A f, g \in task[w].inFlight : f = g

OInv == IInv /\ WorkApart /\ WorkIsNew /\ TaskFits

LEMMA AllIsWork ==
    ASSUME TypeOK
    PROVE  /\ \A i \in DOMAIN jobs : IsWork(jobs[i])
           /\ \A w \in Slots : IsWork(task[w].job)
           /\ \A r \in results : IsWork(r)
<1>1. \A i \in DOMAIN jobs : jobs[i] \in Job
  BY DEF TypeOK
<1>2. \A w \in Slots : task[w].job \in Job
  BY DEF TypeOK, Task
<1>3. QED
  BY <1>1, <1>2 DEF TypeOK, IsWork, Job

LEMMA ApartSymmetric ==
    ASSUME NEW p, NEW q
    PROVE  Apart(p, q) <=> Apart(q, p)
BY DEF Apart

LEMMA ConcatIndex ==
    ASSUME NEW p \in Seq(Job), NEW q \in Seq(Job), NEW i \in DOMAIN (p \o q)
    PROVE  \/ i \in DOMAIN p /\ (p \o q)[i] = p[i]
           \/ \E j \in DOMAIN q : i = Len(p) + j /\ (p \o q)[i] = q[j]
<1>1. /\ i \in 1..(Len(p) + Len(q))
      /\ DOMAIN p = 1..Len(p) /\ DOMAIN q = 1..Len(q)
      /\ Len(p) \in Nat /\ Len(q) \in Nat
  OBVIOUS
<1>2. CASE i \in 1..Len(p)
  BY <1>1, <1>2
<1>3. CASE i \notin 1..Len(p)
  <2>1. i - Len(p) \in 1..Len(q) /\ i = Len(p) + (i - Len(p))
    BY <1>1, <1>3
  <2>2. (p \o q)[i] = q[i - Len(p)]
    BY <1>1, <1>3
  <2>3. QED
    BY <1>1, <2>1, <2>2
<1>4. QED
  BY <1>2, <1>3

\* Slot w is through with its job, and others at most end theirs.
TasksEnd(w) == task'[w] = NoTask /\ \A v \in Slots : task'[v] = task[v] \/ task'[v] = NoTask

\* Steps that leave queue, results and quarantine alone and start no job.
LEMMA FewerTasksOrder ==
    ASSUME OInv, UNCHANGED <<dispatchNo, jobs, results, quarantine>>,
           \A v \in Slots : task'[v].job = task[v].job \/ task'[v] = NoTask
    PROVE  WorkApart' /\ WorkIsNew'
<1>1. \A v \in Slots : Busy(v)' => Busy(v) /\ task'[v].job = task[v].job
  BY NoTaskType DEF Busy
<1>2. \A v \in Slots : task'[v].job.items \subseteq task[v].job.items
  BY NoTaskType
<1>3. Chunk' = Chunk
  BY DEF Chunk
<1>4. WorkApart'
  BY <1>1 DEF OInv, WorkApart
<1>5. WorkIsNew'
  BY <1>2, <1>3 DEF OInv, WorkIsNew
<1>6. QED
  BY <1>4, <1>5

LEMMA TaskEndsFit ==
    ASSUME TaskFits, \A v \in Slots : task'[v] = task[v] \/ task'[v] = NoTask
    PROVE  TaskFits'
BY DEF TaskFits, NoTask, Assigned, NoJob

\* A job goes back to the queue, as a whole, without its culprit or in halves.
LEMMA HandBackOrder ==
    ASSUME OInv, NEW w \in Slots, Busy(w), NEW given \in Seq(Job), jobs' = given \o jobs,
           UNCHANGED <<dispatchNo, results>>, TasksEnd(w),
           \A i \in DOMAIN given : Within(given[i], task[w].job) /\ given[i].items # {},
           \A i, j \in DOMAIN given : i # j => Apart(given[i], given[j]),
           quarantine \subseteq quarantine',
           quarantine' \subseteq quarantine \cup task[w].job.items,
           \A i \in DOMAIN given : given[i].items \cap quarantine' = {}
    PROVE  WorkApart' /\ WorkIsNew'
<1> DEFINE own == task[w].job
<1>1. /\ \A v \in Slots : Busy(v)' => v # w /\ Busy(v) /\ task'[v].job = task[v].job
      /\ task'[w].job.items = {}
      /\ \A v \in Slots \ {w} : task'[v].job.items # {} => task'[v].job.items = task[v].job.items
  BY NoTaskType DEF Busy, TasksEnd
<1>2. /\ TypeOK /\ WorkApart /\ jobs \in Seq(Job)
      /\ \A i \in DOMAIN jobs : IsWork(jobs[i])
      /\ \A v \in Slots : IsWork(task[v].job)
      /\ \A r \in results : IsWork(r)
  BY AllIsWork DEF OInv, IInv, TypeOK
<1>3. \A i \in DOMAIN given : IsWork(given[i])
  <2>1. \A i \in DOMAIN given : given[i] \in Job
    OBVIOUS
  <2>2. QED
    BY <2>1 DEF IsWork, Job
<1>4. /\ \A i \in DOMAIN jobs : Apart(own, jobs[i])
      /\ \A r \in results : Apart(own, r)
      /\ \A v \in Slots : v # w /\ Busy(v) => Apart(own, task[v].job)
  BY <1>2, ApartSymmetric DEF WorkApart
<1>5. ASSUME NEW i \in DOMAIN given
      PROVE  /\ \A j \in DOMAIN jobs : Apart(given[i], jobs[j]) /\ Apart(jobs[j], given[i])
             /\ \A r \in results : Apart(given[i], r)
             /\ \A v \in Slots : v # w /\ Busy(v) => Apart(given[i], task[v].job)
  <2>1. IsWork(given[i]) /\ IsWork(own) /\ Within(given[i], own)
    BY <1>2, <1>3
  <2> HIDE DEF own
  <2>2. ASSUME NEW p, IsWork(p), Apart(own, p)
        PROVE  Apart(given[i], p) /\ Apart(p, given[i])
    BY <2>1, <2>2, ApartWithin
  <2>3. QED
    BY <1>2, <1>4, <2>2
<1>6. \A i \in DOMAIN jobs' :
         \/ i \in DOMAIN given /\ jobs'[i] = given[i]
         \/ \E j \in DOMAIN jobs : i = Len(given) + j /\ jobs'[i] = jobs[j]
  BY <1>2, ConcatIndex
<1>7. \A i, j \in DOMAIN jobs' : i # j => Apart(jobs'[i], jobs'[j])
  <2> SUFFICES ASSUME NEW i \in DOMAIN jobs', NEW j \in DOMAIN jobs', i # j
               PROVE  Apart(jobs'[i], jobs'[j])
    OBVIOUS
  <2>1. CASE i \in DOMAIN given /\ jobs'[i] = given[i]
    <3>1. CASE j \in DOMAIN given /\ jobs'[j] = given[j]
      BY <2>1, <3>1
    <3>2. CASE \E l \in DOMAIN jobs : jobs'[j] = jobs[l]
      BY <1>5, <2>1, <3>2
    <3>3. QED
      BY <1>6, <3>1, <3>2
  <2>2. ASSUME NEW k \in DOMAIN jobs, i = Len(given) + k, jobs'[i] = jobs[k]
        PROVE  Apart(jobs'[i], jobs'[j])
    <3>1. CASE j \in DOMAIN given /\ jobs'[j] = given[j]
      BY <1>5, <2>2, <3>1
    <3>2. CASE \E l \in DOMAIN jobs : j = Len(given) + l /\ jobs'[j] = jobs[l]
      <4>1. PICK l \in DOMAIN jobs : j = Len(given) + l /\ jobs'[j] = jobs[l]
        BY <3>2
      <4>2. k # l
        BY <2>2, <4>1
      <4>3. QED
        BY <1>2, <2>2, <4>1, <4>2 DEF WorkApart
    <3>3. QED
      BY <1>6, <3>1, <3>2
  <2>3. QED
    BY <1>6, <2>1, <2>2
<1>8. WorkApart'
  <2>1. \A i \in DOMAIN jobs', r \in results' : Apart(jobs'[i], r)
    BY <1>2, <1>5, <1>6 DEF WorkApart
  <2>2. \A i \in DOMAIN jobs', v \in Slots : Busy(v)' => Apart(jobs'[i], task'[v].job)
    BY <1>1, <1>2, <1>5, <1>6 DEF WorkApart
  <2>3. QED
    BY <1>1, <1>2, <1>7, <2>1, <2>2 DEF WorkApart
<1>9. WorkIsNew'
  <2>1. Chunk' = Chunk
    BY DEF Chunk
  <2>2. \A i \in DOMAIN jobs : jobs[i].items \cap own.items = {}
    BY <1>2, <1>4, ApartDisjoint
  <2>3. \A r \in results : r.items \cap own.items = {}
    BY <1>2, <1>4, ApartDisjoint
  <2>4. \A v \in Slots : v # w /\ Busy(v) => task[v].job.items \cap own.items = {}
    BY <1>2, <1>4, ApartDisjoint
  <2>5. \A i \in DOMAIN given : given[i].items \subseteq own.items
    BY DEF Within
  <2>6. \A i \in DOMAIN jobs' : jobs'[i].items # {} /\ jobs'[i].items \subseteq Chunk' \ quarantine'
    BY <1>6, <2>1, <2>2, <2>5 DEF OInv, WorkIsNew
  <2>7. \A v \in Slots : task'[v].job.items \subseteq Chunk' \ quarantine'
    BY <1>1, <2>1, <2>4 DEF OInv, WorkIsNew, Busy
  <2>8. \A r \in results' : r.items # {} /\ r.items \subseteq Chunk' \ quarantine'
    BY <2>1, <2>3 DEF OInv, WorkIsNew
  <2>9. QED
    BY <2>6, <2>7, <2>8 DEF WorkIsNew
<1>10. QED
  BY <1>8, <1>9

LEMMA DispatchOrder ==
    ASSUME OInv, DispatchRefused \/ DispatchEmpty \/ Dispatch
    PROVE  WorkApart' /\ WorkIsNew' /\ TaskFits'
<1>1. promise # "pending" /\ dispatchNo \in 0..Len(Chunks) /\ dispatchNo < Len(Chunks)
  BY DEF DispatchRefused, DispatchEmpty, Dispatch, CanDispatch, OInv, IInv, TypeOK
<1>2. UNCHANGED <<task, quarantine>> /\ results' = {} /\ dispatchNo' = dispatchNo + 1
  BY DEF DispatchRefused, DispatchEmpty, Dispatch, poolVars
<1>3. \A w \in Slots : ~Busy(w)' /\ task'[w].job.items = {}
  BY <1>1, <1>2 DEF OInv, IInv, WorkInProgress, Busy
<1>4. Chunk' = Chunks[dispatchNo + 1]
  BY <1>1, <1>2 DEF Chunk
<1>5. TaskFits'
  BY <1>2 DEF OInv, TaskFits
<1>6. CASE DispatchRefused \/ DispatchEmpty
  <2>1. jobs' = <<>>
    BY <1>6 DEF DispatchRefused, DispatchEmpty
  <2>2. DOMAIN jobs' = {}
    BY <2>1
  <2>3. QED
    BY <1>2, <1>3, <1>5, <2>2 DEF WorkApart, WorkIsNew
<1>7. CASE Dispatch
  <2>1. PICK bs \in Batchings(Dispatchable(Chunks[dispatchNo + 1])) : jobs' = JobsOf(bs)
    BY <1>7 DEF Dispatch
  <2>2. Dispatchable(Chunks[dispatchNo + 1]) \in SUBSET Files
    BY <1>1, PoolAssumption DEF Dispatchable
  <2>3. /\ \A k \in DOMAIN jobs' : jobs'[k].items # {}
        /\ \A k, l \in DOMAIN jobs' : k # l => Apart(jobs'[k], jobs'[l])
    BY <2>1, <2>2, JobsOfApart
  <2>4. FilesIn(jobs') = Chunk' \ quarantine'
    BY <1>2, <1>4, <2>1, <2>2, JobsOfBatches DEF Dispatchable
  <2>5. \A k \in DOMAIN jobs' : jobs'[k].items \subseteq Chunk' \ quarantine'
    BY <2>4 DEF FilesIn
  <2>6. QED
    BY <1>2, <1>3, <1>5, <2>3, <2>5 DEF WorkApart, WorkIsNew
<1>8. QED
  BY <1>6, <1>7

\* No queued file is in quarantine: a slot takes the first job as it is.
LEMMA TakesFirst ==
    ASSUME OInv, NEW w \in Slots, RunWorker(w)
    PROVE  \/ jobs' = jobs /\ UNCHANGED task
           \/ /\ jobs # <<>> /\ jobs' = Tail(jobs)
              /\ task' = [task EXCEPT ![w] = Assigned(jobs[1])]
<1>1. jobs \in Seq(Job) /\ Len(jobs) \in Nat /\ DOMAIN jobs = 1..Len(jobs)
  BY DEF OInv, IInv, TypeOK
<1>2. \A i \in DOMAIN jobs : Dispatchable(jobs[i].items) = jobs[i].items /\ ~Quarantined(jobs[i])
  BY DEF OInv, WorkIsNew, Dispatchable, Quarantined
<1>3. CASE jobs = <<>>
  BY <1>3 DEF RunWorker
<1>4. CASE jobs # <<>>
  <2> DEFINE Taken(k) == [jobs[k] EXCEPT !.items = Dispatchable(@)]
             Rest(k) == SubSeq(jobs, k + 1, Len(jobs))
  <2>1. 1 \in DOMAIN jobs
    BY <1>1, <1>4
  <2>2. PICK k \in DOMAIN jobs :
           /\ \A i \in 1..(k - 1) : Quarantined(jobs[i])
           /\ IF worker[w] = "none"
              THEN jobs' = <<Taken(k)>> \o Rest(k) /\ UNCHANGED task
              ELSE jobs' = Rest(k) /\ task' = [task EXCEPT ![w] = Assigned(Taken(k))]
    BY <1>2, <2>1 DEF RunWorker
  <2>3. k = 1
    <3>1. k \in 1..Len(jobs) /\ (k # 1 => 1 \in 1..(k - 1))
      BY <1>1
    <3>2. QED
      BY <1>2, <2>1, <2>2, <3>1
  <2>4. Taken(1) = jobs[1]
    <3>1. jobs[1] \in Job
      BY <1>1, <2>1
    <3>2. QED
      BY <1>2, <2>1, <3>1 DEF Job
  <2>5. Rest(1) = Tail(jobs)
    BY <1>1, <1>4
  <2>6. <<jobs[1]>> \o Tail(jobs) = jobs
    BY <1>1, <1>4
  <2> HIDE DEF Taken, Rest
  <2>7. QED
    BY <1>4, <2>2, <2>3, <2>4, <2>5, <2>6
<1>5. QED
  BY <1>3, <1>4

LEMMA RunWorkerOrder ==
    ASSUME OInv, NEW w \in Slots, RunWorker(w)
    PROVE  WorkApart' /\ WorkIsNew' /\ TaskFits'
<1>1. UNCHANGED <<dispatchNo, results, quarantine>> /\ w \in turn
  BY DEF RunWorker, poolVars
<1>2. ~Busy(w)
  BY <1>1 DEF OInv, IInv, WorkInProgress
<1>3. CASE jobs' = jobs /\ UNCHANGED task
  BY <1>1, <1>3, FewerTasksOrder DEF OInv, TaskFits
<1>4. ASSUME jobs # <<>>, jobs' = Tail(jobs), task' = [task EXCEPT ![w] = Assigned(jobs[1])]
      PROVE  WorkApart' /\ WorkIsNew' /\ TaskFits'
  <2>1. jobs \in Seq(Job) /\ Len(jobs) \in Nat /\ Len(jobs) # 0 /\ DOMAIN jobs = 1..Len(jobs)
    BY <1>4 DEF OInv, IInv, TypeOK
  <2>2. /\ 1 \in DOMAIN jobs
        /\ \A i \in DOMAIN jobs' : i + 1 \in DOMAIN jobs /\ i + 1 # 1 /\ jobs'[i] = jobs[i + 1]
        /\ \A i, j \in DOMAIN jobs' : i # j => i + 1 # j + 1
    BY <1>4, <2>1
  <2>3. /\ task'[w] = Assigned(jobs[1]) /\ task'[w].job = jobs[1]
        /\ \A v \in Slots \ {w} : task'[v] = task[v]
    BY <1>4 DEF OInv, IInv, TypeOK, Assigned
  <2>4. \A v \in Slots \ {w} : Busy(v)' <=> Busy(v)
    BY <2>3 DEF Busy
  <2>5. WorkApart'
    <3>1. \A i, j \in DOMAIN jobs' : i # j => Apart(jobs'[i], jobs'[j])
      BY <2>2 DEF OInv, WorkApart
    <3>2. \A u, v \in Slots : u # v /\ Busy(u)' /\ Busy(v)' => Apart(task'[u].job, task'[v].job)
      BY <2>2, <2>3, <2>4, ApartSymmetric DEF OInv, WorkApart
    <3>3. \A i \in DOMAIN jobs', r \in results' : Apart(jobs'[i], r)
      BY <1>1, <2>2 DEF OInv, WorkApart
    <3>4. \A i \in DOMAIN jobs', v \in Slots : Busy(v)' => Apart(jobs'[i], task'[v].job)
      BY <2>2, <2>3, <2>4 DEF OInv, WorkApart
    <3>5. \A v \in Slots, r \in results' : Busy(v)' => Apart(task'[v].job, r)
      BY <1>1, <2>2, <2>3, <2>4 DEF OInv, WorkApart
    <3>6. QED
      BY <1>1, <3>1, <3>2, <3>3, <3>4, <3>5 DEF OInv, WorkApart
  <2>6. WorkIsNew'
    <3>1. Chunk' = Chunk
      BY <1>1 DEF Chunk
    <3>2. QED
      BY <1>1, <2>2, <2>3, <3>1 DEF OInv, WorkIsNew
  <2>7. TaskFits'
    BY <2>3 DEF OInv, TaskFits, Assigned
  <2>8. QED
    BY <2>5, <2>6, <2>7
<1>5. QED
  BY <1>3, <1>4, TakesFirst

LEMMA MessageOrder ==
    ASSUME OInv, NEW w \in Slots, StartingFile(w) \/ Progress(w) \/ SubBatchDone(w)
    PROVE  WorkApart' /\ WorkIsNew' /\ TaskFits'
<1>1. task \in [Slots -> Task] /\ task[w] \in Task
  BY DEF OInv, IInv, TypeOK
<1>2. PICK new : /\ View(w, new) /\ new.job = task[w].job
                 /\ new.left \subseteq task[w].left
                 /\ new.inFlight \subseteq task[w].left \cup task[w].inFlight
                 /\ \A f, g \in new.inFlight : f = g
  <2>1. CASE StartingFile(w)
    <3>1. PICK f \in task[w].left :
             View(w, [task[w] EXCEPT !.left = @ \ {f}, !.doing = {f}, !.inFlight = {f}])
      BY <2>1 DEF StartingFile
    <3> DEFINE new == [task[w] EXCEPT !.left = @ \ {f}, !.doing = {f}, !.inFlight = {f}]
    <3>2. new.job = task[w].job /\ new.left \subseteq task[w].left /\ new.inFlight = {f}
      BY <1>1 DEF Task
    <3> HIDE DEF new
    <3>3. QED
      BY <3>1, <3>2 DEF new
  <2>2. CASE Progress(w)
    <3> DEFINE Counted(f) == [task[w] EXCEPT !.left = @ \ {f}, !.doing = {}, !.seen = @ + 1,
                                             !.inFlight = {}]
               parsed == [task[w] EXCEPT !.seen = @ + 1, !.inFlight = {}]
    <3>1. /\ parsed.job = task[w].job /\ parsed.left = task[w].left /\ parsed.inFlight = {}
          /\ \A f : /\ Counted(f).job = task[w].job
                    /\ Counted(f).left \subseteq task[w].left /\ Counted(f).inFlight = {}
      BY <1>1 DEF Task
    <3>2. View(w, parsed) \/ \E f \in task[w].left : View(w, Counted(f))
      BY <2>2 DEF Progress
    <3> HIDE DEF parsed, Counted
    <3>3. QED
      BY <3>1, <3>2
  <2>3. CASE SubBatchDone(w)
    <3> DEFINE new == [task[w] EXCEPT !.left = {}, !.doing = {}, !.flushing = TRUE]
    <3>1. new.job = task[w].job /\ new.left = {} /\ new.inFlight = task[w].inFlight
      BY <1>1 DEF Task
    <3>2. View(w, new)
      BY <2>3 DEF SubBatchDone
    <3> HIDE DEF new
    <3>3. QED
      BY <3>1, <3>2 DEF OInv, TaskFits
  <2>4. QED
    BY <2>1, <2>2, <2>3
<1>3. task'[w] = new /\ \A v \in Slots \ {w} : task'[v] = task[v]
  BY <1>1, <1>2 DEF View
<1>4. UNCHANGED <<dispatchNo, jobs, results, quarantine>>
  BY <1>2 DEF View, poolVars
<1>5. TaskFits'
  BY <1>2, <1>3 DEF OInv, TaskFits
<1>6. QED
  BY <1>2, <1>3, <1>4, <1>5, FewerTasksOrder

LEMMA ResultOrder ==
    ASSUME OInv, NEW w \in Slots, Result(w)
    PROVE  WorkApart' /\ WorkIsNew' /\ TaskFits'
<1> DEFINE own == task[w].job
           new == [start |-> own.start, items |-> own.items]
<1>1. Busy(w) /\ own \in Job
  BY DEF Result, Listening, OInv, IInv, TypeOK, Task
<1>2. UNCHANGED <<dispatchNo, jobs, quarantine>> /\ results' = results \cup {new}
  BY DEF Result
<1>3. new.start = own.start /\ new.items = own.items
  OBVIOUS
<1>4. /\ task'[w] = NoTask /\ ~Busy(w)'
      /\ \A v \in Slots \ {w} : task'[v] = task[v] /\ (Busy(v)' <=> Busy(v))
  BY NoTaskType DEF Result, OInv, IInv, TypeOK, Busy
<1> HIDE DEF new
<1>5. \A p : (Apart(p, own) => Apart(p, new)) /\ (Apart(own, p) => Apart(new, p))
  BY <1>3 DEF Apart, Before
<1>6. WorkApart'
  <2>1. \A r, s \in results' : r # s => Apart(r, s)
    BY <1>1, <1>2, <1>5, ApartSymmetric DEF OInv, WorkApart
  <2>2. \A i \in DOMAIN jobs', r \in results' : Apart(jobs'[i], r)
    BY <1>1, <1>2, <1>5 DEF OInv, WorkApart
  <2>3. \A v \in Slots, r \in results' : Busy(v)' => Apart(task'[v].job, r)
    BY <1>1, <1>2, <1>4, <1>5 DEF OInv, WorkApart
  <2>4. QED
    BY <1>2, <1>4, <2>1, <2>2, <2>3 DEF OInv, WorkApart
<1>7. WorkIsNew'
  <2>1. Chunk' = Chunk
    BY <1>2 DEF Chunk
  <2>2. QED
    BY <1>1, <1>2, <1>3, <1>4, <2>1, NoTaskType DEF OInv, WorkIsNew, Busy
<1>8. TaskFits'
  BY <1>4, TaskEndsFit DEF OInv
<1>9. QED
  BY <1>6, <1>7, <1>8

\* A death is blamed on one file of the job, or on none.
LEMMA CulpritOfJob ==
    ASSUME TypeOK, TaskFits, NEW w \in Slots,
           NEW excluded \in {ExcludePaths(w), Stalled(w)}
    PROVE  /\ Culprits(task[w].job, excluded) \in SUBSET task[w].job.items
           /\ \A f, g \in Culprits(task[w].job, excluded) : f = g
<1>1. task[w].job.items \in SUBSET Files /\ task[w].inFlight \subseteq task[w].job.items
  BY DEF TypeOK, Task, Job, TaskFits
<1>2. /\ First(task[w].job.items) \subseteq task[w].job.items
      /\ \A f, g \in First(task[w].job.items) : f = g
  BY <1>1, FirstType, AtMostOneFirst
<1>3. ExcludePaths(w) \subseteq task[w].job.items /\ \A f, g \in ExcludePaths(w) : f = g
  BY <1>1, RankInjective DEF ExcludePaths, TaskFits
<1>4. Stalled(w) \subseteq task[w].job.items /\ \A f, g \in Stalled(w) : f = g
  BY <1>1, <1>2 DEF Stalled, TaskFits
<1>5. QED
  BY <1>2, <1>3, <1>4 DEF Culprits

LEMMA TripEndsTasks ==
    ASSUME NEW w \in Slots, TripBreaker
    PROVE  TasksEnd(w)
BY DEF TripBreaker, TasksEnd

LEMMA SlotEndsTask ==
    ASSUME TypeOK, NEW w \in Slots, task' = [task EXCEPT ![w] = NoTask]
    PROVE  TasksEnd(w)
BY DEF TypeOK, TasksEnd

LEMMA LoseSlotEndsTask ==
    ASSUME TypeOK, NEW w \in Slots, NEW n, LoseSlot(w, n)
    PROVE  TasksEnd(w)
<1>1. TripBreaker \/ task' = [task EXCEPT ![w] = NoTask]
  BY DEF LoseSlot
<1>2. QED
  BY <1>1, TripEndsTasks, SlotEndsTask

LEMMA DeathEndsTask ==
    ASSUME TypeOK, NEW w \in Slots, NEW retire \in BOOLEAN, Death(w, retire)
    PROVE  TasksEnd(w)
<1>1. \/ TripBreaker \/ LoseSlot(w, dispatchNo)
      \/ \E stage, held : Suspend(w, stage, held)
  BY DEF Death
<1>2. QED
  BY <1>1, TripEndsTasks, SlotEndsTask, LoseSlotEndsTask DEF Suspend

LEMMA CrashOrder ==
    ASSUME OInv, NEW w \in Slots, Crash(w) \/ TimeoutGiveUp(w)
    PROVE  WorkApart' /\ WorkIsNew' /\ TaskFits'
<1> DEFINE own == task[w].job
<1>1. Busy(w) /\ own \in Job /\ TypeOK /\ jobs \in Seq(Job)
  BY DEF Crash, TimeoutGiveUp, Listening, TimesOut, OInv, IInv, TypeOK, Task
<1>2. UNCHANGED <<dispatchNo, results>> /\ TasksEnd(w)
  BY <1>1, DeathEndsTask DEF Crash, TimeoutGiveUp
<1>3. PICK excluded \in {ExcludePaths(w), Stalled(w)} : RequeueRemainder(own, excluded)
  BY DEF Crash, TimeoutGiveUp
<1> DEFINE blamed == Culprits(own, excluded)
           rest == own.items \ blamed
           kept == [own EXCEPT !.items = rest]
<1>4. blamed \subseteq own.items
  BY <1>1, CulpritOfJob DEF OInv
<1>5. /\ quarantine' = quarantine \cup blamed
      /\ jobs' = IF rest = {} THEN jobs ELSE <<kept>> \o jobs
  BY <1>3 DEF RequeueRemainder
<1>6. own.items \cap quarantine = {}
  BY DEF OInv, WorkIsNew
<1>7. WorkApart' /\ WorkIsNew'
  <2>1. CASE rest = {}
    <3>1. jobs' = <<>> \o jobs /\ <<>> \in Seq(Job) /\ DOMAIN <<>> = {}
      BY <1>1, <1>5, <2>1
    <3> HIDE DEF blamed
    <3>2. QED
      BY <1>1, <1>2, <1>4, <1>5, <3>1, HandBackOrder
  <2>2. CASE rest # {}
    <3>1. kept \in Job /\ kept.items = rest /\ kept.start = own.start
      BY <1>1 DEF Job
    <3>2. Within(kept, own)
      <4>1. rest \in SUBSET own.items /\ own.items \in SUBSET Files /\ own.start \in Nat
        BY <1>1 DEF Job
      <4>2. Cardinality(rest) <= Cardinality(own.items)
        BY <4>1, FilesCardinality, FS_Subset
      <4>3. Cardinality(rest) \in Nat /\ Cardinality(own.items) \in Nat
        BY <4>1, FilesCardinality
      <4>4. QED
        BY <3>1, <4>1, <4>2, <4>3 DEF Within
    <3>3. kept.items \cap quarantine' = {} /\ kept.items # {}
      BY <1>5, <1>6, <2>2, <3>1
    <3>4. jobs' = <<kept>> \o jobs
      BY <1>5, <2>2
    <3> HIDE DEF kept, rest, blamed
    <3>5. <<kept>> \in Seq(Job) /\ DOMAIN <<kept>> = {1} /\ <<kept>>[1] = kept
      BY <3>1
    <3> DEFINE given == <<kept>>
    <3>6. /\ \A i \in DOMAIN given : /\ Within(given[i], own) /\ given[i].items # {}
                                     /\ given[i].items \cap quarantine' = {}
          /\ \A i, j \in DOMAIN given : i = j
      BY <3>2, <3>3, <3>5
    <3>7. given \in Seq(Job) /\ jobs' = given \o jobs
      BY <3>4, <3>5
    <3> HIDE DEF given
    <3>8. QED
      BY <1>1, <1>2, <1>4, <1>5, <3>6, <3>7, HandBackOrder
  <2>3. QED
    BY <2>1, <2>2
<1>8. TaskFits'
  BY <1>2, TaskEndsFit DEF OInv, TasksEnd
<1>9. QED
  BY <1>7, <1>8

LEMMA TimeoutRetryOrder ==
    ASSUME OInv, NEW w \in Slots, TimeoutRetry(w)
    PROVE  WorkApart' /\ WorkIsNew' /\ TaskFits'
<1> DEFINE own == task[w].job
           given == Pieces(own)
<1>1. Busy(w) /\ own \in Job /\ TypeOK /\ own.items # {}
  BY DEF TimeoutRetry, TimesOut, OInv, IInv, TypeOK, Task, Busy
<1>2. /\ UNCHANGED <<dispatchNo, results, quarantine>>
      /\ jobs' = given \o jobs
  BY DEF TimeoutRetry
<1>3. TasksEnd(w)
  <2>1. \/ TripBreaker \/ LoseSlot(w, dispatchNo)
        \/ Suspend(w, "spawning", TRUE)
    BY DEF TimeoutRetry
  <2>2. QED
    BY <1>1, <2>1, TripEndsTasks, SlotEndsTask, LoseSlotEndsTask DEF Suspend
<1>4. /\ given \in Seq(Job)
      /\ \A i \in DOMAIN given : Within(given[i], own) /\ given[i].items # {}
      /\ \A i, j \in DOMAIN given : i # j => Apart(given[i], given[j])
  BY <1>1, PiecesOfJob, PiecesApart
<1>5. \A i \in DOMAIN given : given[i].items \cap quarantine' = {}
  BY <1>2, <1>4 DEF OInv, WorkIsNew, Within
<1> HIDE DEF given
<1>6. WorkApart' /\ WorkIsNew'
  BY <1>1, <1>2, <1>3, <1>4, <1>5, HandBackOrder
<1>7. TaskFits'
  BY <1>3, TaskEndsFit DEF OInv, TasksEnd
<1>8. QED
  BY <1>6, <1>7

\* Replacements, idle exits, retired threads and terminate() hand out no work.
LEMMA OtherStepOrder ==
    ASSUME OInv,
           \/ \E w \in Slots : RecoveryStep(w) \/ IdleExit(w) \/ DoomedExit(w)
           \/ RetiredEnds \/ Terminate \/ TerminateDone \/ UNCHANGED vars
    PROVE  WorkApart' /\ WorkIsNew' /\ TaskFits'
<1>1. UNCHANGED <<dispatchNo, jobs, results, quarantine>>
  BY DEF RecoveryStep, WorkerEnded, ReplacementFails, ReplacementRecalled, ReplacementReady,
         SlotLost, Advance, IdleExit, DoomedExit, RetiredEnds, Terminate, TerminateDone,
         vars, dispatchVars, poolVars
<1>2. \A v \in Slots : task'[v] = task[v] \/ task'[v] = NoTask
  <2>1. CASE \E w \in Slots : SlotLost(w)
    BY <2>1, LoseSlotEndsTask DEF SlotLost, TasksEnd, OInv, IInv
  <2>2. CASE ~ \E w \in Slots : SlotLost(w)
    BY <2>2 DEF RecoveryStep, WorkerEnded, ReplacementFails, ReplacementRecalled,
         ReplacementReady, Advance, IdleExit, DoomedExit, RetiredEnds, Terminate,
         TerminateDone, vars, dispatchVars, poolVars
  <2>3. QED
    BY <2>1, <2>2
<1>3. QED
  BY <1>1, <1>2, FewerTasksOrder, TaskEndsFit DEF OInv

LEMMA OrderInductive == Spec => []OInv
<1>1. Init /\ IInv => OInv
  <2> SUFFICES ASSUME Init, IInv
               PROVE  WorkApart /\ WorkIsNew /\ TaskFits
    BY DEF OInv
  <2>1. /\ jobs = <<>> /\ DOMAIN jobs = {} /\ results = {}
        /\ \A w \in Slots : task[w] = NoTask /\ ~Busy(w)
    BY NoTaskType DEF Init, Busy
  <2>2. QED
    BY <2>1, NoTaskType DEF WorkApart, WorkIsNew, TaskFits, NoTask, Assigned, NoJob
<1>2. OInv /\ IInv' /\ [Next]_vars => OInv'
  <2> SUFFICES ASSUME OInv, [Next]_vars
               PROVE  WorkApart' /\ WorkIsNew' /\ TaskFits'
    BY DEF OInv
  <2>1. CASE DispatchRefused \/ DispatchEmpty \/ Dispatch
    BY <2>1, DispatchOrder
  <2>2. ASSUME NEW w \in Slots, RunWorker(w)
        PROVE  WorkApart' /\ WorkIsNew' /\ TaskFits'
    BY <2>2, RunWorkerOrder
  <2>3. ASSUME NEW w \in Slots, JobEvent(w)
        PROVE  WorkApart' /\ WorkIsNew' /\ TaskFits'
    BY <2>3, MessageOrder, ResultOrder, CrashOrder, TimeoutRetryOrder DEF JobEvent
  <2>4. CASE \/ \E w \in Slots : RecoveryStep(w) \/ IdleExit(w) \/ DoomedExit(w)
             \/ RetiredEnds \/ Terminate \/ TerminateDone \/ UNCHANGED vars
    BY <2>4, OtherStepOrder
  <2>5. QED
    BY <2>1, <2>2, <2>3, <2>4 DEF Next
<1>3. QED
  BY <1>1, <1>2, Inductive, PTL DEF Spec

\* maybeDone sorts the results by startIndex: whatever was split, shrunk, requeued and
\* retried, that is the order of the files, and no two results share an index.
THEOREM ResultsStayInOrder == Spec => []ResultsInOrder
<1>1. OInv => ResultsInOrder
  <2> SUFFICES ASSUME OInv, NEW r \in results, NEW s \in results, r # s
               PROVE  /\ r.start # s.start
                      /\ r.start < s.start => \A f \in r.items, g \in s.items : f < g
    BY DEF ResultsInOrder
  <2>1. IsWork(r) /\ IsWork(s)
    BY AllIsWork DEF OInv, IInv
  <2>2. Apart(r, s) /\ r.items # {} /\ s.items # {}
    BY DEF OInv, WorkApart, WorkIsNew
  <2>3. QED
    BY <2>1, <2>2, ApartDisjoint
<1>2. QED
  BY <1>1, OrderInductive, PTL

-----------------------------------------------------------------------------
(* Threads after terminate() *)

\* Unless terminate() cuts off a dispatch, nothing is pending once it is called,
\* and the threads it was not told about are gone.
NoRevival ==
    /\ shutdown = "no" => \A w \in Slots : worker[w] # "orphan"
    /\ shutdown # "no" =>
         promise # "pending" /\ \A w \in Slots : worker[w] \notin {"live", "orphan"}

LEMMA NoRevivalStep ==
    ASSUME ~MidDispatchTerminate, IInv, NoRevival, [Next]_vars
    PROVE  NoRevival'
<1>1. worker \in [Slots -> WorkerState]
  BY DEF IInv, TypeOK
<1>2. CASE UNCHANGED <<promise, worker, shutdown>>
  BY <1>2 DEF NoRevival
<1>3. CASE DispatchRefused \/ DispatchEmpty \/ Dispatch
  BY <1>3 DEF DispatchRefused, DispatchEmpty, Dispatch, CanDispatch, poolVars, NoRevival
<1>4. ASSUME promise = "pending", shutdown' = shutdown,
             \A v \in Slots : worker'[v] = "orphan" => worker[v] = "orphan"
      PROVE  NoRevival'
  BY <1>4 DEF NoRevival
<1>5. ASSUME NEW w \in Slots, RunWorker(w)
      PROVE  NoRevival'
  BY <1>4, <1>5 DEF RunWorker, poolVars, IInv, WorkInProgress
<1>6. ASSUME NEW w \in Slots, JobEvent(w)
      PROVE  NoRevival'
  <2>1. promise = "pending"
    BY <1>6 DEF JobEvent, StartingFile, Progress, SubBatchDone, Result, Crash, TimeoutGiveUp,
                TimeoutRetry, Listening, TimesOut, IInv, WorkInProgress
  <2>2. shutdown' = shutdown
    BY <1>6 DEF JobEvent, StartingFile, Progress, SubBatchDone, View, poolVars, Result, Crash,
                TimeoutGiveUp, TimeoutRetry
  <2>3. \/ UNCHANGED worker \/ TripBreaker \/ worker' = [worker EXCEPT ![w] = "none"]
    BY <1>6 DEF JobEvent, StartingFile, Progress, SubBatchDone, View, poolVars, Result, Crash,
                TimeoutGiveUp, TimeoutRetry, Death, Suspend, LoseSlot
  <2>4. \A v \in Slots : worker'[v] = "orphan" => worker[v] = "orphan"
    BY <1>1, <2>3 DEF TripBreaker
  <2>5. QED
    BY <1>4, <2>1, <2>2, <2>4
<1>7. ASSUME NEW w \in Slots, RecoveryStep(w)
      PROVE  NoRevival'
  <2>1. CASE WorkerEnded(w) \/ ReplacementFails(w) \/ ReplacementRecalled(w)
    BY <1>2, <2>1 DEF WorkerEnded, ReplacementFails, ReplacementRecalled, Advance, dispatchVars
  <2>2. CASE ReplacementReady(w)
    BY <1>1, <1>4, <2>2 DEF ReplacementReady, Stale, Stopped
  <2>3. CASE SlotLost(w)
    <3>1. shutdown' = shutdown /\ LoseSlot(w, recovery[w].from)
      BY <2>3 DEF SlotLost
    <3>2. \A v \in Slots : worker'[v] \in {worker[v], "none", "orphan"}
                           /\ (worker'[v] = "orphan" => worker[v] = "orphan")
      BY <1>1, <3>1 DEF LoseSlot, TripBreaker
    <3>3. promise = "pending" \/ promise' = promise
      BY <3>1 DEF LoseSlot, Stopped
    <3>4. QED
      BY <3>1, <3>2, <3>3 DEF NoRevival
  <2>4. QED
    BY <1>7, <2>1, <2>2, <2>3 DEF RecoveryStep
<1>8. CASE \E w \in Slots : IdleExit(w) \/ DoomedExit(w)
  BY <1>1, <1>8 DEF IdleExit, DoomedExit, dispatchVars, NoRevival
<1>9. CASE RetiredEnds
  BY <1>2, <1>9 DEF RetiredEnds, dispatchVars
<1>10. CASE Terminate
  <2>1. promise # "pending" /\ promise' = promise /\ shutdown = "no" /\ shutdown' = "terminating"
    BY <1>10 DEF Terminate, dispatchVars
  <2>2. \A v \in Slots : worker'[v] \notin {"live", "orphan"}
    BY <1>1, <1>10, <2>1 DEF Terminate, NoRevival
  <2>3. QED
    BY <2>1, <2>2 DEF NoRevival
<1>11. CASE TerminateDone
  <2>1. promise # "pending" /\ promise' = promise /\ shutdown' = "done"
    BY <1>11 DEF TerminateDone, dispatchVars, NoRevival
  <2>2. \A v \in Slots : worker'[v] \notin {"live", "orphan"}
    BY <1>1, <1>11 DEF TerminateDone, NoRevival
  <2>3. QED
    BY <2>1, <2>2 DEF NoRevival
<1>12. CASE UNCHANGED vars
  BY <1>2, <1>12 DEF vars, dispatchVars, poolVars
<1>13. QED
  BY <1>3, <1>5, <1>6, <1>7, <1>8, <1>9, <1>10, <1>11, <1>12 DEF Next

\* terminate(), called between two dispatches, ends every thread of the pool,
\* replacements that were still on their way included.
THEOREM TerminateEndsThreads ==
    ASSUME ~MidDispatchTerminate
    PROVE  Spec => []NoThreadSurvives
<1>1. Init => NoRevival
  BY DEF Init, NoRevival
<1>2. NoRevival => NoThreadSurvives
  BY DEF NoRevival, NoThreadSurvives
<1>3. IInv /\ NoRevival /\ [Next]_vars => NoRevival'
  BY NoRevivalStep
<1>4. QED
  BY <1>1, <1>2, <1>3, Inductive, PTL DEF Spec

-----------------------------------------------------------------------------
(* The pool implements ParseDispatch *)

\* Nothing is left to do when the promise resolves.
LEMMA SettledIsDone ==
    ASSUME IInv'
    PROVE  Promised!MaySettle
<1> SUFFICES ASSUME promise' = "resolved"
             PROVE  Promised!Todo' = {}
  BY DEF Promised!MaySettle
<1>1. jobs' = <<>> /\ \A w \in Slots : task'[w].job.items = {}
  BY DEF IInv, WorkInProgress, Busy
<1>2. Queued' = {} /\ Running' = {}
  BY <1>1 DEF Queued, FilesIn, Running
<1>3. Chunk' \subseteq Delivered' \cup quarantine'
  BY <1>2 DEF IInv, NoFileLost
<1>4. QED
  BY <1>3 DEF Promised!Todo, Chunk

\* A job in hand is work that is still to be accounted for.
LEMMA JobIsToDo ==
    ASSUME OInv, NEW w \in Slots, Busy(w)
    PROVE  task[w].job.items \subseteq Promised!Todo
<1>1. task[w].job.items \subseteq Chunk \ quarantine
  BY DEF OInv, WorkIsNew
<1>2. \A r \in results : task[w].job.items \cap r.items = {}
  BY AllIsWork, ApartDisjoint DEF OInv, IInv, WorkApart
<1>3. QED
  BY <1>1, <1>2 DEF Promised!Todo, Chunk, Delivered

LEMMA ContinueSettles ==
    ASSUME NEW S, Continue(S)
    PROVE  promise' \in {"pending", "resolved"}
BY DEF Continue, MaybeDone

LEMMA LoseSlotSettles ==
    ASSUME NEW w \in Slots, NEW n, LoseSlot(w, n)
    PROVE  /\ promise' \in {promise, "pending", "resolved", "rejected"}
           /\ promise = "pending" \/ promise' = promise
BY ContinueSettles DEF LoseSlot, TripBreaker, Stopped

LEMMA DeathSettles ==
    ASSUME NEW w \in Slots, NEW retire \in BOOLEAN, Death(w, retire)
    PROVE  promise' \in {promise, "pending", "resolved", "rejected"}
BY LoseSlotSettles DEF Death, TripBreaker, Suspend

\* A step that neither delivers nor gives up a file settles the promise, or
\* cannot be seen from outside.
LEMMA SettleStep ==
    ASSUME IInv', UNCHANGED <<dispatchNo, results, quarantine>>,
           promise = "pending" \/ promise' = promise,
           promise' \in {promise, "pending", "resolved", "rejected"}
    PROVE  [Promised!Next]_(Promised!vars)
<1>1. Delivered' = Delivered
  BY DEF Delivered
<1>2. CASE promise' = promise
  BY <1>1, <1>2 DEF Promised!vars
<1>3. CASE promise' # promise
  BY <1>1, <1>3, SettledIsDone DEF Promised!Settle, Promised!Next
<1>4. QED
  BY <1>2, <1>3

LEMMA BeginStep ==
    ASSUME DispatchRefused \/ DispatchEmpty \/ Dispatch
    PROVE  Promised!Begin
<1>1. /\ promise # "pending" /\ dispatchNo < Len(Chunks) /\ dispatchNo' = dispatchNo + 1
      /\ results' = {} /\ quarantine' = quarantine
  BY DEF DispatchRefused, DispatchEmpty, Dispatch, CanDispatch, poolVars
<1>2. Delivered' = {}
  BY <1>1 DEF Delivered
<1>3. \/ promise' = "rejected"
      \/ promise' = IF Chunks[dispatchNo + 1] \subseteq quarantine THEN "resolved" ELSE "pending"
  BY DEF DispatchRefused, DispatchEmpty, Dispatch, Dispatchable
<1>4. QED
  BY <1>1, <1>2, <1>3 DEF Promised!Begin

\* A result delivers the files of a job, none of which was accounted for.
LEMMA ParseStep ==
    ASSUME OInv, IInv', NEW w \in Slots, Result(w)
    PROVE  Promised!Parse
<1>1. /\ Busy(w) /\ UNCHANGED <<dispatchNo, quarantine>>
      /\ results' = results \cup {[start |-> task[w].job.start, items |-> task[w].job.items]}
      /\ promise' \in {"pending", "resolved"}
  BY ContinueSettles DEF Result, Listening
<1>2. promise = "pending"
  BY <1>1 DEF OInv, IInv, WorkInProgress
<1>3. Delivered' = Delivered \cup task[w].job.items
  <2> DEFINE new == [start |-> task[w].job.start, items |-> task[w].job.items]
  <2>1. results' = results \cup {new} /\ new.items = task[w].job.items
    BY <1>1
  <2> HIDE DEF new
  <2>2. QED
    BY <2>1 DEF Delivered
<1>4. task[w].job.items \in (SUBSET Promised!Todo) \ {{}}
  BY <1>1, JobIsToDo DEF Busy
<1>5. QED
  BY <1>1, <1>2, <1>3, <1>4, SettledIsDone DEF Promised!Parse

\* A death gives up one file of the job, or none.
LEMMA SkipStep ==
    ASSUME OInv, IInv', NEW w \in Slots, Crash(w) \/ TimeoutGiveUp(w)
    PROVE  [Promised!Next]_(Promised!vars)
<1>1. Busy(w) /\ UNCHANGED <<dispatchNo, results>>
  BY DEF Crash, TimeoutGiveUp, Listening, TimesOut
<1>2. promise = "pending" /\ promise' \in {"pending", "resolved", "rejected"}
  BY <1>1, DeathSettles DEF OInv, IInv, WorkInProgress, Crash, TimeoutGiveUp
<1>3. PICK blamed \in SUBSET task[w].job.items :
         /\ quarantine' = quarantine \cup blamed
         /\ \A f, g \in blamed : f = g
  BY CulpritOfJob DEF Crash, TimeoutGiveUp, RequeueRemainder, OInv, IInv
<1>4. CASE blamed = {}
  BY <1>1, <1>2, <1>3, <1>4, SettleStep
<1>5. CASE blamed # {}
  <2>1. PICK f \in blamed : blamed = {f}
    BY <1>3, <1>5
  <2>2. f \in Promised!Todo
    BY <1>1, <2>1, JobIsToDo
  <2>3. Delivered' = Delivered
    BY <1>1 DEF Delivered
  <2>4. Promised!Skip
    BY <1>1, <1>2, <1>3, <2>1, <2>2, <2>3, SettledIsDone DEF Promised!Skip
  <2>5. QED
    BY <2>4 DEF Promised!Next
<1>6. QED
  BY <1>4, <1>5

\* Handing out jobs, a worker's reports and the repeat of a job that timed out
\* are steps inside the pool.
LEMMA InnerStep ==
    ASSUME OInv, IInv', NEW w \in Slots,
           RunWorker(w) \/ StartingFile(w) \/ Progress(w) \/ SubBatchDone(w) \/ TimeoutRetry(w)
    PROVE  [Promised!Next]_(Promised!vars)
<1>1. promise = "pending"
  BY DEF RunWorker, StartingFile, Progress, SubBatchDone, TimeoutRetry, Listening, TimesOut,
         OInv, IInv, WorkInProgress
<1>2. UNCHANGED <<dispatchNo, results, quarantine>>
  BY DEF RunWorker, StartingFile, Progress, SubBatchDone, TimeoutRetry, View, poolVars
<1>3. promise' \in {promise, "pending", "resolved", "rejected"}
  <2>1. CASE RunWorker(w)
    BY <2>1, ContinueSettles DEF RunWorker
  <2>2. CASE StartingFile(w) \/ Progress(w) \/ SubBatchDone(w)
    BY <2>2 DEF StartingFile, Progress, SubBatchDone, View
  <2>3. CASE TimeoutRetry(w)
    BY <2>3, LoseSlotSettles DEF TimeoutRetry, TripBreaker, Suspend
  <2>4. QED
    BY <2>1, <2>2, <2>3
<1>4. QED
  BY <1>1, <1>2, <1>3, SettleStep

\* So are replacements, exits and terminate(), unless they settle the promise.
LEMMA OuterStep ==
    ASSUME IInv',
           \/ \E w \in Slots : RecoveryStep(w) \/ IdleExit(w) \/ DoomedExit(w)
           \/ RetiredEnds \/ Terminate \/ TerminateDone \/ UNCHANGED vars
    PROVE  [Promised!Next]_(Promised!vars)
<1>1. UNCHANGED <<dispatchNo, results, quarantine>>
  BY DEF RecoveryStep, WorkerEnded, ReplacementFails, ReplacementRecalled, ReplacementReady,
         SlotLost, Advance, IdleExit, DoomedExit, RetiredEnds, Terminate, TerminateDone,
         vars, dispatchVars, poolVars
<1>2. /\ promise = "pending" \/ promise' = promise
      /\ promise' \in {promise, "pending", "resolved", "rejected"}
  <2>1. CASE \E w \in Slots : SlotLost(w)
    BY <2>1, LoseSlotSettles DEF SlotLost
  <2>2. CASE \E w \in Slots : ReplacementReady(w)
    BY <2>2, ContinueSettles DEF ReplacementReady, Stale, Stopped
  <2>3. CASE ~ \E w \in Slots : SlotLost(w) \/ ReplacementReady(w)
    BY <2>3 DEF RecoveryStep, WorkerEnded, ReplacementFails, ReplacementRecalled, Advance,
         IdleExit, DoomedExit, RetiredEnds, Terminate, TerminateDone, vars, dispatchVars, poolVars
  <2>4. QED
    BY <2>1, <2>2, <2>3
<1>3. QED
  BY <1>1, <1>2, SettleStep

\* Seen by its caller the pool is ParseDispatch, for every pool size, budget and
\* chunk list: each step of it delivers files that were not accounted for, gives
\* up one of them, settles the promise, begins a dispatch, or is not seen.
THEOREM PoolImplementsParseDispatch == Spec => ImplementsParseDispatch
<1>1. Init => Promised!Init
  BY DEF Init, Promised!Init, Delivered
<1>2. OInv /\ IInv' /\ [Next]_vars => [Promised!Next]_(Promised!vars)
  <2> SUFFICES ASSUME OInv, IInv', [Next]_vars
               PROVE  [Promised!Next]_(Promised!vars)
    OBVIOUS
  <2>1. CASE DispatchRefused \/ DispatchEmpty \/ Dispatch
    BY <2>1, BeginStep DEF Promised!Next
  <2>2. ASSUME NEW w \in Slots, Result(w)
        PROVE  [Promised!Next]_(Promised!vars)
    BY <2>2, ParseStep DEF Promised!Next
  <2>3. ASSUME NEW w \in Slots, Crash(w) \/ TimeoutGiveUp(w)
        PROVE  [Promised!Next]_(Promised!vars)
    BY <2>3, SkipStep
  <2>4. ASSUME NEW w \in Slots,
               RunWorker(w) \/ StartingFile(w) \/ Progress(w) \/ SubBatchDone(w) \/ TimeoutRetry(w)
        PROVE  [Promised!Next]_(Promised!vars)
    BY <2>4, InnerStep
  <2>5. CASE \/ \E w \in Slots : RecoveryStep(w) \/ IdleExit(w) \/ DoomedExit(w)
             \/ RetiredEnds \/ Terminate \/ TerminateDone \/ UNCHANGED vars
    BY <2>5, OuterStep
  <2>6. QED
    BY <2>1, <2>2, <2>3, <2>4, <2>5 DEF Next, JobEvent
<1>3. QED
  BY <1>1, <1>2, OrderInductive, Inductive, PTL DEF Spec, ImplementsParseDispatch, Promised!Spec

=============================================================================
