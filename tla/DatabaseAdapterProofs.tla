----------------------- MODULE DatabaseAdapterProofs -----------------------
(***************************************************************************)
(* Safety of the write side of the database, for any number of processes,  *)
(* databases and operations and all retry budgets.                         *)
(***************************************************************************)
EXTENDS DatabaseAdapter, TLAPS

\* The stages in which an operation has the session lock.
InSession(o) ==
  \/ op[o].at \in Critical \cup {"lock", "held", "break", "open"}
  \/ At(o, "working") /\ o \notin Analyses

Sessions == \A o \in Ops : InSession(o) => HasSession(o)

TriesLeft == \A o \in Ops : op[o].at \in {"cleanup", "asleep"} => op[o].try < MaxTries

DbKnown == \A o \in Ops : op[o].at \notin {"idle", "dead"} => op[o].db \in Databases

BackoffsEnd ==
  \A a \in Analyses, t \in Ticks :
    driver[a].run[t].at = "backoff" => driver[a].run[t].attempt < MaxAttempts

IInv == TypeOK /\ Sessions /\ TriesLeft /\ DbKnown /\ BackoffsEnd

LEMMA Initially == Init => IInv
<1> SUFFICES ASSUME Init
             PROVE  IInv
  OBVIOUS
<1> USE AdapterAssumption, CheckpointAssumption
<1>1. NewDriver \in Drivers
  BY DEF NewDriver, Drivers, NoCheckpoint, Checkpoints, Ticks, NoTick
<1>2. driver \in [Analyses -> Drivers] /\ BackoffsEnd
  BY <1>1 DEF Init, BackoffsEnd, NewDriver, NoCheckpoint
<1>3. op \in [Ops -> [at : Stages, db : Databases \cup {NoDb},
                      attempt : 1..MaxLockAttempts, try : 1..MaxTries]]
  BY DEF Init, Idle, Stages
<1>4. disk \in [Databases -> [main : BOOLEAN, sidecar : BOOLEAN, wal : {"none", "tiny", "large"}]]
  BY DEF Init
<1>5. TypeOK
  BY <1>2, <1>3, <1>4 DEF Init, TypeOK, NoConn, NoLock
<1>6. Sessions /\ TriesLeft /\ DbKnown
  BY DEF Init, Sessions, InSession, TriesLeft, DbKnown, At, Idle, Critical
<1>7. QED
  BY <1>2, <1>5, <1>6 DEF IInv

-----------------------------------------------------------------------------
(* What the steps of one operation have in common: the queue is left       *)
(* alone, or the operation queues, or it gives up the head of the queue.   *)
Requeue(o) == queue' = [queue EXCEPT ![ProcOf[o]] = Append(Tail(@), o)]

Turn(o) ==
  \/ UNCHANGED queue
  \/ Enqueue(o)
  \/ HasSession(o) /\ (Dequeue(o) \/ Requeue(o))

LEMMA TurnTyped ==
    ASSUME TypeOK, NEW o \in Ops, Turn(o)
    PROVE  queue' \in [Procs -> Seq(Ops)]
<1>1. ProcOf[o] \in Procs /\ queue[ProcOf[o]] \in Seq(Ops) /\ queue \in [Procs -> Seq(Ops)]
  BY AdapterAssumption DEF TypeOK
<1>2. CASE UNCHANGED queue
  BY <1>1, <1>2
<1>3. CASE Enqueue(o)
  <2>1. Append(queue[ProcOf[o]], o) \in Seq(Ops)
    BY <1>1
  <2>2. QED
    BY <1>1, <1>3, <2>1 DEF Enqueue
<1>4. CASE HasSession(o) /\ (Dequeue(o) \/ Requeue(o))
  <2>1. Tail(queue[ProcOf[o]]) \in Seq(Ops)
    BY <1>1, <1>4 DEF HasSession
  <2>2. Append(Tail(queue[ProcOf[o]]), o) \in Seq(Ops)
    BY <2>1
  <2>3. QED
    BY <1>1, <1>4, <2>1, <2>2 DEF Dequeue, Requeue
<1>5. QED
  BY <1>2, <1>3, <1>4 DEF Turn

LEMMA OthersKeepSession ==
    ASSUME TypeOK, NEW o \in Ops, Turn(o), NEW x \in Ops \ {o}, HasSession(x)
    PROVE  HasSession(x)'
<1>1. /\ ProcOf[o] \in Procs /\ ProcOf[x] \in Procs /\ queue \in [Procs -> Seq(Ops)]
      /\ queue[ProcOf[x]] \in Seq(Ops) /\ queue[ProcOf[x]] # <<>>
  BY AdapterAssumption DEF TypeOK, HasSession
<1>2. CASE UNCHANGED queue
  BY <1>2 DEF HasSession
<1>3. CASE Enqueue(o)
  <2>1. /\ Append(queue[ProcOf[x]], o) # <<>>
        /\ Head(Append(queue[ProcOf[x]], o)) = Head(queue[ProcOf[x]])
    BY <1>1
  <2>2. QED
    BY <1>1, <1>3, <2>1 DEF Enqueue, HasSession
<1>4. CASE HasSession(o) /\ (Dequeue(o) \/ Requeue(o))
  <2>1. ProcOf[x] # ProcOf[o]
    BY <1>4 DEF HasSession
  <2>2. queue'[ProcOf[x]] = queue[ProcOf[x]]
    BY <1>1, <1>4, <2>1 DEF Dequeue, Requeue
  <2>3. QED
    BY <2>2 DEF HasSession
<1>5. QED
  BY <1>2, <1>3, <1>4 DEF Turn

(* A step of one operation keeps the parts of IInv about operations if it  *)
(* does so for its own.                                                    *)
StepOf(o) ==
  /\ op' \in [Ops -> [at : Stages, db : Databases \cup {NoDb},
                      attempt : 1..MaxLockAttempts, try : 1..MaxTries]]
  /\ \A x \in Ops \ {o} : op'[x] = op[x]
  /\ Turn(o)
  /\ InSession(o)' => HasSession(o)'
  /\ op'[o].at \in {"cleanup", "asleep"} => op'[o].try < MaxTries
  /\ op'[o].at \notin {"idle", "dead"} => op'[o].db \in Databases

OpTyped == op' \in [Ops -> [at : Stages, db : Databases \cup {NoDb},
                            attempt : 1..MaxLockAttempts, try : 1..MaxTries]]

LEMMA StepKeeps ==
    ASSUME IInv, NEW o \in Ops, StepOf(o)
    PROVE  /\ OpTyped
           /\ queue' \in [Procs -> Seq(Ops)]
           /\ Sessions' /\ TriesLeft' /\ DbKnown'
<1>1. queue' \in [Procs -> Seq(Ops)]
  BY TurnTyped DEF IInv, StepOf
<1>2. Sessions'
  <2> SUFFICES ASSUME NEW x \in Ops, InSession(x)'
               PROVE  HasSession(x)'
    BY DEF Sessions
  <2>1. CASE x = o
    BY <2>1 DEF StepOf
  <2>2. CASE x # o
    <3>1. InSession(x)
      BY <2>2 DEF StepOf, InSession, At
    <3>2. HasSession(x)
      BY <3>1 DEF IInv, Sessions
    <3>3. QED
      BY <2>2, <3>2, OthersKeepSession DEF IInv, StepOf
  <2>3. QED
    BY <2>1, <2>2
<1>3. TriesLeft'
  BY DEF IInv, TriesLeft, StepOf
<1>4. DbKnown'
  BY DEF IInv, DbKnown, StepOf
<1>5. QED
  BY <1>1, <1>2, <1>3, <1>4 DEF StepOf, OpTyped

\* A change of stage, with or without a turn of the queue.
LEMMA GoTyped ==
    ASSUME TypeOK, NEW o \in Ops, NEW s \in Stages, Go(o, s)
    PROVE  /\ OpTyped
           /\ op'[o] = [op[o] EXCEPT !.at = s]
           /\ op'[o].at = s /\ op'[o].db = op[o].db
           /\ op'[o].try = op[o].try /\ op'[o].attempt = op[o].attempt
           /\ \A x \in Ops \ {o} : op'[x] = op[x]
BY DEF TypeOK, Go, OpTyped

(* The stages that need nothing but what the one before had.               *)
LEMMA Goes ==
    ASSUME IInv, NEW o \in Ops, NEW s \in Stages, Go(o, s), Turn(o),
           op[o].at \notin {"idle", "dead"},
           s \notin {"cleanup", "asleep", "idle"},
           InSession(o)' => HasSession(o)'
    PROVE  StepOf(o)
<1>1. TypeOK /\ DbKnown
  BY DEF IInv
<1>2. /\ OpTyped /\ op'[o].at = s /\ op'[o].db = op[o].db
      /\ \A x \in Ops \ {o} : op'[x] = op[x]
  BY <1>1, GoTyped
<1>3. QED
  BY <1>1, <1>2 DEF StepOf, OpTyped, DbKnown

LEMMA Fails ==
    ASSUME IInv, NEW o \in Ops, HasSession(o), Fail(o), op[o].at \notin {"idle", "dead"}
    PROVE  StepOf(o)
<1>1. TypeOK /\ "failed" \in Stages
  BY DEF IInv, Stages
<1>2. op'[o].at = "failed"
  BY <1>1, GoTyped DEF Fail
<1>3. ~InSession(o)'
  BY <1>2 DEF InSession, At, Critical
<1>4. QED
  BY <1>1, <1>3, Goes DEF Fail, Turn

LEMMA Busies ==
    ASSUME IInv, NEW o \in Ops, HasSession(o), Busy(o), op[o].at \notin {"idle", "dead"}
    PROVE  StepOf(o) /\ op'[o].at \in {"failed", "cleanup"}
<1>1. TypeOK /\ DbKnown /\ "cleanup" \in Stages /\ "failed" \in Stages
  BY DEF IInv, Stages
<1>2. CASE Fail(o)
  BY <1>1, <1>2, Fails, GoTyped DEF Fail
<1>3. CASE ~Fail(o)
  <2>1. Go(o, "cleanup") /\ Requeue(o) /\ op[o].try # MaxTries
    BY <1>3 DEF Busy, Requeue
  <2>2. /\ OpTyped /\ op'[o].at = "cleanup" /\ op'[o].db = op[o].db /\ op'[o].try = op[o].try
        /\ \A x \in Ops \ {o} : op'[x] = op[x]
    BY <1>1, <2>1, GoTyped
  <2>3. op[o].try < MaxTries
    BY <1>1, <2>1, AdapterAssumption DEF TypeOK
  <2>4. ~InSession(o)'
    BY <2>2 DEF InSession, At, Critical
  <2>5. QED
    BY <1>1, <2>1, <2>2, <2>3, <2>4 DEF StepOf, OpTyped, DbKnown, Turn
<1>4. QED
  BY <1>2, <1>3

LEMMA Readies ==
    ASSUME IInv, NEW o \in Ops, HasSession(o), Ready(o), op[o].at \notin {"idle", "dead"}
    PROVE  StepOf(o)
<1>1. Go(o, "working") /\ "working" \in Stages /\ TypeOK
  BY DEF Ready, Stages, IInv
<1>2. op'[o].at = "working"
  BY <1>1, GoTyped
<1>3. CASE o \in Analyses
  <2>1. ~InSession(o)'
    BY <1>2, <1>3 DEF InSession, At, Critical
  <2>2. QED
    BY <1>1, <1>3, <2>1, Goes DEF Ready, Turn
<1>4. CASE o \notin Analyses
  <2>1. UNCHANGED queue
    BY <1>4 DEF Ready
  <2>2. QED
    BY <1>1, <2>1, Goes DEF HasSession, Turn
<1>5. QED
  BY <1>3, <1>4

LEMMA Attempts ==
    ASSUME IInv, NEW o \in Ops, HasSession(o), NextAttempt(o), op[o].at \notin {"idle", "dead"}
    PROVE  StepOf(o) /\ op'[o].at \in {"failed", "cleanup", "lock"}
<1>1. TypeOK /\ DbKnown
  BY DEF IInv
<1>2. CASE op[o].attempt < MaxLockAttempts
  <2>1. UNCHANGED queue /\ op' = [op EXCEPT ![o].at = "lock", ![o].attempt = @ + 1]
    BY <1>2 DEF NextAttempt
  <2>2. op[o].attempt + 1 \in 1..MaxLockAttempts /\ "lock" \in Stages
    BY <1>1, <1>2, AdapterAssumption DEF TypeOK, Stages
  <2>3. /\ OpTyped /\ op'[o].at = "lock" /\ op'[o].db = op[o].db /\ op'[o].try = op[o].try
        /\ \A x \in Ops \ {o} : op'[x] = op[x]
    BY <1>1, <2>1, <2>2 DEF TypeOK, OpTyped
  <2>4. QED
    BY <1>1, <2>1, <2>3 DEF StepOf, OpTyped, DbKnown, Turn, HasSession
<1>3. CASE ~(op[o].attempt < MaxLockAttempts)
  BY <1>3, Busies DEF NextAttempt
<1>4. QED
  BY <1>2, <1>3

\* A stage under the session lock follows another without a turn.
LEMMA GoesOn ==
    ASSUME IInv, NEW o \in Ops, NEW s \in Stages, Go(o, s), UNCHANGED queue,
           HasSession(o), op[o].at \notin {"idle", "dead"},
           s \notin {"cleanup", "asleep", "idle"}
    PROVE  StepOf(o)
BY Goes DEF Turn, HasSession

LEMMA EnterSteps ==
    ASSUME IInv, NEW o \in Ops, Enter(o)
    PROVE  StepOf(o)
<1>1. HasSession(o) /\ op[o].at \notin {"idle", "dead"} /\ {"open", "lock"} \subseteq Stages
  BY DEF Enter, At, Stages
<1>2. CASE Ready(o)
  BY <1>1, <1>2, Readies
<1>3. CASE Go(o, IF ReadOnly(o) THEN "open" ELSE "lock") /\ UNCHANGED queue
  <2>1. \E s \in {"open", "lock"} : Go(o, s)
    BY <1>3
  <2>2. QED
    BY <1>1, <1>3, <2>1, GoesOn
<1>4. QED
  BY <1>2, <1>3 DEF Enter

LEMMA LockSteps ==
    ASSUME IInv, NEW o \in Ops,
           \/ CreateLock(o) \/ LockExists(o) \/ WriteLock(o) \/ ReadLock(o) \/ BreakLock(o)
    PROVE  StepOf(o)
<1>1. op[o].at \in {"lock", "held", "break", "created"}
  BY DEF CreateLock, LockExists, WriteLock, ReadLock, BreakLock, At
<1>2. HasSession(o) /\ op[o].at \notin {"idle", "dead"}
  BY <1>1 DEF IInv, Sessions, InSession, Critical
<1>3. CASE NextAttempt(o)
  BY <1>2, <1>3, Attempts
<1>4. CASE UNCHANGED queue /\ \E s \in {"created", "held", "check", "break"} : Go(o, s)
  <2>1. {"created", "held", "check", "break"} \subseteq Stages
    BY DEF Stages
  <2>2. QED
    BY <1>2, <1>4, <2>1, GoesOn
<1>5. QED
  BY <1>3, <1>4 DEF CreateLock, LockExists, WriteLock, ReadLock, BreakLock

LEMMA OpeningSteps ==
    ASSUME IInv, NEW o \in Ops,
           \/ CheckMain(o) \/ Sweep(o) \/ Preflight(o) \/ Quarantine(o) \/ Open(o) \/ Release(o)
    PROVE  StepOf(o)
<1>1. op[o].at \in Critical
  BY DEF CheckMain, Sweep, Preflight, Quarantine, Open, Release, At, Critical
<1>2. HasSession(o) /\ op[o].at \notin {"idle", "dead"}
  BY <1>1 DEF IInv, Sessions, InSession, Critical
<1>3. CASE Ready(o)
  BY <1>2, <1>3, Readies
<1>4. CASE Fail(o)
  BY <1>2, <1>4, Fails
<1>5. CASE /\ UNCHANGED queue
           /\ \E s \in {"preflight", "sweep", "quarantine", "open", "opened", "refused"} : Go(o, s)
  <2>1. {"preflight", "sweep", "quarantine", "open", "opened", "refused"} \subseteq Stages
    BY DEF Stages
  <2>2. QED
    BY <1>2, <1>5, <2>1, GoesOn
<1>6. QED
  BY <1>3, <1>4, <1>5 DEF CheckMain, Sweep, Preflight, Quarantine, Open, Release

LEMMA RetrySteps ==
    ASSUME IInv, NEW o \in Ops, Cleanup(o) \/ Wake(o)
    PROVE  StepOf(o)
<1>1. TypeOK /\ DbKnown /\ TriesLeft /\ op[o].try < MaxTries
  BY DEF IInv, TriesLeft, Cleanup, Wake, At
<1>2. op[o].at \notin {"idle", "dead"} /\ op[o].db \in Databases
  BY <1>1 DEF Cleanup, Wake, At, DbKnown
<1>3. CASE Cleanup(o)
  <2>1. Go(o, "asleep") /\ HasSession(o) /\ Dequeue(o) /\ "asleep" \in Stages
    BY <1>3 DEF Cleanup, Stages
  <2>2. /\ OpTyped /\ op'[o].at = "asleep" /\ op'[o].db = op[o].db /\ op'[o].try = op[o].try
        /\ \A x \in Ops \ {o} : op'[x] = op[x]
    BY <1>1, <2>1, GoTyped
  <2>3. ~InSession(o)'
    BY <2>2 DEF InSession, At, Critical
  <2>4. QED
    BY <1>1, <1>2, <2>1, <2>2, <2>3 DEF StepOf, OpTyped, Turn
<1>4. CASE Wake(o)
  <2>1. /\ op' = [op EXCEPT ![o] = [at |-> "queued", db |-> op[o].db, attempt |-> 1,
                                    try |-> op[o].try + 1]]
        /\ Enqueue(o)
    BY <1>4 DEF Wake
  <2>2. op[o].try + 1 \in 1..MaxTries /\ 1 \in 1..MaxLockAttempts /\ "queued" \in Stages
    BY <1>1, AdapterAssumption DEF TypeOK, Stages
  <2>3. /\ OpTyped /\ op'[o].at = "queued" /\ op'[o].db = op[o].db
        /\ \A x \in Ops \ {o} : op'[x] = op[x]
    BY <1>1, <1>2, <2>1, <2>2 DEF TypeOK, OpTyped
  <2>4. ~InSession(o)'
    BY <2>3 DEF InSession, At, Critical
  <2>5. QED
    BY <1>2, <2>1, <2>3, <2>4 DEF StepOf, OpTyped, Turn
<1>5. QED
  BY <1>3, <1>4

LEMMA RequestSteps ==
    ASSUME IInv, NEW o \in Ops, NEW d \in Databases, Request(o, d)
    PROVE  StepOf(o)
<1>1. TypeOK /\ "queued" \in Stages
  BY DEF IInv, Stages
<1>2. /\ OpTyped /\ op'[o].at = "queued" /\ op'[o].db = d
      /\ \A x \in Ops \ {o} : op'[x] = op[x]
  <2>1. [op[o] EXCEPT !.at = "queued", !.db = d]
          \in [at : Stages, db : Databases \cup {NoDb},
              attempt : 1..MaxLockAttempts, try : 1..MaxTries]
    BY <1>1, ZenonT(60) DEF TypeOK
  <2>2. op'[o] = [op[o] EXCEPT !.at = "queued", !.db = d]
    BY <1>1 DEF TypeOK, Request
  <2>3. QED
    BY <1>1, <2>1, <2>2 DEF TypeOK, OpTyped, Request
<1>3. ~InSession(o)'
  BY <1>2 DEF InSession, At, Critical
<1>4. QED
  BY <1>2, <1>3 DEF StepOf, OpTyped, Turn, Request

LEMMA EndSteps ==
    ASSUME IInv, NEW o \in Ops, Ends(o)
    PROVE  StepOf(o)
<1>1. At(o, "working") /\ o \notin Analyses
  BY DEF Ends, Return, Throw
<1>2. HasSession(o) /\ op[o].at \notin {"idle", "dead"}
  BY <1>1 DEF IInv, Sessions, InSession, At
<1>3. CASE Return(o)
  <2>1. Go(o, "done") /\ Dequeue(o) /\ "done" \in Stages /\ TypeOK
    BY <1>3 DEF Return, Stages, IInv
  <2>2. op'[o].at = "done"
    BY <2>1, GoTyped
  <2>3. ~InSession(o)'
    BY <2>2 DEF InSession, At, Critical
  <2>4. QED
    BY <1>2, <2>1, <2>3, Goes DEF Turn
<1>4. CASE Throw(o)
  BY <1>2, <1>4, Fails, Busies DEF Throw
<1>5. QED
  BY <1>3, <1>4 DEF Ends

LEMMA AnalysisSteps ==
    ASSUME IInv, NEW a \in Analyses, AnalysisStep(a)
    PROVE  StepOf(a)
<1>1. a \in Ops /\ UNCHANGED queue /\ {"stopping", "stopped", "done"} \subseteq Stages
  BY DEF Ops, AnalysisStep, StopDriver, StopReturns, CloseAnalysis, Stages
<1>2. PICK s \in {"stopping", "stopped", "done"} : Go(a, s)
  BY DEF AnalysisStep, StopDriver, StopReturns, CloseAnalysis
<1>3. op'[a].at = s /\ op[a].at \notin {"idle", "dead"}
  BY <1>1, <1>2, GoTyped DEF IInv, AnalysisStep, StopDriver, StopReturns, CloseAnalysis, At
<1>4. ~InSession(a)'
  BY <1>2, <1>3 DEF InSession, At, Critical
<1>5. QED
  BY <1>1, <1>2, <1>3, <1>4, Goes DEF Turn

-----------------------------------------------------------------------------
(* The connections, the lock files and the database files.                 *)
File == [main : BOOLEAN, sidecar : BOOLEAN, wal : {"none", "tiny", "large"}]
Files == [Databases -> File]
Conns == [Procs -> [db : Databases \cup {NoDb}, readOnly : BOOLEAN]]
Locks == [Databases -> [by : Ops \cup {NoOp}, written : BOOLEAN]]

WorldTyped == conn' \in Conns /\ lock' \in Locks /\ disk' \in Files

LEMMA Typed ==
    ASSUME IInv
    PROVE  /\ conn \in Conns /\ lock \in Locks /\ disk \in Files
           /\ NoConn \in [db : Databases \cup {NoDb}, readOnly : BOOLEAN]
           /\ NoLock \in [by : Ops \cup {NoOp}, written : BOOLEAN]
           /\ \A o \in Ops : ProcOf[o] \in Procs
BY AdapterAssumption DEF IInv, TypeOK, Conns, Locks, Files, File, NoConn, NoLock

LEMMA FileEdited ==
    ASSUME IInv, NEW d \in Databases, NEW w \in {"none", "tiny", "large"}, NEW b \in BOOLEAN,
           \/ disk' = [disk EXCEPT ![d].wal = w]
           \/ disk' = [disk EXCEPT ![d].sidecar = b]
           \/ disk' = [disk EXCEPT ![d].main = TRUE, ![d].sidecar = FALSE]
    PROVE  disk' \in Files
<1>1. disk \in Files /\ disk[d] \in File
  BY Typed DEF Files
<1>2. [disk[d] EXCEPT !.wal = w] \in File
  BY <1>1 DEF File
<1>3. [disk[d] EXCEPT !.sidecar = b] \in File
  BY <1>1 DEF File
<1>4. [[disk[d] EXCEPT !.main = TRUE] EXCEPT !.sidecar = FALSE] \in File
  <2>1. [disk[d] EXCEPT !.main = TRUE] \in File
    BY <1>1 DEF File
  <2>2. QED
    BY <2>1 DEF File
<1>5. CASE disk' = [disk EXCEPT ![d].main = TRUE, ![d].sidecar = FALSE]
  <2>1. disk' = [[disk EXCEPT ![d].main = TRUE] EXCEPT ![d].sidecar = FALSE]
    BY <1>5
  <2>2. disk' = [disk EXCEPT ![d] = [[disk[d] EXCEPT !.main = TRUE] EXCEPT !.sidecar = FALSE]]
    BY <1>1, <2>1 DEF Files
  <2>3. QED
    BY <1>1, <1>4, <2>2 DEF Files
<1>6. CASE disk' = [disk EXCEPT ![d].wal = w]
  <2>1. disk' = [disk EXCEPT ![d] = [disk[d] EXCEPT !.wal = w]]
    BY <1>6
  <2>2. QED
    BY <1>1, <1>2, <2>1 DEF Files
<1>7. CASE disk' = [disk EXCEPT ![d].sidecar = b]
  <2>1. disk' = [disk EXCEPT ![d] = [disk[d] EXCEPT !.sidecar = b]]
    BY <1>7
  <2>2. QED
    BY <1>1, <1>3, <2>1 DEF Files
<1>8. QED
  BY <1>5, <1>6, <1>7

LEMMA SafeCloseTyped ==
    ASSUME IInv, NEW p \in Procs, SafeClose(p)
    PROVE  conn' \in Conns /\ disk' \in Files
<1>1. conn' \in Conns
  BY Typed DEF SafeClose, Conns
<1>2. ASSUME conn[p] # NoConn, NEW w \in WalsAfterClose(conn[p]),
             disk' = [disk EXCEPT ![conn[p].db].wal = w]
      PROVE  disk' \in Files
  <2>1. CASE conn[p].db \in Databases
    <3>1. w \in {"none", "tiny", "large"}
      BY <1>2, <2>1, Typed DEF WalsAfterClose, Files, File
    <3>2. QED
      BY <1>2, <2>1, <3>1, FileEdited
  <2>2. CASE conn[p].db \notin Databases
    BY <1>2, <2>2, Typed DEF Files
  <2>3. QED
    BY <2>1, <2>2
<1>3. QED
  BY <1>1, <1>2, Typed DEF SafeClose

LEMMA OpenStepTyped ==
    ASSUME IInv, NEW o \in Ops, OpenStep(o)
    PROVE  WorldTyped /\ alive' = alive /\ driver' = driver
<1> USE Typed
<1>1. CASE Enter(o) \/ Cleanup(o)
  BY <1>1, SafeCloseTyped DEF Enter, Cleanup, WorldTyped
<1>2. CASE Wake(o) \/ LockExists(o) \/ ReadLock(o) \/ CheckMain(o) \/ Preflight(o)
  BY <1>2 DEF Wake, LockExists, ReadLock, CheckMain, Preflight, WorldTyped
<1>3. CASE CreateLock(o) \/ WriteLock(o) \/ BreakLock(o) \/ Release(o)
  <2>1. op[o].db \in Databases
    BY <1>3 DEF IInv, DbKnown, CreateLock, WriteLock, BreakLock, Release, At
  <2>2. /\ [lock[op[o].db] EXCEPT !.written = @ \/ lock[op[o].db].by = o]
             \in [by : Ops \cup {NoOp}, written : BOOLEAN]
        /\ [by |-> o, written |-> FALSE] \in [by : Ops \cup {NoOp}, written : BOOLEAN]
    BY <2>1 DEF Locks
  <2>3. PICK l \in [by : Ops \cup {NoOp}, written : BOOLEAN] :
               lock' = [lock EXCEPT ![op[o].db] = l]
    BY <1>3, <2>2 DEF CreateLock, WriteLock, BreakLock, Release
  <2>4. lock' \in Locks
    BY <2>3 DEF Locks
  <2>5. conn' = conn /\ disk' = disk /\ alive' = alive /\ driver' = driver
    BY <1>3 DEF CreateLock, WriteLock, BreakLock, Release
  <2>6. QED
    BY <2>4, <2>5 DEF WorldTyped
<1>4. CASE Sweep(o) \/ Quarantine(o)
  <2>1. op[o].db \in Databases
    BY <1>4 DEF IInv, DbKnown, Sweep, Quarantine, At
  <2>2. \/ disk' = [disk EXCEPT ![op[o].db].sidecar = FALSE]
        \/ disk' = [disk EXCEPT ![op[o].db].wal = "none"]
    BY <1>4 DEF Sweep, Quarantine
  <2>3. disk' \in Files
    BY <2>1, <2>2, FileEdited
  <2>4. QED
    BY <1>4, <2>3 DEF Sweep, Quarantine, WorldTyped
<1>5. CASE Open(o)
  <2>1. op[o].db \in Databases
    BY <1>5 DEF IInv, DbKnown, Open, At
  <2>2. Wanted(o) \in [db : Databases \cup {NoDb}, readOnly : BOOLEAN]
    BY <2>1 DEF Wanted, ReadOnly
  <2>3. conn' \in Conns /\ lock' = lock /\ alive' = alive /\ driver' = driver
    BY <1>5, <2>2 DEF Open, Conns
  <2>4. \/ disk' = disk
        \/ disk' = [disk EXCEPT ![op[o].db].main = TRUE, ![op[o].db].sidecar = FALSE]
    BY <1>5 DEF Open
  <2>5. disk' \in Files
    BY <2>1, <2>4, FileEdited
  <2>6. QED
    BY <2>3, <2>5 DEF WorldTyped
<1>6. QED
  BY <1>1, <1>2, <1>3, <1>4, <1>5 DEF OpenStep

LEMMA WorkTyped ==
    ASSUME IInv, NEW o \in Ops,
           Ends(o) \/ Commit(o) \/ \E d \in Databases : Request(o, d)
    PROVE  WorldTyped /\ alive' = alive /\ driver' = driver
<1>1. conn' = conn /\ lock' = lock /\ alive' = alive /\ driver' = driver
  BY DEF Ends, Return, Throw, Commit, Request
<1>2. CASE Commit(o)
  <2>1. op[o].db \in Databases
    BY <1>2 DEF IInv, DbKnown, Commit, At
  <2>2. PICK w \in {"tiny", "large"} : disk' = [disk EXCEPT ![op[o].db].wal = w]
    BY <1>2 DEF Commit
  <2>3. QED
    BY <1>1, <2>1, <2>2, FileEdited, Typed DEF WorldTyped
<1>3. CASE Return(o)
  <2>1. op[o].db \in Databases
    BY <1>3 DEF IInv, DbKnown, Return, At
  <2>2. disk' = disk \/ disk' = [disk EXCEPT ![op[o].db].wal = "none"]
    BY <1>3 DEF Return
  <2>3. QED
    BY <1>1, <2>1, <2>2, FileEdited, Typed DEF WorldTyped
<1>4. CASE Throw(o) \/ \E d \in Databases : Request(o, d)
  <2>1. disk' = disk
    BY <1>4 DEF Throw, Request
  <2>2. QED
    BY <1>1, <2>1, Typed DEF WorldTyped
<1>5. QED
  BY <1>2, <1>3, <1>4 DEF Ends

-----------------------------------------------------------------------------
(* The drivers.                                                            *)
DriversTyped == driver' \in [Analyses -> Drivers] /\ BackoffsEnd'

\* A driver whose checkpoints and inflight change, or that stops.
LEMMA DriverEdited ==
    ASSUME NEW D \in Drivers, NEW r, NEW i
    PROVE  [[D EXCEPT !.run = r] EXCEPT !.inflight = i]
             = [run |-> r, inflight |-> i, stopped |-> D.stopped, awaited |-> D.awaited]
<1> DEFINE ran == [run |-> r, inflight |-> D.inflight, stopped |-> D.stopped,
                   awaited |-> D.awaited]
<1>1. [D EXCEPT !.run = r] = ran
  BY DEF Drivers
<1>2. [ran EXCEPT !.inflight = i]
        = [run |-> r, inflight |-> i, stopped |-> D.stopped, awaited |-> D.awaited]
  OBVIOUS
<1> HIDE DEF ran
<1>3. QED
  BY <1>1, <1>2, Zenon

LEMMA DriverStopped ==
    ASSUME NEW D \in Drivers
    PROVE  LET n == [[D EXCEPT !.stopped = TRUE] EXCEPT !.awaited = D.inflight]
           IN  /\ n \in Drivers /\ n.run = D.run
               /\ n.inflight = D.inflight /\ n.awaited = D.inflight
<1> DEFINE off == [D EXCEPT !.stopped = TRUE]
           n == [off EXCEPT !.awaited = D.inflight]
<1>1. /\ off \in Drivers /\ off.run = D.run /\ off.inflight = D.inflight
      /\ D.inflight \in Ticks \cup {NoTick}
  BY DEF Drivers
<1> HIDE DEF off
<1>2. n \in Drivers
  BY <1>1 DEF Drivers
<1>3. n.run = off.run /\ n.inflight = off.inflight /\ n.awaited = D.inflight
  BY <1>1 DEF Drivers
<1>4. QED
  BY <1>1, <1>2, <1>3 DEF off

LEMMA DriverTyped ==
    ASSUME IInv, NEW a \in Analyses, NEW t \in Ticks,
           Tick(a, t) \/ IoError(a, t) \/ Again(a, t) \/ Settle(a, t)
    PROVE  DriversTyped
<1>1. /\ driver \in [Analyses -> Drivers] /\ BackoffsEnd
      /\ driver[a] \in Drivers /\ driver[a].run \in [Ticks -> Checkpoints]
      /\ MaxAttempts \in Nat \ {0}
  BY CheckpointAssumption DEF IInv, TypeOK, Drivers
<1>2. ASSUME NEW c \in Checkpoints, c.at = "backoff" => c.attempt < MaxAttempts,
             NEW i \in Ticks \cup {NoTick},
             driver' = [driver EXCEPT ![a].run[t] = c, ![a].inflight = i]
      PROVE  DriversTyped
  <2>1. [driver[a].run EXCEPT ![t] = c] \in [Ticks -> Checkpoints]
    BY <1>1
  <2> DEFINE r == [driver[a].run EXCEPT ![t] = c]
             n == [run |-> r, inflight |-> i, stopped |-> driver[a].stopped,
                   awaited |-> driver[a].awaited]
  <2>2. driver' = [driver EXCEPT ![a] = n]
    <3>1. driver' = [[driver EXCEPT ![a].run[t] = c] EXCEPT ![a].inflight = i]
      BY <1>2
    <3>2. driver' = [driver EXCEPT ![a] = [[driver[a] EXCEPT !.run = r] EXCEPT !.inflight = i]]
      BY <1>1, <3>1
    <3>3. [[driver[a] EXCEPT !.run = r] EXCEPT !.inflight = i] = n
      BY <1>1, DriverEdited
    <3>4. QED
      BY <3>2, <3>3
  <2>3. driver' \in [Analyses -> Drivers]
    <3>1. n \in Drivers
      BY <1>1, <2>1 DEF Drivers
    <3>2. QED
      BY <1>1, <2>2, <3>1
  <2>4. ASSUME NEW b \in Analyses, NEW u \in Ticks, driver'[b].run[u].at = "backoff"
        PROVE  driver'[b].run[u].attempt < MaxAttempts
    <3>1. CASE b # a
      BY <1>1, <2>2, <2>4, <3>1 DEF BackoffsEnd
    <3>2. CASE b = a
      <4>1. driver'[b].run = r
        BY <1>1, <2>2, <3>2
      <4>2. CASE u = t
        BY <1>1, <1>2, <2>4, <4>1, <4>2
      <4>3. CASE u # t
        BY <1>1, <2>4, <3>2, <4>1, <4>3 DEF BackoffsEnd
      <4>4. QED
        BY <4>2, <4>3
    <3>3. QED
      BY <3>1, <3>2
  <2>5. QED
    BY <2>3, <2>4 DEF DriversTyped, BackoffsEnd
<1>3. CASE Settle(a, t)
  <2>1. NoCheckpoint \in Checkpoints
    BY <1>1 DEF NoCheckpoint, Checkpoints
  <2>2. NoCheckpoint.at # "backoff"
    BY DEF NoCheckpoint
  <2>3. QED
    BY <1>2, <1>3, <2>1, <2>2 DEF Settle
<1>4. CASE Tick(a, t)
  <2>1. [at |-> "query", attempt |-> 1] \in Checkpoints
    BY <1>1 DEF Checkpoints
  <2>2. QED
    BY <1>2, <1>4, <2>1 DEF Tick
<1>5. ASSUME NEW c \in Checkpoints, c.at = "backoff" => c.attempt < MaxAttempts,
             driver' = [driver EXCEPT ![a].run[t] = c]
      PROVE  DriversTyped
  <2>1. driver[a].inflight \in Ticks \cup {NoTick}
    BY <1>1 DEF Drivers
  <2>2. driver' = [driver EXCEPT ![a].run[t] = c, ![a].inflight = driver[a].inflight]
    <3> DEFINE r == [driver[a].run EXCEPT ![t] = c]
    <3>1. [[driver[a] EXCEPT !.run = r] EXCEPT !.inflight = driver[a].inflight]
             = [driver[a] EXCEPT !.run = r]
      BY <1>1 DEF Drivers
    <3>2. driver' = [driver EXCEPT ![a] = [driver[a] EXCEPT !.run = r]]
      BY <1>5
    <3>3. driver' = [driver EXCEPT ![a] = [[driver[a] EXCEPT !.run = r]
                                             EXCEPT !.inflight = driver[a].inflight]]
      BY <3>1, <3>2
    <3>4. QED
      BY <1>1, <3>3
  <2>3. QED
    BY <1>2, <1>5, <2>1, <2>2
<1>6. CASE IoError(a, t)
  <2>1. CASE driver[a].run[t].attempt < MaxAttempts
    <3> DEFINE c == [at |-> "backoff", attempt |-> driver[a].run[t].attempt]
    <3>1. c \in Checkpoints
      BY <1>1 DEF Checkpoints
    <3>2. driver' = [driver EXCEPT ![a].run[t] = c]
      <4>1. [driver[a].run[t] EXCEPT !.at = "backoff"] = c
        BY <1>1 DEF Checkpoints
      <4>2. driver' = [driver EXCEPT ![a].run[t] = [driver[a].run[t] EXCEPT !.at = "backoff"]]
        BY <1>6, <2>1 DEF IoError
      <4>3. QED
        BY <4>1, <4>2
    <3>3. QED
      BY <1>5, <2>1, <3>1, <3>2
  <2>2. CASE ~(driver[a].run[t].attempt < MaxAttempts)
    BY <1>3, <1>6, <2>2 DEF IoError
  <2>3. QED
    BY <2>1, <2>2
<1>7. CASE Again(a, t)
  <2> DEFINE c == [at |-> "query", attempt |-> driver[a].run[t].attempt + 1]
  <2>1. driver[a].run[t].attempt < MaxAttempts
    BY <1>1, <1>7 DEF Again, BackoffsEnd
  <2>2. c \in Checkpoints
    BY <1>1, <2>1 DEF Checkpoints
  <2>3. driver' = [driver EXCEPT ![a].run[t] = c]
    BY <1>7 DEF Again
  <2>4. QED
    BY <1>5, <2>2, <2>3
<1>8. QED
  BY <1>3, <1>4, <1>6, <1>7

LEMMA StopTyped ==
    ASSUME IInv, NEW a \in Analyses, Stop(a)
    PROVE  DriversTyped
<1>1. driver \in [Analyses -> Drivers] /\ BackoffsEnd /\ driver[a] \in Drivers
  BY DEF IInv, TypeOK
<1> DEFINE n == [[driver[a] EXCEPT !.stopped = TRUE] EXCEPT !.awaited = driver[a].inflight]
<1>2. driver' = [driver EXCEPT ![a] = n]
  <2>1. driver' = [[driver EXCEPT ![a].stopped = TRUE] EXCEPT ![a].awaited = driver[a].inflight]
    BY DEF Stop
  <2>2. QED
    BY <1>1, <2>1
<1>3. n \in Drivers /\ n.run = driver[a].run
  BY <1>1, DriverStopped
<1> HIDE DEF n
<1>4. QED
  BY <1>1, <1>2, <1>3 DEF DriversTyped, BackoffsEnd

-----------------------------------------------------------------------------
LEMMA CrashKeeps ==
    ASSUME IInv, NEW p \in Procs, Crash(p)
    PROVE  IInv'
<1>1. TypeOK /\ Sessions /\ TriesLeft /\ DbKnown /\ BackoffsEnd /\ "dead" \in Stages
  BY DEF IInv, Stages
<1>2. /\ OpTyped
      /\ \A o \in Ops : op'[o] = op[o] \/ op'[o].at = "dead"
      /\ \A o \in Ops : /\ op'[o].db = op[o].db /\ op'[o].try = op[o].try
                        /\ ProcOf[o] = p => op'[o].at \in Settled
  <2>1. ASSUME NEW o \in Ops
        PROVE  /\ op[o] \in [at : Stages, db : Databases \cup {NoDb},
                             attempt : 1..MaxLockAttempts, try : 1..MaxTries]
               /\ [op[o] EXCEPT !.at = "dead"]
                    \in [at : Stages, db : Databases \cup {NoDb},
                         attempt : 1..MaxLockAttempts, try : 1..MaxTries]
               /\ [op[o] EXCEPT !.at = "dead"].at = "dead"
               /\ [op[o] EXCEPT !.at = "dead"].db = op[o].db
               /\ [op[o] EXCEPT !.at = "dead"].try = op[o].try
    BY <1>1, ZenonT(60) DEF TypeOK
  <2>2. op' = [o \in Ops |-> IF ProcOf[o] = p /\ op[o].at \notin {"done", "failed"}
                             THEN [op[o] EXCEPT !.at = "dead"] ELSE op[o]]
    BY DEF Crash
  <2>3. ASSUME NEW o \in Ops
        PROVE  /\ op'[o] \in [at : Stages, db : Databases \cup {NoDb},
                              attempt : 1..MaxLockAttempts, try : 1..MaxTries]
               /\ op'[o] = op[o] \/ op'[o].at = "dead"
               /\ op'[o].db = op[o].db /\ op'[o].try = op[o].try
               /\ ProcOf[o] = p => op'[o].at \in Settled
    BY <2>1, <2>2 DEF Settled
  <2>4. OpTyped
    BY <2>2, <2>3 DEF OpTyped
  <2>5. QED
    BY <2>3, <2>4
<1>3. queue' \in [Procs -> Seq(Ops)]
  BY <1>1 DEF TypeOK, Crash
<1>4. conn' \in Conns /\ lock' \in Locks
  BY Typed DEF Crash, Conns
<1>5. disk' \in Files
  <2>1. CASE disk' = [disk EXCEPT ![conn[p].db].sidecar = TRUE] /\ conn[p].db \in Databases
    BY <2>1, FileEdited
  <2>2. CASE disk' = [disk EXCEPT ![conn[p].db].sidecar = TRUE] /\ conn[p].db \notin Databases
    BY <2>2, Typed DEF Files
  <2>3. QED
    BY <2>1, <2>2, Typed DEF Crash
<1>6. alive' \in SUBSET Procs
  BY <1>1 DEF Crash, TypeOK
<1>7. driver' \in [Analyses -> Drivers] /\ BackoffsEnd'
  <2>1. NewDriver \in Drivers
    BY CheckpointAssumption
       DEF NewDriver, Drivers, NoCheckpoint, Checkpoints, Ticks, NoTick
  <2>2. driver' = [a \in Analyses |-> IF ProcOf[a] = p THEN NewDriver ELSE driver[a]]
    BY DEF Crash
  <2>3. \A t \in Ticks : NewDriver.run[t].at = "none"
    BY DEF NewDriver, NoCheckpoint
  <2>4. driver' \in [Analyses -> Drivers]
    BY <1>1, <2>1, <2>2 DEF TypeOK
  <2>5. BackoffsEnd'
    BY <1>1, <2>2, <2>3 DEF BackoffsEnd
  <2>6. QED
    BY <2>4, <2>5
<1>8. TypeOK'
  BY <1>2, <1>3, <1>4, <1>5, <1>6, <1>7
     DEF TypeOK, OpTyped, Conns, Locks, Files, File
<1>9. Sessions'
  <2> SUFFICES ASSUME NEW x \in Ops, InSession(x)'
               PROVE  HasSession(x)'
    BY DEF Sessions
  <2>1. op'[x].at # "dead" /\ ProcOf[x] # p
    BY <1>2 DEF InSession, At, Critical, Settled
  <2>2. InSession(x)
    BY <1>2, <2>1 DEF InSession, At
  <2>3. HasSession(x) /\ ProcOf[x] \in Procs
    BY <1>1, <2>2, AdapterAssumption DEF Sessions
  <2>4. queue'[ProcOf[x]] = queue[ProcOf[x]]
    BY <1>1, <2>1, <2>3 DEF Crash, TypeOK
  <2>5. QED
    BY <2>3, <2>4 DEF HasSession
<1>10. TriesLeft' /\ DbKnown'
  BY <1>1, <1>2 DEF TriesLeft, DbKnown
<1>11. QED
  BY <1>7, <1>8, <1>9, <1>10 DEF IInv

\* A step of one operation, whatever it does to the files and the driver.
LEMMA OpStepKeeps ==
    ASSUME IInv, NEW o \in Ops, StepOf(o), WorldTyped, alive' = alive,
           driver' = driver \/ DriversTyped
    PROVE  IInv'
<1>1. /\ OpTyped /\ queue' \in [Procs -> Seq(Ops)]
      /\ Sessions' /\ TriesLeft' /\ DbKnown'
  BY StepKeeps
<1>2. driver' \in [Analyses -> Drivers] /\ BackoffsEnd'
  BY DEF DriversTyped, IInv, TypeOK, BackoffsEnd
<1>3. alive' \in SUBSET Procs
  BY DEF IInv, TypeOK
<1>4. TypeOK'
  BY <1>1, <1>2, <1>3 DEF TypeOK, OpTyped, WorldTyped, Conns, Locks, Files, File
<1>5. QED
  BY <1>1, <1>2, <1>4 DEF IInv

\* A step that leaves the operations and their turns alone.
LEMMA OtherStepKeeps ==
    ASSUME IInv, UNCHANGED <<op, queue, alive>>, WorldTyped,
           driver' = driver \/ DriversTyped
    PROVE  IInv'
<1>1. driver' \in [Analyses -> Drivers] /\ BackoffsEnd'
  BY DEF DriversTyped, IInv, TypeOK, BackoffsEnd
<1>2. TypeOK'
  BY <1>1 DEF IInv, TypeOK, WorldTyped, Conns, Locks, Files, File
<1>3. Sessions' /\ TriesLeft' /\ DbKnown'
  BY DEF IInv, Sessions, InSession, HasSession, At, TriesLeft, DbKnown
<1>4. QED
  BY <1>1, <1>2, <1>3 DEF IInv

LEMMA AnalysisKeeps ==
    ASSUME IInv, NEW a \in Analyses, AnalysisStep(a)
    PROVE  IInv'
<1>1. a \in Ops /\ ProcOf[a] \in Procs
  BY AdapterAssumption DEF Ops
<1>2. alive' = alive /\ lock' = lock
  BY DEF AnalysisStep, StopDriver, StopReturns, CloseAnalysis
<1>3. conn' \in Conns /\ disk' \in Files
  BY <1>1, SafeCloseTyped, Typed DEF AnalysisStep, StopDriver, StopReturns, CloseAnalysis
<1>4. driver' = driver \/ DriversTyped
  BY StopTyped DEF AnalysisStep, StopDriver, StopReturns, CloseAnalysis
<1>5. QED
  BY <1>1, <1>2, <1>3, <1>4, AnalysisSteps, OpStepKeeps, Typed DEF WorldTyped

LEMMA CheckpointKeeps ==
    ASSUME IInv, NEW a \in Analyses, CheckpointStep(a) \/ DriverTicks(a)
    PROVE  IInv'
<1>1. UNCHANGED <<op, queue, alive>> /\ conn' = conn /\ lock' = lock
  BY DEF CheckpointStep, CheckpointRetries, CheckpointEnds, DriverTicks
<1>2. DriversTyped
  BY DriverTyped DEF CheckpointStep, CheckpointRetries, CheckpointEnds, DriverTicks
<1>3. \/ disk' = disk
      \/ disk' = [disk EXCEPT ![op[a].db].wal = "none"]
  BY DEF CheckpointStep, CheckpointRetries, CheckpointEnds, DriverTicks
<1>4. disk' \in Files
  <2>1. CASE op[a].db \in Databases
    BY <1>3, <2>1, FileEdited, Typed
  <2>2. CASE op[a].db \notin Databases
    BY <1>3, <2>2, Typed DEF Files
  <2>3. QED
    BY <2>1, <2>2
<1>5. QED
  BY <1>1, <1>2, <1>4, OtherStepKeeps, Typed DEF WorldTyped

LEMMA NextKeeps == IInv /\ [Next]_vars => IInv'
<1> SUFFICES ASSUME IInv, [Next]_vars
             PROVE  IInv'
  OBVIOUS
<1>1. ASSUME NEW o \in Ops, OpenStep(o)
      PROVE  IInv'
  BY <1>1, EnterSteps, LockSteps, OpeningSteps, RetrySteps, OpenStepTyped, OpStepKeeps DEF OpenStep
<1>2. ASSUME NEW o \in Ops, Ends(o) \/ \E d \in Databases : Request(o, d)
      PROVE  IInv'
  BY <1>2, EndSteps, RequestSteps, WorkTyped, OpStepKeeps
<1>3. ASSUME NEW o \in Ops, Commit(o)
      PROVE  IInv'
  <2>1. UNCHANGED <<op, queue, alive>>
    BY <1>3 DEF Commit
  <2>2. QED
    BY <1>3, <2>1, WorkTyped, OtherStepKeeps
<1>4. ASSUME NEW a \in Analyses, AnalysisStep(a) \/ CheckpointStep(a) \/ DriverTicks(a)
      PROVE  IInv'
  BY <1>4, AnalysisKeeps, CheckpointKeeps
<1>5. ASSUME NEW p \in Procs, CloseForDelete(p)
      PROVE  IInv'
  BY <1>5, SafeCloseTyped, OtherStepKeeps, Typed DEF CloseForDelete, WorldTyped
<1>6. ASSUME NEW p \in Procs, Crash(p)
      PROVE  IInv'
  BY <1>6, CrashKeeps
<1>7. CASE UNCHANGED vars
  BY <1>7, OtherStepKeeps, Typed DEF vars, WorldTyped
<1>8. QED
  BY <1>1, <1>2, <1>3, <1>4, <1>5, <1>6, <1>7 DEF Next

LEMMA IInvAlways == Spec => []IInv
BY Initially, NextKeeps, PTL DEF Spec

(* The adapter keeps its types: no operation counts an attempt at the lock *)
(* file or a try of the open beyond its budget, and no checkpoint is       *)
(* retried more often than the driver allows.                              *)
THEOREM AdapterTypeCorrect == Spec => []TypeOK
<1>1. IInv => TypeOK
  BY DEF IInv
<1>2. QED
  BY <1>1, IInvAlways, PTL

-----------------------------------------------------------------------------
(* Which stage follows which.                                              *)
AfterBusy == {"failed", "cleanup"}
Following(s) ==
  CASE s = "queued" -> {"working", "open", "lock"}
    [] s = "lock" -> {"created", "held"}
    [] s = "held" -> {"break", "lock"} \cup AfterBusy
    [] s = "break" -> {"lock"} \cup AfterBusy
    [] s = "created" -> {"check"}
    [] s = "check" -> {"preflight", "sweep"}
    [] s = "sweep" -> {"preflight"}
    [] s = "preflight" -> {"quarantine", "open"}
    [] s = "quarantine" -> {"refused", "open"}
    [] s = "open" -> {"opened", "refused", "working", "failed"}
    [] s = "opened" -> {"working"}
    [] s = "refused" -> {"failed"}
    [] s = "working" -> {"done", "stopping"} \cup AfterBusy
    [] s = "cleanup" -> {"asleep"}
    [] s = "asleep" -> {"queued"}
    [] s = "stopping" -> {"stopped"}
    [] s = "stopped" -> {"done"}
    [] OTHER -> {}

Moves(o) ==
  /\ \A x \in Ops \ {o} : op'[x] = op[x]
  /\ op'[o].db = op[o].db
  /\ op'[o].at \in Following(op[o].at)

LEMMA BusyMoves ==
    ASSUME TypeOK, NEW o \in Ops, Busy(o) \/ Fail(o)
    PROVE  /\ \A x \in Ops \ {o} : op'[x] = op[x]
           /\ op'[o].db = op[o].db /\ op'[o].at \in AfterBusy
<1>1. \E s \in AfterBusy : Go(o, s)
  BY DEF Busy, Fail, AfterBusy
<1>2. AfterBusy \subseteq Stages
  BY DEF AfterBusy, Stages
<1>3. QED
  BY <1>1, <1>2, GoTyped

LEMMA AttemptMoves ==
    ASSUME TypeOK, NEW o \in Ops, NextAttempt(o)
    PROVE  /\ \A x \in Ops \ {o} : op'[x] = op[x]
           /\ op'[o].db = op[o].db /\ op'[o].at \in {"lock"} \cup AfterBusy
<1>1. CASE Busy(o)
  BY <1>1, BusyMoves
<1>2. CASE ~Busy(o)
  <2>1. op' = [op EXCEPT ![o].at = "lock", ![o].attempt = @ + 1]
    BY <1>2 DEF NextAttempt
  <2>2. QED
    BY <2>1 DEF TypeOK
<1>3. QED
  BY <1>1, <1>2

LEMMA GoMoves ==
    ASSUME TypeOK, NEW o \in Ops, NEW s \in Stages, Go(o, s), s \in Following(op[o].at)
    PROVE  Moves(o)
BY GoTyped DEF Moves

LEMMA OpenMoves ==
    ASSUME TypeOK, NEW o \in Ops, OpenStep(o)
    PROVE  Moves(o)
<1>1. Stages = {"idle", "queued", "lock", "held", "break", "created", "check", "sweep",
                "preflight", "quarantine", "open", "opened", "refused", "working",
                "stopping", "stopped", "cleanup", "asleep", "done", "failed", "dead"}
  BY DEF Stages
<1>2. CASE Enter(o)
  <2>1. op[o].at = "queued" /\ \E s \in {"working", "open", "lock"} : Go(o, s)
    BY <1>2 DEF Enter, Ready, At
  <2>2. QED
    BY <1>1, <2>1, GoMoves DEF Following
<1>3. CASE CreateLock(o) \/ LockExists(o)
  <2>1. op[o].at = "lock" /\ \E s \in {"created", "held"} : Go(o, s)
    BY <1>3 DEF CreateLock, LockExists, At
  <2>2. QED
    BY <1>1, <2>1, GoMoves DEF Following
<1>4. CASE WriteLock(o)
  BY <1>1, <1>4, GoMoves DEF WriteLock, At, Following
<1>5. CASE ReadLock(o)
  <2>1. op[o].at = "held" /\ (Go(o, "break") \/ NextAttempt(o))
    BY <1>5 DEF ReadLock, At
  <2>2. QED
    BY <1>1, <2>1, GoMoves, AttemptMoves DEF Following, Moves, AfterBusy
<1>6. CASE BreakLock(o)
  BY <1>6, AttemptMoves DEF BreakLock, At, Following, Moves, AfterBusy
<1>7. CASE CheckMain(o)
  <2>1. op[o].at = "check" /\ \E s \in {"preflight", "sweep"} : Go(o, s)
    BY <1>7 DEF CheckMain, At
  <2>2. QED
    BY <1>1, <2>1, GoMoves DEF Following
<1>8. CASE Sweep(o)
  BY <1>1, <1>8, GoMoves DEF Sweep, At, Following
<1>9. CASE Preflight(o)
  <2>1. op[o].at = "preflight" /\ \E s \in {"quarantine", "open"} : Go(o, s)
    BY <1>9 DEF Preflight, At
  <2>2. QED
    BY <1>1, <2>1, GoMoves DEF Following
<1>10. CASE Quarantine(o)
  <2>1. op[o].at = "quarantine" /\ \E s \in {"refused", "open"} : Go(o, s)
    BY <1>10 DEF Quarantine, At
  <2>2. QED
    BY <1>1, <2>1, GoMoves DEF Following
<1>11. CASE Open(o)
  <2>1. op[o].at = "open" /\ \E s \in {"working", "opened", "refused", "failed"} : Go(o, s)
    BY <1>11 DEF Open, Ready, Fail, At
  <2>2. QED
    BY <1>1, <2>1, GoMoves DEF Following
<1>12. CASE Release(o)
  <2>1. \/ op[o].at = "opened" /\ Go(o, "working")
        \/ op[o].at = "refused" /\ Go(o, "failed")
    BY <1>12 DEF Release, Ready, Fail, At
  <2>2. QED
    BY <1>1, <2>1, GoMoves DEF Following
<1>13. CASE Cleanup(o)
  BY <1>1, <1>13, GoMoves DEF Cleanup, At, Following
<1>14. CASE Wake(o)
  BY <1>14 DEF Wake, At, Following, Moves, TypeOK
<1>15. QED
  BY <1>2, <1>3, <1>4, <1>5, <1>6, <1>7, <1>8, <1>9, <1>10, <1>11, <1>12, <1>13, <1>14
     DEF OpenStep

LEMMA EndMoves ==
    ASSUME TypeOK, NEW o \in Ops, Ends(o)
    PROVE  Moves(o) /\ conn' = conn /\ lock' = lock /\ op[o].at = "working"
           /\ o \notin Analyses /\ op'[o].at \in {"done"} \cup AfterBusy
<1>1. /\ conn' = conn /\ lock' = lock /\ op[o].at = "working" /\ o \notin Analyses
      /\ Go(o, "done") \/ Busy(o) \/ Fail(o)
  BY DEF Ends, Return, Throw, At
<1>2. CASE Go(o, "done")
  BY <1>1, <1>2, GoTyped, GoMoves DEF Stages, Following
<1>3. CASE Busy(o) \/ Fail(o)
  BY <1>1, <1>3, BusyMoves DEF Moves, Following
<1>4. QED
  BY <1>1, <1>2, <1>3

LEMMA AnalysisMoves ==
    ASSUME TypeOK, NEW a \in Analyses, AnalysisStep(a)
    PROVE  /\ a \in Ops /\ Moves(a) /\ lock' = lock
           /\ op'[a].at \in {"stopping", "stopped", "done"}
<1>1. a \in Ops /\ lock' = lock
  BY DEF Ops, AnalysisStep, StopDriver, StopReturns, CloseAnalysis
<1>2. \/ op[a].at = "working" /\ Go(a, "stopping")
      \/ op[a].at = "stopping" /\ Go(a, "stopped")
      \/ op[a].at = "stopped" /\ Go(a, "done")
  BY DEF AnalysisStep, StopDriver, StopReturns, CloseAnalysis, At
<1>3. QED
  BY <1>1, <1>2, GoTyped, GoMoves DEF Stages, Following

LEMMA RequestMoves ==
    ASSUME TypeOK, NEW o \in Ops, NEW d \in Databases, Request(o, d)
    PROVE  /\ \A x \in Ops \ {o} : op'[x] = op[x]
           /\ op[o].at = "idle" /\ op'[o].at = "queued" /\ conn' = conn /\ lock' = lock
BY DEF Request, At, TypeOK

-----------------------------------------------------------------------------
(* The connection of an operation at work, or about to be.                 *)
Kept == \A o \in Ops : op[o].at \in {"working", "opened"} => Connected(o)

\* Only the holder of the session lock or an analysis disturbs a connection.
LEMMA OthersKeepConnection ==
    ASSUME IInv, Kept, NEW o \in Ops, HasSession(o) \/ o \in Analyses,
           NEW x \in Ops \ {o}, op'[x] = op[x], op'[x].at \in {"working", "opened"},
           \A p \in Procs \ {ProcOf[o]} : conn'[p] = conn[p]
    PROVE  Connected(x)'
<1>1. ProcOf[o] \in Procs /\ ProcOf[x] \in Procs
  BY AdapterAssumption
<1>2. Connected(x)
  BY DEF Kept
<1>3. ProcOf[x] # ProcOf[o]
  <2>1. SUFFICES ASSUME ProcOf[x] = ProcOf[o]
                 PROVE  FALSE
    OBVIOUS
  <2>2. o \notin Analyses /\ x \notin Analyses
    BY <2>1, AdapterAssumption
  <2>3. InSession(x)
    BY <2>2 DEF InSession, At, Critical
  <2>4. HasSession(x) /\ HasSession(o)
    BY <2>2, <2>3 DEF IInv, Sessions
  <2>5. QED
    BY <2>1, <2>4 DEF HasSession
<1>4. QED
  BY <1>1, <1>2, <1>3 DEF Connected, Wanted, ReadOnly

LEMMA OpenKeepsConnections ==
    ASSUME IInv, Kept, NEW o \in Ops, OpenStep(o)
    PROVE  Kept'
<1>1. TypeOK /\ Moves(o)
  BY OpenMoves DEF IInv
<1>2. ProcOf[o] \in Procs /\ conn \in Conns
  BY Typed
<1>3. CASE conn' = conn /\ op[o].at \notin {"queued", "open"}
  <2>1. ASSUME NEW x \in Ops, op'[x].at \in {"working", "opened"}
        PROVE  op[x].at \in {"working", "opened"} /\ op'[x].db = op[x].db
    <3>1. CASE x # o
      BY <1>1, <2>1, <3>1 DEF Moves
    <3>2. CASE x = o
      BY <1>1, <1>3, <2>1, <3>2 DEF Moves, Following, AfterBusy
    <3>3. QED
      BY <3>1, <3>2
  <2>2. QED
    BY <1>3, <2>1 DEF Kept, Connected, Wanted, ReadOnly
<1>4. CASE \/ op[o].at \in {"queued", "open"}
           \/ conn' # conn
  <2>1. HasSession(o) /\ (Enter(o) \/ Open(o) \/ Cleanup(o))
    <3>1. CASE Open(o)
      BY <3>1 DEF Open, At, IInv, Sessions, InSession
    <3>2. CASE ~Open(o)
      BY <1>4, <3>2 DEF OpenStep, Enter, Cleanup, CreateLock, LockExists, WriteLock, ReadLock,
         BreakLock, CheckMain, Sweep, Preflight, Quarantine, Release, Wake, At
    <3>3. QED
      BY <3>1, <3>2
  <2>2. \A p \in Procs \ {ProcOf[o]} : conn'[p] = conn[p]
    BY <1>2, <2>1 DEF Enter, Open, Cleanup, SafeClose, Conns
  <2>3. ASSUME op'[o].at \in {"working", "opened"}
        PROVE  Connected(o)'
    <3>1. CASE Enter(o)
      <4>1. op[o].at = "queued"
        BY <3>1 DEF Enter, At
      <4>2. CASE Connected(o) /\ UNCHANGED conn
        BY <1>1, <4>2 DEF Connected, Wanted, Moves, ReadOnly
      <4>3. CASE \E s \in {"open", "lock"} : Go(o, s)
        BY <1>1, <2>3, <4>3, GoTyped DEF Stages
      <4>4. QED
        BY <3>1, <4>2, <4>3 DEF Enter
    <3>2. CASE Open(o) /\ conn' = [conn EXCEPT ![ProcOf[o]] = Wanted(o)]
      BY <1>1, <1>2, <3>2 DEF Connected, Wanted, Moves, ReadOnly, Conns
    <3>3. CASE Open(o) /\ ~(conn' = [conn EXCEPT ![ProcOf[o]] = Wanted(o)])
      <4>1. \E s \in {"failed", "refused"} : Go(o, s)
        BY <3>3 DEF Open, Fail
      <4>2. QED
        BY <1>1, <2>3, <4>1, GoTyped DEF Stages
    <3>4. CASE Cleanup(o)
      BY <1>1, <2>3, <3>4 DEF Cleanup, At, Moves, Following
    <3>5. QED
      BY <2>1, <3>1, <3>2, <3>3, <3>4
  <2>4. ASSUME NEW x \in Ops, op'[x].at \in {"working", "opened"}
        PROVE  Connected(x)'
    BY <1>1, <2>1, <2>2, <2>3, <2>4, OthersKeepConnection DEF Moves
  <2>5. QED
    BY <2>4 DEF Kept
<1>5. QED
  BY <1>3, <1>4

LEMMA NextKeepsConnections ==
    ASSUME "busyDelete" \notin Disturbances, IInv, Kept, [Next]_vars
    PROVE  Kept'
<1>1. TypeOK /\ conn \in Conns
  BY Typed DEF IInv
<1>2. ASSUME conn' = conn,
             \A x \in Ops : op'[x].at \in {"working", "opened"} => op'[x] = op[x]
      PROVE  Kept'
  BY <1>2 DEF Kept, Connected, Wanted, ReadOnly
<1>3. ASSUME NEW o \in Ops, OpenStep(o)
      PROVE  Kept'
  BY <1>3, OpenKeepsConnections
<1>4. ASSUME NEW o \in Ops, Ends(o)
      PROVE  Kept'
  BY <1>1, <1>2, <1>4, EndMoves DEF Moves, AfterBusy
<1>5. ASSUME NEW o \in Ops, NEW d \in Databases, Request(o, d)
      PROVE  Kept'
  BY <1>1, <1>2, <1>5, RequestMoves
<1>6. ASSUME NEW a \in Analyses, AnalysisStep(a)
      PROVE  Kept'
  <2>1. /\ a \in Ops /\ Moves(a) /\ op'[a].at \in {"stopping", "stopped", "done"}
        /\ \A p \in Procs \ {ProcOf[a]} : conn'[p] = conn[p]
    BY <1>1, <1>6, AnalysisMoves
       DEF AnalysisStep, StopDriver, StopReturns, CloseAnalysis, SafeClose, Conns
  <2>2. ASSUME NEW x \in Ops, op'[x].at \in {"working", "opened"}
        PROVE  Connected(x)'
    BY <2>1, <2>2, OthersKeepConnection DEF Moves
  <2>3. QED
    BY <2>2 DEF Kept
<1>7. ASSUME NEW p \in Procs, CloseForDelete(p)
      PROVE  Kept'
  <2>1. queue[p] = <<>> /\ op' = op /\ (\A a \in Analyses : ProcOf[a] # p)
        /\ \A q \in Procs \ {p} : conn'[q] = conn[q]
    BY <1>1, <1>7 DEF CloseForDelete, SafeClose, Conns
  <2>2. ASSUME NEW x \in Ops, op[x].at \in {"working", "opened"}
        PROVE  ProcOf[x] \in Procs \ {p}
    <3>1. CASE InSession(x)
      BY <2>1, <3>1, AdapterAssumption DEF IInv, Sessions, HasSession
    <3>2. CASE ~InSession(x)
      BY <2>1, <2>2, <3>2, AdapterAssumption DEF InSession, At, Critical
    <3>3. QED
      BY <3>1, <3>2
  <2>3. QED
    BY <2>1, <2>2 DEF Kept, Connected, Wanted, ReadOnly
<1>8. ASSUME NEW p \in Procs, Crash(p)
      PROVE  Kept'
  <2>1. ASSUME NEW x \in Ops, op'[x].at \in {"working", "opened"}
        PROVE  ProcOf[x] # p /\ op'[x] = op[x]
    BY <1>1, <1>8, <2>1 DEF Crash, TypeOK
  <2>2. \A q \in Procs \ {p} : conn'[q] = conn[q]
    BY <1>1, <1>8 DEF Crash, Conns
  <2>3. QED
    BY <2>1, <2>2, AdapterAssumption DEF Kept, Connected, Wanted, ReadOnly
<1>9. ASSUME op' = op, conn' = conn
      PROVE  Kept'
  BY <1>9 DEF Kept, Connected, Wanted, ReadOnly
<1>10. ASSUME NEW a \in Analyses, CheckpointStep(a) \/ DriverTicks(a)
       PROVE  Kept'
  BY <1>9, <1>10 DEF CheckpointStep, CheckpointRetries, CheckpointEnds, DriverTicks
<1>11. ASSUME NEW o \in Ops, Commit(o)
       PROVE  Kept'
  BY <1>9, <1>11 DEF Commit
<1>12. QED
  BY <1>3, <1>4, <1>5, <1>6, <1>7, <1>8, <1>9, <1>10, <1>11 DEF Next, vars

(* As long as no repository is deleted under a running operation, the      *)
(* session lock does its work: whoever works finds the connection it asked *)
(* for, however the others of its process queue, fail, retry and clean up. *)
THEOREM SessionAlwaysKept ==
    ASSUME "busyDelete" \notin Disturbances
    PROVE  Spec => []SessionKeepsDatabase
<1>1. Init => Kept
  BY DEF Init, Kept, Idle
<1>2. IInv /\ Kept /\ [Next]_vars => Kept'
  BY NextKeepsConnections
<1>3. Kept => SessionKeepsDatabase
  BY DEF Kept, SessionKeepsDatabase, At
<1>4. QED
  BY <1>1, <1>2, <1>3, IInvAlways, PTL DEF Spec

-----------------------------------------------------------------------------
(* The lock file.  The stages around it are an update's or an analysis's;  *)
(* until a process has died nobody breaks a lock, and the file of a        *)
(* database names the operation that is between its creation and removal.  *)
OwnersKnown == \A d \in Databases : lock[d].written => lock[d].by \in Ops

LockStages == {"lock", "held", "break", "created", "check", "sweep", "preflight",
               "quarantine", "opened", "refused"}
Writers == \A o \in Ops : op[o].at \in LockStages => ~ReadOnly(o)

NoBreak == \A o \in Ops : op[o].at # "break"

Named == \A o \in Ops : Critically(o) => lock[op[o].db].by = o

Orphaned == \A o \in Ops : At(o, "sweep") => ~disk[op[o].db].main

Exclusive == OwnersKnown /\ Writers /\ (alive = Procs => NoBreak /\ Named /\ Orphaned)

LEMMA NamedExcludes == ASSUME Named PROVE OneOpener
BY DEF Named, OneOpener

LEMMA WritersKept ==
    ASSUME IInv, Writers, [Next]_vars
    PROVE  Writers'
<1>1. TypeOK
  BY DEF IInv
<1>2. ASSUME NEW o \in Ops, OpenStep(o)
      PROVE  Writers'
  <2>1. Moves(o)
    BY <1>1, <1>2, OpenMoves
  <2>2. ASSUME op'[o].at \in LockStages
        PROVE  ~ReadOnly(o)
    <3>1. CASE op[o].at \in LockStages
      BY <3>1 DEF Writers
    <3>2. CASE op[o].at = "queued"
      <4>1. Enter(o)
        BY <1>2, <3>2 DEF OpenStep, Enter, CreateLock, LockExists, WriteLock, ReadLock, BreakLock,
           CheckMain, Sweep, Preflight, Quarantine, Open, Release, Cleanup, Wake, At
      <4>2. CASE Go(o, IF ReadOnly(o) THEN "open" ELSE "lock")
        BY <1>1, <2>2, <4>2, GoTyped DEF Stages, LockStages
      <4>3. CASE Go(o, "working")
        BY <1>1, <2>2, <4>3, GoTyped DEF Stages, LockStages
      <4>4. QED
        BY <4>1, <4>2, <4>3 DEF Enter, Ready
    <3>3. CASE op[o].at = "open"
      <4>1. Open(o)
        BY <1>2, <3>3 DEF OpenStep, Enter, CreateLock, LockExists, WriteLock, ReadLock, BreakLock,
           CheckMain, Sweep, Preflight, Quarantine, Open, Release, Cleanup, Wake, At
      <4>2. ReadOnly(o) => \E s \in {"working", "failed"} : Go(o, s)
        BY <4>1 DEF Open, Ready, Fail
      <4>3. QED
        BY <1>1, <2>2, <4>2, GoTyped DEF Stages, LockStages
    <3>4. QED
      BY <2>1, <2>2, <3>1, <3>2, <3>3 DEF Moves, Following, AfterBusy, LockStages
  <2>3. QED
    BY <2>1, <2>2 DEF Moves, Writers, ReadOnly
<1>3. ASSUME \A x \in Ops : op'[x].at \in LockStages => op'[x] = op[x]
      PROVE  Writers'
  BY <1>3 DEF Writers, ReadOnly
<1>4. ASSUME NEW o \in Ops, Ends(o)
      PROVE  Writers'
  BY <1>1, <1>3, <1>4, EndMoves DEF Moves, AfterBusy, LockStages
<1>5. ASSUME NEW o \in Ops, NEW d \in Databases, Request(o, d)
      PROVE  Writers'
  BY <1>1, <1>3, <1>5, RequestMoves DEF LockStages
<1>6. ASSUME NEW a \in Analyses, AnalysisStep(a)
      PROVE  Writers'
  BY <1>1, <1>3, <1>6, AnalysisMoves DEF Moves, LockStages
<1>7. ASSUME NEW p \in Procs, Crash(p)
      PROVE  Writers'
  BY <1>1, <1>3, <1>7 DEF Crash, TypeOK, LockStages
<1>8. CASE op' = op
  BY <1>3, <1>8
<1>9. QED
  BY <1>2, <1>4, <1>5, <1>6, <1>7, <1>8
     DEF Next, vars, CloseForDelete, CheckpointStep, CheckpointRetries, CheckpointEnds,
         DriverTicks, Commit

LEMMA OwnersKept ==
    ASSUME IInv, OwnersKnown, [Next]_vars
    PROVE  OwnersKnown'
<1>1. CASE lock' = lock
  BY <1>1 DEF OwnersKnown
<1>2. ASSUME NEW o \in Ops, CreateLock(o) \/ WriteLock(o) \/ BreakLock(o) \/ Release(o)
      PROVE  OwnersKnown'
  <2>1. op[o].db \in Databases /\ lock \in Locks
    BY <1>2, Typed DEF IInv, DbKnown, CreateLock, WriteLock, BreakLock, Release, At
  <2>2. \A d \in Databases \ {op[o].db} : lock'[d] = lock[d]
    BY <1>2, <2>1 DEF CreateLock, WriteLock, BreakLock, Release, Locks
  <2>3. lock'[op[o].db].written => lock'[op[o].db].by \in Ops
    <3>1. CASE CreateLock(o) \/ BreakLock(o) \/ Release(o)
      BY <2>1, <3>1 DEF CreateLock, BreakLock, Release, Locks, NoLock
    <3>2. CASE WriteLock(o)
      <4>1. lock' = [lock EXCEPT ![op[o].db] =
                       [lock[op[o].db] EXCEPT !.written = @ \/ lock[op[o].db].by = o]]
        BY <3>2 DEF WriteLock
      <4>2. /\ lock'[op[o].db].by = lock[op[o].db].by
            /\ lock'[op[o].db].written
                 => lock[op[o].db].written \/ lock[op[o].db].by = o
        BY <2>1, <4>1 DEF Locks
      <4>3. QED
        BY <2>1, <4>2 DEF OwnersKnown
    <3>3. QED
      BY <1>2, <3>1, <3>2
  <2>4. QED
    BY <2>2, <2>3 DEF OwnersKnown
<1>3. ASSUME NEW o \in Ops, OpenStep(o)
      PROVE  OwnersKnown'
  BY <1>1, <1>2, <1>3 DEF OpenStep, Enter, LockExists, ReadLock, CheckMain, Sweep, Preflight,
     Quarantine, Open, Cleanup, Wake
<1>4. QED
  BY <1>1, <1>3
     DEF Next, vars, Ends, Return, Throw, Commit, Request, AnalysisStep, StopDriver, StopReturns,
         CloseAnalysis, CheckpointStep, CheckpointRetries, CheckpointEnds, DriverTicks,
         CloseForDelete, Crash

-----------------------------------------------------------------------------
SameMains == \A d \in Databases : disk'[d].main = disk[d].main

LEMMA MainUntouched ==
    ASSUME IInv, NEW d, NEW v,
           \/ disk' = [disk EXCEPT ![d].wal = v]
           \/ disk' = [disk EXCEPT ![d].sidecar = v]
    PROVE  SameMains
<1>1. disk \in Files
  BY Typed
<1>2. \A f \in File : [f EXCEPT !.wal = v].main = f.main /\ [f EXCEPT !.sidecar = v].main = f.main
  BY DEF File
<1>3. \/ disk' = [disk EXCEPT ![d] = [disk[d] EXCEPT !.wal = v]]
      \/ disk' = [disk EXCEPT ![d] = [disk[d] EXCEPT !.sidecar = v]]
  OBVIOUS
<1>4. QED
  BY <1>1, <1>2, <1>3 DEF SameMains, Files

LEMMA SafeCloseKeepsMains ==
    ASSUME IInv, NEW p \in Procs, SafeClose(p)
    PROVE  SameMains
<1>1. CASE disk' = disk
  BY <1>1 DEF SameMains
<1>2. CASE disk' # disk
  <2>1. PICK w : disk' = [disk EXCEPT ![conn[p].db].wal = w]
    BY <1>2 DEF SafeClose
  <2>2. QED
    BY <2>1, MainUntouched
<1>3. QED
  BY <1>1, <1>2

\* No step but the opening of a database creates a database file.
LEMMA OnlyOpenCreates ==
    ASSUME IInv, [Next]_vars
    PROVE  SameMains \/ \E o \in Ops : Open(o) /\ CanOpen(o)
<1>1. disk' = disk => SameMains
  BY DEF SameMains
<1>2. ASSUME NEW o \in Ops, OpenStep(o)
      PROVE  SameMains \/ (Open(o) /\ CanOpen(o))
  <2>1. ProcOf[o] \in Procs
    BY Typed
  <2>2. CASE Enter(o) \/ Cleanup(o)
    BY <1>1, <2>1, <2>2, SafeCloseKeepsMains DEF Enter, Cleanup
  <2>3. CASE Sweep(o) \/ Quarantine(o)
    <3>1. \/ disk' = [disk EXCEPT ![op[o].db].wal = "none"]
          \/ disk' = [disk EXCEPT ![op[o].db].sidecar = FALSE]
      BY <2>3 DEF Sweep, Quarantine
    <3>2. QED
      BY <3>1, MainUntouched
  <2>4. CASE Open(o)
    <3>1. CASE ~CanOpen(o)
      <4>1. disk' = disk
        BY <2>4, <3>1 DEF Open
      <4>2. QED
        BY <1>1, <4>1
    <3>2. QED
      BY <2>4, <3>1
  <2>5. CASE \/ CreateLock(o) \/ LockExists(o) \/ WriteLock(o) \/ ReadLock(o) \/ BreakLock(o)
             \/ CheckMain(o) \/ Preflight(o) \/ Release(o) \/ Wake(o)
    <3>1. disk' = disk
      BY <2>5 DEF CreateLock, LockExists, WriteLock, ReadLock, BreakLock, CheckMain, Preflight,
         Release, Wake
    <3>2. QED
      BY <1>1, <3>1
  <2>6. QED
    BY <1>2, <2>2, <2>3, <2>4, <2>5 DEF OpenStep
<1>3. ASSUME NEW o \in Ops,
             Ends(o) \/ Commit(o) \/ \E d \in Databases : Request(o, d)
      PROVE  SameMains
  <2>1. disk' = disk \/ \E v : disk' = [disk EXCEPT ![op[o].db].wal = v]
    BY <1>3, Zenon DEF Ends, Return, Throw, Commit, Request
  <2>2. QED
    BY <1>1, <2>1, MainUntouched
<1>4. ASSUME NEW a \in Analyses, AnalysisStep(a) \/ CheckpointStep(a) \/ DriverTicks(a)
      PROVE  SameMains
  <2>1. ProcOf[a] \in Procs
    BY Typed DEF Ops
  <2>2. \/ disk' = disk \/ SafeClose(ProcOf[a])
        \/ disk' = [disk EXCEPT ![op[a].db].wal = "none"]
    BY <1>4 DEF AnalysisStep, StopDriver, StopReturns, CloseAnalysis, CheckpointStep,
       CheckpointRetries, CheckpointEnds, DriverTicks
  <2>3. QED
    BY <1>1, <2>1, <2>2, MainUntouched, SafeCloseKeepsMains
<1>5. ASSUME NEW p \in Procs, CloseForDelete(p) \/ Crash(p)
      PROVE  SameMains
  <2>1. \/ disk' = disk \/ SafeClose(p)
        \/ disk' = [disk EXCEPT ![conn[p].db].sidecar = TRUE]
    BY <1>5 DEF CloseForDelete, Crash
  <2>2. QED
    BY <1>1, <2>1, MainUntouched, SafeCloseKeepsMains
<1>6. CASE UNCHANGED vars
  BY <1>1, <1>6 DEF vars
<1>7. QED
  BY <1>2, <1>3, <1>4, <1>5, <1>6 DEF Next

\* A lock file is not stale while no process has died.
LEMMA NotStale ==
    ASSUME IInv, OwnersKnown, "slowOpen" \notin Disturbances, alive = Procs, NEW d \in Databases
    PROVE  ~Stale(lock[d])
<1>1. lock[d].written => ProcOf[lock[d].by] \in alive
  BY AdapterAssumption DEF OwnersKnown
<1>2. QED
  BY <1>1 DEF Stale, Abandoned

LEMMA OpenKeepsLocks ==
    ASSUME IInv, OwnersKnown, Writers, NoBreak, Named, Orphaned,
           "slowOpen" \notin Disturbances, alive = Procs, NEW o \in Ops, OpenStep(o), Writers'
    PROVE  NoBreak' /\ Named'
<1>1. TypeOK /\ Moves(o) /\ lock \in Locks
  BY OpenMoves, Typed DEF IInv
<1>2. ~BreakLock(o)
  BY DEF NoBreak, BreakLock, At
<1>3. NoBreak'
  <2>1. CASE ReadLock(o)
    <3>1. op[o].db \in Databases
      BY <2>1 DEF ReadLock, At, IInv, DbKnown
    <3>2. NextAttempt(o)
      BY <2>1, <3>1, NotStale DEF ReadLock
    <3>3. QED
      BY <1>1, <3>2, AttemptMoves DEF NoBreak, AfterBusy
  <2>2. CASE ~ReadLock(o)
    <3>1. op[o].at # "held"
      BY <1>2, <2>2 DEF OpenStep, Enter, CreateLock, LockExists, WriteLock, ReadLock, BreakLock,
         CheckMain, Sweep, Preflight, Quarantine, Open, Release, Cleanup, Wake, At
    <3>2. QED
      BY <1>1, <3>1 DEF NoBreak, Moves, Following, AfterBusy
  <2>3. QED
    BY <2>1, <2>2
<1>4. \/ lock' = lock \/ CreateLock(o) \/ WriteLock(o) \/ Release(o)
  BY <1>2 DEF OpenStep, Enter, LockExists, ReadLock, CheckMain, Sweep, Preflight, Quarantine,
     Open, Cleanup, Wake
<1>5. CreateLock(o) \/ WriteLock(o) \/ Release(o) => op[o].db \in Databases
  BY DEF CreateLock, WriteLock, Release, At, IInv, DbKnown
<1>6. ASSUME NEW x \in Ops, op'[x].db \in Databases, lock[op'[x].db].by = x,
             ~CreateLock(o) \/ x # o, ~Release(o) \/ x # o
      PROVE  lock'[op'[x].db].by = x
  <2>1. CASE CreateLock(o)
    <3>1. lock[op[o].db].by = NoOp /\ x # NoOp
      BY <2>1, AdapterAssumption DEF CreateLock, NoLock
    <3>2. op[o].db # op'[x].db
      BY <1>6, <3>1
    <3>3. QED
      BY <1>1, <1>6, <2>1, <3>2 DEF CreateLock, Locks
  <2>2. CASE WriteLock(o)
    <3>1. lock' = [lock EXCEPT ![op[o].db] =
                     [lock[op[o].db] EXCEPT !.written = @ \/ lock[op[o].db].by = o]]
      BY <2>2 DEF WriteLock
    <3>2. \A d \in Databases : lock'[d].by = lock[d].by
      BY <1>1, <3>1 DEF Locks
    <3>3. QED
      BY <1>6, <3>2
  <2>3. CASE Release(o)
    <3>1. Critically(o)
      BY <2>3 DEF Release, Writers, LockStages, Critically, Critical
    <3>2. lock[op[o].db].by = o
      BY <3>1 DEF Named
    <3>3. op[o].db # op'[x].db
      BY <1>6, <2>3, <3>2
    <3>4. QED
      BY <1>1, <1>6, <2>3, <3>3 DEF Release, Locks
  <2>4. QED
    BY <1>4, <1>6, <2>1, <2>2, <2>3
<1>7. ASSUME NEW x \in Ops, Critically(x)'
      PROVE  lock'[op'[x].db].by = x
  <2>1. CASE x # o
    <3>1. op'[x] = op[x] /\ Critically(x)
      BY <1>1, <1>7, <2>1 DEF Moves, Critically, ReadOnly
    <3>2. op[x].db \in Databases /\ lock[op[x].db].by = x
      BY <3>1 DEF Named, IInv, DbKnown, Critically, Critical
    <3>3. QED
      BY <1>6, <2>1, <3>1, <3>2
  <2>2. CASE x = o /\ Critically(o)
    <3>1. op'[o].db = op[o].db /\ op[o].db \in Databases /\ lock[op[o].db].by = o
      BY <1>1, <2>2 DEF Moves, Named, IInv, DbKnown, Critically, Critical
    <3>2. ~CreateLock(o)
      BY <2>2 DEF CreateLock, At, Critically, Critical
    <3>3. ~Release(o)
      BY <1>1, <1>7, <2>2 DEF Release, Moves, Following, Critically, Critical
    <3>4. QED
      BY <1>6, <2>2, <3>1, <3>2, <3>3
  <2>3. CASE x = o /\ ~Critically(o)
    <3>1. ~ReadOnly(o) /\ op'[o].at \in Critical /\ op[o].at \notin Critical
      BY <1>7, <2>3 DEF Critically, ReadOnly
    <3>2. op[o].at \in {"queued", "lock"}
      BY <1>1, <3>1 DEF Moves, Following, AfterBusy, Critical
    <3>3. CASE Enter(o)
      <4>1. \E s \in {"working", "lock"} : Go(o, s)
        BY <3>1, <3>3 DEF Enter, Ready
      <4>2. QED
        BY <1>1, <3>1, <4>1, GoTyped DEF Critical, Stages
    <3>4. CASE CreateLock(o)
      BY <1>1, <1>5, <2>3, <3>4 DEF CreateLock, Locks, Moves
    <3>5. CASE LockExists(o)
      BY <1>1, <3>1, <3>5, GoTyped DEF LockExists, Critical, Stages
    <3>6. QED
      BY <3>2, <3>3, <3>4, <3>5 DEF OpenStep, WriteLock, ReadLock, BreakLock, CheckMain, Sweep,
         Preflight, Quarantine, Open, Release, Cleanup, Wake, At
  <2>4. QED
    BY <2>1, <2>2, <2>3
<1>8. QED
  BY <1>3, <1>7 DEF Named

LEMMA NextKeepsLocks ==
    ASSUME "slowOpen" \notin Disturbances, IInv, Exclusive, [Next]_vars
    PROVE  Exclusive'
<1>1. OwnersKnown' /\ Writers' /\ TypeOK
  BY OwnersKept, WritersKept DEF Exclusive, IInv
<1> SUFFICES ASSUME alive' = Procs
             PROVE  NoBreak' /\ Named' /\ Orphaned'
  BY <1>1 DEF Exclusive
<1>2. (\A p \in Procs : ~Crash(p)) /\ alive = Procs
  <2>1. \A p \in Procs : ~Crash(p)
    BY DEF Crash
  <2>2. alive' = alive
    BY <2>1 DEF Next, vars, OpenStep, Enter, CreateLock, LockExists, WriteLock, ReadLock,
       BreakLock, CheckMain, Sweep, Preflight, Quarantine, Open, Release, Cleanup, Wake, Ends,
       Return, Throw, Commit, Request, AnalysisStep, StopDriver, StopReturns, CloseAnalysis,
       CheckpointStep, CheckpointRetries, CheckpointEnds, DriverTicks, CloseForDelete
  <2>3. QED
    BY <2>1, <2>2
<1>3. NoBreak /\ Named /\ Orphaned /\ OwnersKnown /\ Writers
  BY <1>2 DEF Exclusive
<1> DEFINE Quiet == /\ lock' = lock
                    /\ \A x \in Ops : op'[x].at \in Critical \cup {"break"} => op'[x] = op[x]
<1>4. Quiet => NoBreak' /\ Named'
  BY <1>3 DEF NoBreak, Named, Critically, ReadOnly
<1>5. ASSUME NEW o \in Ops, OpenStep(o)
      PROVE  NoBreak' /\ Named' /\ \A x \in Ops \ {o} : op'[x] = op[x]
  BY <1>1, <1>2, <1>3, <1>5, OpenKeepsLocks, OpenMoves DEF Moves
<1>6. ASSUME NEW o \in Ops, Ends(o)
      PROVE  Quiet
  BY <1>1, <1>6, EndMoves DEF Moves, AfterBusy, Critical
<1>7. ASSUME NEW o \in Ops, NEW d \in Databases, Request(o, d)
      PROVE  Quiet
  BY <1>1, <1>7, RequestMoves DEF Critical
<1>8. ASSUME NEW a \in Analyses, AnalysisStep(a)
      PROVE  Quiet
  BY <1>1, <1>8, AnalysisMoves DEF Moves, Critical
<1>9. ASSUME \/ UNCHANGED vars
             \/ \E o \in Ops : Commit(o)
             \/ \E a \in Analyses : CheckpointStep(a) \/ DriverTicks(a)
             \/ \E p \in Procs : CloseForDelete(p)
      PROVE  Quiet
  BY <1>9 DEF vars, Commit, CheckpointStep, CheckpointRetries, CheckpointEnds, DriverTicks,
     CloseForDelete
<1>10. Quiet \/ \E o \in Ops : OpenStep(o)
  BY <1>2, <1>6, <1>7, <1>8, <1>9 DEF Next
<1>11. Orphaned'
  <2> SUFFICES ASSUME NEW x \in Ops, op'[x].at = "sweep"
               PROVE  ~disk'[op'[x].db].main
    BY DEF Orphaned, At
  <2>1. PICK o \in Ops : Quiet \/ OpenStep(o)
    BY <1>10
  <2>2. CASE op'[x] = op[x]
    <3>1. /\ op[x].at = "sweep" /\ ~disk[op[x].db].main /\ op[x].db \in Databases
          /\ Critically(x)
      BY <1>3, <2>2 DEF Orphaned, At, IInv, DbKnown, Critically, Critical, Writers, LockStages
    <3>2. CASE SameMains
      BY <2>2, <3>1, <3>2 DEF SameMains
    <3>3. ASSUME NEW y \in Ops, Open(y), CanOpen(y)
          PROVE  ~disk'[op'[x].db].main
      <4>1. op[y].at = "open" /\ disk \in Files
        BY <3>3, Typed DEF Open, At
      <4>2. op[y].db # op[x].db
        <5>1. CASE ReadOnly(y)
          BY <3>1, <3>3, <5>1 DEF CanOpen
        <5>2. CASE ~ReadOnly(y)
          <6>1. Critically(y) /\ y # x
            BY <3>1, <4>1, <5>2 DEF Critically, Critical
          <6>2. QED
            BY <1>3, <3>1, <6>1, NamedExcludes DEF OneOpener
        <5>3. QED
          BY <5>1, <5>2
      <4>3. disk' = [disk EXCEPT ![op[y].db].main = TRUE, ![op[y].db].sidecar = FALSE]
        BY <3>3 DEF Open
      <4>4. disk'[op[x].db] = disk[op[x].db]
        BY <3>1, <4>1, <4>2, <4>3 DEF Files
      <4>5. QED
        BY <2>2, <3>1, <4>4
    <3>4. QED
      BY <3>2, <3>3, OnlyOpenCreates
  <2>3. CASE op'[x] # op[x]
    <3>1. x = o /\ OpenStep(o) /\ Moves(o)
      BY <1>1, <1>5, <2>1, <2>3, OpenMoves DEF Critical
    <3>2. op[o].at = "check"
      BY <3>1 DEF Moves, Following, AfterBusy
    <3>3. CheckMain(o)
      BY <3>1, <3>2 DEF OpenStep, Enter, CreateLock, LockExists, WriteLock, ReadLock, BreakLock,
         Sweep, Preflight, Quarantine, Open, Release, Cleanup, Wake, At
    <3>4. disk' = disk /\ op'[o].db = op[o].db
      BY <3>1, <3>3 DEF CheckMain, Moves
    <3>5. ~disk[op[o].db].main
      <4>1. SUFFICES ASSUME disk[op[o].db].main
                     PROVE  FALSE
        OBVIOUS
      <4>2. Go(o, "preflight")
        BY <3>3, <4>1 DEF CheckMain
      <4>3. QED
        BY <1>1, <3>1, <4>2, GoTyped DEF Stages
    <3>6. QED
      BY <3>1, <3>4, <3>5
  <2>4. QED
    BY <2>2, <2>3
<1>12. QED
  BY <1>4, <1>5, <1>10, <1>11

LEMMA ExclusiveAlways ==
    ASSUME "slowOpen" \notin Disturbances
    PROVE  Spec => []Exclusive
<1>1. Init => Exclusive
  BY DEF Init, Exclusive, OwnersKnown, Writers, LockStages, NoBreak, Named, Orphaned, NoLock,
     Idle, At, Critically, Critical
<1>2. IInv /\ Exclusive /\ [Next]_vars => Exclusive'
  BY NextKeepsLocks
<1>3. QED
  BY <1>1, <1>2, IInvAlways, PTL DEF Spec

(* If no open outlasts the age at which a lock counts as stale, the lock   *)
(* file keeps the opens of a database apart until a process dies: neither  *)
(* an empty file nor a breaker lets a second one in.                       *)
THEOREM LockAlwaysExcludes ==
    ASSUME "slowOpen" \notin Disturbances
    PROVE  Spec => []LockExcludes
<1>1. Exclusive => LockExcludes
  BY NamedExcludes DEF Exclusive, LockExcludes
<1>2. QED
  BY <1>1, ExclusiveAlways, PTL

(* Under the same condition no sidecar is removed from under a database    *)
(* another process has created since the check, a query's open without the *)
(* lock file included.                                                     *)
THEOREM SweepIsSafe ==
    ASSUME "slowOpen" \notin Disturbances
    PROVE  Spec => SweepsOnlyOrphans
<1>1. ASSUME Exclusive, [Next]_vars, NEW o \in Ops,
             At(o, "sweep"), ~At(o, "sweep")', alive' = Procs, IInv
      PROVE  ~disk[op[o].db].main
  <2>1. alive \subseteq Procs /\ (alive = Procs \/ alive' # Procs)
    <3>1. CASE \E p \in Procs : Crash(p)
      BY <1>1, <3>1 DEF Crash
    <3>2. CASE \A p \in Procs : ~Crash(p)
      BY <1>1, <3>2 DEF IInv, TypeOK, Next, vars, OpenStep, Enter, CreateLock, LockExists,
         WriteLock, ReadLock, BreakLock, CheckMain, Sweep, Preflight, Quarantine, Open, Release,
         Cleanup, Wake, Ends, Return, Throw, Commit, Request, AnalysisStep, StopDriver,
         StopReturns, CloseAnalysis, CheckpointStep, CheckpointRetries, CheckpointEnds,
         DriverTicks, CloseForDelete
    <3>3. QED
      BY <1>1, <3>1, <3>2 DEF IInv, TypeOK
  <2>2. QED
    BY <1>1, <2>1 DEF Exclusive, Orphaned
<1>2. IInv /\ Exclusive /\ [Next]_vars
        => [\A o \in Ops : At(o, "sweep") /\ ~At(o, "sweep")' /\ alive' = Procs
                             => ~disk[op[o].db].main]_vars
  BY <1>1
<1>3. QED
  BY <1>2, IInvAlways, ExclusiveAlways, PTL DEF Spec, SweepsOnlyOrphans

-----------------------------------------------------------------------------
(* The driver remembers every checkpoint under way, and stop() waits for   *)
(* the last of them.                                                       *)
Remembered ==
  \A a \in Analyses :
    /\ \A t \in UnderWay(a) : t = driver[a].inflight
    /\ At(a, "stopping") => \A t \in UnderWay(a) : t = driver[a].awaited
    /\ op[a].at \in {"stopped", "done"} => UnderWay(a) = {}

LEMMA TicksRemembered ==
    ASSUME "slowCheckpoint" \notin Disturbances, IInv, Remembered, op' = op,
           NEW a \in Analyses, NEW t \in Ticks,
           \/ At(a, "working") /\ Tick(a, t)
           \/ driver[a].run[t].at # "none" /\ (IoError(a, t) \/ Again(a, t) \/ Settle(a, t))
    PROVE  Remembered'
<1>1. driver \in [Analyses -> Drivers] /\ driver[a] \in Drivers
      /\ driver[a].run \in [Ticks -> Checkpoints] /\ NoTick \notin Ticks
  BY CheckpointAssumption DEF IInv, TypeOK, Drivers, Ticks, NoTick
<1>2. ASSUME NEW c, NEW i, driver' = [driver EXCEPT ![a].run[t] = c, ![a].inflight = i],
             \/ i = t /\ op[a].at = "working" /\ UnderWay(a) = {}
             \/ c.at = "none" /\ t \in UnderWay(a)
      PROVE  Remembered'
  <2> DEFINE r == [driver[a].run EXCEPT ![t] = c]
  <2>1. driver' = [driver EXCEPT ![a] = [[driver[a] EXCEPT !.run = r] EXCEPT !.inflight = i]]
    <3>1. driver' = [[driver EXCEPT ![a].run[t] = c] EXCEPT ![a].inflight = i]
      BY <1>2
    <3>2. QED
      BY <1>1, <3>1
  <2>2. /\ driver'[a] = [run |-> r, inflight |-> i, stopped |-> driver[a].stopped,
                         awaited |-> driver[a].awaited]
        /\ \A b \in Analyses \ {a} : driver'[b] = driver[b]
    BY <1>1, <2>1, DriverEdited
  <2>3. ASSUME NEW b \in Analyses \ {a}
        PROVE  UnderWay(b)' = UnderWay(b)
    BY <2>2 DEF UnderWay
  <2>4. UnderWay(a)' = {u \in Ticks : r[u].at # "none"}
    BY <2>2 DEF UnderWay
  <2>5. CASE i = t /\ op[a].at = "working" /\ UnderWay(a) = {}
    <3>1. UnderWay(a)' \subseteq {t}
      BY <1>1, <2>4, <2>5 DEF UnderWay
    <3>2. QED
      BY <2>2, <2>3, <2>5, <3>1 DEF Remembered, At
  <2>6. CASE c.at = "none" /\ t \in UnderWay(a)
    <3>1. UnderWay(a)' = {}
      BY <1>1, <2>4, <2>6 DEF UnderWay, Remembered
    <3>2. QED
      BY <2>2, <2>3, <3>1 DEF Remembered, At
  <2>7. QED
    BY <1>2, <2>5, <2>6
<1>3. ASSUME NEW c, driver' = [driver EXCEPT ![a].run[t] = c], driver[a].run[t].at # "none"
      PROVE  Remembered'
  <2> DEFINE r == [driver[a].run EXCEPT ![t] = c]
  <2>1. driver' = [driver EXCEPT ![a] = [driver[a] EXCEPT !.run = r]]
    BY <1>3
  <2>2. [driver[a] EXCEPT !.run = r] = [run |-> r, inflight |-> driver[a].inflight,
                                        stopped |-> driver[a].stopped,
                                        awaited |-> driver[a].awaited]
    BY <1>1 DEF Drivers
  <2>3. /\ driver'[a] = [run |-> r, inflight |-> driver[a].inflight,
                         stopped |-> driver[a].stopped, awaited |-> driver[a].awaited]
        /\ \A b \in Analyses \ {a} : driver'[b] = driver[b]
    BY <1>1, <2>1, <2>2
  <2>4. ASSUME NEW b \in Analyses \ {a}
        PROVE  UnderWay(b)' = UnderWay(b)
    BY <2>3 DEF UnderWay
  <2>5. UnderWay(a)' \subseteq UnderWay(a)
    BY <1>1, <1>3, <2>3 DEF UnderWay
  <2>6. /\ driver'[a].inflight = driver[a].inflight
        /\ driver'[a].awaited = driver[a].awaited
    BY <2>3
  <2>7. QED
    BY <2>3, <2>4, <2>5, <2>6 DEF Remembered, At
<1>4. CASE At(a, "working") /\ Tick(a, t)
  <2>1. UnderWay(a) = {}
    BY <1>4 DEF Tick
  <2>2. driver' = [driver EXCEPT ![a].run[t] = [at |-> "query", attempt |-> 1],
                                 ![a].inflight = t]
    BY <1>4 DEF Tick
  <2>3. QED
    BY <1>2, <1>4, <2>1, <2>2 DEF At
<1>5. CASE driver[a].run[t].at # "none" /\ Settle(a, t)
  <2>1. t \in UnderWay(a) /\ NoCheckpoint.at = "none"
    BY <1>5 DEF UnderWay, NoCheckpoint
  <2>2. driver' = [driver EXCEPT ![a].run[t] = NoCheckpoint, ![a].inflight = NoTick]
    BY <1>5 DEF Settle
  <2>3. QED
    BY <1>2, <2>1, <2>2
<1>6. CASE driver[a].run[t].at # "none" /\ IoError(a, t) /\ ~Settle(a, t)
  <2>1. driver' = [driver EXCEPT ![a].run[t] = [driver[a].run[t] EXCEPT !.at = "backoff"]]
    BY <1>6 DEF IoError
  <2>2. QED
    BY <1>3, <1>6, <2>1
<1>7. CASE driver[a].run[t].at # "none" /\ Again(a, t)
  <2>1. driver' = [driver EXCEPT ![a].run[t] = [at |-> "query",
                                                attempt |-> driver[a].run[t].attempt + 1]]
    BY <1>7 DEF Again
  <2>2. QED
    BY <1>3, <1>7, <2>1
<1>8. QED
  BY <1>4, <1>5, <1>6, <1>7

LEMMA NextRemembers ==
    ASSUME "slowCheckpoint" \notin Disturbances, IInv, Remembered, [Next]_vars
    PROVE  Remembered'
<1>1. TypeOK /\ driver \in [Analyses -> Drivers]
  BY DEF IInv, TypeOK
<1>2. ASSUME driver' = driver,
             \A a \in Analyses : \/ op'[a].at = op[a].at
                                 \/ op'[a].at \notin {"stopping", "stopped", "done"}
      PROVE  Remembered'
  BY <1>2 DEF Remembered, UnderWay, At
<1>3. ASSUME NEW o \in Ops, OpenStep(o)
      PROVE  Remembered'
  <2>1. Moves(o) /\ driver' = driver
    BY <1>1, <1>3, OpenMoves, OpenStepTyped
  <2>2. op[o].at \notin {"working", "stopping", "stopped"}
    BY <1>3 DEF OpenStep, Enter, CreateLock, LockExists, WriteLock, ReadLock, BreakLock,
       CheckMain, Sweep, Preflight, Quarantine, Open, Release, Cleanup, Wake, At
  <2>3. op'[o].at \notin {"stopping", "stopped", "done"}
    BY <2>1, <2>2 DEF Moves, Following, AfterBusy
  <2>4. QED
    BY <1>2, <2>1, <2>3 DEF Moves, Ops
<1>4. ASSUME NEW o \in Ops, Ends(o)
      PROVE  Remembered'
  <2>1. driver' = driver
    BY <1>4 DEF Ends, Return, Throw
  <2>2. QED
    BY <1>1, <1>2, <1>4, <2>1, EndMoves DEF Moves, Ops
<1>5. ASSUME NEW o \in Ops, NEW d \in Databases, Request(o, d)
      PROVE  Remembered'
  <2>1. driver' = driver
    BY <1>5 DEF Request
  <2>2. QED
    BY <1>1, <1>2, <1>5, <2>1, RequestMoves DEF Ops
<1>6. ASSUME NEW a \in Analyses, AnalysisStep(a)
      PROVE  Remembered'
  <2>1. /\ a \in Ops
        /\ \A x \in Ops \ {a} : op'[x] = op[x]
    BY <1>1, <1>6, AnalysisMoves DEF Moves
  <2>2. CASE StopDriver(a)
    <3> DEFINE n == [[driver[a] EXCEPT !.stopped = TRUE] EXCEPT !.awaited = driver[a].inflight]
    <3>1. driver' = [driver EXCEPT ![a] = n]
      <4>1. driver' = [[driver EXCEPT ![a].stopped = TRUE]
                         EXCEPT ![a].awaited = driver[a].inflight]
        BY <2>2 DEF StopDriver, Stop
      <4>2. QED
        BY <1>1, <4>1
    <3>2. /\ n \in Drivers /\ n.run = driver[a].run
          /\ n.inflight = driver[a].inflight /\ n.awaited = driver[a].inflight
      <4>1. driver[a] \in Drivers
        BY <1>1
      <4>2. QED
        BY <4>1, DriverStopped
    <3>3. op'[a].at = "stopping"
      BY <1>1, <2>1, <2>2, GoTyped DEF StopDriver, Stages
    <3> HIDE DEF n
    <3>4. driver'[a] = n /\ \A b \in Analyses \ {a} : driver'[b] = driver[b]
      BY <1>1, <3>1
    <3>5. UnderWay(a)' = UnderWay(a)
      BY <3>2, <3>4 DEF UnderWay
    <3>6. \A b \in Analyses \ {a} : UnderWay(b)' = UnderWay(b) /\ op'[b] = op[b]
      BY <2>1, <3>4 DEF UnderWay, Ops
    <3>7. QED
      BY <3>2, <3>3, <3>4, <3>5, <3>6 DEF Remembered, At
  <2>3. CASE StopReturns(a)
    <3>1. UnderWay(a) = {}
      BY <2>3 DEF StopReturns, Stopped, Remembered, NoTick, UnderWay, Ticks
    <3>2. driver' = driver
      BY <2>3 DEF StopReturns
    <3>3. QED
      BY <2>1, <3>1, <3>2 DEF Remembered, UnderWay, At, Ops
  <2>4. CASE CloseAnalysis(a)
    <3>1. driver' = driver /\ UnderWay(a) = {}
      BY <2>4 DEF CloseAnalysis, Remembered, At
    <3>2. QED
      BY <2>1, <3>1 DEF Remembered, UnderWay, At, Ops
  <2>5. QED
    BY <1>6, <2>2, <2>3, <2>4 DEF AnalysisStep
<1>7. ASSUME NEW a \in Analyses, CheckpointStep(a) \/ DriverTicks(a)
      PROVE  Remembered'
  <2>1. op' = op
    BY <1>7 DEF CheckpointStep, CheckpointRetries, CheckpointEnds, DriverTicks
  <2>2. PICK t \in Ticks :
          \/ At(a, "working") /\ Tick(a, t)
          \/ driver[a].run[t].at # "none" /\ (IoError(a, t) \/ Again(a, t) \/ Settle(a, t))
    BY <1>7 DEF CheckpointStep, CheckpointRetries, CheckpointEnds, DriverTicks, IoError, Again
  <2>3. QED
    BY <2>1, <2>2, TicksRemembered
<1>8. ASSUME NEW p \in Procs, Crash(p)
      PROVE  Remembered'
  <2>1. \A a \in Analyses : driver'[a] = IF ProcOf[a] = p THEN NewDriver ELSE driver[a]
    BY <1>8 DEF Crash
  <2>2. \A a \in Analyses : \/ op'[a].at = op[a].at
                            \/ op'[a].at \notin {"stopping", "stopped", "done"}
    BY <1>1, <1>8 DEF Crash, TypeOK, Ops
  <2>3. \A t \in Ticks : NewDriver.run[t].at = "none"
    BY DEF NewDriver, NoCheckpoint
  <2>4. ASSUME NEW a \in Analyses
        PROVE  UnderWay(a)' = {} \/ (driver'[a] = driver[a] /\ UnderWay(a)' = UnderWay(a))
    <3>1. CASE ProcOf[a] = p
      <4>1. driver'[a] = NewDriver
        BY <2>1, <3>1
      <4>2. QED
        BY <2>3, <4>1 DEF UnderWay
    <3>2. CASE ProcOf[a] # p
      <4>1. driver'[a] = driver[a]
        BY <2>1, <3>2
      <4>2. QED
        BY <4>1 DEF UnderWay
    <3>3. QED
      BY <3>1, <3>2
  <2>5. QED
    BY <2>2, <2>4 DEF Remembered, At
<1>9. CASE op' = op /\ driver' = driver
  BY <1>2, <1>9
<1>10. QED
  BY <1>3, <1>4, <1>5, <1>6, <1>7, <1>8, <1>9 DEF Next, vars, Commit, CloseForDelete

(* If a checkpoint with its retries settles before the next tick is due,   *)
(* the one stop() waits for is the only one there is: nothing runs into    *)
(* the checkpoint of the close.                                            *)
THEOREM StopIsQuiet ==
    ASSUME "slowCheckpoint" \notin Disturbances
    PROVE  Spec => []QuietAfterStop
<1>1. Init => Remembered
  <2>1. \A t \in Ticks : NewDriver.run[t].at = "none"
    BY DEF NewDriver, NoCheckpoint
  <2>2. ASSUME Init, NEW a \in Analyses
        PROVE  UnderWay(a) = {} /\ op[a].at = "idle"
    <3>1. driver[a] = NewDriver
      BY <2>2 DEF Init
    <3>2. UnderWay(a) = {}
      BY <2>1, <3>1 DEF UnderWay
    <3>3. QED
      BY <2>2, <3>2 DEF Init, Idle, Ops
  <2>3. QED
    BY <2>2 DEF Remembered, At
<1>2. IInv /\ Remembered /\ [Next]_vars => Remembered'
  BY NextRemembers
<1>3. Remembered => QuietAfterStop
  BY DEF Remembered, QuietAfterStop
<1>4. QED
  BY <1>1, <1>2, <1>3, IInvAlways, PTL DEF Spec

=============================================================================
