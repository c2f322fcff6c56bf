----------------------------- MODULE PoolStartup ----------------------------
(***************************************************************************)
(* The readiness gate of the parse worker pool (createWorkerPool and       *)
(* bringSlotReady in core/ingestion/workers/worker-pool.ts): every initial *)
(* slot is brought up by a bounded loop of spawn, wait, crash and backoff; *)
(* the first dispatch waits for all loops.  terminate() may come at any    *)
(* time.  What the gate leaves behind is where WorkerPool starts.          *)
(***************************************************************************)
EXTENDS Integers, FiniteSets

CONSTANTS
    Slots,          \* the worker slots
    Signatures,     \* crash messages after crashSignature
    NoSignature,    \* of a slot that never crashed
    RestartBudget,  \* retries beyond the first attempt
    SlotThreshold   \* slots that make a crash loop deterministic

ASSUME StartupAssumption ==
    /\ IsFiniteSet(Slots)
    /\ NoSignature \notin Signatures
    /\ RestartBudget \in Nat /\ SlotThreshold \in Nat

VARIABLES
    stage,          \* where each slot's loop is, see Stage
    attempt,        \* the loop's counter
    lastSignature,  \* lastStartupSignature
    reproduced,     \* reproducedStartupSlots
    anyReady,       \* anyWorkerReachedReady
    deterministic,  \* deterministicStartupDetected
    activeSlots,
    worker,         \* "held": workers[i]; "doomed": terminate() was called on it
    shutdown        \* "no", then "terminating" and "done"

vars == <<stage, attempt, lastSignature, reproduced, anyReady, deterministic,
          activeSlots, worker, shutdown>>

\* "waiting": for the ready message; "ending": the failed worker is being
\* terminated; "backoff": its timer is registered; "woken": it was cancelled.
Stage == {"waiting", "ending", "backoff", "woken", "ready", "dropped"}

\* min(DETERMINISTIC_STARTUP_FINGERPRINT_THRESHOLD, size)
Threshold == IF SlotThreshold < Cardinality(Slots) THEN SlotThreshold ELSE Cardinality(Slots)

terminated == shutdown # "no"

Init ==
    /\ stage = [w \in Slots |-> "waiting"]
    /\ attempt = [w \in Slots |-> 0]
    /\ lastSignature = [w \in Slots |-> NoSignature]
    /\ reproduced = {} /\ anyReady = FALSE /\ deterministic = FALSE
    /\ activeSlots = Slots
    /\ worker = [w \in Slots |-> "held"]
    /\ shutdown = "no"

-----------------------------------------------------------------------------
(* bringSlotReady *)

Ready(w) ==
    /\ stage[w] = "waiting" /\ worker[w] # "none"
    /\ stage' = [stage EXCEPT ![w] = "ready"]
    /\ anyReady' = TRUE
    /\ UNCHANGED <<attempt, lastSignature, reproduced, deterministic, activeSlots,
                   worker, shutdown>>

\* A crash counts once its signature survived a respawn of the slot.
Reproduced(w, sig) == IF lastSignature[w] = sig THEN reproduced \cup {w} ELSE reproduced

\* waitForWorkerReady rejects: error, exit, messageerror or the deadline.
StartupCrash(w) ==
    /\ stage[w] = "waiting"
    /\ \E sig \in Signatures :
         /\ lastSignature' = [lastSignature EXCEPT ![w] = sig]
         /\ reproduced' = Reproduced(w, sig)
    /\ deterministic' = (deterministic \/ (~anyReady /\ Cardinality(reproduced') >= Threshold))
    /\ stage' = [stage EXCEPT ![w] = "ending"]
    /\ UNCHANGED <<attempt, anyReady, activeSlots, worker, shutdown>>

\* Mutant: one retry too many.
OutOfAttemptsLate(w) == attempt[w] > RestartBudget

OutOfAttempts(w) == attempt[w] >= RestartBudget

\* Mutant: a dropped slot stays in the rotation.
DropKeepsSlot(w) ==
    /\ stage' = [stage EXCEPT ![w] = "dropped"]
    /\ UNCHANGED activeSlots

Drop(w) ==
    /\ stage' = [stage EXCEPT ![w] = "dropped"]
    /\ activeSlots' = activeSlots \ {w}

\* worker.terminate() settled: give up, or sleep before the next attempt.
WorkerEnded(w) ==
    /\ stage[w] = "ending"
    /\ worker' = [worker EXCEPT ![w] = "none"]
    /\ IF terminated \/ deterministic \/ OutOfAttempts(w)
       THEN Drop(w)
       ELSE stage' = [stage EXCEPT ![w] = "backoff"] /\ UNCHANGED activeSlots
    /\ UNCHANGED <<attempt, lastSignature, reproduced, anyReady, deterministic, shutdown>>

\* Mutant: the loop does not look again after its sleep.
AbortedNever == FALSE

Aborted == terminated \/ deterministic

Wake(w) ==
    /\ stage[w] \in {"backoff", "woken"}
    /\ IF Aborted
       THEN Drop(w) /\ UNCHANGED <<attempt, worker>>
       ELSE /\ worker' = [worker EXCEPT ![w] = "held"]
            /\ attempt' = [attempt EXCEPT ![w] = @ + 1]
            /\ stage' = [stage EXCEPT ![w] = "waiting"]
            /\ UNCHANGED activeSlots
    /\ UNCHANGED <<lastSignature, reproduced, anyReady, deterministic, shutdown>>

-----------------------------------------------------------------------------
(* terminate *)

\* Mutant: the timer is cleared, its promise never resolves.
CancelledAway(st) == IF st = "backoff" THEN "lost" ELSE st

\* pendingStartupTimers: each cancel resolves its sleep.
Cancelled(st) == IF st = "backoff" THEN "woken" ELSE st

Terminate ==
    /\ ~terminated
    /\ shutdown' = "terminating"
    /\ stage' = [w \in Slots |-> Cancelled(stage[w])]
    /\ worker' = [w \in Slots |-> IF worker[w] = "held" THEN "doomed" ELSE worker[w]]
    /\ UNCHANGED <<attempt, lastSignature, reproduced, anyReady, deterministic, activeSlots>>

DoomedExit(w) ==
    /\ worker[w] = "doomed"
    /\ worker' = [worker EXCEPT ![w] = "none"]
    /\ UNCHANGED <<stage, attempt, lastSignature, reproduced, anyReady, deterministic,
                   activeSlots, shutdown>>

TerminateDone ==
    /\ shutdown = "terminating" /\ \A w \in Slots : worker[w] # "doomed"
    /\ shutdown' = "done" /\ activeSlots' = {}
    /\ UNCHANGED <<stage, attempt, lastSignature, reproduced, anyReady, deterministic, worker>>

-----------------------------------------------------------------------------

SlotStep(w) == Ready(w) \/ StartupCrash(w) \/ WorkerEnded(w) \/ Wake(w)

Next ==
    \/ \E w \in Slots : SlotStep(w) \/ DoomedExit(w)
    \/ Terminate \/ TerminateDone

Spec == Init /\ [][Next]_vars

\* The ready handshake has a deadline, Worker.terminate() settles and timers fire.
FairSpec == Spec /\ \A w \in Slots : WF_vars(SlotStep(w))

-----------------------------------------------------------------------------
(* Properties *)

TypeOK ==
    /\ stage \in [Slots -> Stage]
    /\ attempt \in [Slots -> 0..RestartBudget]
    /\ lastSignature \in [Slots -> Signatures \cup {NoSignature}]
    /\ reproduced \in SUBSET Slots
    /\ anyReady \in BOOLEAN /\ deterministic \in BOOLEAN
    /\ activeSlots \in SUBSET Slots
    /\ worker \in [Slots -> {"none", "held", "doomed"}]
    /\ shutdown \in {"no", "terminating", "done"}

\* initialReadyGate: every slot's loop is over.
GateSettled == \A w \in Slots : stage[w] \in {"ready", "dropped"}

\* Dispatch finds a worker in every slot of the rotation and none elsewhere,
\* however the loops of the slots cut each other short (WorkerPool starts so).
GateLeavesWorkers ==
    GateSettled /\ ~terminated =>
        activeSlots = {w \in Slots : worker[w] # "none"}

\* A crash storm of first attempts is not taken for a deterministic crash loop:
\* that takes second crashes of several slots, or of the only one.
DeterministicNeedsRespawns ==
    deterministic =>
        Cardinality({w \in Slots : attempt[w] > 0}) >= Threshold

\* terminate() leaves no backoff timer that would pin the process.
NoTimerAfterTerminate == terminated => \A w \in Slots : stage[w] # "backoff"

\* No slot loop spawns a worker behind the back of terminate().
NoWorkerAfterTerminate == shutdown = "done" => \A w \in Slots : worker[w] = "none"

\* The first dispatch does not wait for ever.
GateSettles == <>GateSettled

\* Every slot has at least one self-heal attempt before it is dropped.
SelfHealsOnce ==
    ~terminated => \A w \in Slots : stage[w] = "dropped" => attempt[w] > 0

\* A deterministic crash loop is several workers with the same signature.
SameSignature ==
    deterministic =>
        \E sig \in Signatures :
            Cardinality({w \in Slots : lastSignature[w] = sig}) >= Threshold

=============================================================================
