-------------------------- MODULE PoolStartupProofs -------------------------
(* Safety of the readiness gate, for any number of slots and any budget.   *)
EXTENDS PoolStartup, TLAPS, FiniteSetTheorems

\* Until terminate() a slot has a worker except while it sleeps and once it is
\* dropped; afterwards nobody spawns.
WorkersFollowLoops ==
    /\ ~terminated =>
         /\ \A w \in Slots :
              /\ worker[w] = IF stage[w] \in {"backoff", "dropped"} THEN "none" ELSE "held"
              /\ stage[w] # "woken"
         /\ activeSlots = {w \in Slots : stage[w] # "dropped"}
    /\ terminated => \A w \in Slots : worker[w] # "held"
    /\ shutdown = "done" => \A w \in Slots : worker[w] = "none"

\* Only a slot with attempts left sleeps; a slot without a respawn has not
\* crashed before; a reproduced signature took a respawn.
CrashesCounted ==
    /\ \A w \in Slots :
         /\ stage[w] \in {"backoff", "woken"} => attempt[w] < RestartBudget
         /\ stage[w] = "waiting" /\ attempt[w] = 0 => lastSignature[w] = NoSignature
    /\ \A w \in reproduced : attempt[w] > 0
    /\ deterministic => Cardinality(reproduced) >= Threshold

IInv == TypeOK /\ WorkersFollowLoops /\ CrashesCounted /\ NoTimerAfterTerminate

LEMMA Initially == Init => IInv
<1> SUFFICES ASSUME Init
             PROVE  IInv
  OBVIOUS
<1>1. TypeOK
  <2>1. attempt \in [Slots -> 0..RestartBudget]
    BY StartupAssumption DEF Init
  <2>2. lastSignature \in [Slots -> Signatures \cup {NoSignature}]
    BY DEF Init
  <2>3. QED
    BY <2>1, <2>2 DEF Init, TypeOK, Stage
<1>2. WorkersFollowLoops /\ CrashesCounted /\ NoTimerAfterTerminate
  BY DEF Init, WorkersFollowLoops, CrashesCounted, NoTimerAfterTerminate, terminated
<1>3. QED
  BY <1>1, <1>2 DEF IInv

LEMMA ReadyInv ==
    ASSUME IInv, NEW w \in Slots, Ready(w)
    PROVE  IInv'
<1> USE DEF IInv
<1>1. TypeOK'
  BY DEF Ready, TypeOK, Stage
<1>2. WorkersFollowLoops'
  BY DEF Ready, TypeOK, WorkersFollowLoops, terminated
<1>3. CrashesCounted'
  BY DEF Ready, TypeOK, CrashesCounted, Threshold
<1>4. NoTimerAfterTerminate'
  BY DEF Ready, TypeOK, NoTimerAfterTerminate, terminated
<1>5. QED
  BY <1>1, <1>2, <1>3, <1>4

LEMMA StartupCrashInv ==
    ASSUME IInv, NEW w \in Slots, StartupCrash(w)
    PROVE  IInv'
<1> USE DEF IInv
<1>1. PICK sig \in Signatures :
         /\ lastSignature' = [lastSignature EXCEPT ![w] = sig]
         /\ reproduced' = Reproduced(w, sig)
  BY DEF StartupCrash
<1>2. /\ stage[w] = "waiting" /\ stage' = [stage EXCEPT ![w] = "ending"]
      /\ deterministic' = (deterministic \/ (~anyReady /\ Cardinality(reproduced') >= Threshold))
      /\ UNCHANGED <<attempt, anyReady, activeSlots, worker, shutdown>>
  BY DEF StartupCrash
<1>3. TypeOK'
  <2>1. deterministic' \in BOOLEAN
    BY <1>2 DEF TypeOK
  <2>2. reproduced' \in SUBSET Slots
    BY <1>1 DEF TypeOK, Reproduced
  <2>3. lastSignature' \in [Slots -> Signatures \cup {NoSignature}]
    BY <1>1 DEF TypeOK
  <2>4. QED
    BY <1>2, <2>1, <2>2, <2>3 DEF TypeOK, Stage
<1>4. WorkersFollowLoops'
  BY <1>2 DEF TypeOK, WorkersFollowLoops, terminated
<1>5. CrashesCounted'
  <2>1. reproduced \subseteq reproduced' /\ IsFiniteSet(reproduced')
    BY <1>1, <1>3, StartupAssumption, FS_Subset DEF Reproduced, TypeOK
  <2>2. Cardinality(reproduced) <= Cardinality(reproduced')
    BY <2>1, FS_Subset
  <2>3. Cardinality(reproduced) \in Nat /\ Cardinality(reproduced') \in Nat
    BY <2>1, FS_Subset, FS_CardinalityType
  <2>4. Threshold \in Nat
    BY StartupAssumption, FS_CardinalityType DEF Threshold
  <2>5. deterministic' => Cardinality(reproduced') >= Threshold
    <3>1. CASE deterministic
      BY <2>2, <2>3, <2>4, <3>1 DEF CrashesCounted
    <3>2. CASE ~deterministic
      BY <1>2, <3>2
    <3>3. QED
      BY <3>1, <3>2
  <2>6. \A v \in reproduced' : attempt'[v] > 0
    BY <1>1, <1>2, StartupAssumption DEF Reproduced, CrashesCounted, TypeOK
  <2>7. \A v \in Slots :
           /\ stage'[v] \in {"backoff", "woken"} => attempt'[v] < RestartBudget
           /\ stage'[v] = "waiting" /\ attempt'[v] = 0 => lastSignature'[v] = NoSignature
    BY <1>1, <1>2 DEF CrashesCounted, TypeOK
  <2>8. QED
    BY <2>5, <2>6, <2>7 DEF CrashesCounted, Threshold
<1>6. NoTimerAfterTerminate'
  BY <1>2 DEF TypeOK, NoTimerAfterTerminate, terminated
<1>7. QED
  BY <1>3, <1>4, <1>5, <1>6

LEMMA WorkerEndedInv ==
    ASSUME IInv, NEW w \in Slots, WorkerEnded(w)
    PROVE  IInv'
<1> USE DEF IInv, WorkerEnded, Drop
<1>1. TypeOK'
  BY DEF TypeOK, Stage
<1>2. WorkersFollowLoops'
  BY DEF TypeOK, WorkersFollowLoops, terminated
<1>3. CrashesCounted'
  BY StartupAssumption DEF TypeOK, CrashesCounted, OutOfAttempts, Threshold
<1>4. NoTimerAfterTerminate'
  BY DEF TypeOK, NoTimerAfterTerminate, terminated
<1>5. QED
  BY <1>1, <1>2, <1>3, <1>4

LEMMA WakeInv ==
    ASSUME IInv, NEW w \in Slots, Wake(w)
    PROVE  IInv'
<1> USE DEF IInv, Wake, Drop, Aborted
<1>1. attempt[w] \in Nat /\ attempt[w] < RestartBudget
  BY DEF TypeOK, CrashesCounted
<1>2. TypeOK'
  BY <1>1, StartupAssumption DEF TypeOK, Stage
<1>3. WorkersFollowLoops'
  BY DEF TypeOK, WorkersFollowLoops, terminated
<1>4. CrashesCounted'
  BY <1>1 DEF TypeOK, CrashesCounted, Threshold
<1>5. NoTimerAfterTerminate'
  BY DEF TypeOK, NoTimerAfterTerminate, terminated
<1>6. QED
  BY <1>2, <1>3, <1>4, <1>5

LEMMA TerminateInv ==
    ASSUME IInv, Terminate \/ TerminateDone \/ \E w \in Slots : DoomedExit(w)
    PROVE  IInv'
<1> USE DEF IInv, Terminate, TerminateDone, DoomedExit
<1>1. TypeOK'
  BY DEF TypeOK, Stage, Cancelled
<1>2. WorkersFollowLoops'
  BY DEF TypeOK, WorkersFollowLoops, terminated, Cancelled
<1>3. CrashesCounted'
  BY DEF TypeOK, CrashesCounted, Threshold, Cancelled
<1>4. NoTimerAfterTerminate'
  BY DEF TypeOK, NoTimerAfterTerminate, terminated, Cancelled
<1>5. QED
  BY <1>1, <1>2, <1>3, <1>4

LEMMA StartupInductive == Spec => []IInv
<1>1. IInv /\ [Next]_vars => IInv'
  <2> SUFFICES ASSUME IInv, [Next]_vars
               PROVE  IInv'
    OBVIOUS
  <2>1. CASE UNCHANGED vars
    BY <2>1 DEF vars, IInv, TypeOK, WorkersFollowLoops, CrashesCounted, NoTimerAfterTerminate,
                terminated, Threshold
  <2>2. ASSUME NEW w \in Slots, SlotStep(w)
        PROVE  IInv'
    BY <2>2, ReadyInv, StartupCrashInv, WorkerEndedInv, WakeInv DEF SlotStep
  <2>3. CASE Terminate \/ TerminateDone \/ \E w \in Slots : DoomedExit(w)
    BY <2>3, TerminateInv
  <2>4. QED
    BY <2>1, <2>2, <2>3 DEF Next
<1>2. QED
  BY <1>1, Initially, PTL DEF Spec

\* The gate's variables have their types; the loops stay within their budget.
THEOREM StartupTypeCorrect == Spec => []TypeOK
BY StartupInductive, PTL DEF IInv

\* The rotation the first dispatch finds is the set of slots with a worker.
THEOREM GateIsConsistent == Spec => []GateLeavesWorkers
<1>1. IInv => GateLeavesWorkers
  BY DEF IInv, GateLeavesWorkers, WorkersFollowLoops, GateSettled
<1>2. QED
  BY <1>1, StartupInductive, PTL

\* After terminate() no timer is left and no loop spawns a worker.
THEOREM TerminateIsFinal == Spec => [](NoTimerAfterTerminate /\ NoWorkerAfterTerminate)
<1>1. IInv => NoTimerAfterTerminate /\ NoWorkerAfterTerminate
  BY DEF IInv, WorkersFollowLoops, NoWorkerAfterTerminate
<1>2. QED
  BY <1>1, StartupInductive, PTL

\* The short circuit is taken after respawns of enough slots only.
THEOREM ShortCircuitIsJustified == Spec => []DeterministicNeedsRespawns
<1>1. IInv => DeterministicNeedsRespawns
  <2> SUFFICES ASSUME IInv, deterministic
               PROVE  Cardinality({w \in Slots : attempt[w] > 0}) >= Threshold
    BY DEF DeterministicNeedsRespawns
  <2> DEFINE respawned == {w \in Slots : attempt[w] > 0}
  <2>1. reproduced \subseteq respawned /\ IsFiniteSet(respawned)
    BY StartupAssumption, FS_Subset DEF IInv, TypeOK, CrashesCounted
  <2>2. /\ Cardinality(reproduced) <= Cardinality(respawned)
        /\ Cardinality(reproduced) \in Nat /\ Cardinality(respawned) \in Nat
    BY <2>1, FS_Subset, FS_CardinalityType
  <2>3. Cardinality(reproduced) >= Threshold /\ Threshold \in Nat
    BY StartupAssumption, FS_CardinalityType DEF IInv, CrashesCounted, Threshold
  <2>4. QED
    BY <2>2, <2>3
<1>2. QED
  BY <1>1, StartupInductive, PTL

=============================================================================
