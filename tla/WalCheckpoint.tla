--------------------------- MODULE WalCheckpoint ---------------------------
(***************************************************************************)
(* The checkpoint driver of an analysis: a timer that starts a manual      *)
(* CHECKPOINT every period, the bounded retry of each, and stop(), which   *)
(* waits for the checkpoint the driver remembers.  DatabaseAdapter         *)
(* composes it with the connection the checkpoints run on.                 *)
(***************************************************************************)
EXTENDS Integers

CONSTANTS
  Analyses,           \* the analyses, each with its driver
  MaxAttempts,        \* CHECKPOINT_RETRY_ATTEMPTS
  MaxTicks,           \* bound: checkpoints under way at a time
  Disturbances        \* "slowCheckpoint" among those of DatabaseAdapter

(* "slowCheckpoint": a checkpoint with its retries takes longer than the   *)
(* 5 s between two ticks.                                                  *)
ASSUME CheckpointAssumption == MaxAttempts \in Nat \ {0} /\ MaxTicks \in Nat \ {0}

Ticks == 1..MaxTicks
NoTick == 0

VARIABLE driver  \* the driver of each analysis

Checkpoints == [at : {"none", "query", "backoff"}, attempt : 0..MaxAttempts]
NoCheckpoint == [at |-> "none", attempt |-> 0]

Drivers == [run : [Ticks -> Checkpoints],  \* calls of runCheckpointWithRetry
            inflight : Ticks \cup {NoTick},
            stopped : BOOLEAN,
            awaited : Ticks \cup {NoTick}] \* the checkpoint stop() waits for

NewDriver == [run |-> [t \in Ticks |-> NoCheckpoint], inflight |-> NoTick,
              stopped |-> FALSE, awaited |-> NoTick]

UnderWay(a) == {t \in Ticks : driver[a].run[t].at # "none"}

(* The timer does not ask whether the checkpoint before has settled.       *)
Tick(a, t) ==
  /\ ~driver[a].stopped /\ t \notin UnderWay(a)
  /\ UnderWay(a) = {} \/ "slowCheckpoint" \in Disturbances
  /\ driver' = [driver EXCEPT ![a].run[t] = [at |-> "query", attempt |-> 1],
                              ![a].inflight = t]

(* Whichever checkpoint settles clears inflight.                           *)
Settle(a, t) ==
  driver' = [driver EXCEPT ![a].run[t] = NoCheckpoint, ![a].inflight = NoTick]

(* An I/O error of the rotation is retried after a pause, up to the budget. *)
IoError(a, t) ==
  /\ driver[a].run[t].at = "query"
  /\ IF driver[a].run[t].attempt < MaxAttempts
       THEN driver' = [driver EXCEPT ![a].run[t].at = "backoff"]
       ELSE Settle(a, t)

Again(a, t) ==
  /\ driver[a].run[t].at = "backoff"
  /\ driver' = [driver EXCEPT ![a].run[t] = [at |-> "query", attempt |-> @.attempt + 1]]

\* Mutant: stop() returns without the checkpoint it remembers.
StopAtOnce(a) == driver' = [driver EXCEPT ![a].stopped = TRUE]

(* stop() forbids further ticks and awaits inflight as it is now.          *)
Stop(a) ==
  driver' = [driver EXCEPT ![a].stopped = TRUE, ![a].awaited = driver[a].inflight]

Stopped(a) == driver[a].awaited = NoTick \/ driver[a].awaited \notin UnderWay(a)

=============================================================================
