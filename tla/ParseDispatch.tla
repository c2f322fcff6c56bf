--------------------------- MODULE ParseDispatch ---------------------------
(***************************************************************************)
(* What the parse worker pool promises its caller (WorkerPool.dispatch in  *)
(* core/ingestion/workers/worker-pool.ts), whatever its workers do: each   *)
(* file of the chunk is parsed once or skipped for good, and the promise   *)
(* settles once.                                                           *)
(***************************************************************************)
EXTENDS Naturals, Sequences, FiniteSets

CONSTANT Chunks

VARIABLES round,    \* dispatches made
          outcome,  \* "idle", "pending", "resolved", "rejected"
          parsed,   \* files of this round whose results are in
          skipped   \* files the pool will not try again

vars == <<round, outcome, parsed, skipped>>

Todo == (IF round = 0 THEN {} ELSE Chunks[round]) \ (parsed \cup skipped)

Init == round = 0 /\ outcome = "idle" /\ parsed = {} /\ skipped = {}

\* A dispatch waits for its files, or is answered at once: refused, or resolved
\* because nothing of the chunk is left to try.
Begin ==
    /\ outcome # "pending" /\ round < Len(Chunks)
    /\ round' = round + 1 /\ parsed' = {} /\ UNCHANGED skipped
    /\ \/ outcome' = "rejected"
       \/ outcome' = IF Chunks[round + 1] \subseteq skipped THEN "resolved" ELSE "pending"

\* A pending dispatch may settle with any step: resolve when no file is left.
MaySettle == outcome' = "resolved" => Todo' = {}

\* Some files not yet accounted for are delivered together.
Parse ==
    /\ outcome = "pending"
    /\ \E S \in (SUBSET Todo) \ {{}} : parsed' = parsed \cup S
    /\ outcome' \in {"pending", "resolved"} /\ MaySettle
    /\ UNCHANGED <<round, skipped>>

\* One file is given up.
Skip ==
    /\ outcome = "pending"
    /\ \E f \in Todo : skipped' = skipped \cup {f}
    /\ outcome' \in {"pending", "resolved", "rejected"} /\ MaySettle
    /\ UNCHANGED <<round, parsed>>

Settle ==
    /\ outcome = "pending"
    /\ outcome' \in {"resolved", "rejected"} /\ MaySettle
    /\ UNCHANGED <<round, parsed, skipped>>

Next == Begin \/ Parse \/ Skip \/ Settle

Spec == Init /\ [][Next]_vars

=============================================================================
