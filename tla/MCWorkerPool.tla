---------------------------- MODULE MCWorkerPool ----------------------------
(* Small instances of WorkerPool for TLC. *)
EXTENDS WorkerPool, TLC

CONSTANTS s1, s2, s3

SlotSymmetry == Permutations(Slots)

OneChunk == <<{1, 2, 3}>>
SmallChunk == <<{1, 2}>>
\* The second chunk asks for a file of the first again.
TwoChunks == <<{1, 2}, {2, 3}>>
\* A last chunk that may be quarantined as a whole.
ThreeChunks == <<{1, 2, 3}, {2, 3}, {1}>>

=============================================================================
