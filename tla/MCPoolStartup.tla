---------------------------- MODULE MCPoolStartup ---------------------------
(* Small instances of PoolStartup for TLC. *)
EXTENDS PoolStartup, TLC

CONSTANTS s1, s2, s3, binding, timeout, none

SlotSymmetry == Permutations(Slots)

=============================================================================
