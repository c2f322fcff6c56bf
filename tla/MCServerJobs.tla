---------------------------- MODULE MCServerJobs ----------------------------
(* Small instances of ServerJobs for TLC. *)
EXTENDS ServerJobs, TLC

CONSTANTS r1, r2, j1, j2, j3, e1, e2

JobSymmetry == Permutations(JobIds) \cup Permutations(EmbedIds)

=============================================================================
