---------------------------- MODULE MCParseStores ---------------------------
(* Small instances of ParseStores for TLC. *)
EXTENDS ParseStores, TLC

CONSTANTS k1, k2, w1, w2, w3

StoreSymmetry == Permutations(Keys) \cup Permutations(Names)

=============================================================================
