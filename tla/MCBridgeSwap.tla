---------------------------- MODULE MCBridgeSwap ----------------------------
(* Instances of BridgeSwap: two syncing processes and two readers. *)
EXTENDS BridgeSwap

CONSTANTS w1, w2, r1, r2
=============================================================================
