-------------------------- MODULE MCAccountTracker --------------------------
(***************************************************************************)
(* Small instances of AccountTracker for TLC: mainnet and a custom         *)
(* endpoint on another chain.                                              *)
(***************************************************************************)
EXTENDS AccountTracker, TLC

CONSTANTS main, rpcA, c1029, cA, a1, a2

MCChainOf == [e \in Endpoints |-> IF e = main THEN c1029 ELSE cA]
=============================================================================
