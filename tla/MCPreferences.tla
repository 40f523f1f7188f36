----------------------------- MODULE MCPreferences ---------------------------
(***************************************************************************)
(* Two accounts of the seed phrase, which hold the one token on the main   *)
(* network, and an imported one, which does not.                           *)
(***************************************************************************)
EXTENDS Preferences, TLC

CONSTANTS d1, d2, i1, k1

MCHoldings ==
  [a \in {d1, d2, i1} |->
     [t \in {"mainnet", "rpc"} |-> IF a # i1 /\ t = "mainnet" THEN {k1} ELSE {}]]

(* The derived accounts are interchangeable. *)
DerivedSymmetry == Permutations({d1, d2})
=============================================================================
