---------------------------- MODULE MCTxController --------------------------
(***************************************************************************)
(* Small instances of TxController for TLC.                                *)
(***************************************************************************)
EXTENDS TxController, TLC

CONSTANTS a1, t1, t2

(* One account sends every transaction. *)
MCFrom == [id \in Txs |-> a1]

ProcSymmetry == Permutations(Procs)
=============================================================================
