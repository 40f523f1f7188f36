------------------------- MODULE MCPendingTxTracker -------------------------
(***************************************************************************)
(* Small instances of PendingTxTracker for TLC.                            *)
(***************************************************************************)
EXTENDS PendingTxTracker, TLC

(* Every transaction competes for the account's first nonce. *)
MCNonceOf == [id \in Txs |-> 0]

TxSymmetry == Permutations(Txs)
=============================================================================
