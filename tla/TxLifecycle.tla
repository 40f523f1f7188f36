----------------------------- MODULE TxLifecycle ----------------------------
(***************************************************************************)
(* What the transaction controller promises of one request, whatever runs  *)
(* beside it: a transaction is shown to the user, and moves once through   *)
(* approved, signed and submitted, or is rejected, or fails; what has      *)
(* failed or was rejected stays so; and the dapp that asked is answered at *)
(* most once, with what really became of the transaction.                  *)
(***************************************************************************)
CONSTANT Txs

VARIABLES
  st,      \* the transaction's status, "absent" while it is in no list
  answer   \* the answer the requester has had, "none" or "waiting" before

vars == <<st, answer>>

Init ==
  /\ st = [id \in Txs |-> "absent"]
  /\ answer = [id \in Txs |-> "none"]

Move(id, from, to) ==
  /\ st[id] \in from
  /\ st' = [st EXCEPT ![id] = to]
  /\ UNCHANGED answer

(* A request is stored, a replacement is stored as approved. *)
Store(id)   == Move(id, {"absent"}, "unapproved")
Replace(id) == Move(id, {"absent"}, "approved")

Approve(id) == Move(id, {"unapproved"}, "approved")
Sign(id)    == Move(id, {"approved"}, "signed")
Submit(id)  == Move(id, {"signed"}, "submitted")
Fail(id)    == Move(id, {"approved", "signed"}, "failed")

(* The user says no; only a transaction nobody approved can be rejected. *)
Reject(id)  == Move(id, {"unapproved"}, "absent")

(* The requester starts to wait, or learns that its request went wrong. *)
Listen(id) ==
  /\ answer[id] = "none"
  /\ answer' = [answer EXCEPT ![id] = "waiting"]
  /\ UNCHANGED st

Refuse(id) ==
  /\ answer[id] = "none"
  /\ answer' = [answer EXCEPT ![id] = "error"]
  /\ UNCHANGED st

(* The one answer agrees with the status. *)
Tell(id) ==
  /\ answer[id] = "waiting"
  /\ \E a \in {"hash", "failed", "rejected"} :
       /\ st[id] = CASE a = "hash"     -> "submitted"
                     [] a = "failed"   -> "failed"
                     [] a = "rejected" -> "absent"
       /\ answer' = [answer EXCEPT ![id] = a]
  /\ UNCHANGED st

Next ==
  \E id \in Txs :
    \/ Store(id) \/ Replace(id) \/ Approve(id) \/ Sign(id) \/ Submit(id)
    \/ Fail(id) \/ Reject(id) \/ Listen(id) \/ Refuse(id) \/ Tell(id)

Spec == Init /\ [][Next]_vars
=============================================================================
