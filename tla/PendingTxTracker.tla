--------------------------- MODULE PendingTxTracker ---------------------------
(***************************************************************************)
(* The pending transaction tracker, controllers/transactions/              *)
(* pending-tx-tracker.js, with the handlers the transaction controller     *)
(* attaches to its events (index.js) and the chain it watches.             *)
(*                                                                         *)
(* updatePendingTxs holds nonce-tracker's global lock while it checks every*)
(* pending transaction at once; each check awaits answers of nodes that    *)
(* may be behind one another.  It is called on every block while the block *)
(* listener is active, and on every change of the stores; after a block's  *)
(* call, transactions are rebroadcast, further and further apart.          *)
(*                                                                         *)
(* The transactions are of one account and one network and were approved   *)
(* by TxController; those with the same nonce replace one another.  An     *)
(* entry's object is shared by all who hold it: a field written is written *)
(* for everybody.                                                          *)
(***************************************************************************)
EXTENDS Naturals, Sequences, FiniteSets

CONSTANTS
  Txs,          \* ids of approved transactions
  NonceOf,      \* the nonce of each
  Hashless,     \* those whose entry has lost its hash and rawTx
  None,         \* no receipt, no counter; a transaction of another wallet
  MaxAge,       \* bound: blocks counted since a transaction was submitted
  MaxReorgs,    \* bound: blocks the chain takes back
  MaxEvicted,   \* bound: transactions the nodes forget
  MaxLags,      \* bound: answers of a node that is behind
  MaxErrors,    \* bound: queries that fail
  MaxSwitches,  \* bound: times the network is left and found again
  MaxCrashes    \* bound: restarts of the background page

ASSUME FiniteAssumption == IsFiniteSet(Txs)
ASSUME NonceAssumption == NonceOf \in [Txs -> Nat]
ASSUME HashlessAssumption == Hashless \subseteq Txs
ASSUME BoundsAssumption ==
  {MaxAge, MaxReorgs, MaxEvicted, MaxLags, MaxErrors, MaxSwitches, MaxCrashes} \subseteq Nat
(* Counting further than the longest wait for a rebroadcast tells nothing. *)
ASSUME AgeAssumption == MaxEvicted > 0 => MaxAge > 2 ^ MaxEvicted + 4

VARIABLES
  status,     \* of each entry
  receipt,    \* txReceipt: the block the entry was executed in, or None
  retry,      \* retryCount
  age,        \* blocks since txParams.epochHeight
  sending,    \* approvals suspended in sendRawTransaction
  timers,     \* deferred status updates
  buffer,     \* droppedBuffer; None is `undefined`
  checks,     \* _checkPendingTx calls suspended at a query
  calls,      \* updatePendingTxs calls waiting for the global lock
  lock,       \* the global lock: "free", or the kind of call that holds it
  resent,     \* transactions whose rebroadcast is under way
  listening,  \* listenersAreActive
  up,         \* networkStore names the network of these transactions
  first,      \* _updatePendingTxsAfterFirstBlock still waits
  disk,       \* the entries as last persisted
  ledger,     \* the chain: for each nonce used, by which transaction and where
  final,      \* how many entries of the ledger can no longer change
  pool,       \* unexecuted transactions the nodes know
  spent       \* bounds used up

entries == <<status, receipt, retry>>
memory  == <<sending, timers, buffer, checks, calls, lock, resent, listening, up, first>>
network == <<age, ledger, final, pool>>
vars    == <<entries, memory, disk, network, spent>>

Statuses  == {"signed", "submitted", "executed", "confirmed", "failed", "dropped"}
Completed == {"executed", "confirmed"}
Kinds     == {"block", "store"}

(* A block has a number and executes a transaction with or without success. *)
Blocks == [number : Nat, success : BOOLEAN]

ASSUME NoneAssumption == None \notin Txs \cup Blocks

(* A check: its transaction, the query it awaits, its receipt, what it saw  *)
(* of the nonce, and whether the call that started it still waits for it.   *)
Checks == [tx    : Txs,
           pc    : {"receipt", "count", "risk"},
           rcpt  : Blocks \cup {None},
           taken : BOOLEAN,
           held  : BOOLEAN]

TypeOK ==
  /\ status \in [Txs -> Statuses]
  /\ receipt \in [Txs -> Blocks \cup {None}]
  /\ retry \in [Txs -> Nat]
  /\ age \in [Txs -> 0 .. MaxAge]
  /\ sending \subseteq Txs
  /\ timers \in Nat
  /\ buffer \in [Txs -> 0 .. 3 \cup {None}]
  /\ checks \subseteq Checks
  /\ calls \subseteq Kinds
  /\ lock \in Kinds \cup {"free"}
  /\ resent \subseteq Txs
  /\ listening \in BOOLEAN /\ up \in BOOLEAN /\ first \in BOOLEAN
  /\ ledger \in Seq([tx : Txs \cup {None}, block : Blocks])
  /\ final \in 0 .. Len(ledger)
  /\ pool \subseteq Txs

Init ==
  /\ status = [id \in Txs |-> "signed"]
  /\ receipt = [id \in Txs |-> None]
  /\ retry = [id \in Txs |-> 0]
  /\ age = [id \in Txs |-> 0]
  /\ sending = Txs
  /\ timers = 0
  /\ buffer = [id \in Txs |-> None]
  /\ checks = {}
  /\ calls = {}
  /\ lock = "free"
  /\ resent = {}
  /\ listening = FALSE
  /\ up = TRUE
  /\ first = TRUE
  /\ disk = [status |-> status, receipt |-> receipt, retry |-> retry]
  /\ ledger = <<>>
  /\ final = 0
  /\ pool = {}
  /\ spent = [reorgs |-> 0, evicted |-> 0, lags |-> 0, errors |-> 0,
              switches |-> 0, crashes |-> 0]

Spend(what, max) ==
  /\ spent[what] < max
  /\ spent' = [spent EXCEPT ![what] = @ + 1]

(* getPendingTransactions: those of the network in networkStore. *)
Pending == {id \in Txs : up /\ status[id] \in {"submitted", "executed"}}

(* _setTxStatus of some entries, which does nothing to hidden ones. *)
SetTxStatus(new) ==
  /\ status' = [id \in Txs |-> IF up /\ id \in DOMAIN new THEN new[id] ELSE status[id]]
  /\ timers' = IF up THEN timers + Cardinality(DOMAIN new) ELSE timers

(* updateTx changes the store, and _updateMemstore calls updatePendingTxs. *)
StoreCalled == calls' = calls \cup {"store"}

-----------------------------------------------------------------------------
(***************************************************************************)
(* The end of approveTransaction.  Nodes refuse a transaction whose nonce  *)
(* is used.  While the network is hidden, setTxHash throws and the entry   *)
(* stays as it is.                                                         *)
(***************************************************************************)

NonceIsFree(id) == NonceOf[id] >= Len(ledger)

Submit(id) ==
  /\ id \in sending
  /\ NonceIsFree(id)
  /\ sending' = sending \ {id}
  /\ pool' = pool \cup {id}
  /\ SetTxStatus([i \in {id} |-> "submitted"])
  /\ StoreCalled
  /\ UNCHANGED <<receipt, retry, age, buffer, checks, lock, resent, listening, up,
                 first, disk, ledger, final, spent>>

(* The send failed, or only its answer was lost. *)
SubmitFailed(id) ==
  /\ id \in sending
  /\ sending' = sending \ {id}
  /\ \/ UNCHANGED pool
     \/ NonceIsFree(id) /\ pool' = pool \cup {id}
  /\ SetTxStatus([i \in {id} |-> "failed"])
  /\ StoreCalled
  /\ UNCHANGED <<receipt, retry, age, buffer, checks, lock, resent, listening, up,
                 first, disk, ledger, final, spent>>

-----------------------------------------------------------------------------
(***************************************************************************)
(* What leads to a call of updatePendingTxs.  Calls that wait for the lock *)
(* together see the same entries, so those of a kind count as one.         *)
(***************************************************************************)

(* A deferred status update, and updateSubscription on "tx:status-update". *)
FireTimer ==
  /\ timers > 0
  /\ timers' = timers - 1
  /\ listening' = (Pending # {})
  /\ StoreCalled
  /\ UNCHANGED <<entries, sending, buffer, checks, lock, resent, up, first, disk,
                 network, spent>>

(* Other transactions or the preferences change. *)
StoreChanges ==
  /\ StoreCalled
  /\ UNCHANGED <<entries, sending, timers, buffer, checks, lock, resent, listening,
                 up, first, disk, network, spent>>

(* A new block: for the listener if it is active, and once after a start. *)
LatestBlock ==
  /\ age' = [id \in Txs |-> IF id \in sending \/ age[id] = MaxAge THEN age[id]
                            ELSE age[id] + 1]
  /\ calls' = calls \cup (IF listening THEN {"block"} ELSE {})
                    \cup (IF first THEN {"store"} ELSE {})
  /\ first' = FALSE
  /\ UNCHANGED <<entries, sending, timers, buffer, checks, lock, resent, listening,
                 up, disk, ledger, final, pool, spent>>

(* networkStore leaves the network, or loads it again. *)
NetworkDown ==
  /\ up
  /\ Spend("switches", MaxSwitches)
  /\ up' = FALSE
  /\ StoreCalled
  /\ UNCHANGED <<entries, sending, timers, buffer, checks, lock, resent, listening,
                 first, disk, network>>

NetworkUp ==
  /\ ~up
  /\ up' = TRUE
  /\ StoreCalled
  /\ UNCHANGED <<entries, sending, timers, buffer, checks, lock, resent, listening,
                 first, disk, network, spent>>

-----------------------------------------------------------------------------
(***************************************************************************)
(* updatePendingTxs and resubmitPendingTxs.                                *)
(***************************************************************************)

(* An executed transaction's receipt is cached: only its risk is asked. *)
NewCheck(id) ==
  [tx |-> id, pc |-> IF status[id] = "executed" THEN "risk" ELSE "receipt",
   rcpt |-> receipt[id], taken |-> FALSE, held |-> TRUE]

(* Mutant of StartUpdate: the global lock is not waited for. *)
StartWithoutLock(kind) ==
  /\ kind \in calls
  /\ lock' = kind
  /\ calls' = calls \ {kind}
  /\ checks' = checks \cup {NewCheck(id) : id \in Pending}
  /\ UNCHANGED <<entries, sending, timers, buffer, resent, listening, up, first,
                 disk, network, spent>>

(***************************************************************************)
(* The lock is free: a check of every pending transaction starts, except   *)
(* that one submitted without a hash fails at once.                        *)
(***************************************************************************)
StartUpdate(kind) ==
  LET bugged == {id \in Pending \cap Hashless : status[id] = "submitted"}
  IN /\ kind \in calls
     /\ lock = "free"
     /\ lock' = kind
     /\ checks' = checks \cup {NewCheck(id) : id \in Pending \ bugged}
     /\ SetTxStatus([id \in bugged |-> "failed"])
     /\ calls' = (calls \ {kind}) \cup {"store" : id \in bugged}
     /\ UNCHANGED <<receipt, retry, sending, buffer, resent, listening, up, first,
                    disk, network, spent>>

(* Mutant of Overdue: the comparison is turned round. *)
StillFresh(id) ==
  /\ id \in Pending \ Hashless
  /\ status[id] = "submitted"
  /\ age[id] <= 2 ^ retry[id] + 4

(* _resubmitTx broadcasts it again: the wait doubles with every success. *)
Overdue(id) ==
  /\ id \in Pending \ Hashless
  /\ status[id] = "submitted"
  /\ age[id] > 2 ^ retry[id] + 4

(***************************************************************************)
(* Every check of the call is done.  A block's call goes on to resubmit;   *)
(* of two rebroadcasts of one transaction the later changes nothing.       *)
(***************************************************************************)
EndUpdate ==
  /\ lock # "free"
  /\ \A c \in checks : ~c.held
  /\ lock' = "free"
  /\ resent' = resent \cup {id \in Txs : lock = "block" /\ Overdue(id)}
  /\ UNCHANGED <<entries, sending, timers, buffer, checks, calls, listening, up,
                 first, disk, network, spent>>

ResubmitAnswer(id) ==
  /\ id \in resent
  /\ resent' = resent \ {id}
  /\ LET known == id \in pool \/ ~NonceIsFree(id)
     IN /\ pool' = IF known THEN pool ELSE pool \cup {id}
        /\ retry' = IF known THEN retry ELSE [retry EXCEPT ![id] = @ + 1]
        /\ calls' = IF known THEN calls ELSE calls \cup {"store"}
  /\ UNCHANGED <<status, receipt, age, sending, timers, buffer, checks, lock, listening,
                 up, first, disk, ledger, final, spent>>

(* An unknown error is put on the entry as a warning. *)
ResubmitError(id) ==
  /\ id \in resent
  /\ Spend("errors", MaxErrors)
  /\ resent' = resent \ {id}
  /\ StoreCalled
  /\ UNCHANGED <<entries, sending, timers, buffer, checks, lock, listening, up, first,
                 disk, network>>

-----------------------------------------------------------------------------
(***************************************************************************)
(* _checkPendingTx.                                                        *)
(***************************************************************************)

(* The node that answers has seen the first k entries of the ledger. *)
View(k) ==
  IF k = Len(ledger) THEN UNCHANGED spent ELSE Spend("lags", MaxLags)

ReceiptAt(id, k) ==
  IF \E i \in 1 .. k : ledger[i].tx = id
  THEN ledger[CHOOSE i \in 1 .. k : ledger[i].tx = id].block
  ELSE None

(* _checkIfNonceIsTaken. *)
NonceIsTaken(id) ==
  /\ up
  /\ \E other \in Txs \ {id} : NonceOf[other] = NonceOf[id] /\ status[other] \in Completed

(* cfx_getTransactionReceipt answered. *)
ReceiptAnswer(c, k) ==
  /\ c.pc = "receipt"
  /\ View(k)
  /\ checks' = (checks \ {c}) \cup
       {[c EXCEPT !.pc = "count", !.rcpt = ReceiptAt(c.tx, k), !.taken = NonceIsTaken(c.tx)]}
  /\ UNCHANGED <<entries, sending, timers, buffer, calls, lock, resent, listening, up,
                 first, disk, network>>

(* Mutant of ReceiptError: the call waits for the failed check for ever. *)
LoseCheck(c) ==
  /\ c.pc = "receipt"
  /\ Spend("errors", MaxErrors)
  /\ checks' = (checks \ {c}) \cup {[c EXCEPT !.pc = "lost"]}
  /\ UNCHANGED <<entries, sending, timers, buffer, calls, lock, resent, listening, up,
                 first, disk, network>>

(* It failed: Promise.all rejects, and the call ends without its other checks. *)
ReceiptError(c) ==
  /\ c.pc = "receipt"
  /\ Spend("errors", MaxErrors)
  /\ checks' = IF c.held THEN {[d EXCEPT !.held = FALSE] : d \in checks \ {c}}
               ELSE checks \ {c}
  /\ UNCHANGED <<entries, sending, timers, buffer, calls, lock, resent, listening, up,
                 first, disk, network>>

(* confirmTransaction of an executed transaction, whatever else it became. *)
Executed(id, rcpt) ==
  IF up /\ status[id] # "executed"
  THEN /\ receipt' = [receipt EXCEPT ![id] = rcpt]
       /\ SetTxStatus([i \in {id} |-> "executed"])
       /\ StoreCalled
  ELSE UNCHANGED <<status, timers, receipt, calls>>

(* The end of a check that found the transaction dropped, or not. *)
Outcome(c, dropped) ==
  \/ /\ c.taken \/ dropped
     /\ SetTxStatus([i \in {c.tx} |-> "dropped"])
     /\ UNCHANGED <<receipt, calls>>
  \/ /\ ~(c.taken \/ dropped)
     /\ \/ c.rcpt = None /\ UNCHANGED <<status, timers, receipt, calls>>
        \/ /\ c.rcpt # None
           /\ IF c.rcpt.success THEN Executed(c.tx, c.rcpt)
              ELSE SetTxStatus([i \in {c.tx} |-> "failed"]) /\ StoreCalled /\ UNCHANGED receipt

(* cfx_getNextNonce answered: at or beyond the limit, an unexecuted         *)
(* transaction whose nonce is used is dropped.                              *)
CountWithLimit(c, k, limit) ==
  LET seen  == IF buffer[c.tx] = None THEN 0 ELSE buffer[c.tx]
      ahead == c.rcpt = None /\ k > NonceOf[c.tx]
  IN /\ c.pc = "count"
     /\ View(k)
     /\ buffer' = [buffer EXCEPT ![c.tx] = CASE ~ahead               -> seen
                                             [] ahead /\ seen < limit  -> seen + 1
                                             [] ahead /\ seen >= limit -> None]
     /\ Outcome(c, ahead /\ seen >= limit)
     /\ checks' = checks \ {c}
     /\ UNCHANGED <<retry, sending, lock, resent, listening, up, first, disk, network>>

(* Mutant of CountAnswer: a buffer of two. *)
SmallBuffer(c, k) == CountWithLimit(c, k, 2)

(* Mutant of CountAnswer: a fourth overtaking is counted. *)
LargeBuffer(c, k) == CountWithLimit(c, k, 4)

CountAnswer(c, k) == CountWithLimit(c, k, 3)

CountError(c) ==
  /\ c.pc = "count"
  /\ Spend("errors", MaxErrors)
  /\ Outcome(c, FALSE)
  /\ checks' = checks \ {c}
  /\ UNCHANGED <<retry, sending, buffer, lock, resent, listening, up, first, disk, network>>

(* Its block can no longer leave the chain. *)
IsFinal(id, rcpt) == \E i \in 1 .. final : ledger[i] = [tx |-> id, block |-> rcpt]

(* _markNonceDuplicatesDropped. *)
Duplicates(id) == {other \in Txs \ {id} : NonceOf[other] = NonceOf[id]}

(***************************************************************************)
(* _checkExecutedTransactions: low risk confirms the transaction, if it    *)
(* still is executed, and drops all those with its nonce.  A node that is  *)
(* behind may still see a risk.                                            *)
(***************************************************************************)
RiskAnswer(c) ==
  /\ c.pc = "risk"
  /\ checks' = checks \ {c}
  /\ IF ~IsFinal(c.tx, c.rcpt) THEN UNCHANGED <<status, timers, calls, spent>>
     ELSE \/ /\ UNCHANGED spent
             /\ IF up /\ status[c.tx] = "executed"
                THEN /\ SetTxStatus([id \in {c.tx} \cup Duplicates(c.tx) |->
                                    IF id = c.tx THEN "confirmed" ELSE "dropped"])
                     /\ calls' = calls \cup {"store" : id \in Duplicates(c.tx)}
                ELSE UNCHANGED <<status, timers, calls>>
          \/ Spend("lags", MaxLags) /\ UNCHANGED <<status, timers, calls>>
  /\ UNCHANGED <<receipt, retry, sending, buffer, lock, resent, listening, up, first,
                 disk, network>>

(* The warning changes the store, which asks again at once. *)
RiskError(c) ==
  /\ c.pc = "risk"
  /\ Spend("errors", MaxErrors)
  /\ checks' = checks \ {c}
  /\ StoreCalled
  /\ UNCHANGED <<entries, sending, timers, buffer, lock, resent, listening, up, first,
                 disk, network>>

-----------------------------------------------------------------------------
(***************************************************************************)
(* The nodes, and the background page.                                     *)
(***************************************************************************)

(* The next nonce is used by id, or by another wallet of the account. *)
Mine(id) ==
  /\ id \in pool \/ id = None
  /\ IF id = None THEN \E other \in Txs : NonceOf[other] = Len(ledger)
     ELSE NonceOf[id] = Len(ledger)
  /\ \E success \in BOOLEAN :
       ledger' = Append(ledger, [tx |-> id, block |-> [number |-> spent.reorgs,
                                                       success |-> success]])
  /\ pool' = pool \ {id}
  /\ UNCHANGED <<entries, memory, disk, age, final, spent>>

Finalize ==
  /\ final < Len(ledger)
  /\ final' = final + 1
  /\ UNCHANGED <<entries, memory, disk, age, ledger, pool, spent>>

Reorg ==
  /\ final < Len(ledger)
  /\ Spend("reorgs", MaxReorgs)
  /\ ledger' = SubSeq(ledger, 1, Len(ledger) - 1)
  /\ pool' = pool \cup ({ledger[Len(ledger)].tx} \ {None})
  /\ UNCHANGED <<entries, memory, disk, age, final>>

Evict(id) ==
  /\ id \in pool
  /\ Spend("evicted", MaxEvicted)
  /\ pool' = pool \ {id}
  /\ UNCHANGED <<entries, memory, disk, age, ledger, final>>

(* The state is saved; only a later restart reads it. *)
Persist ==
  /\ spent.crashes < MaxCrashes
  /\ disk' = [status |-> status, receipt |-> receipt, retry |-> retry]
  /\ disk # disk'
  /\ UNCHANGED <<entries, memory, network, spent>>

(***************************************************************************)
(* The page starts again from the saved state.  The network is loading, so *)
(* updateSubscription finds nothing pending.                               *)
(***************************************************************************)
Restart ==
  /\ Spend("crashes", MaxCrashes)
  /\ status' = disk.status
  /\ receipt' = disk.receipt
  /\ retry' = disk.retry
  /\ sending' = {}
  /\ timers' = 0
  /\ buffer' = [id \in Txs |-> None]
  /\ checks' = {}
  /\ calls' = {"store"}
  /\ lock' = "free"
  /\ resent' = {}
  /\ listening' = FALSE
  /\ up' = FALSE
  /\ first' = TRUE
  /\ UNCHANGED <<disk, network>>

-----------------------------------------------------------------------------
Answer(c) ==
  \/ \E k \in 0 .. Len(ledger) : ReceiptAnswer(c, k) \/ CountAnswer(c, k)
  \/ RiskAnswer(c)

Failure(c) == ReceiptError(c) \/ CountError(c) \/ RiskError(c)

Next ==
  \/ \E id \in Txs : Submit(id) \/ SubmitFailed(id) \/ Evict(id)
                     \/ ResubmitAnswer(id) \/ ResubmitError(id)
  \/ FireTimer \/ StoreChanges \/ LatestBlock \/ NetworkDown \/ NetworkUp
  \/ \E kind \in Kinds : StartUpdate(kind)
  \/ EndUpdate
  \/ \E c \in checks : Answer(c) \/ Failure(c)
  \/ \E id \in Txs \cup {None} : Mine(id)
  \/ Finalize \/ Reorg
  \/ Persist \/ Restart

Spec == Init /\ [][Next]_vars

(***************************************************************************)
(* The event loop runs its timers, the mutex is first come first served,   *)
(* queries settle, blocks keep coming, and the chain executes what its     *)
(* nodes know.                                                             *)
(***************************************************************************)
Fairness ==
  /\ WF_vars(FireTimer) /\ WF_vars(LatestBlock) /\ WF_vars(EndUpdate) /\ WF_vars(NetworkUp)
  /\ \A kind \in Kinds : SF_vars(StartUpdate(kind))
  /\ \A id \in Txs : /\ WF_vars(\E c \in checks : c.tx = id /\ (Answer(c) \/ Failure(c)))
                     /\ WF_vars(ResubmitAnswer(id) \/ ResubmitError(id))
                     /\ WF_vars(Submit(id) \/ SubmitFailed(id))
  /\ WF_vars(\E id \in Txs : Mine(id)) /\ WF_vars(Finalize)

FairSpec == Spec /\ Fairness

-----------------------------------------------------------------------------
(***************************************************************************)
(* What the tracker promises.                                              *)
(***************************************************************************)

(***************************************************************************)
(* On a chain that takes no block back, a transaction reported as dropped  *)
(* is dead: its nonce was used by something else.  Nodes that are behind   *)
(* must not make the tracker give up a transaction that was executed.      *)
(***************************************************************************)
DroppedIsDead ==
  \A id \in Txs : status[id] = "dropped" =>
    ~NonceIsFree(id) /\ ledger[NonceOf[id] + 1].tx # id

(***************************************************************************)
(* "confirmed" is the end: no check that is still under way, whatever it   *)
(* learnt before, moves the transaction elsewhere.  Only a restart brings  *)
(* back what was saved before.                                             *)
(***************************************************************************)
ConfirmedIsFinal ==
  [][\A id \in Txs : status[id] = "confirmed" =>
       status'[id] = "confirmed" \/ spent'.crashes # spent.crashes]_vars

(***************************************************************************)
(* Every transaction that was submitted gets an outcome; an executed one   *)
(* is confirmed, unless another one was or the block that executed it left *)
(* the chain.                                                              *)
(***************************************************************************)
SubmittedSettles ==
  \A id \in Txs :
    /\ status[id] = "submitted" ~> status[id] # "submitted"
    /\ status[id] = "executed"
         ~> \/ status[id] \in {"confirmed", "dropped"}
            \/ receipt[id] # ReceiptAt(id, Len(ledger))

(***************************************************************************)
(* A pending transaction the nodes forgot is broadcast again, until the    *)
(* nodes know it or it is no longer pending.                               *)
(***************************************************************************)
EvictedIsResent ==
  \A id \in Txs :
    (status[id] = "submitted" /\ id \notin pool)
      ~> (status[id] # "submitted" \/ id \in pool \/ ~NonceIsFree(id))
=============================================================================
