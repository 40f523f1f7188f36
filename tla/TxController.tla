---------------------------- MODULE TxController ----------------------------
(***************************************************************************)
(* The transaction controller, app/scripts/controllers/transactions/       *)
(* index.js: a request becomes an unapproved transaction, the user edits,  *)
(* rejects or confirms it, and approveTransaction gives it a nonce, signs  *)
(* and broadcasts it.  Every await is a point where the other actors move: *)
(* other approvals, the windows of the UI, a change of network with its    *)
(* boot clean-up, the deferred status updates of the store, and a crash.   *)
(*                                                                         *)
(* Each call of approveTransaction is a process p \in Procs.  Its pc names *)
(* the await it is suspended at:                                           *)
(*   "block"  blockTracker.getLatestBlock      "sign"   signEthTx          *)
(*   "lock"   the account's nonce mutex        "send"   sendRawTransaction,*)
(*   "count"  the network's transaction count           before the node    *)
(*   "reply"  sendRawTransaction, after the node took the transaction      *)
(***************************************************************************)
EXTENDS TxStateManager, FiniteSets

CONSTANTS
  Procs,         \* calls of approveTransaction that may run at a time
  Internal,      \* requests made by the wallet's own UI, not by a dapp
  CustomNonces,  \* nonces the user may type in
  MultiWindow,   \* the UI may show one transaction in two windows at a time
  MaxSwitches,   \* bound: changes of network
  MaxCrashes,    \* bound: restarts of the background page
  MaxNonce       \* bound: transactions an account executes on a network

ASSUME FiniteAssumption == IsFiniteSet(Txs)
ASSUME SomeNetworkAssumption == Networks # {}
ASSUME InternalAssumption == Internal \subseteq Txs
ASSUME CustomAssumption   == CustomNonces \subseteq Nat
ASSUME WindowAssumption   == MultiWindow \in BOOLEAN
ASSUME ProcAssumption     == None \notin Procs

VARIABLES
  network,     \* networkStore: a network or "loading"
  db,          \* the transaction store, see TxStateManager
  adding,      \* where addUnapprovedTransaction is, per transaction
  addNet,      \* the network generateTxMeta read, per transaction
  redo,        \* what _onBootCleanUp is recomputing, per object: how many times
               \* the gas defaults, and the sponsorship after them
  ui,          \* what the UI does with its copy of a txMeta
  proc,        \* the calls of approveTransaction
  inProcess,   \* inProcessOfSigning
  lock,        \* nonce-tracker: holder of each account's mutex
  dapp,        \* what the requesting dapp's promise became
  disk,        \* the txMetas of the last persisted state
  chainNonce,  \* next nonce of each account on each network
  sent,        \* raw transactions the nodes of each network accepted
  switches,    \* counts changes of network
  crashes,     \* counts restarts
  changed      \* history: the network was changed since the page started

store   == <<db>>
flows   == <<adding, addNet, redo>>
signing == <<proc, inProcess, lock>>
chain   == <<chainNonce, sent>>
bounds  == <<switches, crashes, changed>>
vars    == <<network, db, adding, addNet, redo, ui, proc, inProcess, lock,
             dapp, disk, chainNonce, sent, switches, crashes, changed>>

AddStates == {"none", "checking", "defaults", "done"}
UiStates  == {"unused", "open", "editing", "used"}
Pcs       == {"idle", "block", "lock", "count", "sign", "send", "reply"}
Answers   == {"none", "waiting", "hash", "rejected", "failed", "unknown",
              "error", "lost"}

(***************************************************************************)
(* The locals of approveTransaction: the transaction, the object it holds, *)
(* the network whose provider it last asked, and what is being signed.     *)
(***************************************************************************)
ProcStates ==
  [pc    : Pcs,
   id    : Txs \cup {None},
   ref   : Refs \cup {None},
   asked : Networks \cup {Loading},
   nonce : Nat \cup {None},
   chain : Networks \cup {None}]

IdleProc == [pc |-> "idle", id |-> None, ref |-> None, asked |-> Loading,
             nonce |-> None, chain |-> None]

(* Under way in _onBootCleanUp. *)
Redoing == [gas : Nat, sponsor : Nat]

NotRedone == [gas |-> 0, sponsor |-> 0]

SentTx == [id : Txs, net : Networks, raw : RawTx]

TypeOK ==
  /\ network \in Networks \cup {Loading}
  /\ db \in TxStore
  /\ adding \in [Txs -> AddStates]
  /\ addNet \in [Txs -> Networks \cup {None}]
  /\ redo \in [Refs -> Redoing]
  /\ ui \in [Refs -> UiStates]
  /\ proc \in [Procs -> ProcStates]
  /\ inProcess \subseteq Txs
  /\ lock \in [Accounts -> Procs \cup {None}]
  /\ dapp \in [Txs -> Answers]
  /\ disk \in [Txs -> TxMeta \cup {None}]
  /\ chainNonce \in [Networks -> [Accounts -> Nat]]
  /\ sent \subseteq SentTx
  /\ switches \in Nat
  /\ crashes \in Nat
  /\ changed \in BOOLEAN

(* What generateTxMeta puts in a new txMeta. *)
NewTxMeta(n) ==
  [status |-> "unapproved", net |-> n, ld |-> TRUE, nonce |-> None,
   last |-> FALSE, custom |-> None, chain |-> None, raw |-> None,
   hash |-> None]

SomeNetwork == CHOOSE n \in Networks : TRUE

Init ==
  /\ network = Loading
  /\ db = [list   |-> [id \in Txs |-> None],
           obj    |-> [r \in Refs |-> NewTxMeta(SomeNetwork)],
           timers |-> <<>>]
  /\ adding = [id \in Txs |-> "none"]
  /\ addNet = [id \in Txs |-> None]
  /\ redo = [r \in Refs |-> NotRedone]
  /\ ui = [r \in Refs |-> "unused"]
  /\ proc = [p \in Procs |-> IdleProc]
  /\ inProcess = {}
  /\ lock = [a \in Accounts |-> None]
  /\ dapp = [id \in Txs |-> "none"]
  /\ disk = [id \in Txs |-> None]
  /\ chainNonce = [n \in Networks |-> [a \in Accounts |-> 0]]
  /\ sent = {}
  /\ switches = 0
  /\ crashes = 0
  /\ changed = FALSE

Current(id) == db.obj[db.list[id]]

-----------------------------------------------------------------------------
(***************************************************************************)
(* addUnapprovedTransaction and newUnapprovedTransaction.                  *)
(***************************************************************************)

(* Mutant of GenerateTxMeta: it does not mind that the network is loading. *)
GenerateWhileLoading(id) ==
  /\ adding[id] = "none"
  /\ adding' = [adding EXCEPT ![id] = "checking"]
  /\ addNet' = [addNet EXCEPT ![id] = network]
  /\ UNCHANGED <<network, store, redo, ui, signing, dapp, disk, chain, bounds>>

(* generateTxMeta throws while the network is loading. *)
GenerateTxMeta(id) ==
  /\ adding[id] = "none"
  /\ network # Loading
  /\ adding' = [adding EXCEPT ![id] = "checking"]
  /\ addNet' = [addNet EXCEPT ![id] = network]
  /\ UNCHANGED <<network, store, redo, ui, signing, dapp, disk, chain, bounds>>

(***************************************************************************)
(* The origin has no permission for the account, or the account is not     *)
(* the selected one: the request fails and the txMeta is never stored.     *)
(***************************************************************************)
RefuseRequest(id) ==
  /\ adding[id] = "checking"
  /\ adding' = [adding EXCEPT ![id] = "done"]
  /\ dapp' = [dapp EXCEPT ![id] = IF id \in Internal THEN "none" ELSE "error"]
  /\ UNCHANGED <<network, store, addNet, redo, ui, signing, disk, chain,
                 bounds>>

(* The category is known: addTx, and the UI is asked to show it. *)
StoreUnapproved(id) ==
  /\ adding[id] = "checking"
  /\ db' = AddTx(db, <<id, 0>>, NewTxMeta(addNet[id]))
  /\ adding' = [adding EXCEPT ![id] = "defaults"]
  /\ UNCHANGED <<network, addNet, redo, ui, signing, dapp, disk, chain, bounds>>

(***************************************************************************)
(* The gas defaults are there: the ORIGINAL object is saved, and only now  *)
(* newUnapprovedTransaction starts listening for `finished`.               *)
(***************************************************************************)
DefaultsReady(id) ==
  /\ adding[id] = "defaults"
  /\ LET r == <<id, 0>> IN
     db' = UpdateTx(WithTxMeta(db, r, [db.obj[r] EXCEPT !.ld = FALSE]), r)
  /\ adding' = [adding EXCEPT ![id] = "done"]
  /\ dapp' = [dapp EXCEPT ![id] = IF id \in Internal THEN "none" ELSE "waiting"]
  /\ UNCHANGED <<network, addNet, redo, ui, signing, disk, chain, bounds>>

(* They failed: the dapp gets the error, the transaction stays in the list. *)
DefaultsFailed(id) ==
  /\ adding[id] = "defaults"
  /\ LET r == <<id, 0>> IN
     db' = UpdateTx(WithTxMeta(db, r, [db.obj[r] EXCEPT !.ld = FALSE]), r)
  /\ adding' = [adding EXCEPT ![id] = "done"]
  /\ dapp' = [dapp EXCEPT ![id] = IF id \in Internal THEN "none" ELSE "error"]
  /\ UNCHANGED <<network, addNet, redo, ui, signing, disk, chain, bounds>>

-----------------------------------------------------------------------------
(***************************************************************************)
(* The confirmation windows.  A window works on the copy <<id, k>> of the  *)
(* txMeta it was shown, k > 0, and sends it back at most once; reopening   *)
(* the transaction takes the next copy.                                    *)
(***************************************************************************)

Windows(id) == {r \in Refs : IdOf(r) = id /\ r[2] > 0}

Shown(id) == GetTx(db, network, id) # None /\ Current(id).status = "unapproved"

(* Mutant of OpenWindow: no loading indicator covers the page. *)
OpenWhileLoading(r) ==
  /\ r[2] > 0
  /\ ui[r] = "unused"
  /\ \A k \in 1 .. (r[2] - 1) : ui[<<IdOf(r), k>>] # "unused"
  /\ ~MultiWindow => \A w \in Windows(IdOf(r)) : ui[w] \notin {"open", "editing"}
  /\ Shown(IdOf(r))
  /\ db' = WithTxMeta(db, r, Current(IdOf(r)))
  /\ ui' = [ui EXCEPT ![r] = "open"]
  /\ UNCHANGED <<network, flows, signing, dapp, disk, chain, bounds>>

(* A loading indicator covers the page until the gas defaults are known. *)
OpenWindow(r) ==
  /\ r[2] > 0
  /\ ui[r] = "unused"
  /\ \A k \in 1 .. (r[2] - 1) : ui[<<IdOf(r), k>>] # "unused"
  /\ ~MultiWindow => \A w \in Windows(IdOf(r)) : ui[w] \notin {"open", "editing"}
  /\ Shown(IdOf(r))
  /\ ~Current(IdOf(r)).ld
  /\ db' = WithTxMeta(db, r, Current(IdOf(r)))
  /\ ui' = [ui EXCEPT ![r] = "open"]
  /\ UNCHANGED <<network, flows, signing, dapp, disk, chain, bounds>>

(* updateTransaction starts asking the sponsorship of the edited copy ... *)
UpdateTransaction(r) ==
  /\ ui[r] = "open"
  /\ ui' = [ui EXCEPT ![r] = "editing"]
  /\ UNCHANGED <<network, store, flows, signing, dapp, disk, chain, bounds>>

(* ... and saves the copy when the answer, or an error, is there. *)
SponsorshipAnswer(r) ==
  /\ ui[r] = "editing"
  /\ db' = UpdateTx(db, r)
  /\ ui' = [ui EXCEPT ![r] = "used"]
  /\ UNCHANGED <<network, flows, signing, dapp, disk, chain, bounds>>

(***************************************************************************)
(* cancelTransaction: the button, or closing the notification window,      *)
(* which needs no gas defaults.  A window still open may be out of date.   *)
(***************************************************************************)
CancelTransaction(id) ==
  /\ Shown(id) \/ \E w \in Windows(id) : ui[w] = "open"
  /\ db' = SetTxStatusRejected(db, network, id)
  /\ ui' = [r \in Refs |-> IF IdOf(r) = id /\ ui[r] = "open" /\ ~MultiWindow
                           THEN "used" ELSE ui[r]]
  /\ UNCHANGED <<network, flows, signing, dapp, disk, chain, bounds>>

-----------------------------------------------------------------------------
(***************************************************************************)
(* approveTransaction.                                                     *)
(***************************************************************************)

(* finally: the id leaves inProcessOfSigning; the nonce lock is released. *)
ReleaseLock(p) == lock' = [a \in Accounts |-> IF lock[a] = p THEN None ELSE lock[a]]

Finish(p) ==
  /\ proc' = [proc EXCEPT ![p] = IdleProc]
  /\ inProcess' = inProcess \ {proc[p].id}
  /\ ReleaseLock(p)

(* Mutant of FailApproval: the nonce lock is released on success only. *)
FailKeepingLock(p, d) ==
  /\ db' = SetTxStatusFailed(d, network, proc[p].id)
  /\ proc' = [proc EXCEPT ![p] = IdleProc]
  /\ inProcess' = inProcess \ {proc[p].id}
  /\ UNCHANGED lock

(* catch: the transaction is failed if it can be found. *)
FailApproval(p, d) ==
  /\ db' = SetTxStatusFailed(d, network, proc[p].id)
  /\ Finish(p)

(* Mutant of ApproveTransaction: inProcessOfSigning is not consulted. *)
ApproveUnguarded(p, id, d) ==
  \/ /\ GetTx(d, network, id) = None
     /\ db' = d
     /\ UNCHANGED signing
  \/ /\ GetTx(d, network, id) # None
     /\ db' = SetTxStatus(d, network, id, "approved")
     /\ inProcess' = inProcess \cup {id}
     /\ proc' = [proc EXCEPT ![p] = [IdleProc EXCEPT !.pc = "block", !.id = id,
                                                    !.ref = d.list[id]]]
     /\ UNCHANGED lock

(***************************************************************************)
(* The synchronous start, on the store d: nothing happens when the id is   *)
(* being signed already; when it cannot be found the call throws at once   *)
(* and leaves no trace.                                                    *)
(***************************************************************************)
ApproveTransaction(p, id, d) ==
  \/ /\ id \in inProcess \/ GetTx(d, network, id) = None
     /\ db' = d
     /\ UNCHANGED signing
  \/ /\ id \notin inProcess /\ GetTx(d, network, id) # None
     /\ db' = SetTxStatus(d, network, id, "approved")
     /\ inProcess' = inProcess \cup {id}
     /\ proc' = [proc EXCEPT ![p] = [IdleProc EXCEPT !.pc = "block", !.id = id,
                                                    !.ref = d.list[id]]]
     /\ UNCHANGED lock

(* updateAndApproveTransaction with the window's copy and its nonce field. *)
UpdateAndApproveTransaction(p, r, c) ==
  /\ proc[p].pc = "idle"
  /\ ui[r] = "open"
  /\ ui' = [ui EXCEPT ![r] = "used"]
  /\ ApproveTransaction(p, IdOf(r),
       UpdateTx(WithTxMeta(db, r, [db.obj[r] EXCEPT !.custom = c]), r))
  /\ UNCHANGED <<network, flows, dapp, disk, chain, bounds>>

(* The latest epoch is known; getChainId throws while the network loads. *)
BlockAnswer(p) ==
  /\ proc[p].pc = "block"
  /\ network # Loading
  /\ db' = WithTxMeta(db, proc[p].ref, [db.obj[proc[p].ref] EXCEPT !.chain = network])
  /\ proc' = [proc EXCEPT ![p].pc = "lock"]
  /\ UNCHANGED <<network, flows, ui, inProcess, lock, dapp, disk, chain, bounds>>

(* getNonceLock takes the mutex of the account and asks the network. *)
TakeNonceLock(p) ==
  /\ proc[p].pc = "lock"
  /\ lock[From[proc[p].id]] = None
  /\ lock' = [lock EXCEPT ![From[proc[p].id]] = p]
  /\ proc' = [proc EXCEPT ![p].pc = "count", ![p].asked = network]
  /\ UNCHANGED <<network, store, flows, ui, inProcess, dapp, disk, chain, bounds>>

(***************************************************************************)
(* nonce-tracker: the first nonce, from the network's count and the        *)
(* highest nonce completed locally, that no submitted transaction has.     *)
(***************************************************************************)
LocalNonces(d, n, a, S) ==
  {d.obj[d.list[id]].nonce :
     id \in {i \in Txs : From[i] = a /\ \E s \in S : i \in TxsByStatus(d, n, s)}}
    \ {None}

(* As a set, which always has one element. *)
HighestContinuousFrom(S, start) ==
  {n \in {start} \cup {m + 1 : m \in S} :
     start <= n /\ n \notin S /\ \A m \in start .. (n - 1) : m \in S}

(* Mutant of PendingStatuses: failed transactions keep their nonce. *)
PendingOrFailed == {"submitted", "failed"}

(* What getPendingTransactions and getConfirmedTransactions hand over. *)
PendingStatuses == {"submitted"}

CompletedStatuses == {"executed", "confirmed"}

NextNonce(d, n, a, count) ==
  LET completed == {m + 1 : m \in LocalNonces(d, n, a, CompletedStatuses)}
      suggested == {m \in completed \cup {count} :
                      \A k \in completed \cup {count} : k <= m}
      pending   == LocalNonces(d, n, a, PendingStatuses)
  IN UNION {HighestContinuousFrom(pending, start) : start \in suggested}

(* The count is that of the network whose provider was asked. *)
CountOf(p, a) ==
  {chainNonce[n][a] : n \in IF proc[p].asked = Loading THEN Networks
                            ELSE {proc[p].asked}}

TxNonce(m, next) ==
  IF m.custom # None THEN m.custom ELSE IF m.last THEN m.nonce ELSE next

(***************************************************************************)
(* The nonce is written and saved, and signTransaction looks the           *)
(* transaction up and copies its txParams before it waits for the keyring. *)
(***************************************************************************)
CountAnswer(p, next) ==
  LET r == proc[p].ref
      nonce == TxNonce(db.obj[r], next)
      d == UpdateTx(WithTxMeta(db, r, [db.obj[r] EXCEPT !.nonce = nonce]), r)
      s == GetTx(d, network, proc[p].id)
  IN
  /\ \/ /\ nonce # None /\ s # None
        /\ db' = d
        /\ proc' = [proc EXCEPT ![p] = [@ EXCEPT !.pc = "sign", !.ref = s,
                                          !.nonce = d.obj[s].nonce,
                                          !.chain = d.obj[s].chain]]
        /\ UNCHANGED <<inProcess, lock>>
     \/ /\ nonce # None /\ s = None
        /\ FailApproval(p, d)
     \/ /\ nonce = None
        /\ FailApproval(p, db)
  /\ UNCHANGED <<network, flows, ui, dapp, disk, chain, bounds>>

(***************************************************************************)
(* The keyring signed the copied txParams: rawTx goes to the object that   *)
(* was looked up, the status to the one that is found now, and             *)
(* publishTransaction sends what that one holds.                           *)
(***************************************************************************)
SignAnswer(p) ==
  LET s == proc[p].ref
      raw == [nonce |-> proc[p].nonce, chain |-> proc[p].chain]
      d == SetTxStatus(UpdateTx(WithTxMeta(db, s, [db.obj[s] EXCEPT !.raw = raw]), s),
                       network, proc[p].id, "signed")
      t == GetTx(d, network, proc[p].id)
  IN
  /\ proc[p].pc = "sign"
  /\ \/ /\ t # None
        /\ db' = d
        /\ proc' = [proc EXCEPT ![p] = [@ EXCEPT !.pc = "send", !.ref = t,
                                          !.asked = network]]
        /\ UNCHANGED <<inProcess, lock>>
     \/ /\ t = None
        /\ FailApproval(p, d)
  /\ UNCHANGED <<network, flows, ui, dapp, disk, chain, bounds>>

(***************************************************************************)
(* The node takes the transaction: one signed for its chain and whose      *)
(* nonce is not used up.                                                   *)
(***************************************************************************)
NodeAccepts(p) ==
  LET raw == [nonce |-> proc[p].nonce, chain |-> proc[p].chain] IN
  /\ proc[p].pc = "send"
  /\ raw.chain = proc[p].asked
  /\ raw.nonce >= chainNonce[raw.chain][From[proc[p].id]]
  /\ sent' = sent \cup {[id |-> proc[p].id, net |-> proc[p].asked, raw |-> raw]}
  /\ proc' = [proc EXCEPT ![p].pc = "reply"]
  /\ UNCHANGED <<network, store, flows, ui, inProcess, lock, dapp, disk,
                 chainNonce, bounds>>

(* setTxHash and setTxStatusSubmitted, on the entry found now. *)
SendAnswer(p) ==
  LET t == GetTx(db, network, proc[p].id)
      raw == [nonce |-> proc[p].nonce, chain |-> proc[p].chain]
  IN
  /\ proc[p].pc = "reply"
  /\ \/ /\ t # None
        /\ db' = SetTxStatus(WithTxMeta(db, t, [db.obj[t] EXCEPT !.hash = raw]),
                             network, proc[p].id, "submitted")
        /\ Finish(p)
     \/ /\ t = None
        /\ FailApproval(p, db)
  /\ UNCHANGED <<network, flows, ui, dapp, disk, chain, bounds>>

(* A call this approval awaits fails, or its answer is lost. *)
CallFailed(p) ==
  /\ proc[p].pc \in {"block", "count", "sign", "send", "reply"}
  /\ FailApproval(p, db)
  /\ UNCHANGED <<network, flows, ui, dapp, disk, chain, bounds>>

-----------------------------------------------------------------------------
(***************************************************************************)
(* Replacements of a transaction, same account and nonce: a new id of the  *)
(* wallet's own, stored and at once approved (cancel, speed up) or left    *)
(* for the user to confirm (retry).  The original may be in any state the  *)
(* list of activity shows: the buttons belong to a group of transactions   *)
(* with one nonce, and the code checks nothing.                            *)
(***************************************************************************)
ReplacementOf(old) ==
  [NewTxMeta(network) EXCEPT !.ld = FALSE, !.last = TRUE,
                             !.nonce = Current(old).nonce]

CanReplace(old, id) ==
  /\ adding[id] = "none" /\ id \in Internal /\ From[id] = From[old]
  /\ GetTx(db, network, old) # None
  /\ Current(old).status # "unapproved"
  /\ adding' = [adding EXCEPT ![id] = "done"]
  /\ addNet' = [addNet EXCEPT ![id] = network]
  /\ UNCHANGED <<network, redo, ui, dapp, disk, chain, bounds>>

(* createCancelTransaction, createSpeedUpTransaction *)
CreateReplacement(p, old, id) ==
  /\ proc[p].pc = "idle"
  /\ CanReplace(old, id)
  /\ ApproveTransaction(p, id,
       AddTx(db, <<id, 0>>, [ReplacementOf(old) EXCEPT !.status = "approved"]))

RetryTransaction(old, id) ==
  /\ CanReplace(old, id)
  /\ db' = AddTx(db, <<id, 0>>, ReplacementOf(old))
  /\ UNCHANGED signing

-----------------------------------------------------------------------------
(***************************************************************************)
(* The network, the boot clean-up that every change of it runs, and the    *)
(* account reset.                                                          *)
(***************************************************************************)

(* The network store says "loading" as soon as a network is chosen. *)
SwitchNetwork ==
  /\ network # Loading
  /\ switches < MaxSwitches
  /\ network' = Loading
  /\ switches' = switches + 1
  /\ changed' = TRUE
  /\ UNCHANGED <<store, flows, ui, signing, dapp, disk, chain, crashes>>

(* resetAccount: wipeTransactions, then resetConnection. *)
ResetAccount(a) ==
  /\ network # Loading
  /\ switches < MaxSwitches
  /\ db' = WipeTransactions(db, network, a)
  /\ network' = Loading
  /\ switches' = switches + 1
  /\ changed' = TRUE
  /\ UNCHANGED <<flows, ui, signing, dapp, disk, chain, crashes>>

Orders(S) ==
  {s \in [1 .. Cardinality(S) -> S] : \A i, j \in DOMAIN s : i # j => s[i] # s[j]}

Entries(d, ids) == {d.list[id] : id \in ids}

(* setTxStatusFailed of each transaction in turn. *)
FailEach(d, ids) ==
  [d EXCEPT
     !.obj = [r \in Refs |-> IF \E i \in DOMAIN ids : d.list[ids[i]] = r
                             THEN [d.obj[r] EXCEPT !.status = "failed"]
                             ELSE d.obj[r]],
     !.timers = @ \o [i \in DOMAIN ids |-> [ref |-> d.list[ids[i]], status |-> "failed"]]]

(* Mutant of BootCleanUp: approved transactions are left alone. *)
CleanUpDefaultsOnly(n) ==
  LET unready == {id \in TxsByStatus(db, n, "unapproved") : Current(id).ld} IN
  /\ redo' = [r \in Refs |->
                IF r \in Entries(db, unready) THEN [redo[r] EXCEPT !.gas = @ + 1]
                ELSE redo[r]]
  /\ db' = db

(* _onBootCleanUp on network n; while it is loading no entry is visible. *)
BootCleanUp(n) ==
  LET unready == {id \in TxsByStatus(db, n, "unapproved") : Current(id).ld} IN
  /\ redo' = [r \in Refs |->
                IF r \in Entries(db, unready) THEN [redo[r] EXCEPT !.gas = @ + 1]
                ELSE redo[r]]
  /\ \E ids \in Orders(TxsByStatus(db, n, "approved")) : db' = FailEach(db, ids)

NetworkUp(n) ==
  /\ network = Loading
  /\ network' = n
  /\ BootCleanUp(n)
  /\ UNCHANGED <<adding, addNet, ui, signing, dapp, disk, chain, bounds>>

(* The clean-up's own gas defaults are there, which the entry shows ... *)
RedoGas(r) ==
  /\ redo[r].gas > 0
  /\ redo' = [redo EXCEPT ![r].gas = @ - 1, ![r].sponsor = @ + 1]
  /\ db' = WithTxMeta(db, r, [db.obj[r] EXCEPT !.ld = FALSE])
  /\ UNCHANGED <<network, adding, addNet, ui, signing, dapp, disk, chain, bounds>>

(* ... and the object is saved when the sponsorship is known. *)
RedoReady(r) ==
  /\ redo[r].sponsor > 0
  /\ redo' = [redo EXCEPT ![r].sponsor = @ - 1]
  /\ db' = UpdateTx(db, r)
  /\ UNCHANGED <<network, adding, addNet, ui, signing, dapp, disk, chain, bounds>>

(* Either fails: the transaction is saved and failed. *)
RedoFailed(r) ==
  /\ \/ redo[r].gas > 0 /\ redo' = [redo EXCEPT ![r].gas = @ - 1]
     \/ redo[r].sponsor > 0 /\ redo' = [redo EXCEPT ![r].sponsor = @ - 1]
  /\ db' = SetTxStatusFailed(
             UpdateTx(WithTxMeta(db, r, [db.obj[r] EXCEPT !.ld = FALSE]), r),
             network, IdOf(r))
  /\ UNCHANGED <<network, adding, addNet, ui, signing, dapp, disk, chain, bounds>>

-----------------------------------------------------------------------------
(***************************************************************************)
(* A deferred status update runs.  `finished` answers the dapp, by the     *)
(* status the object has NOW, if somebody is listening already and still.  *)
(***************************************************************************)
AnswerFor(status) ==
  CASE status = "submitted" -> "hash"
    [] status = "rejected"  -> "rejected"
    [] status = "failed"    -> "failed"
    [] OTHER                -> "unknown"

(* Mutant of FireTimer: `finished` is not emitted for a failure. *)
FireTimerButFailed ==
  /\ db.timers # <<>>
  /\ db' = RunTimer(db)
  /\ LET t == Head(db.timers) IN
     dapp' = [dapp EXCEPT ![IdOf(t.ref)] =
                IF @ = "waiting" /\ t.status \in {"submitted", "rejected"}
                THEN AnswerFor(db.obj[t.ref].status) ELSE @]
  /\ UNCHANGED <<network, flows, ui, signing, disk, chain, bounds>>

FireTimer ==
  /\ db.timers # <<>>
  /\ db' = RunTimer(db)
  /\ LET t == Head(db.timers) IN
     dapp' = [dapp EXCEPT ![IdOf(t.ref)] =
                IF @ = "waiting" /\ t.status \in {"submitted", "rejected", "failed"}
                THEN AnswerFor(db.obj[t.ref].status) ELSE @]
  /\ UNCHANGED <<network, flows, ui, signing, disk, chain, bounds>>

(* The store reaches the disk some time after it changed. *)
Persist ==
  /\ crashes < MaxCrashes
  /\ disk' = [id \in Txs |-> IF db.list[id] = None THEN None ELSE Current(id)]
  /\ UNCHANGED <<network, store, flows, ui, signing, dapp, chain, bounds>>

(***************************************************************************)
(* The background page restarts: every process, timer, listener and window *)
(* is gone, the list is what the disk held, and the network is loading, so *)
(* the clean-up of the constructor sees nothing; NetworkUp runs the next.  *)
(***************************************************************************)
Restart ==
  /\ crashes < MaxCrashes
  /\ crashes' = crashes + 1
  /\ changed' = FALSE
  /\ network' = Loading
  /\ db' = [list   |-> [id \in Txs |-> IF disk[id] = None THEN None ELSE <<id, 0>>],
            obj    |-> [r \in Refs |-> IF r[2] = 0 /\ disk[IdOf(r)] # None
                                      THEN disk[IdOf(r)] ELSE NewTxMeta(SomeNetwork)],
            timers |-> <<>>]
  /\ adding' = [id \in Txs |-> IF adding[id] = "none" THEN "none" ELSE "done"]
  /\ redo' = [r \in Refs |-> NotRedone]
  /\ ui' = [r \in Refs |-> IF ui[r] = "unused" THEN "unused" ELSE "used"]
  /\ proc' = [p \in Procs |-> IdleProc]
  /\ inProcess' = {}
  /\ lock' = [a \in Accounts |-> None]
  /\ dapp' = [id \in Txs |-> IF dapp[id] = "waiting" THEN "lost" ELSE dapp[id]]
  /\ UNCHANGED <<addNet, disk, chain, switches>>

(* A transaction with the next nonce is executed: ours, or another wallet's. *)
ChainExecutes(n, a) ==
  /\ chainNonce[n][a] < MaxNonce
  /\ chainNonce' = [chainNonce EXCEPT ![n][a] = @ + 1]
  /\ UNCHANGED <<network, store, flows, ui, signing, dapp, disk, sent, bounds>>

-----------------------------------------------------------------------------

Request(id) == GenerateTxMeta(id) \/ RefuseRequest(id) \/ StoreUnapproved(id)

Defaults(id) == DefaultsReady(id) \/ DefaultsFailed(id)

User ==
  \/ \E r \in Refs : OpenWindow(r) \/ UpdateTransaction(r)
  \/ \E p \in Procs, r \in Refs, c \in CustomNonces \cup {None} :
       UpdateAndApproveTransaction(p, r, c)
  \/ \E id \in Txs : CancelTransaction(id)
  \/ \E p \in Procs, old, id \in Txs : CreateReplacement(p, old, id)
  \/ \E old, id \in Txs : RetryTransaction(old, id)
  \/ SwitchNetwork
  \/ \E a \in Accounts : ResetAccount(a)

Count(p) ==
  /\ proc[p].pc = "count"
  /\ LET a == From[proc[p].id] IN
     \E count \in CountOf(p, a) :
       \E next \in NextNonce(db, network, a, count) : CountAnswer(p, next)

Approval(p) ==
  \/ BlockAnswer(p) \/ Count(p) \/ SignAnswer(p)
  \/ NodeAccepts(p) \/ SendAnswer(p) \/ CallFailed(p)

Redo(r) == RedoGas(r) \/ RedoReady(r) \/ RedoFailed(r)

Next ==
  \/ \E id \in Txs : Request(id) \/ Defaults(id)
  \/ User
  \/ \E p \in Procs : Approval(p) \/ TakeNonceLock(p)
  \/ \E r \in Refs : SponsorshipAnswer(r) \/ Redo(r)
  \/ \E n \in Networks : NetworkUp(n)
  \/ FireTimer
  \/ Persist
  \/ Restart
  \/ \E n \in Networks, a \in Accounts : ChainExecutes(n, a)

Spec == Init /\ [][Next]_vars

(***************************************************************************)
(* Fairness: timers run, an await is answered or fails (the providers time *)
(* out), a free mutex is handed to its waiters in turn, and the network is *)
(* found in the end.  Users, dapps, crashes and the chain owe nothing.     *)
(***************************************************************************)
FairSpec ==
  /\ Spec
  /\ WF_vars(FireTimer)
  /\ WF_vars(\E n \in Networks : NetworkUp(n))
  /\ \A id \in Txs : WF_vars(StoreUnapproved(id)) /\ WF_vars(Defaults(id))
  /\ \A r \in Refs : WF_vars(SponsorshipAnswer(r)) /\ WF_vars(Redo(r))
  /\ \A p \in Procs : WF_vars(Approval(p)) /\ SF_vars(TakeNonceLock(p))

-----------------------------------------------------------------------------
(***************************************************************************)
(* Properties.                                                             *)
(***************************************************************************)

(* The awaits of approveTransaction that happen inside the nonce lock. *)
Holding == {"count", "sign", "send", "reply"}

(***************************************************************************)
(* The nonce lock of an account is held exactly by the approval that is    *)
(* between its nonce and its outcome: a failed await, a transaction that   *)
(* vanished under it or a change of network never leaves the mutex taken   *)
(* ("this is try-catch wrapped so that we can guarantee that the nonceLock *)
(* is released").                                                          *)
(***************************************************************************)
NonceLockHeld ==
  \A a \in Accounts, p \in Procs :
    lock[a] = p <=> proc[p].pc \in Holding /\ From[proc[p].id] = a

(***************************************************************************)
(* However often a transaction is confirmed, at most one approval of it    *)
(* runs, and inProcessOfSigning lists exactly the ids being approved.      *)
(***************************************************************************)
OneApprovalPerTx ==
  LET active == {p \in Procs : proc[p].pc # "idle"} IN
  /\ inProcess = {proc[p].id : p \in active}
  /\ \A p, q \in active : proc[p].id = proc[q].id => p = q

(***************************************************************************)
(* A transaction asked for on one network is never broadcast on another,   *)
(* whenever the user changes networks during the approval.                 *)
(***************************************************************************)
SentOnOwnNetwork == \A s \in sent : s.net = addNet[s.id]

(***************************************************************************)
(* On the network in use, and once the deferred status updates ran, a      *)
(* transaction is "approved" only while an approval of it is running, as   *)
(* long as the network was not changed since the page started: neither a   *)
(* restart in the middle of an approval leaves one behind (_onBootCleanUp  *)
(* fails it), nor a stale copy of the txMeta, of a window or of the        *)
(* clean-up.  After a change of network one is: an approved entry can be   *)
(* put aside by a copy saved late, escape the clean-up, and be written     *)
(* back by its own deferred update.                                        *)
(***************************************************************************)
NoOrphanApproved ==
  ~changed /\ db.timers = <<>> =>
    \A id \in TxsByStatus(db, network, "approved") : id \in inProcess

(***************************************************************************)
(* The dapp is given a hash only of a transaction a node accepted, and is  *)
(* told "rejected" only of a transaction that is gone from the list.       *)
(***************************************************************************)
AnswersAreTrue ==
  \A id \in Txs :
    /\ dapp[id] = "hash" => \E s \in sent : s.id = id
    /\ dapp[id] = "rejected" /\ crashes = 0 => db.list[id] = None

(***************************************************************************)
(* A transaction that was rejected or wiped never comes back: the flows    *)
(* that still hold its object (gas defaults, sponsorship, an approval, a   *)
(* deferred status update) save it in vain.  Only a restart may read an    *)
(* older list.                                                             *)
(***************************************************************************)
RemovedNeverReturns ==
  [][\A id \in Txs :
       /\ adding[id] \in {"defaults", "done"}
       /\ db.list[id] = None
       /\ crashes' = crashes
       => db'.list[id] = None]_vars

(***************************************************************************)
(* A transaction is broadcast at most once, under one nonce (background.js *)
(* reports a second setTxHash, or one before "Added new unapproved         *)
(* transaction", as an error).                                             *)
(***************************************************************************)
OneHashPerTx == \A s, t \in sent : s.id = t.id => s = t

(* Submitted transactions that took their nonce from the nonce tracker. *)
Numbered ==
  {id \in Txs : /\ db.list[id] # None
               /\ Current(id).status = "submitted"
               /\ ~Current(id).last
               /\ Current(id).custom = None}

(***************************************************************************)
(* Two transactions an account has submitted on a network never share a    *)
(* nonce, unless one replaces the other or the user typed a nonce: the     *)
(* lock is kept until the first is submitted, where the second sees it.    *)
(* And none waits for a nonce nobody broadcast: the nonces below its own   *)
(* are executed already or broadcast by the wallet, though approvals       *)
(* before it failed at any await.                                          *)
(***************************************************************************)
NoncesAreConsecutive ==
  /\ \A i, j \in Numbered :
       i # j /\ From[i] = From[j] /\ Current(i).net = Current(j).net
         => Current(i).nonce # Current(j).nonce
  /\ \A s \in sent : \A m \in 0 .. (s.raw.nonce - 1) :
       \/ m < chainNonce[s.net][From[s.id]]
       \/ \E t \in sent : t.net = s.net /\ From[t.id] = From[s.id] /\ t.raw.nonce = m

(***************************************************************************)
(* The dapp whose transaction was confirmed by the user is answered.       *)
(***************************************************************************)
ConfirmedIsAnswered ==
  \A id \in Txs : id \in inProcess /\ dapp[id] = "waiting" ~> dapp[id] # "waiting"

(***************************************************************************)
(* The controller implements TxLifecycle.                                  *)
(***************************************************************************)
StatusOf(id) == IF db.list[id] = None THEN "absent" ELSE Current(id).status

Lifecycle == INSTANCE TxLifecycle
               WITH st <- [id \in Txs |-> StatusOf(id)], answer <- dapp

ImplementsLifecycle == Lifecycle!Spec
=============================================================================
