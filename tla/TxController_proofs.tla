------------------------ MODULE TxController_proofs -------------------------
(***************************************************************************)
(* Theorems about the transaction controller, for every number of          *)
(* transactions, copies, windows, networks, accounts, concurrent approvals,*)
(* changes of network and restarts.                                        *)
(***************************************************************************)
EXTENDS TxController, SequenceTheorems, FiniteSetTheorems, TLAPS

(***************************************************************************)
(* The store: every operation of it maps a store to a store, and what a    *)
(* lookup finds.                                                           *)
(***************************************************************************)

(***************************************************************************)
(* The objects of a store are txMetas, and so is a txMeta with one field   *)
(* overwritten.                                                            *)
(***************************************************************************)
LEMMA ObjType ==
  ASSUME NEW d \in TxStore, NEW r \in Refs
  PROVE  d.obj[r] \in TxMeta
BY DEF TxStore

LEMMA TxMetaFields ==
  ASSUME NEW m \in TxMeta
  PROVE  /\ [m EXCEPT !.ld = FALSE] \in TxMeta
         /\ \A s \in Statuses : [m EXCEPT !.status = s] \in TxMeta
         /\ \A n \in Networks : [m EXCEPT !.chain = n] \in TxMeta
         /\ \A c \in Nat \cup {None} : [m EXCEPT !.custom = c] \in TxMeta
         /\ \A c \in Nat \cup {None} : [m EXCEPT !.nonce = c] \in TxMeta
         /\ \A raw \in RawTx : [m EXCEPT !.raw = raw] \in TxMeta
         /\ \A raw \in RawTx : [m EXCEPT !.hash = raw] \in TxMeta
BY DEF TxMeta

(***************************************************************************)
(* What getTx finds is an object of the store, on the network asked for.   *)
(***************************************************************************)
LEMMA GetTxType ==
  ASSUME NEW d \in TxStore, NEW n, NEW id \in Txs, GetTx(d, n, id) # None
  PROVE  /\ GetTx(d, n, id) = d.list[id]
         /\ GetTx(d, n, id) \in Refs
         /\ IdOf(GetTx(d, n, id)) = id
         /\ d.obj[GetTx(d, n, id)].net = n
BY DEF GetTx, TxStore, TxList

(***************************************************************************)
(* updateTx keeps the store a store.                                       *)
(***************************************************************************)
LEMMA UpdateTxType ==
  ASSUME NEW d \in TxStore, NEW r \in Refs
  PROVE  UpdateTx(d, r) \in TxStore
BY DEF UpdateTx, TxStore, TxList, Refs, IdOf

(***************************************************************************)
(* addTx keeps the store a store.                                          *)
(***************************************************************************)
LEMMA AddTxType ==
  ASSUME NEW d \in TxStore, NEW r \in Refs, NEW m \in TxMeta
  PROVE  AddTx(d, r, m) \in TxStore
BY DEF AddTx, TxStore, TxList, Refs, IdOf

(***************************************************************************)
(* Writing the fields of an object in place keeps the store a store.       *)
(***************************************************************************)
LEMMA WithTxMetaType ==
  ASSUME NEW d \in TxStore, NEW r \in Refs, NEW m \in TxMeta
  PROVE  WithTxMeta(d, r, m) \in TxStore
BY DEF WithTxMeta, TxStore

(***************************************************************************)
(* _setTxStatus keeps the store a store.                                   *)
(***************************************************************************)
LEMMA SetTxStatusType ==
  ASSUME NEW d \in TxStore, NEW n, NEW id \in Txs, NEW s \in Statuses
  PROVE  SetTxStatus(d, n, id, s) \in TxStore
<1>1. CASE GetTx(d, n, id) = None
  BY <1>1 DEF SetTxStatus
<1>2. CASE GetTx(d, n, id) # None
  <2> DEFINE r == GetTx(d, n, id)
             m == [d.obj[r] EXCEPT !.status = s]
             t == [ref |-> r, status |-> s]
  <2>1. r \in Refs
    BY <1>2, GetTxType
  <2>2. d.obj[r] \in TxMeta
    BY <2>1 DEF TxStore
  <2>3. m \in TxMeta
    BY <2>2 DEF TxMeta
  <2>4. t \in Timer
    BY <2>1 DEF Timer
  <2>5. Append(d.timers, t) \in Seq(Timer)
    BY <2>4 DEF TxStore
  <2>6. [d.obj EXCEPT ![r] = m] \in [Refs -> TxMeta]
    BY <2>3 DEF TxStore
  <2>7. SetTxStatus(d, n, id, s)
          = [list |-> d.list, obj |-> [d.obj EXCEPT ![r] = m],
             timers |-> Append(d.timers, t)]
    BY <1>2 DEF SetTxStatus, TxStore
  <2> QED BY <2>5, <2>6, <2>7 DEF TxStore
<1> QED BY <1>1, <1>2

(***************************************************************************)
(* Removing an entry keeps the store a store.                              *)
(***************************************************************************)
LEMMA RemoveTxType ==
  ASSUME NEW d \in TxStore, NEW id \in Txs
  PROVE  RemoveTx(d, id) \in TxStore
BY DEF RemoveTx, TxStore, TxList

(***************************************************************************)
(* setTxStatusRejected and setTxStatusFailed keep the store a store.       *)
(***************************************************************************)
LEMMA SetTxStatusRejectedType ==
  ASSUME NEW d \in TxStore, NEW n, NEW id \in Txs
  PROVE  SetTxStatusRejected(d, n, id) \in TxStore
BY SetTxStatusType, RemoveTxType DEF SetTxStatusRejected, Statuses

LEMMA SetTxStatusFailedType ==
  ASSUME NEW d \in TxStore, NEW n, NEW id \in Txs
  PROVE  SetTxStatusFailed(d, n, id) \in TxStore
BY SetTxStatusType DEF SetTxStatusFailed, Statuses

(***************************************************************************)
(* Wiping the transactions of an account keeps the store a store.          *)
(***************************************************************************)
LEMMA WipeTransactionsType ==
  ASSUME NEW d \in TxStore, NEW n, NEW a
  PROVE  WipeTransactions(d, n, a) \in TxStore
BY DEF WipeTransactions, TxStore, TxList

(***************************************************************************)
(* Running the oldest deferred update keeps the store a store.             *)
(***************************************************************************)
LEMMA RunTimerType ==
  ASSUME NEW d \in TxStore, d.timers # <<>>
  PROVE  /\ Head(d.timers) \in Timer
         /\ RunTimer(d) \in TxStore
<1>1. Head(d.timers) \in Timer /\ Tail(d.timers) \in Seq(Timer)
  BY DEF TxStore
<1>2. UpdateTx(d, Head(d.timers).ref) \in TxStore
  BY <1>1, UpdateTxType DEF Timer
<1>3. UpdateTx(d, Head(d.timers).ref).timers = d.timers
  BY DEF UpdateTx, TxStore
<1> QED BY <1>1, <1>2, <1>3 DEF RunTimer, TxStore

(***************************************************************************)
(* Writing an object and saving it, as most handlers do.                   *)
(***************************************************************************)
LEMMA SavedType ==
  ASSUME NEW d \in TxStore, NEW r \in Refs, NEW m \in TxMeta
  PROVE  UpdateTx(WithTxMeta(d, r, m), r) \in TxStore
BY WithTxMetaType, UpdateTxType

LEMMA DefaultsSavedType ==
  ASSUME NEW d \in TxStore, NEW r \in Refs
  PROVE  UpdateTx(WithTxMeta(d, r, [d.obj[r] EXCEPT !.ld = FALSE]), r) \in TxStore
BY ObjType, TxMetaFields, SavedType

(***************************************************************************)
(* What a handler finds after it wrote and saved the object of an id is    *)
(* that object, as written.                                                *)
(***************************************************************************)
LEMMA SavedIsFound ==
  ASSUME NEW d \in TxStore, NEW r \in Refs, NEW m \in TxMeta, NEW n,
         GetTx(UpdateTx(WithTxMeta(d, r, m), r), n, IdOf(r)) # None
  PROVE  /\ GetTx(UpdateTx(WithTxMeta(d, r, m), r), n, IdOf(r)) = r
         /\ UpdateTx(WithTxMeta(d, r, m), r).obj[r] = m
<1> DEFINE w == WithTxMeta(d, r, m)
<1>1. w.list = d.list /\ w.obj[r] = m /\ w \in TxStore
  BY WithTxMetaType DEF WithTxMeta, TxStore
<1>2. IdOf(r) \in Txs
  BY DEF Refs, IdOf
<1> HIDE DEF w
<1>3. w.list[IdOf(r)] # None
  BY <1>2 DEF GetTx, UpdateTx, w
<1>4. UpdateTx(w, r) = [w EXCEPT !.list[IdOf(r)] = r]
  BY <1>3 DEF UpdateTx
<1>5. UpdateTx(w, r).list[IdOf(r)] = r /\ UpdateTx(w, r).obj = w.obj
  BY <1>1, <1>2, <1>4 DEF TxStore, TxList
<1> QED BY <1>1, <1>5 DEF GetTx, w

(***************************************************************************)
(* Only addTx gives an entry to an id that has none.                       *)
(***************************************************************************)
LEMMA AbsentKept ==
  ASSUME NEW d \in TxStore, NEW id \in Txs, d.list[id] = None
  PROVE  /\ \A r \in Refs : UpdateTx(d, r).list[id] = None
         /\ \A r, m : WithTxMeta(d, r, m).list[id] = None
         /\ \A r \in Refs, m \in TxMeta : IdOf(r) # id => AddTx(d, r, m).list[id] = None
         /\ \A n, s, i : SetTxStatus(d, n, i, s).list[id] = None
         /\ \A i \in Txs : RemoveTx(d, i).list[id] = None
         /\ \A n, a : WipeTransactions(d, n, a).list[id] = None
<1>1. \A r \in Refs : UpdateTx(d, r).list[id] = None
  BY DEF UpdateTx, TxStore, TxList
<1>2. \A r, m : WithTxMeta(d, r, m).list[id] = None
  BY DEF WithTxMeta, TxStore
<1>3. \A r \in Refs, m \in TxMeta : IdOf(r) # id => AddTx(d, r, m).list[id] = None
  BY DEF AddTx, TxStore, TxList
<1>4. \A n, s, i : SetTxStatus(d, n, i, s).list[id] = None
  BY DEF SetTxStatus, TxStore
<1>5. \A i \in Txs : RemoveTx(d, i).list[id] = None
  BY DEF RemoveTx, TxStore, TxList
<1>6. \A n, a : WipeTransactions(d, n, a).list[id] = None
  BY DEF WipeTransactions, TxStore
<1> QED BY <1>1, <1>2, <1>3, <1>4, <1>5, <1>6

LEMMA SavedKeepsAbsent ==
  ASSUME NEW d \in TxStore, NEW id \in Txs, d.list[id] = None,
         NEW r \in Refs, NEW m \in TxMeta
  PROVE  UpdateTx(WithTxMeta(d, r, m), r).list[id] = None
BY WithTxMetaType, AbsentKept

-----------------------------------------------------------------------------
(***************************************************************************)
(* TypeOK is not inductive by itself: an approval dereferences its id and  *)
(* its txMeta, and a request its network, which only some states have.     *)
(***************************************************************************)
ProcOK ==
  \A p \in Procs : proc[p].pc # "idle" =>
    /\ proc[p].id \in Txs
    /\ proc[p].ref \in Refs
    /\ IdOf(proc[p].ref) = proc[p].id
    /\ proc[p].pc \in {"sign", "send", "reply"} => proc[p].nonce \in Nat

AddOK ==
  \A id \in Txs : adding[id] \in {"checking", "defaults"} => addNet[id] \in Networks

Typed == TypeOK /\ ProcOK /\ AddOK

(***************************************************************************)
(* The store's part of the state aside, TypeOK is made of plain ranges.    *)
(***************************************************************************)
USE DEF store, flows, signing, chain, bounds

LEMMA NewTxMetaType == ASSUME NEW n \in Networks PROVE NewTxMeta(n) \in TxMeta
BY DEF NewTxMeta, TxMeta, Statuses

LEMMA InitTyped == Init => Typed
<1> SUFFICES ASSUME Init PROVE Typed
  OBVIOUS
<1>1. SomeNetwork \in Networks
  BY SomeNetworkAssumption DEF SomeNetwork
<1>2. NewTxMeta(SomeNetwork) \in TxMeta
  BY <1>1, NewTxMetaType
<1>3. db \in TxStore
  BY <1>2, EmptySeq DEF Init, TxStore, TxList
<1> QED
  BY <1>3 DEF Typed, TypeOK, ProcOK, AddOK, Init, IdleProc, ProcStates, AddStates, UiStates,
     Pcs, Answers, Loading, Redoing, NotRedone

LEMMA TypedRequest ==
  ASSUME Typed, NEW id \in Txs, Request(id) \/ Defaults(id)
  PROVE  Typed'
<1>1. CASE GenerateTxMeta(id)
  BY <1>1 DEF Typed, TypeOK, ProcOK, AddOK, GenerateTxMeta, AddStates
<1>2. CASE RefuseRequest(id)
  BY <1>2 DEF Typed, TypeOK, ProcOK, AddOK, RefuseRequest, AddStates, Answers
<1>3. CASE StoreUnapproved(id)
  <2>1. <<id, 0>> \in Refs /\ NewTxMeta(addNet[id]) \in TxMeta
    BY <1>3, NewTxMetaType, CopiesAssumption DEF Typed, AddOK, StoreUnapproved, Refs
  <2>2. db' \in TxStore
    BY <1>3, <2>1, AddTxType DEF StoreUnapproved, Typed, TypeOK
  <2> QED
    BY <1>3, <2>2 DEF Typed, TypeOK, ProcOK, AddOK, StoreUnapproved, AddStates
<1>4. ASSUME DefaultsReady(id) \/ DefaultsFailed(id) PROVE Typed'
  <2>1. <<id, 0>> \in Refs
    BY CopiesAssumption DEF Refs
  <2>2. db' \in TxStore
    BY <1>4, <2>1, DefaultsSavedType DEF DefaultsReady, DefaultsFailed, Typed, TypeOK
  <2> QED
    BY <1>4, <2>2 DEF Typed, TypeOK, ProcOK, AddOK, DefaultsReady, DefaultsFailed,
       AddStates, Answers
<1> QED BY <1>1, <1>2, <1>3, <1>4 DEF Request, Defaults

LEMMA CurrentType ==
  ASSUME TypeOK, NEW n, NEW id \in Txs, GetTx(db, n, id) # None
  PROVE  Current(id) \in TxMeta
BY GetTxType, ObjType DEF TypeOK, Current

LEMMA TypedWindows ==
  ASSUME Typed, NEW r \in Refs,
         OpenWindow(r) \/ UpdateTransaction(r) \/ SponsorshipAnswer(r)
  PROVE  Typed'
<1>1. CASE OpenWindow(r)
  <2>1. IdOf(r) \in Txs /\ GetTx(db, network, IdOf(r)) # None
    BY <1>1 DEF OpenWindow, Shown, IdOf, Refs
  <2>2. db' \in TxStore
    BY <1>1, <2>1, CurrentType, WithTxMetaType DEF OpenWindow, Typed, TypeOK
  <2> QED BY <1>1, <2>2 DEF Typed, TypeOK, ProcOK, AddOK, OpenWindow, UiStates
<1>2. CASE UpdateTransaction(r)
  BY <1>2 DEF Typed, TypeOK, ProcOK, AddOK, UpdateTransaction, UiStates
<1>3. CASE SponsorshipAnswer(r)
  <2>1. db' \in TxStore
    BY <1>3, UpdateTxType DEF SponsorshipAnswer, Typed, TypeOK
  <2> QED BY <1>3, <2>1 DEF Typed, TypeOK, ProcOK, AddOK, SponsorshipAnswer, UiStates
<1> QED BY <1>1, <1>2, <1>3

LEMMA TypedCancel ==
  ASSUME Typed, NEW id \in Txs, CancelTransaction(id)
  PROVE  Typed'
<1>1. db' \in TxStore
  BY SetTxStatusRejectedType DEF CancelTransaction, Typed, TypeOK
<1> QED BY <1>1 DEF Typed, TypeOK, ProcOK, AddOK, CancelTransaction, UiStates

(***************************************************************************)
(* The start of an approval: the store it leaves, and the process.         *)
(***************************************************************************)
LEMMA TypedApprove ==
  ASSUME Typed, NEW p \in Procs, NEW id \in Txs, NEW d \in TxStore,
         ApproveTransaction(p, id, d)
  PROVE  /\ db' \in TxStore
         /\ proc' \in [Procs -> ProcStates]
         /\ ProcOK'
         /\ inProcess' \subseteq Txs
         /\ lock' = lock
<1>1. CASE /\ db' = d
           /\ UNCHANGED signing
  BY <1>1 DEF Typed, TypeOK, ProcOK
<1>2. CASE /\ GetTx(d, network, id) # None
           /\ db' = SetTxStatus(d, network, id, "approved")
           /\ inProcess' = inProcess \cup {id}
           /\ proc' = [proc EXCEPT ![p] = [IdleProc EXCEPT !.pc = "block", !.id = id,
                                                          !.ref = d.list[id]]]
           /\ UNCHANGED lock
  <2>1. d.list[id] \in Refs /\ IdOf(d.list[id]) = id
    BY <1>2, GetTxType
  <2>2. db' \in TxStore
    BY <1>2, SetTxStatusType DEF Statuses
  <2> QED BY <1>2, <2>1, <2>2 DEF Typed, TypeOK, ProcOK, IdleProc, ProcStates, Pcs
<1> QED BY <1>1, <1>2 DEF ApproveTransaction

LEMMA TypedUpdateAndApprove ==
  ASSUME Typed, NEW p \in Procs, NEW r \in Refs, NEW c \in CustomNonces \cup {None},
         UpdateAndApproveTransaction(p, r, c)
  PROVE  Typed'
<1> DEFINE d == UpdateTx(WithTxMeta(db, r, [db.obj[r] EXCEPT !.custom = c]), r)
<1>1. [db.obj[r] EXCEPT !.custom = c] \in TxMeta
  BY ObjType, TxMetaFields, CustomAssumption DEF Typed, TypeOK
<1>2. d \in TxStore
  BY <1>1, SavedType DEF Typed, TypeOK
<1>3. IdOf(r) \in Txs /\ ApproveTransaction(p, IdOf(r), d)
  BY DEF UpdateAndApproveTransaction, Refs, IdOf
<1>4. /\ db' \in TxStore
      /\ proc' \in [Procs -> ProcStates]
      /\ ProcOK'
      /\ inProcess' \subseteq Txs
      /\ lock' = lock
  <2> HIDE DEF d
  <2> QED BY <1>2, <1>3, TypedApprove
<1> QED
  BY <1>4 DEF Typed, TypeOK, AddOK, UpdateAndApproveTransaction, UiStates

(***************************************************************************)
(* An approval that ends: catch, with the transaction failed, and finally. *)
(***************************************************************************)
LEMMA TypedFinish ==
  ASSUME Typed, NEW p \in Procs, Finish(p)
  PROVE  /\ proc' \in [Procs -> ProcStates]
         /\ ProcOK'
         /\ inProcess' \subseteq Txs
         /\ lock' \in [Accounts -> Procs \cup {None}]
BY DEF Typed, TypeOK, ProcOK, Finish, ReleaseLock, IdleProc, ProcStates, Pcs

LEMMA TypedFailApproval ==
  ASSUME Typed, NEW p \in Procs, proc[p].pc # "idle", NEW d \in TxStore,
         FailApproval(p, d)
  PROVE  /\ db' \in TxStore
         /\ proc' \in [Procs -> ProcStates]
         /\ ProcOK'
         /\ inProcess' \subseteq Txs
         /\ lock' \in [Accounts -> Procs \cup {None}]
<1>1. proc[p].id \in Txs
  BY DEF Typed, ProcOK
<1>2. db' \in TxStore
  BY <1>1, SetTxStatusFailedType DEF FailApproval
<1> QED BY <1>2, TypedFinish DEF FailApproval

(***************************************************************************)
(* An approval that goes on, to the locals v.                              *)
(***************************************************************************)
LEMMA TypedMove ==
  ASSUME Typed, NEW p \in Procs, NEW v \in ProcStates,
         proc' = [proc EXCEPT ![p] = v],
         v.id \in Txs, v.ref \in Refs, IdOf(v.ref) = v.id,
         v.pc \in {"sign", "send", "reply"} => v.nonce \in Nat
  PROVE  proc' \in [Procs -> ProcStates] /\ ProcOK'
BY DEF Typed, TypeOK, ProcOK

LEMMA TypedBlockAnswer ==
  ASSUME Typed, NEW p \in Procs, BlockAnswer(p)
  PROVE  Typed'
<1>1. proc[p].ref \in Refs /\ network \in Networks
  BY DEF Typed, TypeOK, ProcOK, BlockAnswer
<1>2. [db.obj[proc[p].ref] EXCEPT !.chain = network] \in TxMeta
  BY <1>1, ObjType, TxMetaFields DEF Typed, TypeOK
<1>3. db' \in TxStore
  BY <1>1, <1>2, WithTxMetaType DEF Typed, TypeOK, BlockAnswer
<1> QED
  BY <1>1, <1>3 DEF Typed, TypeOK, ProcOK, AddOK, BlockAnswer, ProcStates, Pcs

LEMMA TypedTakeNonceLock ==
  ASSUME Typed, NEW p \in Procs, TakeNonceLock(p)
  PROVE  Typed'
<1>1. From[proc[p].id] \in Accounts
  BY FromAssumption DEF Typed, TypeOK, ProcOK, TakeNonceLock
<1>2. lock' \in [Accounts -> Procs \cup {None}]
  BY <1>1 DEF Typed, TypeOK, TakeNonceLock
<1> DEFINE v == [proc[p] EXCEPT !.pc = "count", !.asked = network]
<1>3. proc' = [proc EXCEPT ![p] = v]
  BY DEF Typed, TypeOK, TakeNonceLock, ProcStates
<1>4. proc' \in [Procs -> ProcStates] /\ ProcOK'
  <2>1. v \in ProcStates /\ v.pc = "count" /\ v.id = proc[p].id /\ v.ref = proc[p].ref
    BY DEF Typed, TypeOK, ProcStates, Pcs
  <2>2. proc[p].id \in Txs /\ proc[p].ref \in Refs /\ IdOf(proc[p].ref) = proc[p].id
    BY DEF Typed, ProcOK, TakeNonceLock
  <2> HIDE DEF v
  <2> QED BY <1>3, <2>1, <2>2, TypedMove
<1> QED
  BY <1>2, <1>4 DEF Typed, TypeOK, AddOK, TakeNonceLock

(***************************************************************************)
(* The nonce tracker returns numbers.                                      *)
(***************************************************************************)
LEMMA LocalNoncesType ==
  ASSUME TypeOK, NEW n, NEW a, NEW S
  PROVE  LocalNonces(db, n, a, S) \subseteq Nat
<1> SUFFICES ASSUME NEW id \in Txs, NEW s \in S, id \in TxsByStatus(db, n, s),
                    db.obj[db.list[id]].nonce # None
             PROVE  db.obj[db.list[id]].nonce \in Nat
  BY DEF LocalNonces
<1>1. GetTx(db, n, id) # None
  BY DEF TxsByStatus
<1>2. Current(id) \in TxMeta
  BY <1>1, CurrentType
<1> QED BY <1>2 DEF Current, TxMeta

LEMMA NextNonceType ==
  ASSUME TypeOK, NEW n, NEW a, NEW count \in Nat
  PROVE  NextNonce(db, n, a, count) \subseteq Nat
<1> DEFINE completed == {m + 1 : m \in LocalNonces(db, n, a, CompletedStatuses)}
           pending   == LocalNonces(db, n, a, PendingStatuses)
<1>1. pending \subseteq Nat /\ completed \subseteq Nat
  <2>1. LocalNonces(db, n, a, CompletedStatuses) \subseteq Nat
    BY LocalNoncesType
  <2>2. pending \subseteq Nat
    BY LocalNoncesType
  <2> QED BY <2>1, <2>2
<1>2. \A start \in Nat : HighestContinuousFrom(pending, start) \subseteq Nat
  <2> HIDE DEF pending
  <2> QED BY <1>1 DEF HighestContinuousFrom
<1>3. ASSUME NEW next \in NextNonce(db, n, a, count) PROVE next \in Nat
  <2>1. PICK start \in completed \cup {count} : next \in HighestContinuousFrom(pending, start)
    BY <1>3 DEF NextNonce
  <2> HIDE DEF pending, completed
  <2> QED BY <1>1, <1>2, <2>1
<1> QED BY <1>3

LEMMA TypedCount ==
  ASSUME Typed, NEW p \in Procs, Count(p)
  PROVE  Typed'
<1> DEFINE r == proc[p].ref
           id == proc[p].id
           d(nonce) == UpdateTx(WithTxMeta(db, r, [db.obj[r] EXCEPT !.nonce = nonce]), r)
           s(nonce) == GetTx(d(nonce), network, id)
<1>1. id \in Txs /\ r \in Refs /\ proc[p].pc # "idle"
  BY DEF Typed, ProcOK, Count
<1>2. PICK count \in CountOf(p, From[id]) :
        \E next \in NextNonce(db, network, From[id], count) : CountAnswer(p, next)
  BY DEF Count
<1>3. count \in Nat
  BY <1>1, <1>2, FromAssumption DEF CountOf, Typed, TypeOK, ProcStates
<1>4. PICK next \in Nat : CountAnswer(p, next)
  BY <1>2, <1>3, NextNonceType DEF Typed
<1> DEFINE nonce == TxNonce(db.obj[r], next)
<1>5. nonce \in Nat \cup {None}
  BY <1>1, <1>4, ObjType DEF Typed, TypeOK, TxNonce, TxMeta
<1>6. d(nonce) \in TxStore
  <2>1. [db.obj[r] EXCEPT !.nonce = nonce] \in TxMeta
    <3> HIDE DEF nonce
    <3> QED BY <1>1, <1>5, ObjType, TxMetaFields DEF Typed, TypeOK
  <2> HIDE DEF nonce
  <2> QED BY <1>1, <2>1, SavedType DEF Typed, TypeOK
<1>7. /\ db' \in TxStore
      /\ proc' \in [Procs -> ProcStates]
      /\ ProcOK'
      /\ inProcess' \subseteq Txs
      /\ lock' \in [Accounts -> Procs \cup {None}]
  <2>1. CASE /\ nonce # None /\ s(nonce) # None
             /\ db' = d(nonce)
             /\ proc' = [proc EXCEPT ![p] = [@ EXCEPT !.pc = "sign", !.ref = s(nonce),
                                               !.nonce = d(nonce).obj[s(nonce)].nonce,
                                               !.chain = d(nonce).obj[s(nonce)].chain]]
             /\ UNCHANGED <<inProcess, lock>>
    <3> DEFINE m == [db.obj[r] EXCEPT !.nonce = nonce]
    <3> HIDE DEF nonce
    <3>0. db.obj[r] \in TxMeta
      BY <1>1, ObjType DEF Typed, TypeOK
    <3>1. m \in TxMeta /\ m.nonce = nonce
      BY <1>5, <3>0 DEF TxMeta
    <3>2. s(nonce) = r /\ d(nonce).obj[r] = m
      <4>1. IdOf(r) = id /\ db \in TxStore
        BY <1>1 DEF Typed, TypeOK, ProcOK
      <4>2. GetTx(UpdateTx(WithTxMeta(db, r, m), r), network, IdOf(r)) # None
        BY <2>1, <4>1
      <4> HIDE DEF m
      <4> QED BY <1>1, <3>1, <4>1, <4>2, SavedIsFound DEF m
    <3>3. proc' = [proc EXCEPT ![p] = [proc[p] EXCEPT !.pc = "sign", !.ref = r,
                                                     !.nonce = nonce, !.chain = m.chain]]
      <4> HIDE DEF m, d, s
      <4> QED BY <2>1, <3>1, <3>2
    <3>4. nonce \in Nat /\ m.chain \in Networks \cup {None}
      <4> HIDE DEF m
      <4> QED BY <1>5, <2>1, <3>1 DEF TxMeta
    <3>5. proc' \in [Procs -> ProcStates] /\ ProcOK'
      <4> DEFINE v == [proc[p] EXCEPT !.pc = "sign", !.ref = r,
                                      !.nonce = nonce, !.chain = m.chain]
      <4> HIDE DEF m
      <4>1. v \in ProcStates /\ v.id = id /\ v.ref = r /\ v.nonce = nonce
        BY <1>1, <3>4 DEF Typed, TypeOK, ProcStates, Pcs
      <4>2. IdOf(r) = id
        BY <1>1 DEF Typed, ProcOK
      <4> HIDE DEF v
      <4> QED BY <1>1, <3>3, <3>4, <4>1, <4>2, TypedMove DEF v
    <3> HIDE DEF d, s, m
    <3> QED BY <1>6, <2>1, <3>5 DEF Typed, TypeOK
  <2>2. CASE FailApproval(p, d(nonce))
    <3> HIDE DEF nonce, d
    <3> QED BY <1>1, <1>6, <2>2, TypedFailApproval
  <2>3. CASE FailApproval(p, db)
    BY <1>1, <2>3, TypedFailApproval DEF Typed, TypeOK
  <2> QED BY <1>4, <2>1, <2>2, <2>3 DEF CountAnswer
<1> QED
  BY <1>4, <1>7 DEF Typed, TypeOK, AddOK, CountAnswer

LEMMA TypedSignAnswer ==
  ASSUME Typed, NEW p \in Procs, SignAnswer(p)
  PROVE  Typed'
<1> DEFINE id  == proc[p].id
           s   == proc[p].ref
           raw == [nonce |-> proc[p].nonce, chain |-> proc[p].chain]
           d   == SetTxStatus(UpdateTx(WithTxMeta(db, s, [db.obj[s] EXCEPT !.raw = raw]), s),
                              network, id, "signed")
           t   == GetTx(d, network, id)
<1>1. /\ proc[p].pc = "sign" /\ proc[p] \in ProcStates
      /\ id \in Txs /\ s \in Refs /\ proc[p].nonce \in Nat
  BY DEF Typed, TypeOK, ProcOK, SignAnswer
<1>2. raw \in RawTx
  BY <1>1 DEF ProcStates, RawTx
<1>3. d \in TxStore
  <2>1. [db.obj[s] EXCEPT !.raw = raw] \in TxMeta
    <3> HIDE DEF raw
    <3> QED BY <1>1, <1>2, ObjType, TxMetaFields DEF Typed, TypeOK
  <2> HIDE DEF raw
  <2> QED BY <1>1, <2>1, SavedType, SetTxStatusType DEF Typed, TypeOK, Statuses
<1>4. /\ db' \in TxStore
      /\ proc' \in [Procs -> ProcStates]
      /\ ProcOK'
      /\ inProcess' \subseteq Txs
      /\ lock' \in [Accounts -> Procs \cup {None}]
  <2> HIDE DEF d
  <2>1. CASE /\ t # None
             /\ db' = d
             /\ proc' = [proc EXCEPT ![p] = [@ EXCEPT !.pc = "send", !.ref = t,
                                               !.asked = network]]
             /\ UNCHANGED <<inProcess, lock>>
    <3> DEFINE v == [proc[p] EXCEPT !.pc = "send", !.ref = t, !.asked = network]
    <3>1. t \in Refs /\ IdOf(t) = id
      BY <1>1, <1>3, <2>1, GetTxType
    <3> HIDE DEF t
    <3>2. v \in ProcStates /\ v.id = id /\ v.ref = t /\ v.nonce = proc[p].nonce
      BY <1>1, <3>1 DEF Typed, TypeOK, ProcStates, Pcs
    <3>3. proc' = [proc EXCEPT ![p] = v]
      BY <2>1 DEF Typed, TypeOK
    <3> HIDE DEF v
    <3>4. proc' \in [Procs -> ProcStates] /\ ProcOK'
      BY <1>1, <3>1, <3>2, <3>3, TypedMove
    <3> QED BY <1>3, <2>1, <3>4 DEF Typed, TypeOK
  <2>2. CASE FailApproval(p, d)
    BY <1>1, <1>3, <2>2, TypedFailApproval
  <2> QED BY <2>1, <2>2 DEF SignAnswer, d
<1> QED BY <1>4 DEF Typed, TypeOK, AddOK, SignAnswer

LEMMA TypedNodeAccepts ==
  ASSUME Typed, NEW p \in Procs, NodeAccepts(p)
  PROVE  Typed'
<1> DEFINE raw == [nonce |-> proc[p].nonce, chain |-> proc[p].chain]
           v   == [proc[p] EXCEPT !.pc = "reply"]
<1>1. /\ proc[p].pc = "send" /\ proc[p] \in ProcStates /\ proc[p].id \in Txs
      /\ proc[p].ref \in Refs /\ IdOf(proc[p].ref) = proc[p].id /\ proc[p].nonce \in Nat
  BY DEF Typed, TypeOK, ProcOK, NodeAccepts
<1>2. raw \in RawTx /\ proc[p].chain = proc[p].asked
  BY <1>1 DEF ProcStates, RawTx, NodeAccepts
<1>3. proc[p].asked \in Networks
  BY <1>1, <1>2, NoneAssumption, NetworkAssumption DEF ProcStates, Loading
<1>4. sent' \subseteq SentTx
  <2> HIDE DEF raw
  <2> QED BY <1>1, <1>2, <1>3 DEF NodeAccepts, Typed, TypeOK, SentTx, raw
<1>5. proc' = [proc EXCEPT ![p] = v]
  BY DEF NodeAccepts, Typed, TypeOK
<1>6. v \in ProcStates /\ v.id = proc[p].id /\ v.ref = proc[p].ref /\ v.nonce = proc[p].nonce
  BY <1>1 DEF ProcStates, Pcs
<1>7. proc' \in [Procs -> ProcStates] /\ ProcOK'
  <2> HIDE DEF v
  <2> QED BY <1>1, <1>5, <1>6, TypedMove
<1> QED BY <1>4, <1>7 DEF NodeAccepts, Typed, TypeOK, AddOK

LEMMA TypedSendAnswer ==
  ASSUME Typed, NEW p \in Procs, SendAnswer(p)
  PROVE  Typed'
<1> DEFINE id  == proc[p].id
           t   == GetTx(db, network, id)
           raw == [nonce |-> proc[p].nonce, chain |-> proc[p].chain]
           d   == WithTxMeta(db, t, [db.obj[t] EXCEPT !.hash = raw])
<1>1. /\ proc[p].pc = "reply" /\ proc[p] \in ProcStates
      /\ id \in Txs /\ proc[p].nonce \in Nat /\ db \in TxStore
  BY DEF Typed, TypeOK, ProcOK, SendAnswer
<1>2. raw \in RawTx
  BY <1>1 DEF ProcStates, RawTx
<1>3. /\ db' \in TxStore
      /\ proc' \in [Procs -> ProcStates]
      /\ ProcOK'
      /\ inProcess' \subseteq Txs
      /\ lock' \in [Accounts -> Procs \cup {None}]
  <2>1. CASE /\ t # None
             /\ db' = SetTxStatus(d, network, id, "submitted")
             /\ Finish(p)
    <3>1. t \in Refs
      BY <1>1, <2>1, GetTxType
    <3>2. [db.obj[t] EXCEPT !.hash = raw] \in TxMeta
      <4> HIDE DEF raw, t
      <4> QED BY <1>1, <1>2, <3>1, ObjType, TxMetaFields
    <3>3. d \in TxStore
      <4> HIDE DEF raw, t
      <4> QED BY <1>1, <3>1, <3>2, WithTxMetaType
    <3>4. db' \in TxStore
      <4> HIDE DEF d
      <4> QED BY <1>1, <2>1, <3>3, SetTxStatusType DEF Statuses
    <3> QED BY <2>1, <3>4, TypedFinish
  <2>2. CASE FailApproval(p, db)
    BY <1>1, <2>2, TypedFailApproval
  <2> QED BY <2>1, <2>2 DEF SendAnswer
<1> QED BY <1>3 DEF Typed, TypeOK, AddOK, SendAnswer

LEMMA TypedCallFailed ==
  ASSUME Typed, NEW p \in Procs, CallFailed(p)
  PROVE  Typed'
<1>1. proc[p].pc # "idle" /\ db \in TxStore /\ FailApproval(p, db)
  BY DEF CallFailed, Typed, TypeOK
<1> QED BY <1>1, TypedFailApproval DEF CallFailed, Typed, TypeOK, AddOK

LEMMA TypedReplacement ==
  ASSUME Typed, NEW old \in Txs, NEW id \in Txs, CanReplace(old, id)
  PROVE  /\ network \in Networks
         /\ <<id, 0>> \in Refs
         /\ ReplacementOf(old) \in TxMeta
         /\ [ReplacementOf(old) EXCEPT !.status = "approved"] \in TxMeta
         /\ adding' \in [Txs -> AddStates]
         /\ addNet' \in [Txs -> Networks \cup {None}]
         /\ AddOK'
<1>1. network \in Networks
  <2>1. GetTx(db, network, old) # None
    BY DEF CanReplace
  <2>2. db.obj[db.list[old]].net = network /\ Current(old) \in TxMeta
    BY <2>1, GetTxType, CurrentType DEF Typed, TypeOK
  <2> QED BY <2>2 DEF Current, TxMeta
<1>2. Current(old) \in TxMeta
  BY CurrentType DEF CanReplace, Typed
<1>3. ReplacementOf(old) \in TxMeta
  BY <1>1, <1>2 DEF ReplacementOf, NewTxMeta, TxMeta, Statuses
<1>4. [ReplacementOf(old) EXCEPT !.status = "approved"] \in TxMeta
  BY <1>3, TxMetaFields DEF Statuses
<1>5. <<id, 0>> \in Refs
  BY CopiesAssumption DEF Refs
<1> QED
  BY <1>1, <1>3, <1>4, <1>5 DEF CanReplace, Typed, TypeOK, AddOK, AddStates

LEMMA TypedCreateReplacement ==
  ASSUME Typed, NEW p \in Procs, NEW old \in Txs, NEW id \in Txs,
         CreateReplacement(p, old, id)
  PROVE  Typed'
<1> DEFINE d == AddTx(db, <<id, 0>>, [ReplacementOf(old) EXCEPT !.status = "approved"])
<1>1. CanReplace(old, id) /\ ApproveTransaction(p, id, d)
  BY DEF CreateReplacement
<1>2. d \in TxStore
  BY <1>1, TypedReplacement, AddTxType DEF Typed, TypeOK
<1>3. /\ db' \in TxStore
      /\ proc' \in [Procs -> ProcStates]
      /\ ProcOK'
      /\ inProcess' \subseteq Txs
      /\ lock' = lock
  <2> HIDE DEF d
  <2> QED BY <1>1, <1>2, TypedApprove
<1> QED BY <1>1, <1>3, TypedReplacement DEF Typed, TypeOK, CanReplace

LEMMA TypedRetry ==
  ASSUME Typed, NEW old \in Txs, NEW id \in Txs, RetryTransaction(old, id)
  PROVE  Typed'
<1>1. CanReplace(old, id) /\ db' = AddTx(db, <<id, 0>>, ReplacementOf(old))
  BY DEF RetryTransaction
<1>2. db' \in TxStore
  BY <1>1, TypedReplacement, AddTxType DEF Typed, TypeOK
<1> QED
  BY <1>1, <1>2, TypedReplacement DEF Typed, TypeOK, ProcOK, CanReplace, RetryTransaction

LEMMA TypedSwitch ==
  ASSUME Typed, SwitchNetwork \/ \E a \in Accounts : ResetAccount(a)
  PROVE  Typed'
<1>1. CASE SwitchNetwork
  BY <1>1 DEF Typed, TypeOK, ProcOK, AddOK, SwitchNetwork
<1>2. ASSUME NEW a \in Accounts, ResetAccount(a) PROVE Typed'
  <2>1. db' \in TxStore
    BY <1>2, WipeTransactionsType DEF ResetAccount, Typed, TypeOK
  <2> QED BY <1>2, <2>1 DEF Typed, TypeOK, ProcOK, AddOK, ResetAccount
<1> QED BY <1>1, <1>2

(***************************************************************************)
(* The boot clean-up fails finitely many transactions, in any order.       *)
(***************************************************************************)
LEMMA OrdersType ==
  ASSUME NEW S \in SUBSET Txs, NEW ids \in Orders(S)
  PROVE  /\ ids \in [1 .. Cardinality(S) -> S]
         /\ Cardinality(S) \in Nat
BY FiniteAssumption, FS_Subset, FS_CardinalityType DEF Orders

LEMMA FailEachType ==
  ASSUME NEW d \in TxStore, NEW k \in Nat, NEW ids \in [1 .. k -> Txs],
         \A i \in 1 .. k : d.list[ids[i]] \in Refs
  PROVE  FailEach(d, ids) \in TxStore
<1> DEFINE obj == [r \in Refs |-> IF \E i \in DOMAIN ids : d.list[ids[i]] = r
                                 THEN [d.obj[r] EXCEPT !.status = "failed"]
                                 ELSE d.obj[r]]
           new == [i \in DOMAIN ids |-> [ref |-> d.list[ids[i]], status |-> "failed"]]
<1>1. new \in Seq(Timer)
  <2>1. new \in [1 .. k -> Timer]
    BY DEF Timer, Statuses
  <2> QED BY <2>1, SeqDef
<1>2. d.timers \o new \in Seq(Timer)
  BY <1>1, ConcatProperties DEF TxStore
<1>3. obj \in [Refs -> TxMeta]
  BY ObjType, TxMetaFields DEF Statuses
<1>4. FailEach(d, ids) = [list |-> d.list, obj |-> obj, timers |-> d.timers \o new]
  <2>1. FailEach(d, ids) = [d EXCEPT !.obj = obj, !.timers = @ \o new]
    BY Zenon DEF FailEach
  <2> HIDE DEF obj, new
  <2> QED BY <2>1 DEF TxStore
<1> QED BY <1>2, <1>3, <1>4 DEF TxStore

LEMMA TypedNetworkUp ==
  ASSUME Typed, NEW n \in Networks, NetworkUp(n)
  PROVE  Typed'
<1>1. PICK ids \in Orders(TxsByStatus(db, n, "approved")) : db' = FailEach(db, ids)
  BY DEF NetworkUp, BootCleanUp
<1> DEFINE S == TxsByStatus(db, n, "approved")
<1>2. S \in SUBSET Txs /\ \A id \in S : db.list[id] \in Refs
  BY GetTxType DEF TxsByStatus, Typed, TypeOK
<1>3. db' \in TxStore
  <2> HIDE DEF S
  <2>1. ids \in [1 .. Cardinality(S) -> S] /\ Cardinality(S) \in Nat
    BY <1>1, <1>2, OrdersType DEF S
  <2>2. ids \in [1 .. Cardinality(S) -> Txs]
    BY <1>2, <2>1
  <2>3. \A i \in 1 .. Cardinality(S) : db.list[ids[i]] \in Refs
    BY <1>2, <2>1
  <2> QED BY <1>1, <2>1, <2>2, <2>3, FailEachType DEF Typed, TypeOK
<1>4. redo' \in [Refs -> Redoing]
  BY DEF NetworkUp, BootCleanUp, Typed, TypeOK, Redoing
<1> QED BY <1>3, <1>4 DEF Typed, TypeOK, ProcOK, AddOK, NetworkUp

LEMMA TypedRedo ==
  ASSUME Typed, NEW r \in Refs, Redo(r)
  PROVE  Typed'
<1>1. UpdateTx(WithTxMeta(db, r, [db.obj[r] EXCEPT !.ld = FALSE]), r) \in TxStore
  BY DefaultsSavedType DEF Typed, TypeOK
<1>2. CASE RedoGas(r)
  <2>1. WithTxMeta(db, r, [db.obj[r] EXCEPT !.ld = FALSE]) \in TxStore
    BY ObjType, TxMetaFields, WithTxMetaType DEF Typed, TypeOK
  <2>2. redo' \in [Refs -> Redoing]
    BY <1>2 DEF RedoGas, Redoing, Typed, TypeOK
  <2> QED BY <1>2, <2>1, <2>2 DEF Typed, TypeOK, ProcOK, AddOK, RedoGas
<1>3. CASE RedoReady(r)
  <2>1. redo' \in [Refs -> Redoing]
    BY <1>3 DEF RedoReady, Redoing, Typed, TypeOK
  <2> QED BY <1>3, <2>1, UpdateTxType DEF Typed, TypeOK, ProcOK, AddOK, RedoReady
<1>4. CASE RedoFailed(r)
  <2>1. IdOf(r) \in Txs
    BY DEF IdOf, Refs
  <2>2. redo' \in [Refs -> Redoing]
    <3>0. redo[r] \in Redoing
      BY DEF Typed, TypeOK
    <3>1. CASE redo[r].gas > 0 /\ redo' = [redo EXCEPT ![r].gas = @ - 1]
      <4>1. [redo[r] EXCEPT !.gas = @ - 1] \in Redoing
        BY <3>0, <3>1 DEF Redoing
      <4> QED BY <3>1, <4>1 DEF Typed, TypeOK
    <3>2. CASE redo[r].sponsor > 0 /\ redo' = [redo EXCEPT ![r].sponsor = @ - 1]
      <4>1. [redo[r] EXCEPT !.sponsor = @ - 1] \in Redoing
        BY <3>0, <3>2 DEF Redoing
      <4> QED BY <3>2, <4>1 DEF Typed, TypeOK
    <3> QED BY <1>4, <3>1, <3>2 DEF RedoFailed
  <2> QED BY <1>1, <1>4, <2>1, <2>2, SetTxStatusFailedType
          DEF Typed, TypeOK, ProcOK, AddOK, RedoFailed
<1> QED BY <1>2, <1>3, <1>4 DEF Redo

LEMMA TypedEnvironment ==
  ASSUME Typed,
         \/ FireTimer \/ Persist \/ Restart
         \/ \E n \in Networks, a \in Accounts : ChainExecutes(n, a)
  PROVE  Typed'
<1>1. CASE FireTimer
  <2>1. Head(db.timers) \in Timer /\ db' \in TxStore
    BY <1>1, RunTimerType DEF FireTimer, Typed, TypeOK
  <2>2. IdOf(Head(db.timers).ref) \in Txs
    BY <2>1 DEF Timer, Refs, IdOf
  <2>3. dapp' \in [Txs -> Answers]
    <3>1. \A s : AnswerFor(s) \in Answers
      BY DEF AnswerFor, Answers
    <3> QED BY <1>1, <2>2, <3>1 DEF FireTimer, Typed, TypeOK
  <2> QED BY <1>1, <2>1, <2>3 DEF Typed, TypeOK, ProcOK, AddOK, FireTimer
<1>2. CASE Persist
  <2>1. disk' \in [Txs -> TxMeta \cup {None}]
    <3>1. \A id \in Txs : db.list[id] # None => Current(id) \in TxMeta
      BY DEF Typed, TypeOK, TxStore, TxList, Current
    <3> QED BY <1>2, <3>1 DEF Persist
  <2> QED BY <1>2, <2>1 DEF Typed, TypeOK, ProcOK, AddOK, Persist
<1>3. CASE Restart
  <2>1. db' \in TxStore
    <3>1. NewTxMeta(SomeNetwork) \in TxMeta
      BY NewTxMetaType, SomeNetworkAssumption DEF SomeNetwork
    <3>2. db'.obj \in [Refs -> TxMeta]
      BY <1>3, <3>1 DEF Restart, Typed, TypeOK, Refs, IdOf
    <3>3. db'.list \in TxList
      BY <1>3, CopiesAssumption, NoneAssumption DEF Restart, TxList, Refs, IdOf
    <3> QED BY <1>3, <3>2, <3>3, EmptySeq DEF Restart, TxStore
  <2>2. /\ adding' \in [Txs -> AddStates]
        /\ ui' \in [Refs -> UiStates]
        /\ dapp' \in [Txs -> Answers]
    BY <1>3 DEF Restart, Typed, TypeOK, AddStates, UiStates, Answers
  <2>3. /\ proc' \in [Procs -> ProcStates]
        /\ lock' \in [Accounts -> Procs \cup {None}]
        /\ redo' \in [Refs -> Redoing]
        /\ ProcOK'
    BY <1>3 DEF Restart, IdleProc, ProcStates, Pcs, ProcOK, NotRedone, Redoing
  <2>4. AddOK'
    BY <1>3 DEF Restart, AddOK
  <2>5. changed' \in BOOLEAN
    BY <1>3 DEF Restart
  <2> HIDE DEF TypeOK
  <2>6. TypeOK'
    BY <1>3, <2>1, <2>2, <2>3, <2>5 DEF Restart, Typed, TypeOK
  <2> QED BY <2>3, <2>4, <2>6 DEF Typed
<1>4. ASSUME NEW n \in Networks, NEW a \in Accounts, ChainExecutes(n, a)
      PROVE  Typed'
  BY <1>4 DEF Typed, TypeOK, ProcOK, AddOK, ChainExecutes
<1> QED BY <1>1, <1>2, <1>3, <1>4

-----------------------------------------------------------------------------
(***************************************************************************)
(* One step per action of Next.                                            *)
(***************************************************************************)
LEMMA NextTyped == Typed /\ [Next]_vars => Typed'
<1> SUFFICES ASSUME Typed, [Next]_vars PROVE Typed'
  OBVIOUS
<1>1. CASE \E id \in Txs : Request(id) \/ Defaults(id)
  BY <1>1, TypedRequest
<1>2. CASE User
  <2>1. CASE \E r \in Refs : OpenWindow(r) \/ UpdateTransaction(r)
    BY <2>1, TypedWindows
  <2>2. CASE \E p \in Procs, r \in Refs, c \in CustomNonces \cup {None} :
               UpdateAndApproveTransaction(p, r, c)
    BY <2>2, TypedUpdateAndApprove
  <2>3. CASE \E id \in Txs : CancelTransaction(id)
    BY <2>3, TypedCancel
  <2>4. CASE \E p \in Procs, old, id \in Txs : CreateReplacement(p, old, id)
    BY <2>4, TypedCreateReplacement
  <2>5. CASE \E old, id \in Txs : RetryTransaction(old, id)
    BY <2>5, TypedRetry
  <2>6. CASE SwitchNetwork \/ \E a \in Accounts : ResetAccount(a)
    BY <2>6, TypedSwitch
  <2> QED BY <1>2, <2>1, <2>2, <2>3, <2>4, <2>5, <2>6 DEF User
<1>3. CASE \E p \in Procs : Approval(p) \/ TakeNonceLock(p)
  BY <1>3, TypedBlockAnswer, TypedTakeNonceLock, TypedCount, TypedSignAnswer,
     TypedNodeAccepts, TypedSendAnswer, TypedCallFailed DEF Approval
<1>4. CASE \E r \in Refs : SponsorshipAnswer(r) \/ Redo(r)
  BY <1>4, TypedWindows, TypedRedo
<1>5. CASE \E n \in Networks : NetworkUp(n)
  BY <1>5, TypedNetworkUp
<1>6. CASE \/ FireTimer \/ Persist \/ Restart
           \/ \E n \in Networks, a \in Accounts : ChainExecutes(n, a)
  BY <1>6, TypedEnvironment
<1>7. CASE UNCHANGED vars
  BY <1>7 DEF vars, Typed, TypeOK, ProcOK, AddOK
<1> QED BY <1>1, <1>2, <1>3, <1>4, <1>5, <1>6, <1>7 DEF Next

(***************************************************************************)
(* Type correctness: every field of every txMeta keeps its type, an        *)
(* approval always has the transaction and the object it works on, and a   *)
(* node is only ever sent a transaction with a nonce and a chain.          *)
(***************************************************************************)
THEOREM TypeCorrect == Spec => []TypeOK
<1>1. Spec => []Typed
  BY InitTyped, NextTyped, PTL DEF Spec
<1>2. Typed => TypeOK
  BY DEF Typed
<1> QED BY <1>1, <1>2, PTL

-----------------------------------------------------------------------------
(***************************************************************************)
(* The nonce lock and inProcessOfSigning.  Both properties hold together,  *)
(* and are inductive given the types.                                      *)
(***************************************************************************)
Exclusive == NonceLockHeld /\ OneApprovalPerTx

LEMMA InitExclusive == Init => Exclusive
BY ProcAssumption DEF Init, Exclusive, NonceLockHeld, OneApprovalPerTx, IdleProc, Holding

LEMMA ExclusiveKept ==
  ASSUME Exclusive, UNCHANGED signing
  PROVE  Exclusive'
BY DEF Exclusive, NonceLockHeld, OneApprovalPerTx

(***************************************************************************)
(* An approval goes on, on its side of the lock.                           *)
(***************************************************************************)
LEMMA ExclusiveMove ==
  ASSUME Typed, Exclusive, NEW p \in Procs, NEW v,
         proc[p].pc # "idle", proc' = [proc EXCEPT ![p] = v],
         v.pc # "idle", v.id = proc[p].id,
         v.pc \in Holding <=> proc[p].pc \in Holding,
         UNCHANGED <<inProcess, lock>>
  PROVE  Exclusive'
<1>1. \A q \in Procs : /\ proc'[q].id = proc[q].id
                       /\ proc'[q].pc # "idle" <=> proc[q].pc # "idle"
                       /\ proc'[q].pc \in Holding <=> proc[q].pc \in Holding
  BY DEF Typed, TypeOK
<1>2. NonceLockHeld'
  BY <1>1 DEF Exclusive, NonceLockHeld
<1>3. OneApprovalPerTx'
  <2>1. {q \in Procs : proc'[q].pc # "idle"} = {q \in Procs : proc[q].pc # "idle"}
    BY <1>1
  <2> QED BY <1>1, <2>1 DEF Exclusive, OneApprovalPerTx
<1> QED BY <1>2, <1>3 DEF Exclusive

(***************************************************************************)
(* An approval ends: its id and its lock go, and nobody else's.            *)
(***************************************************************************)
LEMMA ExclusiveFinish ==
  ASSUME Typed, Exclusive, NEW p \in Procs, proc[p].pc # "idle", Finish(p)
  PROVE  Exclusive'
<1>1. /\ proc' = [proc EXCEPT ![p] = IdleProc] /\ proc'[p].pc = "idle"
      /\ \A q \in Procs \ {p} : proc'[q] = proc[q]
  BY DEF Finish, Typed, TypeOK, IdleProc
<1>2. NonceLockHeld'
  <2> SUFFICES ASSUME NEW a \in Accounts, NEW q \in Procs
               PROVE  lock'[a] = q <=> proc'[q].pc \in Holding /\ From[proc'[q].id] = a
    BY DEF NonceLockHeld
  <2>1. lock'[a] = IF lock[a] = p THEN None ELSE lock[a]
    BY DEF Finish, ReleaseLock
  <2>2. CASE q = p
    BY <1>1, <2>1, <2>2, ProcAssumption DEF Holding
  <2>3. CASE q # p
    BY <1>1, <2>1, <2>3, ProcAssumption DEF Exclusive, NonceLockHeld
  <2> QED BY <2>2, <2>3
<1>3. OneApprovalPerTx'
  <2>1. {q \in Procs : proc'[q].pc # "idle"} = {q \in Procs : proc[q].pc # "idle"} \ {p}
    BY <1>1
  <2>2. \A q \in Procs \ {p} : proc[q].pc # "idle" => proc[q].id # proc[p].id
    BY DEF Exclusive, OneApprovalPerTx
  <2>3. inProcess' = inProcess \ {proc[p].id}
    BY DEF Finish
  <2> QED BY <1>1, <2>1, <2>2, <2>3 DEF Exclusive, OneApprovalPerTx
<1> QED BY <1>2, <1>3 DEF Exclusive

(***************************************************************************)
(* An approval starts, of an id that has none.                             *)
(***************************************************************************)
LEMMA ExclusiveApprove ==
  ASSUME Typed, Exclusive, NEW p \in Procs, proc[p].pc = "idle", NEW id \in Txs,
         NEW d, ApproveTransaction(p, id, d)
  PROVE  Exclusive'
<1>1. CASE UNCHANGED signing
  BY <1>1, ExclusiveKept
<1>2. CASE /\ id \notin inProcess
           /\ inProcess' = inProcess \cup {id}
           /\ proc' = [proc EXCEPT ![p] = [IdleProc EXCEPT !.pc = "block", !.id = id,
                                                          !.ref = d.list[id]]]
           /\ UNCHANGED lock
  <2>1. /\ proc'[p].pc = "block" /\ proc'[p].id = id
        /\ \A q \in Procs \ {p} : proc'[q] = proc[q]
    BY <1>2 DEF Typed, TypeOK, IdleProc
  <2>2. NonceLockHeld'
    BY <1>2, <2>1 DEF Exclusive, NonceLockHeld, Holding
  <2>3. {q \in Procs : proc'[q].pc # "idle"} = {q \in Procs : proc[q].pc # "idle"} \cup {p}
    BY <2>1
  <2>4. OneApprovalPerTx'
    BY <1>2, <2>1, <2>3 DEF Exclusive, OneApprovalPerTx
  <2> QED BY <2>2, <2>4 DEF Exclusive
<1> QED BY <1>1, <1>2 DEF ApproveTransaction

LEMMA ExclusiveTakeNonceLock ==
  ASSUME Typed, Exclusive, NEW p \in Procs, TakeNonceLock(p)
  PROVE  Exclusive'
<1> DEFINE b == From[proc[p].id]
<1>1. /\ proc[p].pc = "lock" /\ b \in Accounts /\ lock[b] = None
      /\ lock' = [lock EXCEPT ![b] = p] /\ inProcess' = inProcess
  BY FromAssumption DEF TakeNonceLock, Typed, ProcOK
<1>2. /\ proc'[p].pc = "count" /\ proc'[p].id = proc[p].id
      /\ \A q \in Procs \ {p} : proc'[q] = proc[q]
  BY DEF TakeNonceLock, Typed, TypeOK, ProcStates
<1>3. NonceLockHeld'
  <2> SUFFICES ASSUME NEW a \in Accounts, NEW q \in Procs
               PROVE  lock'[a] = q <=> proc'[q].pc \in Holding /\ From[proc'[q].id] = a
    BY DEF NonceLockHeld
  <2>1. lock'[a] = IF a = b THEN p ELSE lock[a]
    BY <1>1 DEF Typed, TypeOK
  <2>2. CASE q = p
    BY <1>1, <1>2, <2>1, <2>2 DEF Exclusive, NonceLockHeld, Holding
  <2>3. CASE q # p
    BY <1>1, <1>2, <2>1, <2>3, ProcAssumption DEF Exclusive, NonceLockHeld
  <2> QED BY <2>2, <2>3
<1>4. {q \in Procs : proc'[q].pc # "idle"} = {q \in Procs : proc[q].pc # "idle"}
  BY <1>1, <1>2
<1>5. OneApprovalPerTx'
  BY <1>1, <1>2, <1>4 DEF Exclusive, OneApprovalPerTx
<1> QED BY <1>3, <1>5 DEF Exclusive

LEMMA ExclusiveApproval ==
  ASSUME Typed, Exclusive, NEW p \in Procs, Approval(p)
  PROVE  Exclusive'
<1>1. CASE BlockAnswer(p)
  <2> DEFINE v == [proc[p] EXCEPT !.pc = "lock"]
  <2>1. /\ proc[p].pc = "block" /\ proc' = [proc EXCEPT ![p] = v]
        /\ UNCHANGED <<inProcess, lock>>
    BY <1>1 DEF BlockAnswer, Typed, TypeOK
  <2>2. v.pc = "lock" /\ v.id = proc[p].id
    BY DEF Typed, TypeOK, ProcStates
  <2> HIDE DEF v
  <2> QED BY <2>1, <2>2, ExclusiveMove DEF Holding
<1>2. CASE Count(p)
  <2>1. PICK next : proc[p].pc = "count" /\ CountAnswer(p, next)
    BY <1>2 DEF Count
  <2>2. CASE \E d : FailApproval(p, d)
    BY <2>1, <2>2, ExclusiveFinish DEF FailApproval
  <2>3. CASE \E s, m, c : /\ proc' = [proc EXCEPT ![p] = [@ EXCEPT !.pc = "sign", !.ref = s,
                                                               !.nonce = m, !.chain = c]]
                          /\ UNCHANGED <<inProcess, lock>>
    <3>1. PICK s, m, c : /\ proc' = [proc EXCEPT ![p] = [@ EXCEPT !.pc = "sign", !.ref = s,
                                                                 !.nonce = m, !.chain = c]]
                         /\ UNCHANGED <<inProcess, lock>>
      BY <2>3
    <3> DEFINE v == [proc[p] EXCEPT !.pc = "sign", !.ref = s, !.nonce = m, !.chain = c]
    <3>2. v.pc = "sign" /\ v.id = proc[p].id /\ proc' = [proc EXCEPT ![p] = v]
      BY <3>1 DEF Typed, TypeOK, ProcStates
    <3> HIDE DEF v
    <3> QED BY <2>1, <3>1, <3>2, ExclusiveMove DEF Holding
  <2> QED BY <2>1, <2>2, <2>3 DEF CountAnswer
<1>3. CASE SignAnswer(p)
  <2>1. proc[p].pc = "sign"
    BY <1>3 DEF SignAnswer
  <2>2. CASE \E d : FailApproval(p, d)
    BY <2>1, <2>2, ExclusiveFinish DEF FailApproval
  <2>3. CASE \E t : /\ proc' = [proc EXCEPT ![p] = [@ EXCEPT !.pc = "send", !.ref = t,
                                                          !.asked = network]]
                   /\ UNCHANGED <<inProcess, lock>>
    <3>1. PICK t : /\ proc' = [proc EXCEPT ![p] = [@ EXCEPT !.pc = "send", !.ref = t,
                                                           !.asked = network]]
                   /\ UNCHANGED <<inProcess, lock>>
      BY <2>3
    <3> DEFINE v == [proc[p] EXCEPT !.pc = "send", !.ref = t, !.asked = network]
    <3>2. v.pc = "send" /\ v.id = proc[p].id /\ proc' = [proc EXCEPT ![p] = v]
      BY <3>1 DEF Typed, TypeOK, ProcStates
    <3> HIDE DEF v
    <3> QED BY <2>1, <3>1, <3>2, ExclusiveMove DEF Holding
  <2> QED BY <1>3, <2>2, <2>3 DEF SignAnswer
<1>4. CASE NodeAccepts(p)
  <2> DEFINE v == [proc[p] EXCEPT !.pc = "reply"]
  <2>1. /\ proc[p].pc = "send" /\ proc' = [proc EXCEPT ![p] = v]
        /\ UNCHANGED <<inProcess, lock>>
    BY <1>4 DEF NodeAccepts, Typed, TypeOK
  <2>2. v.pc = "reply" /\ v.id = proc[p].id
    BY DEF Typed, TypeOK, ProcStates
  <2> HIDE DEF v
  <2> QED BY <2>1, <2>2, ExclusiveMove DEF Holding
<1>5. ASSUME SendAnswer(p) \/ CallFailed(p) PROVE Exclusive'
  <2>1. proc[p].pc # "idle" /\ Finish(p)
    BY <1>5 DEF SendAnswer, CallFailed, FailApproval
  <2> QED BY <2>1, ExclusiveFinish
<1> QED BY <1>1, <1>2, <1>3, <1>4, <1>5 DEF Approval

LEMMA ExclusiveRestart ==
  ASSUME Restart PROVE Exclusive'
BY ProcAssumption DEF Restart, Exclusive, NonceLockHeld, OneApprovalPerTx, IdleProc, Holding

LEMMA NextExclusive == Typed /\ Exclusive /\ [Next]_vars => Exclusive'
<1> SUFFICES ASSUME Typed, Exclusive, [Next]_vars PROVE Exclusive'
  OBVIOUS
<1>1. CASE UNCHANGED signing
  BY <1>1, ExclusiveKept
<1>2. CASE \E id \in Txs : Request(id) \/ Defaults(id)
  BY <1>1, <1>2 DEF Request, Defaults, GenerateTxMeta, RefuseRequest, StoreUnapproved,
     DefaultsReady, DefaultsFailed
<1>3. CASE User
  <2>1. CASE \E p \in Procs, r \in Refs, c \in CustomNonces \cup {None} :
               UpdateAndApproveTransaction(p, r, c)
    <3>1. PICK p \in Procs, r \in Refs, c \in CustomNonces \cup {None} :
                 UpdateAndApproveTransaction(p, r, c)
      BY <2>1
    <3>2. IdOf(r) \in Txs
      BY DEF IdOf, Refs
    <3> QED BY <3>1, <3>2, ExclusiveApprove DEF UpdateAndApproveTransaction
  <2>2. CASE \E p \in Procs, old, id \in Txs : CreateReplacement(p, old, id)
    BY <2>2, ExclusiveApprove DEF CreateReplacement
  <2>3. CASE \/ \E r \in Refs : OpenWindow(r) \/ UpdateTransaction(r)
             \/ \E id \in Txs : CancelTransaction(id)
             \/ \E old, id \in Txs : RetryTransaction(old, id)
             \/ SwitchNetwork
             \/ \E a \in Accounts : ResetAccount(a)
    BY <1>1, <2>3 DEF OpenWindow, UpdateTransaction, CancelTransaction,
       RetryTransaction, SwitchNetwork, ResetAccount
  <2> QED BY <1>3, <2>1, <2>2, <2>3 DEF User
<1>4. CASE \E p \in Procs : Approval(p) \/ TakeNonceLock(p)
  BY <1>4, ExclusiveApproval, ExclusiveTakeNonceLock
<1>5. CASE \/ \E r \in Refs : SponsorshipAnswer(r) \/ Redo(r)
           \/ \E n \in Networks : NetworkUp(n)
           \/ FireTimer \/ Persist
           \/ \E n \in Networks, a \in Accounts : ChainExecutes(n, a)
  BY <1>1, <1>5 DEF SponsorshipAnswer, Redo, RedoGas, RedoReady, RedoFailed, NetworkUp,
     FireTimer, Persist, ChainExecutes
<1>6. CASE Restart
  BY <1>6, ExclusiveRestart
<1>7. CASE UNCHANGED vars
  BY <1>1, <1>7 DEF vars
<1> QED BY <1>2, <1>3, <1>4, <1>5, <1>6, <1>7 DEF Next

(***************************************************************************)
(* Whatever fails, is changed or restarts under it, an approval holds the  *)
(* nonce lock of its account exactly from its nonce to its outcome.        *)
(***************************************************************************)
THEOREM NonceLockSafe == Spec => []NonceLockHeld
<1>1. Spec => []Typed
  BY InitTyped, NextTyped, PTL DEF Spec
<1>2. Spec => []Exclusive
  BY <1>1, InitExclusive, NextExclusive, PTL DEF Spec
<1>3. Exclusive => NonceLockHeld
  BY DEF Exclusive
<1> QED BY <1>2, <1>3, PTL

(***************************************************************************)
(* However many windows confirm it, a transaction has one approval at a    *)
(* time, and inProcessOfSigning lists exactly the ids that have one.       *)
(***************************************************************************)
THEOREM ApprovalsExclusive == Spec => []OneApprovalPerTx
<1>1. Spec => []Typed
  BY InitTyped, NextTyped, PTL DEF Spec
<1>2. Spec => []Exclusive
  BY <1>1, InitExclusive, NextExclusive, PTL DEF Spec
<1>3. Exclusive => OneApprovalPerTx
  BY DEF Exclusive
<1> QED BY <1>2, <1>3, PTL

-----------------------------------------------------------------------------
(***************************************************************************)
(* A transaction that left the list stays out of it.  The flows that hold  *)
(* its object save it with updateTx, and only addTx makes entries: for an  *)
(* id that is just being generated.                                        *)
(***************************************************************************)
StaysRemoved ==
  \A id \in Txs :
    /\ adding[id] \in {"defaults", "done"} \/ adding'[id] \in {"none", "checking"}
    /\ db.list[id] = None
    /\ crashes' = crashes
    => db'.list[id] = None

LEMMA RemovedByApprove ==
  ASSUME NEW p, NEW i \in Txs, NEW d \in TxStore, NEW id \in Txs, d.list[id] = None,
         ApproveTransaction(p, i, d)
  PROVE  db'.list[id] = None
BY AbsentKept DEF ApproveTransaction

LEMMA RemovedByFail ==
  ASSUME NEW p, NEW d \in TxStore, NEW id \in Txs, d.list[id] = None, FailApproval(p, d)
  PROVE  db'.list[id] = None
BY AbsentKept DEF FailApproval, SetTxStatusFailed

LEMMA NextStaysRemoved == Typed /\ [Next]_vars => StaysRemoved
<1> SUFFICES ASSUME Typed, [Next]_vars, NEW id \in Txs,
                    \/ adding[id] \in {"defaults", "done"}
                    \/ adding'[id] \in {"none", "checking"},
                    db.list[id] = None,
                    crashes' = crashes
             PROVE  db'.list[id] = None
  BY DEF StaysRemoved
<1>0. db \in TxStore
  BY DEF Typed, TypeOK
<1>1. ASSUME db' = db PROVE db'.list[id] = None
  BY <1>1
<1>2. ASSUME NEW i \in Txs, Request(i) \/ Defaults(i) PROVE db'.list[id] = None
  <2>1. CASE StoreUnapproved(i)
    <3>1. i # id /\ <<i, 0>> \in Refs /\ IdOf(<<i, 0>>) = i
      BY <2>1, CopiesAssumption DEF StoreUnapproved, Refs, IdOf, Typed, TypeOK
    <3>2. NewTxMeta(addNet[i]) \in TxMeta
      BY <2>1, NewTxMetaType DEF StoreUnapproved, Typed, AddOK
    <3> QED BY <1>0, <2>1, <3>1, <3>2, AbsentKept DEF StoreUnapproved
  <2>2. CASE GenerateTxMeta(i) \/ RefuseRequest(i)
    BY <1>1, <2>2 DEF GenerateTxMeta, RefuseRequest
  <2>3. ASSUME Defaults(i) PROVE db'.list[id] = None
    <3>1. <<i, 0>> \in Refs
      BY CopiesAssumption DEF Refs
    <3>2. [db.obj[<<i, 0>>] EXCEPT !.ld = FALSE] \in TxMeta
      BY <1>0, <3>1, ObjType, TxMetaFields
    <3> QED BY <1>0, <2>3, <3>1, <3>2, SavedKeepsAbsent
            DEF Defaults, DefaultsReady, DefaultsFailed
  <2> QED BY <1>2, <2>1, <2>2, <2>3 DEF Request
<1>3. CASE User
  <2>1. ASSUME NEW r \in Refs, OpenWindow(r) \/ UpdateTransaction(r)
        PROVE  db'.list[id] = None
    BY <1>0, <1>1, <2>1, AbsentKept DEF OpenWindow, UpdateTransaction
  <2>2. ASSUME NEW p \in Procs, NEW r \in Refs, NEW c \in CustomNonces \cup {None},
               UpdateAndApproveTransaction(p, r, c)
        PROVE  db'.list[id] = None
    <3> DEFINE m == [db.obj[r] EXCEPT !.custom = c]
    <3>1. m \in TxMeta
      BY <1>0, ObjType, TxMetaFields, CustomAssumption
    <3>2. ApproveTransaction(p, IdOf(r), UpdateTx(WithTxMeta(db, r, m), r)) /\ IdOf(r) \in Txs
      BY <2>2 DEF UpdateAndApproveTransaction, IdOf, Refs
    <3> HIDE DEF m
    <3>3. /\ UpdateTx(WithTxMeta(db, r, m), r) \in TxStore
          /\ UpdateTx(WithTxMeta(db, r, m), r).list[id] = None
      BY <1>0, <3>1, SavedType, SavedKeepsAbsent
    <3> QED BY <3>2, <3>3, RemovedByApprove
  <2>3. ASSUME NEW i \in Txs, CancelTransaction(i) PROVE db'.list[id] = None
    <3>1. SetTxStatus(db, network, i, "rejected") \in TxStore
      BY <1>0, SetTxStatusType DEF Statuses
    <3> QED BY <1>0, <2>3, <3>1, AbsentKept DEF CancelTransaction, SetTxStatusRejected
  <2>4. ASSUME NEW p \in Procs, NEW old \in Txs, NEW i \in Txs,
               CreateReplacement(p, old, i)
        PROVE  db'.list[id] = None
    <3>1. CanReplace(old, i) /\ i # id /\ IdOf(<<i, 0>>) = i
      BY <2>4 DEF CreateReplacement, CanReplace, IdOf, Typed, TypeOK
    <3>2. \A m \in TxMeta : /\ AddTx(db, <<i, 0>>, m) \in TxStore
                            /\ AddTx(db, <<i, 0>>, m).list[id] = None
      BY <1>0, <3>1, TypedReplacement, AddTxType, AbsentKept
    <3> QED BY <2>4, <3>1, <3>2, TypedReplacement, RemovedByApprove DEF CreateReplacement
  <2>5. CASE SwitchNetwork
    BY <1>1, <2>5 DEF SwitchNetwork
  <2>6. ASSUME NEW a \in Accounts, ResetAccount(a) PROVE db'.list[id] = None
    BY <1>0, <2>6, AbsentKept DEF ResetAccount
  <2>7. ASSUME NEW old \in Txs, NEW i \in Txs, RetryTransaction(old, i)
        PROVE  db'.list[id] = None
    <3>1. CanReplace(old, i) /\ i # id /\ IdOf(<<i, 0>>) = i
      BY <2>7 DEF RetryTransaction, CanReplace, IdOf, Typed, TypeOK
    <3> QED BY <1>0, <2>7, <3>1, TypedReplacement, AbsentKept DEF RetryTransaction
  <2> QED BY <1>3, <2>1, <2>2, <2>3, <2>4, <2>5, <2>6, <2>7 DEF User
<1>4. ASSUME NEW p \in Procs, Approval(p) \/ TakeNonceLock(p) PROVE db'.list[id] = None
  <2> DEFINE r == proc[p].ref
             raw == [nonce |-> proc[p].nonce, chain |-> proc[p].chain]
  <2>1. CASE TakeNonceLock(p) \/ NodeAccepts(p)
    BY <1>1, <2>1 DEF TakeNonceLock, NodeAccepts
  <2>2. CASE BlockAnswer(p)
    BY <1>0, <2>2, AbsentKept DEF BlockAnswer
  <2>3. CASE Count(p)
    <3>1. proc[p].id \in Txs /\ r \in Refs
      BY <2>3 DEF Count, Typed, ProcOK
    <3>2. PICK count \in Nat : \E next \in NextNonce(db, network, From[proc[p].id], count) :
                                 CountAnswer(p, next)
      BY <2>3, <3>1, FromAssumption DEF Count, CountOf, Typed, TypeOK, ProcStates
    <3>3. PICK next \in Nat : CountAnswer(p, next)
      BY <3>2, NextNonceType DEF Typed
    <3> DEFINE nonce == TxNonce(db.obj[r], next)
               m == [db.obj[r] EXCEPT !.nonce = nonce]
    <3>4. nonce \in Nat \cup {None}
      BY <1>0, <3>1, <3>3, ObjType DEF TxNonce, TxMeta
    <3>5. m \in TxMeta
      <4> HIDE DEF nonce
      <4> QED BY <1>0, <3>1, <3>4, ObjType, TxMetaFields
    <3>6. \/ db' = UpdateTx(WithTxMeta(db, r, m), r)
          \/ FailApproval(p, UpdateTx(WithTxMeta(db, r, m), r))
          \/ FailApproval(p, db)
      BY <3>3 DEF CountAnswer
    <3> HIDE DEF m
    <3> QED BY <1>0, <3>1, <3>5, <3>6, SavedType, SavedKeepsAbsent, RemovedByFail
  <2>4. CASE SignAnswer(p)
    <3> DEFINE m == [db.obj[r] EXCEPT !.raw = raw]
               d == UpdateTx(WithTxMeta(db, r, m), r)
               e == SetTxStatus(d, network, proc[p].id, "signed")
    <3>1. proc[p].id \in Txs /\ r \in Refs /\ raw \in RawTx
      BY <2>4 DEF SignAnswer, Typed, TypeOK, ProcOK, ProcStates, RawTx
    <3>2. m \in TxMeta
      <4> HIDE DEF raw
      <4> QED BY <1>0, <3>1, ObjType, TxMetaFields
    <3>3. d \in TxStore /\ d.list[id] = None
      <4> HIDE DEF m
      <4> QED BY <1>0, <3>1, <3>2, SavedType, SavedKeepsAbsent
    <3>4. e \in TxStore /\ e.list[id] = None
      <4> HIDE DEF d
      <4> QED BY <3>1, <3>3, SetTxStatusType, AbsentKept DEF Statuses
    <3>5. db' = e \/ FailApproval(p, e)
      BY <2>4 DEF SignAnswer
    <3> HIDE DEF e
    <3> QED BY <3>4, <3>5, RemovedByFail
  <2>5. CASE SendAnswer(p)
    <3> DEFINE t == GetTx(db, network, proc[p].id)
               m == [db.obj[t] EXCEPT !.hash = raw]
               d == WithTxMeta(db, t, m)
    <3>1. proc[p].id \in Txs /\ raw \in RawTx
      BY <2>5 DEF SendAnswer, Typed, TypeOK, ProcOK, ProcStates, RawTx
    <3>2. CASE t # None /\ db' = SetTxStatus(d, network, proc[p].id, "submitted")
      <4>1. t \in Refs
        BY <1>0, <3>1, <3>2, GetTxType
      <4>2. m \in TxMeta
        <5> HIDE DEF raw, t
        <5> QED BY <1>0, <3>1, <4>1, ObjType, TxMetaFields
      <4>3. d \in TxStore /\ d.list[id] = None
        <5> HIDE DEF m, t
        <5> QED BY <1>0, <4>1, <4>2, WithTxMetaType, AbsentKept
      <4> HIDE DEF d
      <4> QED BY <3>2, <4>3, AbsentKept
    <3>3. CASE FailApproval(p, db)
      BY <1>0, <3>3, RemovedByFail
    <3> QED BY <2>5, <3>2, <3>3 DEF SendAnswer
  <2>6. CASE CallFailed(p)
    BY <1>0, <2>6, RemovedByFail DEF CallFailed
  <2> QED BY <1>4, <2>1, <2>2, <2>3, <2>4, <2>5, <2>6 DEF Approval
<1>5. ASSUME NEW r \in Refs, SponsorshipAnswer(r) \/ Redo(r) PROVE db'.list[id] = None
  <2>1. [db.obj[r] EXCEPT !.ld = FALSE] \in TxMeta
    BY <1>0, ObjType, TxMetaFields
  <2>2. /\ UpdateTx(WithTxMeta(db, r, [db.obj[r] EXCEPT !.ld = FALSE]), r) \in TxStore
        /\ UpdateTx(WithTxMeta(db, r, [db.obj[r] EXCEPT !.ld = FALSE]), r).list[id] = None
    BY <1>0, <2>1, SavedType, SavedKeepsAbsent
  <2> QED BY <1>0, <1>5, <2>2, AbsentKept
          DEF SponsorshipAnswer, Redo, RedoGas, RedoReady, RedoFailed, SetTxStatusFailed
<1>6. ASSUME NEW n \in Networks, NetworkUp(n) PROVE db'.list[id] = None
  BY <1>0, <1>6 DEF NetworkUp, BootCleanUp, FailEach, TxStore
<1>7. CASE FireTimer
  <2>1. Head(db.timers) \in Timer
    BY <1>0, <1>7, RunTimerType DEF FireTimer
  <2>2. UpdateTx(db, Head(db.timers).ref).list[id] = None
    BY <1>0, <2>1, AbsentKept DEF Timer
  <2>3. UpdateTx(db, Head(db.timers).ref) \in TxStore
    BY <1>0, <2>1, UpdateTxType DEF Timer
  <2> QED BY <1>7, <2>2, <2>3 DEF FireTimer, RunTimer, TxStore
<1>8. CASE Restart
  BY <1>8 DEF Restart, Typed, TypeOK
<1>9. CASE Persist \/ (\E n \in Networks, a \in Accounts : ChainExecutes(n, a)) \/ UNCHANGED vars
  BY <1>1, <1>9 DEF Persist, ChainExecutes, vars
<1> QED BY <1>2, <1>3, <1>4, <1>5, <1>6, <1>7, <1>8, <1>9 DEF Next

(***************************************************************************)
(* Whoever still holds the object of a rejected or wiped transaction, and  *)
(* however late it is saved, the transaction does not come back.           *)
(***************************************************************************)
THEOREM RemovedStaysRemoved == Spec => RemovedNeverReturns
<1>1. Spec => []Typed
  BY InitTyped, NextTyped, PTL DEF Spec
<1>2. Typed /\ [Next]_vars =>
        [\A id \in Txs :
           /\ adding[id] \in {"defaults", "done"}
           /\ db.list[id] = None
           /\ crashes' = crashes
           => db'.list[id] = None]_vars
  BY NextStaysRemoved DEF StaysRemoved
<1> QED BY <1>1, <1>2, PTL DEF Spec, RemovedNeverReturns

-----------------------------------------------------------------------------
(***************************************************************************)
(* Why a transaction is broadcast on its own network only.                 *)
(*                                                                         *)
(* getTx finds an entry only on the network the entry names, so what goes  *)
(* out through the provider belongs to the provider's network, if every    *)
(* object that can become an entry again still names the network of its    *)
(* request.  Held are the objects the store itself can bring back; Busy    *)
(* those a window, a computation of gas defaults, the request or an        *)
(* approval still works on.                                                *)
(***************************************************************************)
Held(d) ==
  {r \in Refs : \/ d.list[IdOf(r)] = r
                \/ \E i \in DOMAIN d.timers : d.timers[i].ref = r}

Redone(r) == redo[r].gas > 0 \/ redo[r].sponsor > 0

Busy(r) ==
  \/ ui[r] \in {"open", "editing"}
  \/ Redone(r)
  \/ r = <<IdOf(r), 0>> /\ adding[IdOf(r)] = "defaults"
  \/ \E p \in Procs : proc[p].pc # "idle" /\ proc[p].ref = r

Live(r) == r \in Held(db) \/ Busy(r)

LiveOnOwn == \A r \in Refs : Live(r) => db.obj[r].net = addNet[IdOf(r)]

DiskOnOwn == \A id \in Txs : disk[id] # None => disk[id].net = addNet[id]

SendsOnOwn == \A p \in Procs : proc[p].pc = "send" => proc[p].asked = addNet[proc[p].id]

(* Before its request is generated, nothing knows the transaction. *)
Fresh ==
  \A id \in Txs : adding[id] = "none" =>
    /\ \A r \in Refs : IdOf(r) = id => ~Live(r)
    /\ disk[id] = None
    /\ \A s \in sent : s.id # id

OwnNetwork == LiveOnOwn /\ DiskOnOwn /\ SendsOnOwn /\ Fresh /\ SentOnOwnNetwork

(***************************************************************************)
(* The store e came from d by writes that keep every network, and only the *)
(* objects in R may have become entries that were not held before.         *)
(***************************************************************************)
Follows(d, e, R) ==
  /\ Held(e) \subseteq Held(d) \cup R
  /\ \A r \in Refs : e.obj[r].net = d.obj[r].net

LEMMA FollowsTrans ==
  ASSUME NEW d, NEW e, NEW f, NEW R, Follows(d, e, R), Follows(e, f, R)
  PROVE  Follows(d, f, R)
BY DEF Follows

LEMMA FollowsItself == ASSUME NEW d, NEW R PROVE Follows(d, d, R)
BY DEF Follows

LEMMA UpdateFollows ==
  ASSUME NEW d \in TxStore, NEW r \in Refs
  PROVE  Follows(d, UpdateTx(d, r), {r})
BY DEF Follows, Held, UpdateTx, TxStore, TxList, IdOf, Refs

LEMMA WriteFollows ==
  ASSUME NEW d \in TxStore, NEW r \in Refs, NEW m \in TxMeta, m.net = d.obj[r].net, NEW R
  PROVE  Follows(d, WithTxMeta(d, r, m), R)
BY DEF Follows, Held, WithTxMeta, TxStore

LEMMA SavedFollows ==
  ASSUME NEW d \in TxStore, NEW r \in Refs, NEW m \in TxMeta, m.net = d.obj[r].net
  PROVE  Follows(d, UpdateTx(WithTxMeta(d, r, m), r), {r})
BY WriteFollows, WithTxMetaType, UpdateFollows, FollowsTrans

LEMMA SetTxStatusFollows ==
  ASSUME NEW d \in TxStore, NEW n, NEW id \in Txs, NEW s \in Statuses, NEW R
  PROVE  Follows(d, SetTxStatus(d, n, id, s), R)
<1> DEFINE r == GetTx(d, n, id)
           e == SetTxStatus(d, n, id, s)
<1>1. CASE r = None
  BY <1>1, FollowsItself DEF SetTxStatus
<1>2. CASE r # None
  <2>1. r \in Refs /\ r = d.list[id] /\ IdOf(r) = id
    BY <1>2, GetTxType
  <2>2. /\ e.list = d.list
        /\ e.obj = [d.obj EXCEPT ![r].status = s]
        /\ e.timers = Append(d.timers, [ref |-> r, status |-> s])
    BY <1>2 DEF SetTxStatus, TxStore
  <2>3. \A q \in Refs : e.obj[q].net = d.obj[q].net
    <3> HIDE DEF e, r
    <3> QED BY <2>1, <2>2 DEF TxStore, TxMeta
  <2>4. \A i \in DOMAIN e.timers : e.timers[i].ref = r \/ (i \in DOMAIN d.timers /\ e.timers[i] = d.timers[i])
    <3> HIDE DEF e, r
    <3> QED BY <2>2 DEF TxStore
  <2>5. r \in Held(d)
    BY <2>1 DEF Held
  <2>6. Held(e) \subseteq Held(d)
    <3> SUFFICES ASSUME NEW q \in Held(e) PROVE q \in Held(d)
      OBVIOUS
    <3> HIDE DEF e, r
    <3>1. CASE \E i \in DOMAIN e.timers : e.timers[i].ref = q
      BY <2>4, <2>5, <3>1 DEF Held
    <3>2. CASE e.list[IdOf(q)] = q
      BY <2>2, <3>2 DEF Held
    <3> QED BY <3>1, <3>2 DEF Held
  <2> QED BY <2>3, <2>6 DEF Follows
<1> QED BY <1>1, <1>2

LEMMA RemoveFollows ==
  ASSUME NEW d \in TxStore, NEW id \in Txs, NEW R
  PROVE  Follows(d, RemoveTx(d, id), R)
BY NoneAssumption DEF Follows, Held, RemoveTx, TxStore, TxList, Refs, IdOf

LEMMA WipeFollows ==
  ASSUME NEW d \in TxStore, NEW n, NEW a, NEW R
  PROVE  Follows(d, WipeTransactions(d, n, a), R)
BY NoneAssumption DEF Follows, Held, WipeTransactions, TxStore, TxList, Refs, IdOf

LEMMA RunTimerFollows ==
  ASSUME NEW d \in TxStore, d.timers # <<>>, NEW R
  PROVE  Follows(d, RunTimer(d), R)
<1> DEFINE r == Head(d.timers).ref
           e == UpdateTx(d, r)
<1>1. r \in Refs
  BY RunTimerType DEF Timer
<1>2. e.timers = d.timers /\ e \in TxStore /\ Follows(d, e, {r})
  <2>1. e.timers = d.timers
    BY DEF UpdateTx, TxStore
  <2> HIDE DEF r
  <2> QED BY <1>1, <2>1, UpdateFollows, UpdateTxType
<1>3. r \in Held(d)
  BY <1>1 DEF Held, TxStore
<1>4. /\ RunTimer(d).list = e.list /\ RunTimer(d).obj = e.obj
      /\ RunTimer(d).timers = Tail(d.timers)
  BY <1>2 DEF RunTimer, TxStore
<1>5. \A i \in DOMAIN Tail(d.timers) : \E j \in DOMAIN d.timers : Tail(d.timers)[i] = d.timers[j]
  BY DEF TxStore
<1>6. Held(RunTimer(d)) \subseteq Held(e)
  <2> HIDE DEF e, r
  <2> QED BY <1>2, <1>4, <1>5 DEF Held
<1> HIDE DEF e, r
<1> QED BY <1>2, <1>3, <1>4, <1>6 DEF Follows

LEMMA FailEachFollows ==
  ASSUME NEW d \in TxStore, NEW k \in Nat, NEW ids \in [1 .. k -> Txs],
         \A i \in 1 .. k : d.list[ids[i]] \in Refs, NEW R
  PROVE  Follows(d, FailEach(d, ids), R)
<1> DEFINE e == FailEach(d, ids)
           new == [i \in DOMAIN ids |-> [ref |-> d.list[ids[i]], status |-> "failed"]]
<1>1. /\ e.list = d.list
      /\ e.obj = [r \in Refs |-> IF \E i \in DOMAIN ids : d.list[ids[i]] = r
                                 THEN [d.obj[r] EXCEPT !.status = "failed"]
                                 ELSE d.obj[r]]
      /\ e.timers = d.timers \o new
  BY DEF FailEach, TxStore
<1>2. \A r \in Refs : e.obj[r].net = d.obj[r].net
  <2> HIDE DEF e
  <2> QED BY <1>1 DEF TxStore, TxMeta
<1>3. \A i \in 1 .. k : new[i].ref \in Held(d)
  <2> SUFFICES ASSUME NEW i \in 1 .. k PROVE d.list[ids[i]] \in Held(d)
    OBVIOUS
  <2>1. IdOf(d.list[ids[i]]) = ids[i]
    BY NoneAssumption DEF TxStore, TxList
  <2> QED BY <2>1 DEF Held
<1>4. new \in Seq(Timer) /\ d.timers \in Seq(Timer) /\ DOMAIN new = 1 .. k
  <2>1. new \in [1 .. k -> Timer]
    BY DEF Timer, Statuses
  <2> QED BY <2>1, SeqDef DEF TxStore
<1>5. \A i \in DOMAIN e.timers : \/ i \in DOMAIN d.timers /\ e.timers[i] = d.timers[i]
                                 \/ e.timers[i].ref \in Held(d)
  <2> HIDE DEF e, new
  <2>1. Len(new) = k
    BY <1>4
  <2> QED BY <1>1, <1>3, <1>4, <2>1, ConcatProperties
<1>6. Held(e) \subseteq Held(d)
  <2> HIDE DEF e
  <2> QED BY <1>1, <1>5 DEF Held
<1> QED BY <1>2, <1>6 DEF Follows

-----------------------------------------------------------------------------
(***************************************************************************)
(* A step that works with live objects only and makes no request keeps the *)
(* invariant.                                                              *)
(***************************************************************************)
LEMMA OwnKept ==
  ASSUME Typed, OwnNetwork, NEW R, Follows(db, db', R), \A r \in R : Live(r),
         \A r \in Refs : Busy(r)' => Live(r),
         \A id \in Txs : adding'[id] = "none" => adding[id] = "none",
         \A p \in Procs : proc'[p].pc = "send" => proc'[p].asked = addNet[proc'[p].id],
         addNet' = addNet, disk' = disk, sent' = sent
  PROVE  OwnNetwork'
<1>1. \A r \in Refs : Live(r)' => Live(r)
  BY DEF Follows, Live
<1>2. \A r \in Refs : db'.obj[r].net = db.obj[r].net
  BY DEF Follows
<1>3. LiveOnOwn'
  BY <1>1, <1>2 DEF OwnNetwork, LiveOnOwn
<1>4. Fresh'
  BY <1>1 DEF OwnNetwork, Fresh
<1>5. DiskOnOwn' /\ SendsOnOwn' /\ SentOnOwnNetwork'
  BY DEF OwnNetwork, DiskOnOwn, SendsOnOwn, SentOnOwnNetwork
<1> QED BY <1>3, <1>4, <1>5 DEF OwnNetwork

(***************************************************************************)
(* A step that adds the transaction of a request, on the network n.        *)
(***************************************************************************)
LEMMA OwnAdded ==
  ASSUME Typed, OwnNetwork, NEW id \in Txs, NEW n \in Networks, NEW m \in TxMeta, m.net = n,
         Follows(AddTx(db, <<id, 0>>, m), db', {}),
         adding[id] = "none" \/ addNet[id] = n,
         addNet' = [addNet EXCEPT ![id] = n],
         \A i \in Txs : adding'[i] = "none" => i # id /\ adding[i] = "none",
         \A r \in Refs : Busy(r)' => r = <<id, 0>> \/ Live(r),
         \A p \in Procs : proc'[p].pc = "send" => proc'[p] = proc[p],
         disk' = disk, sent' = sent
  PROVE  OwnNetwork'
<1> DEFINE o == <<id, 0>>
           d == AddTx(db, o, m)
<1>1. o \in Refs /\ IdOf(o) = id
  BY CopiesAssumption DEF Refs, IdOf
<1>2. /\ addNet'[id] = n
      /\ \A i \in Txs : i # id => addNet'[i] = addNet[i]
      /\ \A i \in Txs : adding[i] # "none" => addNet'[i] = addNet[i]
  BY DEF Typed, TypeOK
<1>3. /\ \A r \in Refs : d.obj[r].net = IF r = o THEN n ELSE db.obj[r].net
      /\ Held(d) \subseteq Held(db) \cup {o}
  BY <1>1 DEF AddTx, Held, Typed, TypeOK, TxStore, TxList
<1>4. /\ \A r \in Refs : Live(r)' => r = o \/ Live(r)
      /\ \A r \in Refs : db'.obj[r].net = IF r = o THEN n ELSE db.obj[r].net
  <2> HIDE DEF d
  <2> QED BY <1>3 DEF Follows, Live, d
<1>5. \A r \in Refs : Live(r) => adding[IdOf(r)] # "none" /\ IdOf(r) \in Txs
  BY DEF OwnNetwork, Fresh, Refs, IdOf
<1> HIDE DEF o, d
<1>6. LiveOnOwn'
  BY <1>1, <1>2, <1>4, <1>5 DEF OwnNetwork, LiveOnOwn
<1>7. Fresh'
  BY <1>1, <1>4 DEF OwnNetwork, Fresh
<1>8. DiskOnOwn' /\ SentOnOwnNetwork'
  <2>1. \A s \in sent : s.id \in Txs
    BY DEF Typed, TypeOK, SentTx
  <2> QED BY <1>2, <2>1 DEF OwnNetwork, DiskOnOwn, SentOnOwnNetwork, Fresh
<1>9. SendsOnOwn'
  <2> SUFFICES ASSUME NEW p \in Procs, proc[p].pc = "send"
               PROVE  addNet'[proc[p].id] = addNet[proc[p].id]
    BY DEF OwnNetwork, SendsOnOwn
  <2>1. proc[p].ref \in Refs /\ IdOf(proc[p].ref) = proc[p].id /\ proc[p].id \in Txs
    BY DEF Typed, ProcOK
  <2>2. Live(proc[p].ref)
    BY DEF Live, Busy, Redone
  <2> QED BY <1>2, <1>5, <2>1, <2>2
<1> QED BY <1>6, <1>7, <1>8, <1>9 DEF OwnNetwork

-----------------------------------------------------------------------------
(***************************************************************************)
(* The requests.                                                           *)
(***************************************************************************)
LEMMA OwnGenerate ==
  ASSUME Typed, OwnNetwork, NEW id \in Txs, GenerateTxMeta(id)
  PROVE  OwnNetwork'
<1>1. \A r \in Refs : /\ Live(r)' => Live(r)
                      /\ Live(r) => IdOf(r) # id /\ addNet'[IdOf(r)] = addNet[IdOf(r)]
  BY DEF GenerateTxMeta, Live, Busy, Redone, OwnNetwork, Fresh, Typed, TypeOK, Refs, IdOf
<1>2. \A i \in Txs : adding'[i] = "none" => adding[i] = "none"
  BY DEF GenerateTxMeta, Typed, TypeOK
<1>3. LiveOnOwn' /\ Fresh'
  BY <1>1, <1>2 DEF GenerateTxMeta, OwnNetwork, LiveOnOwn, Fresh
<1>4. DiskOnOwn' /\ SentOnOwnNetwork'
  BY DEF GenerateTxMeta, OwnNetwork, DiskOnOwn, SentOnOwnNetwork, Fresh, Typed, TypeOK, SentTx
<1>5. SendsOnOwn'
  <2> SUFFICES ASSUME NEW p \in Procs, proc[p].pc = "send"
               PROVE  addNet'[proc[p].id] = addNet[proc[p].id]
    BY DEF GenerateTxMeta, OwnNetwork, SendsOnOwn
  <2>1. proc[p].ref \in Refs /\ IdOf(proc[p].ref) = proc[p].id /\ Live(proc[p].ref)
    BY DEF Typed, ProcOK, Live, Busy, Redone
  <2> QED BY <1>1, <2>1
<1> QED BY <1>3, <1>4, <1>5 DEF OwnNetwork

LEMMA OwnRefuse ==
  ASSUME Typed, OwnNetwork, NEW id \in Txs, RefuseRequest(id)
  PROVE  OwnNetwork'
<1>1. \A r \in Refs : Busy(r)' => Live(r)
  BY DEF RefuseRequest, Live, Busy, Redone, Typed, TypeOK
<1>2. \A i \in Txs : adding'[i] = "none" => adding[i] = "none"
  BY DEF RefuseRequest, Typed, TypeOK
<1>3. Follows(db, db', {}) /\ UNCHANGED <<proc, addNet, disk, sent>>
  BY FollowsItself DEF RefuseRequest
<1> QED BY <1>1, <1>2, <1>3, OwnKept DEF OwnNetwork, SendsOnOwn

LEMMA OwnStore ==
  ASSUME Typed, OwnNetwork, NEW id \in Txs, StoreUnapproved(id)
  PROVE  OwnNetwork'
<1> DEFINE n == addNet[id]
           m == NewTxMeta(n)
<1>1. n \in Networks /\ adding[id] = "checking" /\ addNet[id] = n
  BY DEF StoreUnapproved, Typed, AddOK
<1>2. m \in TxMeta /\ m.net = n
  BY <1>1, NewTxMetaType DEF NewTxMeta
<1>3. addNet' = [addNet EXCEPT ![id] = n]
  BY DEF StoreUnapproved, Typed, TypeOK
<1>4. \A i \in Txs : adding'[i] = "none" => i # id /\ adding[i] = "none"
  BY DEF StoreUnapproved, Typed, TypeOK
<1>5. \A r \in Refs : Busy(r)' => r = <<id, 0>> \/ Live(r)
  BY DEF StoreUnapproved, Live, Busy, Redone, Typed, TypeOK, Refs, IdOf
<1>6. Follows(AddTx(db, <<id, 0>>, m), db', {}) /\ UNCHANGED <<proc, disk, sent>>
  BY FollowsItself DEF StoreUnapproved
<1>7. \A p \in Procs : proc'[p].pc = "send" => proc'[p] = proc[p]
  BY <1>6
<1> HIDE DEF n, m
<1> QED BY <1>1, <1>2, <1>3, <1>4, <1>5, <1>6, <1>7, OwnAdded

LEMMA OwnDefaults ==
  ASSUME Typed, OwnNetwork, NEW id \in Txs, Defaults(id)
  PROVE  OwnNetwork'
<1> DEFINE o == <<id, 0>>
           m == [db.obj[o] EXCEPT !.ld = FALSE]
<1>1. o \in Refs /\ IdOf(o) = id /\ adding[id] = "defaults"
  BY CopiesAssumption DEF Refs, IdOf, Defaults, DefaultsReady, DefaultsFailed
<1>2. Live(o)
  BY <1>1 DEF Live, Busy, Redone
<1>3. m \in TxMeta /\ m.net = db.obj[o].net
  BY <1>1, ObjType, TxMetaFields DEF Typed, TypeOK, TxMeta
<1>4. db' = UpdateTx(WithTxMeta(db, o, m), o)
  BY DEF Defaults, DefaultsReady, DefaultsFailed
<1>5. Follows(db, db', {o})
  <2> HIDE DEF m, o
  <2> QED BY <1>1, <1>3, <1>4, SavedFollows DEF Typed, TypeOK
<1>6. \A r \in Refs : Busy(r)' => Live(r)
  <2>1. UNCHANGED <<ui, redo, proc>> /\ adding' = [adding EXCEPT ![id] = "done"]
    BY DEF Defaults, DefaultsReady, DefaultsFailed
  <2> QED BY <2>1 DEF Live, Busy, Redone, Typed, TypeOK
<1>7. \A i \in Txs : adding'[i] = "none" => adding[i] = "none"
  BY DEF Defaults, DefaultsReady, DefaultsFailed, Typed, TypeOK
<1>8. UNCHANGED <<proc, addNet, disk, sent>>
  BY DEF Defaults, DefaultsReady, DefaultsFailed
<1> HIDE DEF o
<1> QED BY <1>2, <1>5, <1>6, <1>7, <1>8, OwnKept DEF OwnNetwork, SendsOnOwn

-----------------------------------------------------------------------------
(***************************************************************************)
(* The windows.                                                            *)
(***************************************************************************)
LEMMA OwnOpenWindow ==
  ASSUME Typed, OwnNetwork, NEW r \in Refs, OpenWindow(r)
  PROVE  OwnNetwork'
<1> DEFINE id == IdOf(r)
           c == db.list[id]
<1>1. id \in Txs /\ c \in Refs /\ IdOf(c) = id /\ Live(c)
  BY DEF OpenWindow, Shown, GetTx, Typed, TypeOK, TxStore, TxList, Live, Held, Refs, IdOf
<1>2. /\ db'.list = db.list /\ db'.timers = db.timers
      /\ db'.obj[r].net = db.obj[c].net
      /\ \A q \in Refs : q # r => db'.obj[q].net = db.obj[q].net
  BY DEF OpenWindow, WithTxMeta, Current, Typed, TypeOK, TxStore
<1>3. \A q \in Refs : Live(q)' => q = r \/ Live(q)
  BY <1>2 DEF OpenWindow, Live, Busy, Redone, Held, Typed, TypeOK
<1> HIDE DEF id, c
<1>4. IdOf(r) = id
  BY DEF id
<1>5. LiveOnOwn'
  BY <1>1, <1>2, <1>3, <1>4 DEF OpenWindow, OwnNetwork, LiveOnOwn
<1>6. Fresh'
  BY <1>1, <1>3, <1>4 DEF OpenWindow, OwnNetwork, Fresh
<1>7. DiskOnOwn' /\ SendsOnOwn' /\ SentOnOwnNetwork'
  BY DEF OpenWindow, OwnNetwork, DiskOnOwn, SendsOnOwn, SentOnOwnNetwork
<1> QED BY <1>5, <1>6, <1>7 DEF OwnNetwork

LEMMA OwnEdit ==
  ASSUME Typed, OwnNetwork, NEW r \in Refs, UpdateTransaction(r) \/ SponsorshipAnswer(r)
  PROVE  OwnNetwork'
<1>1. Live(r)
  BY DEF UpdateTransaction, SponsorshipAnswer, Live, Busy, Redone
<1>2. Follows(db, db', {r})
  BY UpdateFollows, FollowsItself DEF UpdateTransaction, SponsorshipAnswer, Typed, TypeOK
<1>3. \A q \in Refs : Busy(q)' => Live(q)
  BY <1>1 DEF UpdateTransaction, SponsorshipAnswer, Live, Busy, Redone, Typed, TypeOK
<1>4. UNCHANGED <<proc, adding, addNet, disk, sent>>
  BY DEF UpdateTransaction, SponsorshipAnswer
<1> QED BY <1>1, <1>2, <1>3, <1>4, OwnKept DEF OwnNetwork, SendsOnOwn

LEMMA OwnCancel ==
  ASSUME Typed, OwnNetwork, NEW id \in Txs, CancelTransaction(id)
  PROVE  OwnNetwork'
<1>1. Follows(db, db', {})
  <2>1. /\ SetTxStatus(db, network, id, "rejected") \in TxStore
        /\ Follows(db, SetTxStatus(db, network, id, "rejected"), {})
    BY SetTxStatusType, SetTxStatusFollows DEF Typed, TypeOK, Statuses
  <2> QED BY <2>1, RemoveFollows, FollowsTrans DEF CancelTransaction, SetTxStatusRejected
<1>2. \A q \in Refs : Busy(q)' => Live(q)
  BY DEF CancelTransaction, Live, Busy, Redone, Typed, TypeOK
<1>3. UNCHANGED <<proc, adding, addNet, disk, sent>>
  BY DEF CancelTransaction
<1> QED BY <1>1, <1>2, <1>3, OwnKept DEF OwnNetwork, SendsOnOwn

-----------------------------------------------------------------------------
(***************************************************************************)
(* The approvals.  One that starts or goes on holds an object of the store *)
(* it found; one that ends leaves the others alone.                        *)
(***************************************************************************)
LEMMA ApproveFollows ==
  ASSUME Typed, NEW p \in Procs, NEW id \in Txs, NEW d \in TxStore,
         ApproveTransaction(p, id, d), NEW R
  PROVE  /\ Follows(d, db', R)
         /\ \A q \in Procs : \/ proc'[q] = proc[q]
                             \/ /\ proc'[q].pc = "block"
                                /\ proc'[q].ref \in Held(d)
<1>1. CASE db' = d /\ UNCHANGED signing
  BY <1>1, FollowsItself
<1>2. CASE /\ GetTx(d, network, id) # None
           /\ db' = SetTxStatus(d, network, id, "approved")
           /\ proc' = [proc EXCEPT ![p] = [IdleProc EXCEPT !.pc = "block", !.id = id,
                                                          !.ref = d.list[id]]]
  <2>1. Follows(d, db', R)
    BY <1>2, SetTxStatusFollows DEF Statuses
  <2>2. d.list[id] \in Held(d)
    BY <1>2, GetTxType DEF Held
  <2> QED BY <1>2, <2>1, <2>2 DEF IdleProc, Typed, TypeOK
<1> QED BY <1>1, <1>2 DEF ApproveTransaction

LEMMA FailFollows ==
  ASSUME Typed, NEW p \in Procs, proc[p].id \in Txs, NEW d \in TxStore,
         FailApproval(p, d), NEW R
  PROVE  /\ Follows(d, db', R)
         /\ \A q \in Procs : proc'[q].pc # "idle" => proc'[q] = proc[q]
<1>1. Follows(d, db', R)
  BY SetTxStatusFollows DEF FailApproval, SetTxStatusFailed, Statuses
<1> QED BY <1>1 DEF FailApproval, Finish, IdleProc, Typed, TypeOK

LEMMA OwnMoved ==
  ASSUME Typed, OwnNetwork, NEW R, Follows(db, db', R), \A r \in R : Live(r),
         UNCHANGED <<flows, ui, disk, sent>>,
         \A q \in Procs : proc'[q].pc # "idle" =>
           \/ proc'[q] = proc[q]
           \/ /\ Live(proc'[q].ref)
              /\ proc'[q].pc = "send" => proc'[q].asked = addNet[proc'[q].id]
  PROVE  OwnNetwork'
<1>1. \A r \in Refs : Busy(r)' => Live(r)
  <2> SUFFICES ASSUME NEW r \in Refs, Busy(r)' PROVE Live(r)
    OBVIOUS
  <2>1. ASSUME NEW q \in Procs, proc'[q].pc # "idle", proc'[q].ref = r PROVE Live(r)
    <3>1. CASE proc'[q] = proc[q]
      BY <2>1, <3>1 DEF Live, Busy, Redone
    <3> QED BY <2>1, <3>1
  <2> QED BY <2>1 DEF Live, Busy, Redone
<1>2. \A q \in Procs : proc'[q].pc = "send" => proc'[q].asked = addNet[proc'[q].id]
  BY DEF OwnNetwork, SendsOnOwn
<1> QED BY <1>1, <1>2, OwnKept

LEMMA OwnUpdateAndApprove ==
  ASSUME Typed, OwnNetwork, NEW p \in Procs, NEW r \in Refs, NEW c \in CustomNonces \cup {None},
         UpdateAndApproveTransaction(p, r, c)
  PROVE  OwnNetwork'
<1> DEFINE m == [db.obj[r] EXCEPT !.custom = c]
           d == UpdateTx(WithTxMeta(db, r, m), r)
<1>1. m \in TxMeta /\ m.net = db.obj[r].net
  BY ObjType, TxMetaFields, CustomAssumption DEF Typed, TypeOK, TxMeta
<1>2. d \in TxStore /\ Follows(db, d, {r})
  <2> HIDE DEF m
  <2> QED BY <1>1, SavedType, SavedFollows DEF Typed, TypeOK
<1>3. ApproveTransaction(p, IdOf(r), d) /\ IdOf(r) \in Txs
  BY DEF UpdateAndApproveTransaction, IdOf, Refs
<1>4. Live(r)
  BY DEF UpdateAndApproveTransaction, Live, Busy, Redone
<1> HIDE DEF d
<1>5. /\ Follows(db, db', {r})
      /\ \A q \in Procs : \/ proc'[q] = proc[q]
                          \/ /\ proc'[q].pc = "block"
                             /\ proc'[q].ref \in Held(d)
  BY <1>2, <1>3, ApproveFollows, FollowsTrans
<1>6. \A q \in Refs : q \in Held(d) => Live(q)
  BY <1>2, <1>4 DEF Follows, Live
<1>7. \A q \in Refs : Busy(q)' => Live(q)
  BY <1>5, <1>6 DEF UpdateAndApproveTransaction, Live, Busy, Redone, Typed, TypeOK
<1>8. UNCHANGED <<adding, addNet, disk, sent>>
  BY DEF UpdateAndApproveTransaction
<1>9. \A q \in Procs : proc'[q].pc = "send" => proc'[q].asked = addNet[proc'[q].id]
  BY <1>5 DEF OwnNetwork, SendsOnOwn
<1> QED BY <1>4, <1>5, <1>7, <1>8, <1>9, OwnKept

LEMMA OwnBlockAnswer ==
  ASSUME Typed, OwnNetwork, NEW p \in Procs, BlockAnswer(p) \/ TakeNonceLock(p)
  PROVE  OwnNetwork'
<1>1. CASE BlockAnswer(p)
  <2> DEFINE r == proc[p].ref
             m == [db.obj[r] EXCEPT !.chain = network]
  <2>1. r \in Refs /\ network \in Networks /\ db' = WithTxMeta(db, r, m)
    BY <1>1 DEF BlockAnswer, Typed, TypeOK, ProcOK
  <2>2. m \in TxMeta /\ m.net = db.obj[r].net
    BY <2>1, ObjType, TxMetaFields DEF Typed, TypeOK, TxMeta
  <2>3. Follows(db, db', {})
    <3> HIDE DEF m, r
    <3> QED BY <2>1, <2>2, WriteFollows DEF Typed, TypeOK
  <2>4. \A q \in Procs : proc'[q] = proc[q] \/ (proc'[q].ref = r /\ proc'[q].pc = "lock")
    BY <1>1 DEF BlockAnswer, Typed, TypeOK, ProcStates
  <2>5. Live(r)
    BY <1>1 DEF BlockAnswer, Live, Busy, Redone
  <2>6. UNCHANGED <<flows, ui, disk, sent>>
    BY <1>1 DEF BlockAnswer
  <2> HIDE DEF r
  <2> QED BY <2>3, <2>4, <2>5, <2>6, OwnMoved
<1>2. CASE TakeNonceLock(p)
  <2>1. \A q \in Procs : proc'[q] = proc[q] \/ (proc'[q].ref = proc[p].ref /\ proc'[q].pc = "count")
    BY <1>2 DEF TakeNonceLock, Typed, TypeOK, ProcStates
  <2>2. Live(proc[p].ref) /\ Follows(db, db', {}) /\ UNCHANGED <<flows, ui, disk, sent>>
    BY <1>2, FollowsItself DEF TakeNonceLock, Live, Busy, Redone
  <2> QED BY <2>1, <2>2, OwnMoved
<1> QED BY <1>1, <1>2

LEMMA OwnCount ==
  ASSUME Typed, OwnNetwork, NEW p \in Procs, Count(p)
  PROVE  OwnNetwork'
<1> DEFINE r == proc[p].ref
           id == proc[p].id
<1>1. id \in Txs /\ r \in Refs /\ Live(r)
  BY DEF Count, Typed, ProcOK, Live, Busy, Redone
<1>2. PICK count \in Nat : \E next \in NextNonce(db, network, From[id], count) :
                             CountAnswer(p, next)
  BY <1>1, FromAssumption DEF Count, CountOf, Typed, TypeOK, ProcStates
<1>3. PICK next \in Nat : CountAnswer(p, next)
  BY <1>2, NextNonceType DEF Typed
<1> DEFINE nonce == TxNonce(db.obj[r], next)
           m == [db.obj[r] EXCEPT !.nonce = nonce]
           d == UpdateTx(WithTxMeta(db, r, m), r)
           s == GetTx(d, network, id)
<1>4. nonce \in Nat \cup {None}
  BY <1>1, <1>3, ObjType DEF TxNonce, TxMeta, Typed, TypeOK
<1>5. m \in TxMeta /\ m.net = db.obj[r].net
  <2> HIDE DEF nonce
  <2> QED BY <1>1, <1>4, ObjType, TxMetaFields DEF Typed, TypeOK, TxMeta
<1>6. d \in TxStore /\ Follows(db, d, {r})
  <2> HIDE DEF m, r
  <2> QED BY <1>1, <1>5, SavedType, SavedFollows DEF Typed, TypeOK
<1>7. /\ UNCHANGED <<flows, ui, disk, sent>>
      /\ \/ /\ s # None /\ db' = d
            /\ proc' = [proc EXCEPT ![p] = [@ EXCEPT !.pc = "sign", !.ref = s,
                                              !.nonce = d.obj[s].nonce,
                                              !.chain = d.obj[s].chain]]
         \/ FailApproval(p, d)
         \/ FailApproval(p, db)
  BY <1>3 DEF CountAnswer
<1> HIDE DEF d, r, id
<1>8. CASE FailApproval(p, d) \/ FailApproval(p, db)
  <2>1. \A q \in Procs : proc'[q].pc # "idle" => proc'[q] = proc[q]
    BY <1>1, <1>6, <1>8, FailFollows DEF id, Typed, TypeOK
  <2>2. Follows(db, db', {r})
    BY <1>1, <1>6, <1>8, FailFollows, FollowsTrans DEF id, Typed, TypeOK
  <2> QED BY <1>1, <1>7, <2>1, <2>2, OwnMoved
<1>9. CASE /\ s # None /\ db' = d
           /\ proc' = [proc EXCEPT ![p] = [@ EXCEPT !.pc = "sign", !.ref = s,
                                             !.nonce = d.obj[s].nonce,
                                             !.chain = d.obj[s].chain]]
  <2>1. s \in Held(d)
    BY <1>1, <1>6, <1>9, GetTxType DEF Held
  <2>2. Live(s)
    BY <1>1, <1>6, <2>1 DEF Follows, Live
  <2> HIDE DEF s
  <2>3. \A q \in Procs : proc'[q] = proc[q] \/ (proc'[q].ref = s /\ proc'[q].pc = "sign")
    BY <1>9 DEF Typed, TypeOK, ProcStates
  <2> QED BY <1>1, <1>6, <1>7, <1>9, <2>2, <2>3, OwnMoved
<1> QED BY <1>7, <1>8, <1>9

LEMMA OwnSignAnswer ==
  ASSUME Typed, OwnNetwork, NEW p \in Procs, SignAnswer(p)
  PROVE  OwnNetwork'
<1> DEFINE r == proc[p].ref
           id == proc[p].id
           raw == [nonce |-> proc[p].nonce, chain |-> proc[p].chain]
           m == [db.obj[r] EXCEPT !.raw = raw]
           c == UpdateTx(WithTxMeta(db, r, m), r)
           d == SetTxStatus(c, network, id, "signed")
           t == GetTx(d, network, id)
<1>1. id \in Txs /\ r \in Refs /\ Live(r) /\ raw \in RawTx
  BY DEF SignAnswer, Typed, TypeOK, ProcOK, ProcStates, RawTx, Live, Busy, Redone
<1>2. m \in TxMeta /\ m.net = db.obj[r].net
  <2> HIDE DEF raw
  <2> QED BY <1>1, ObjType, TxMetaFields DEF Typed, TypeOK, TxMeta
<1>3. c \in TxStore /\ Follows(db, c, {r})
  <2> HIDE DEF m, r
  <2> QED BY <1>1, <1>2, SavedType, SavedFollows DEF Typed, TypeOK
<1>4. d \in TxStore /\ Follows(db, d, {r})
  <2> HIDE DEF c
  <2> QED BY <1>1, <1>3, SetTxStatusType, SetTxStatusFollows, FollowsTrans DEF Statuses
<1>5. /\ UNCHANGED <<flows, ui, disk, sent>>
      /\ \/ /\ t # None /\ db' = d
            /\ proc' = [proc EXCEPT ![p] = [@ EXCEPT !.pc = "send", !.ref = t,
                                              !.asked = network]]
         \/ FailApproval(p, d)
  BY DEF SignAnswer
<1> HIDE DEF d, r
<1>6. CASE FailApproval(p, d)
  <2>1. \A q \in Procs : proc'[q].pc # "idle" => proc'[q] = proc[q]
    BY <1>1, <1>4, <1>6, FailFollows
  <2>2. Follows(db, db', {r})
    BY <1>1, <1>4, <1>6, FailFollows, FollowsTrans
  <2> QED BY <1>1, <1>5, <2>1, <2>2, OwnMoved
<1>7. CASE /\ t # None /\ db' = d
           /\ proc' = [proc EXCEPT ![p] = [@ EXCEPT !.pc = "send", !.ref = t,
                                             !.asked = network]]
  <2>1. t \in Held(d) /\ t \in Refs /\ IdOf(t) = id /\ d.obj[t].net = network
    BY <1>1, <1>4, <1>7, GetTxType DEF Held
  <2>2. Live(t)
    BY <1>1, <1>4, <2>1 DEF Follows, Live
  <2>3. addNet[id] = network
    BY <1>4, <2>1, <2>2 DEF Follows, OwnNetwork, LiveOnOwn
  <2> HIDE DEF t
  <2>4. \A q \in Procs : \/ proc'[q] = proc[q]
                         \/ /\ proc'[q].ref = t /\ proc'[q].pc = "send"
                            /\ proc'[q].asked = network /\ proc'[q].id = id
    BY <1>7 DEF Typed, TypeOK, ProcStates
  <2> QED BY <1>1, <1>4, <1>5, <1>7, <2>2, <2>3, <2>4, OwnMoved
<1> QED BY <1>5, <1>6, <1>7

LEMMA OwnNodeAccepts ==
  ASSUME Typed, OwnNetwork, NEW p \in Procs, NodeAccepts(p)
  PROVE  OwnNetwork'
<1> DEFINE new == [id |-> proc[p].id, net |-> proc[p].asked,
                   raw |-> [nonce |-> proc[p].nonce, chain |-> proc[p].chain]]
<1>1. proc[p].pc = "send" /\ sent' = sent \cup {new}
      /\ UNCHANGED <<store, flows, ui, disk>>
  BY DEF NodeAccepts
<1>2. \A q \in Procs : proc'[q] = proc[q] \/ (/\ proc'[q].pc = "reply" /\ proc[q].pc # "idle"
                                              /\ proc'[q].ref = proc[q].ref
                                              /\ proc'[q].id = proc[q].id)
  BY <1>1 DEF NodeAccepts, Typed, TypeOK, ProcStates
<1>3. \A r \in Refs : Live(r)' => Live(r)
  BY <1>1, <1>2 DEF Live, Busy, Redone
<1>4. new.net = addNet[new.id] /\ adding[new.id] # "none" /\ new.id \in Txs
  <2>1. proc[p].ref \in Refs /\ IdOf(proc[p].ref) = proc[p].id /\ Live(proc[p].ref)
        /\ proc[p].id \in Txs
    BY <1>1 DEF Typed, ProcOK, Live, Busy, Redone
  <2> QED BY <1>1, <2>1 DEF OwnNetwork, SendsOnOwn, Fresh
<1> HIDE DEF new
<1>5. LiveOnOwn' /\ DiskOnOwn'
  BY <1>1, <1>3 DEF OwnNetwork, LiveOnOwn, DiskOnOwn
<1>6. SendsOnOwn'
  BY <1>1, <1>2 DEF OwnNetwork, SendsOnOwn
<1>7. Fresh' /\ SentOnOwnNetwork'
  BY <1>1, <1>3, <1>4 DEF OwnNetwork, Fresh, SentOnOwnNetwork
<1> QED BY <1>5, <1>6, <1>7 DEF OwnNetwork

LEMMA OwnSendAnswer ==
  ASSUME Typed, OwnNetwork, NEW p \in Procs, SendAnswer(p) \/ CallFailed(p)
  PROVE  OwnNetwork'
<1> DEFINE id == proc[p].id
           raw == [nonce |-> proc[p].nonce, chain |-> proc[p].chain]
           t == GetTx(db, network, id)
           m == [db.obj[t] EXCEPT !.hash = raw]
           d == WithTxMeta(db, t, m)
<1>1. id \in Txs /\ raw \in RawTx /\ UNCHANGED <<flows, ui, disk, sent>>
  BY DEF SendAnswer, CallFailed, Typed, TypeOK, ProcOK, ProcStates, RawTx
<1>2. CASE FailApproval(p, db)
  <2>1. \A q \in Procs : proc'[q].pc # "idle" => proc'[q] = proc[q]
    BY <1>1, <1>2, FailFollows DEF Typed, TypeOK
  <2>2. Follows(db, db', {})
    BY <1>1, <1>2, FailFollows DEF Typed, TypeOK
  <2> QED BY <1>1, <2>1, <2>2, OwnMoved
<1>3. CASE t # None /\ db' = SetTxStatus(d, network, id, "submitted") /\ Finish(p)
  <2>1. t \in Refs
    BY <1>1, <1>3, GetTxType DEF Typed, TypeOK
  <2>2. m \in TxMeta /\ m.net = db.obj[t].net
    <3> HIDE DEF raw, t
    <3> QED BY <1>1, <2>1, ObjType, TxMetaFields DEF Typed, TypeOK, TxMeta
  <2>3. d \in TxStore /\ Follows(db, d, {})
    <3> HIDE DEF m, t
    <3> QED BY <2>1, <2>2, WithTxMetaType, WriteFollows DEF Typed, TypeOK
  <2>4. Follows(db, db', {})
    <3> HIDE DEF d
    <3> QED BY <1>1, <1>3, <2>3, SetTxStatusFollows, FollowsTrans DEF Statuses
  <2>5. \A q \in Procs : proc'[q].pc # "idle" => proc'[q] = proc[q]
    BY <1>3 DEF Finish, IdleProc, Typed, TypeOK
  <2> QED BY <1>1, <2>4, <2>5, OwnMoved
<1> QED BY <1>2, <1>3 DEF SendAnswer, CallFailed

LEMMA OwnReplacement ==
  ASSUME Typed, OwnNetwork, NEW old \in Txs, NEW id \in Txs,
         RetryTransaction(old, id) \/ \E p \in Procs : CreateReplacement(p, old, id)
  PROVE  OwnNetwork'
<1>0. CanReplace(old, id)
  BY DEF RetryTransaction, CreateReplacement
<1>1. /\ network \in Networks
      /\ ReplacementOf(old) \in TxMeta
      /\ [ReplacementOf(old) EXCEPT !.status = "approved"] \in TxMeta
  BY <1>0, TypedReplacement
<1>2. /\ ReplacementOf(old).net = network
      /\ [ReplacementOf(old) EXCEPT !.status = "approved"].net = network
  BY DEF ReplacementOf, NewTxMeta
<1>3. /\ adding[id] = "none"
      /\ addNet' = [addNet EXCEPT ![id] = network]
      /\ \A i \in Txs : adding'[i] = "none" => i # id /\ adding[i] = "none"
      /\ UNCHANGED <<disk, sent, ui, redo>>
      /\ \A i \in Txs : adding'[i] = "defaults" => adding[i] = "defaults"
  BY <1>0 DEF CanReplace, Typed, TypeOK
<1>4. CASE RetryTransaction(old, id)
  <2>1. Follows(AddTx(db, <<id, 0>>, ReplacementOf(old)), db', {}) /\ UNCHANGED proc
    BY <1>4, FollowsItself DEF RetryTransaction
  <2>2. \A r \in Refs : Busy(r)' => r = <<id, 0>> \/ Live(r)
    BY <1>3, <2>1 DEF Live, Busy, Redone, Refs, IdOf
  <2>3. \A p \in Procs : proc'[p].pc = "send" => proc'[p] = proc[p]
    BY <2>1
  <2> QED BY <1>1, <1>2, <1>3, <2>1, <2>2, <2>3, OwnAdded
<1>5. ASSUME NEW p \in Procs, CreateReplacement(p, old, id) PROVE OwnNetwork'
  <2> DEFINE o == <<id, 0>>
             m == [ReplacementOf(old) EXCEPT !.status = "approved"]
             d == AddTx(db, o, m)
  <2>1. ApproveTransaction(p, id, d) /\ o \in Refs /\ IdOf(o) = id
    BY <1>5, CopiesAssumption DEF CreateReplacement, Refs, IdOf
  <2>2. d \in TxStore
    <3> HIDE DEF o, m
    <3> QED BY <1>1, <2>1, AddTxType DEF m, Typed, TypeOK
  <2>3. /\ Follows(d, db', {})
        /\ \A q \in Procs : \/ proc'[q] = proc[q]
                            \/ /\ proc'[q].pc = "block"
                               /\ proc'[q].ref \in Held(d)
    <3> HIDE DEF d
    <3> QED BY <2>1, <2>2, ApproveFollows
  <2>4. \A r \in Refs : r \in Held(d) => r = o \/ Live(r)
    <3> HIDE DEF m
    <3> QED BY <2>1 DEF Held, AddTx, Live, Typed, TypeOK, TxStore, TxList
  <2>5. \A r \in Refs : Busy(r)' => r = o \/ Live(r)
    <3> SUFFICES ASSUME NEW r \in Refs, Busy(r)' PROVE r = o \/ Live(r)
      OBVIOUS
    <3> HIDE DEF d
    <3>1. ASSUME NEW q \in Procs, proc'[q].pc # "idle", proc'[q].ref = r
          PROVE  r = o \/ Live(r)
      <4>1. CASE proc'[q] = proc[q]
        BY <3>1, <4>1 DEF Live, Busy, Redone
      <4> QED BY <2>3, <2>4, <3>1, <4>1
    <3>2. CASE \/ ui[r] \in {"open", "editing"} \/ Redone(r)
               \/ r = <<IdOf(r), 0>> /\ adding[IdOf(r)] = "defaults"
      BY <3>2 DEF Live, Busy, Redone
    <3> QED BY <1>3, <3>1, <3>2 DEF Busy, Redone, Refs, IdOf
  <2>6. \A q \in Procs : proc'[q].pc = "send" => proc'[q] = proc[q]
    BY <2>3
  <2> QED
    <3> HIDE DEF m
    <3> QED BY <1>1, <1>2, <1>3, <2>3, <2>5, <2>6, OwnAdded DEF m
<1> QED BY <1>4, <1>5

-----------------------------------------------------------------------------
(***************************************************************************)
(* The network, the boot clean-up and the background page.                 *)
(***************************************************************************)
LEMMA OwnSwitch ==
  ASSUME Typed, OwnNetwork, SwitchNetwork \/ \E a \in Accounts : ResetAccount(a)
  PROVE  OwnNetwork'
<1>1. UNCHANGED <<flows, ui, proc, disk, sent>>
  BY DEF SwitchNetwork, ResetAccount
<1>2. Follows(db, db', {})
  BY FollowsItself, WipeFollows DEF SwitchNetwork, ResetAccount, Typed, TypeOK
<1> QED BY <1>1, <1>2, OwnMoved

LEMMA OwnNetworkUp ==
  ASSUME Typed, OwnNetwork, NEW n \in Networks, NetworkUp(n)
  PROVE  OwnNetwork'
<1> DEFINE S == TxsByStatus(db, n, "approved")
<1>1. PICK ids \in Orders(S) : db' = FailEach(db, ids)
  BY DEF NetworkUp, BootCleanUp
<1>2. S \in SUBSET Txs /\ \A id \in S : db.list[id] \in Refs
  BY GetTxType DEF TxsByStatus, Typed, TypeOK
<1>3. Follows(db, db', {})
  <2> HIDE DEF S
  <2>1. ids \in [1 .. Cardinality(S) -> S] /\ Cardinality(S) \in Nat
    BY <1>1, <1>2, OrdersType
  <2>2. ids \in [1 .. Cardinality(S) -> Txs]
    BY <1>2, <2>1
  <2>3. \A i \in 1 .. Cardinality(S) : db.list[ids[i]] \in Refs
    BY <1>2, <2>1
  <2> QED BY <1>1, <2>1, <2>2, <2>3, FailEachFollows DEF Typed, TypeOK
<1>4. UNCHANGED <<adding, addNet, ui, proc, disk, sent>>
  BY DEF NetworkUp
<1>5. \A r \in Refs : Redone(r)' => Live(r)
  <2> SUFFICES ASSUME NEW r \in Refs, Redone(r)' PROVE Live(r)
    OBVIOUS
  <2>1. \/ Redone(r)
        \/ \E id \in TxsByStatus(db, n, "unapproved") : db.list[id] = r
    <3> SUFFICES ASSUME r \notin Entries(db, {id \in TxsByStatus(db, n, "unapproved") : Current(id).ld})
                 PROVE  Redone(r)
      BY DEF Entries
    <3>1. redo'[r] = redo[r]
      BY DEF NetworkUp, BootCleanUp, Typed, TypeOK
    <3> QED BY <3>1 DEF Redone
  <2>2. ASSUME NEW id \in TxsByStatus(db, n, "unapproved"), db.list[id] = r PROVE r \in Held(db)
    <3>1. id \in Txs /\ IdOf(r) = id
      BY <2>2, GetTxType DEF TxsByStatus, Typed, TypeOK
    <3> QED BY <2>2, <3>1 DEF Held
  <2> QED BY <2>1, <2>2 DEF Live, Busy, Redone
<1>6. \A r \in Refs : Busy(r)' => Live(r)
  BY <1>4, <1>5 DEF Live, Busy, Redone
<1> QED BY <1>3, <1>4, <1>6, OwnKept DEF OwnNetwork, SendsOnOwn

LEMMA OwnRedo ==
  ASSUME Typed, OwnNetwork, NEW r \in Refs, Redo(r)
  PROVE  OwnNetwork'
<1> DEFINE m == [db.obj[r] EXCEPT !.ld = FALSE]
           d == UpdateTx(WithTxMeta(db, r, m), r)
<1>1. m \in TxMeta /\ m.net = db.obj[r].net /\ IdOf(r) \in Txs
  BY ObjType, TxMetaFields DEF Typed, TypeOK, TxMeta, Refs, IdOf
<1>2. d \in TxStore /\ Follows(db, d, {r})
  <2> HIDE DEF m
  <2> QED BY <1>1, SavedType, SavedFollows DEF Typed, TypeOK
<1>3. Live(r) /\ UNCHANGED <<adding, addNet, ui, proc, disk, sent>>
  BY DEF Redo, RedoGas, RedoReady, RedoFailed, Live, Busy, Redone
<1>4. \A q \in Refs : Redone(q)' => Redone(q)
  BY DEF Redo, RedoGas, RedoReady, RedoFailed, Redone, Typed, TypeOK, Redoing
<1>5. \A q \in Refs : Busy(q)' => Live(q)
  BY <1>3, <1>4 DEF Live, Busy
<1>6. Follows(db, db', {r})
  <2>1. CASE RedoGas(r)
    BY <1>1, <2>1, WriteFollows DEF RedoGas, Typed, TypeOK
  <2>2. CASE RedoReady(r)
    BY <2>2, UpdateFollows DEF RedoReady, Typed, TypeOK
  <2>3. CASE RedoFailed(r)
    <3>1. db' = SetTxStatus(d, network, IdOf(r), "failed")
      BY <2>3 DEF RedoFailed, SetTxStatusFailed
    <3> HIDE DEF d
    <3> QED BY <1>1, <1>2, <3>1, SetTxStatusFollows, FollowsTrans DEF Statuses
  <2> QED BY <2>1, <2>2, <2>3 DEF Redo
<1> QED BY <1>3, <1>5, <1>6, OwnKept DEF OwnNetwork, SendsOnOwn

LEMMA OwnTimer ==
  ASSUME Typed, OwnNetwork, FireTimer
  PROVE  OwnNetwork'
<1>1. Follows(db, db', {}) /\ UNCHANGED <<flows, ui, proc, disk, sent>>
  BY RunTimerFollows DEF FireTimer, Typed, TypeOK
<1> QED BY <1>1, OwnMoved

LEMMA OwnPersist ==
  ASSUME Typed, OwnNetwork, Persist
  PROVE  OwnNetwork'
<1>1. UNCHANGED <<store, flows, ui, proc, sent>>
  BY DEF Persist
<1>2. \A id \in Txs : disk'[id] # None =>
        /\ disk'[id] = db.obj[db.list[id]]
        /\ db.list[id] \in Refs /\ IdOf(db.list[id]) = id /\ Live(db.list[id])
  BY DEF Persist, Current, Live, Held, Typed, TypeOK, TxStore, TxList
<1>3. DiskOnOwn'
  BY <1>1, <1>2 DEF OwnNetwork, DiskOnOwn, LiveOnOwn
<1>4. \A r \in Refs : Live(r)' <=> Live(r)
  BY <1>1 DEF Live, Busy, Redone
<1>5. LiveOnOwn' /\ SendsOnOwn' /\ SentOnOwnNetwork'
  BY <1>1, <1>4 DEF OwnNetwork, LiveOnOwn, SendsOnOwn, SentOnOwnNetwork
<1>6. Fresh'
  <2>1. ASSUME NEW id \in Txs, adding[id] = "none" PROVE disk'[id] = None
    BY <1>2, <2>1 DEF OwnNetwork, Fresh
  <2> QED BY <1>1, <1>4, <2>1 DEF OwnNetwork, Fresh
<1> QED BY <1>3, <1>5, <1>6 DEF OwnNetwork

LEMMA OwnRestart ==
  ASSUME Typed, OwnNetwork, Restart
  PROVE  OwnNetwork'
<1>1. UNCHANGED <<addNet, disk, sent>> /\ \A p \in Procs : proc'[p].pc = "idle"
  BY DEF Restart, IdleProc
<1>2. \A r \in Refs : Live(r)' => /\ r = <<IdOf(r), 0>> /\ disk[IdOf(r)] # None
                                  /\ db'.obj[r] = disk[IdOf(r)]
  <2> SUFFICES ASSUME NEW r \in Refs, Live(r)'
               PROVE  /\ r = <<IdOf(r), 0>> /\ disk[IdOf(r)] # None
                      /\ db'.obj[r] = disk[IdOf(r)]
    OBVIOUS
  <2>1. ~Busy(r)'
    BY <1>1 DEF Restart, Busy, Redone, NotRedone, Typed, TypeOK, UiStates, AddStates, Refs, IdOf
  <2>2. db'.timers = <<>>
    BY DEF Restart
  <2>3. db'.list[IdOf(r)] = r
    BY <2>1, <2>2 DEF Live, Held
  <2> QED BY <2>3, NoneAssumption DEF Restart, Refs, IdOf
<1>3. \A id \in Txs : adding'[id] = "none" => adding[id] = "none"
  BY DEF Restart
<1>4. \A r \in Refs : IdOf(r) \in Txs
  BY DEF Refs, IdOf
<1>5. LiveOnOwn' /\ Fresh'
  BY <1>1, <1>2, <1>3, <1>4 DEF OwnNetwork, LiveOnOwn, DiskOnOwn, Fresh
<1>6. DiskOnOwn' /\ SendsOnOwn' /\ SentOnOwnNetwork'
  BY <1>1 DEF OwnNetwork, DiskOnOwn, SendsOnOwn, SentOnOwnNetwork
<1> QED BY <1>5, <1>6 DEF OwnNetwork

-----------------------------------------------------------------------------
LEMMA InitOwn == Init => OwnNetwork
<1> SUFFICES ASSUME Init PROVE OwnNetwork
  OBVIOUS
<1>1. \A r \in Refs : ~Live(r)
  BY NoneAssumption DEF Init, Live, Busy, Redone, NotRedone, Held, IdleProc, Refs, IdOf
<1> QED BY <1>1 DEF Init, OwnNetwork, LiveOnOwn, DiskOnOwn, SendsOnOwn, Fresh,
                    SentOnOwnNetwork, IdleProc

LEMMA NextOwn == Typed /\ OwnNetwork /\ [Next]_vars => OwnNetwork'
<1> SUFFICES ASSUME Typed, OwnNetwork, [Next]_vars PROVE OwnNetwork'
  OBVIOUS
<1>1. ASSUME NEW id \in Txs, Request(id) \/ Defaults(id) PROVE OwnNetwork'
  BY <1>1, OwnGenerate, OwnRefuse, OwnStore, OwnDefaults DEF Request
<1>2. CASE User
  BY <1>2, OwnOpenWindow, OwnEdit, OwnUpdateAndApprove, OwnCancel, OwnReplacement, OwnSwitch
     DEF User
<1>3. ASSUME NEW p \in Procs, Approval(p) \/ TakeNonceLock(p) PROVE OwnNetwork'
  BY <1>3, OwnBlockAnswer, OwnCount, OwnSignAnswer, OwnNodeAccepts, OwnSendAnswer DEF Approval
<1>4. ASSUME NEW r \in Refs, SponsorshipAnswer(r) \/ Redo(r) PROVE OwnNetwork'
  BY <1>4, OwnEdit, OwnRedo
<1>5. CASE (\E n \in Networks : NetworkUp(n)) \/ FireTimer \/ Persist \/ Restart
  BY <1>5, OwnNetworkUp, OwnTimer, OwnPersist, OwnRestart
<1>6. CASE (\E n \in Networks, a \in Accounts : ChainExecutes(n, a)) \/ UNCHANGED vars
  <2>1. UNCHANGED <<flows, ui, proc, disk, sent>> /\ Follows(db, db', {})
    BY <1>6, FollowsItself DEF ChainExecutes, vars
  <2> QED BY <2>1, OwnMoved
<1> QED BY <1>1, <1>2, <1>3, <1>4, <1>5, <1>6 DEF Next

(***************************************************************************)
(* A transaction asked for on one network is never broadcast on another,   *)
(* whenever the user changes networks while it is prepared, confirmed,     *)
(* signed or sent, and whatever is restored after a restart.               *)
(***************************************************************************)
THEOREM NeverOnAnotherNetwork == Spec => []SentOnOwnNetwork
<1>1. Spec => []Typed
  BY InitTyped, NextTyped, PTL DEF Spec
<1>2. OwnNetwork => SentOnOwnNetwork
  BY DEF OwnNetwork
<1> QED BY <1>1, <1>2, InitOwn, NextOwn, PTL DEF Spec

-----------------------------------------------------------------------------
(***************************************************************************)
(* Why the dapp's answers are true.                                        *)
(*                                                                         *)
(* An object becomes "submitted" only after a node took its transaction,   *)
(* and "rejected" only as its entry leaves the list; the answer is read    *)
(* from the object when the deferred update runs, however late that is.    *)
(***************************************************************************)
Broadcast == {s.id : s \in sent}

Added(id) == adding[id] \in {"defaults", "done"}

Gone(id) == Added(id) /\ db.list[id] = None

SubmittedWasSent ==
  /\ \A r \in Refs : db.obj[r].status = "submitted" => IdOf(r) \in Broadcast
  /\ \A id \in Txs : disk[id] # None /\ disk[id].status = "submitted" => id \in Broadcast
  /\ \A p \in Procs : proc[p].pc = "reply" => proc[p].id \in Broadcast
  /\ \A id \in Txs : dapp[id] = "hash" => id \in Broadcast

RejectedIsGone ==
  crashes = 0 =>
    /\ \A id \in Txs : db.list[id] # None => Added(id)
    /\ \A r \in Refs : db.obj[r].status = "rejected" => Gone(IdOf(r))
    /\ \A id \in Txs : dapp[id] = "rejected" => Gone(id)

Truthful == SubmittedWasSent /\ RejectedIsGone

(***************************************************************************)
(* The store e came from d by writes that make only objects of the ids in  *)
(* sub submitted and only objects of the ids in rej rejected.              *)
(***************************************************************************)
Marks(d, e, sub, rej) ==
  \A r \in Refs :
    /\ e.obj[r].status = "submitted" => d.obj[r].status = "submitted" \/ IdOf(r) \in sub
    /\ e.obj[r].status = "rejected"  => d.obj[r].status = "rejected" \/ IdOf(r) \in rej

LEMMA MarksTrans ==
  ASSUME NEW d, NEW e, NEW f, NEW sub, NEW rej, Marks(d, e, sub, rej), Marks(e, f, sub, rej)
  PROVE  Marks(d, f, sub, rej)
BY DEF Marks

LEMMA SameObjectsMark ==
  ASSUME NEW d, NEW e, e.obj = d.obj, NEW sub, NEW rej
  PROVE  Marks(d, e, sub, rej)
BY DEF Marks

LEMMA WriteMarks ==
  ASSUME NEW d \in TxStore, NEW r \in Refs, NEW m \in TxMeta, NEW sub, NEW rej,
         m.status = d.obj[r].status \/ m.status \notin {"submitted", "rejected"}
  PROVE  /\ Marks(d, WithTxMeta(d, r, m), sub, rej)
         /\ Marks(d, AddTx(d, r, m), sub, rej)
         /\ Marks(d, UpdateTx(WithTxMeta(d, r, m), r), sub, rej)
<1>1. /\ WithTxMeta(d, r, m).obj = [d.obj EXCEPT ![r] = m]
      /\ AddTx(d, r, m).obj = [d.obj EXCEPT ![r] = m]
  BY DEF WithTxMeta, AddTx, TxStore
<1>2. \A e \in TxStore : UpdateTx(e, r).obj = e.obj
  BY DEF UpdateTx, TxStore
<1>3. WithTxMeta(d, r, m) \in TxStore
  BY WithTxMetaType
<1>4. d.obj \in [Refs -> TxMeta]
  BY DEF TxStore
<1> QED BY <1>1, <1>2, <1>3, <1>4 DEF Marks

LEMMA UpdateMarks ==
  ASSUME NEW d \in TxStore, NEW r, NEW sub, NEW rej
  PROVE  Marks(d, UpdateTx(d, r), sub, rej)
BY DEF Marks, UpdateTx, TxStore

LEMMA SetTxStatusMarks ==
  ASSUME NEW d \in TxStore, NEW n, NEW id \in Txs, NEW s \in Statuses, NEW sub, NEW rej,
         s = "submitted" => id \in sub, s = "rejected" => id \in rej
  PROVE  Marks(d, SetTxStatus(d, n, id, s), sub, rej)
<1> DEFINE r == GetTx(d, n, id)
<1>1. CASE r = None
  BY <1>1, SameObjectsMark DEF SetTxStatus
<1>2. CASE r # None
  <2>1. r \in Refs /\ IdOf(r) = id
    BY <1>2, GetTxType
  <2>2. SetTxStatus(d, n, id, s).obj = [d.obj EXCEPT ![r].status = s]
    BY <1>2 DEF SetTxStatus, TxStore
  <2>3. d.obj \in [Refs -> TxMeta]
    BY DEF TxStore
  <2> HIDE DEF r
  <2>4. \A q \in Refs : SetTxStatus(d, n, id, s).obj[q].status
                          = IF q = r THEN s ELSE d.obj[q].status
    BY <2>1, <2>2, <2>3 DEF TxMeta
  <2> QED BY <2>1, <2>4 DEF Marks
<1> QED BY <1>1, <1>2

LEMMA FailEachMarks ==
  ASSUME NEW d \in TxStore, NEW ids, NEW sub, NEW rej
  PROVE  Marks(d, FailEach(d, ids), sub, rej)
<1>1. FailEach(d, ids).obj = [r \in Refs |-> IF \E i \in DOMAIN ids : d.list[ids[i]] = r
                                             THEN [d.obj[r] EXCEPT !.status = "failed"]
                                             ELSE d.obj[r]]
  BY DEF FailEach, TxStore
<1>2. d.obj \in [Refs -> TxMeta]
  BY DEF TxStore
<1>3. \A r \in Refs : FailEach(d, ids).obj[r].status \in {"failed", d.obj[r].status}
  BY <1>1, <1>2 DEF TxMeta
<1> QED BY <1>3 DEF Marks

LEMMA ApproveMarks ==
  ASSUME NEW p, NEW id \in Txs, NEW d \in TxStore, ApproveTransaction(p, id, d),
         NEW sub, NEW rej
  PROVE  Marks(d, db', sub, rej)
BY SetTxStatusMarks, SameObjectsMark DEF ApproveTransaction, Statuses

LEMMA FailMarks ==
  ASSUME NEW p, proc[p].id \in Txs, NEW d \in TxStore, FailApproval(p, d), NEW sub, NEW rej
  PROVE  Marks(d, db', sub, rej)
BY SetTxStatusMarks DEF FailApproval, SetTxStatusFailed, Statuses

(* The ids whose entry this step takes out of the list. *)
Left == {id \in Txs : db.list[id] # None /\ db'.list[id] = None}

LEMMA RequestMarks ==
  ASSUME Typed, NEW id \in Txs, Request(id) \/ Defaults(id), NEW sub, NEW rej
  PROVE  Marks(db, db', sub, rej)
<1>0. db \in TxStore /\ <<id, 0>> \in Refs
  BY CopiesAssumption DEF Typed, TypeOK, Refs
<1>1. CASE GenerateTxMeta(id) \/ RefuseRequest(id)
  BY <1>1, SameObjectsMark DEF GenerateTxMeta, RefuseRequest
<1>2. CASE StoreUnapproved(id)
  <2>1. NewTxMeta(addNet[id]) \in TxMeta /\ NewTxMeta(addNet[id]).status = "unapproved"
    BY <1>2, NewTxMetaType DEF StoreUnapproved, Typed, AddOK, NewTxMeta
  <2> QED BY <1>0, <1>2, <2>1, WriteMarks DEF StoreUnapproved
<1>3. CASE Defaults(id)
  <2> DEFINE r == <<id, 0>>
             m == [db.obj[r] EXCEPT !.ld = FALSE]
  <2>1. m \in TxMeta /\ m.status = db.obj[r].status
    BY <1>0, ObjType, TxMetaFields DEF TxMeta
  <2>2. db' = UpdateTx(WithTxMeta(db, r, m), r)
    BY <1>3 DEF Defaults, DefaultsReady, DefaultsFailed
  <2> HIDE DEF m, r
  <2> QED BY <1>0, <2>1, <2>2, WriteMarks DEF r
<1> QED BY <1>1, <1>2, <1>3 DEF Request

LEMMA UserMarks ==
  ASSUME Typed, User, NEW sub
  PROVE  Marks(db, db', sub, Left)
<1>0. db \in TxStore
  BY DEF Typed, TypeOK
<1>1. ASSUME NEW r \in Refs, OpenWindow(r) PROVE Marks(db, db', sub, Left)
  <2>1. Current(IdOf(r)) \in TxMeta /\ Current(IdOf(r)).status = "unapproved"
    BY <1>0, <1>1, GetTxType, ObjType DEF OpenWindow, Shown, Current, Refs, IdOf
  <2> QED BY <1>0, <1>1, <2>1, WriteMarks DEF OpenWindow
<1>2. ASSUME NEW p \in Procs, NEW r \in Refs, NEW c \in CustomNonces \cup {None},
             UpdateAndApproveTransaction(p, r, c)
      PROVE  Marks(db, db', sub, Left)
  <2> DEFINE m == [db.obj[r] EXCEPT !.custom = c]
             d == UpdateTx(WithTxMeta(db, r, m), r)
  <2>1. m \in TxMeta /\ m.status = db.obj[r].status
    BY <1>0, ObjType, TxMetaFields, CustomAssumption DEF TxMeta
  <2>2. ApproveTransaction(p, IdOf(r), d) /\ IdOf(r) \in Txs
    BY <1>2 DEF UpdateAndApproveTransaction, Refs, IdOf
  <2>3. d \in TxStore /\ Marks(db, d, sub, Left)
    <3> HIDE DEF m
    <3> QED BY <1>0, <2>1, SavedType, WriteMarks
  <2> HIDE DEF d
  <2> QED BY <2>2, <2>3, ApproveMarks, MarksTrans
<1>3. ASSUME NEW id \in Txs, CancelTransaction(id) PROVE Marks(db, db', sub, Left)
  <2> DEFINE d == SetTxStatus(db, network, id, "rejected")
  <2>1. d \in TxStore /\ Marks(db, d, sub, {id}) /\ d.list = db.list
    <3>1. d.list = db.list
      BY <1>0 DEF SetTxStatus, TxStore
    <3> QED BY <1>0, <3>1, SetTxStatusMarks, SetTxStatusType DEF Statuses
  <2>2. db' = RemoveTx(d, id)
    BY <1>3 DEF CancelTransaction, SetTxStatusRejected
  <2>3. GetTx(db, network, id) = None => d = db
    BY DEF SetTxStatus
  <2>4. GetTx(db, network, id) # None => db.list[id] # None
    BY DEF GetTx
  <2>5. db'.obj = d.obj /\ db'.list = [d.list EXCEPT ![id] = None]
    <3> HIDE DEF d
    <3> QED BY <2>1, <2>2 DEF RemoveTx, TxStore
  <2>6. db.list \in [Txs -> Refs \cup {None}]
    BY <1>0 DEF TxStore, TxList
  <2>7. CASE GetTx(db, network, id) = None
    BY <2>3, <2>5, <2>7, SameObjectsMark
  <2>8. CASE GetTx(db, network, id) # None
    <3>1. id \in Left
      <4> HIDE DEF d
      <4> QED BY <2>1, <2>4, <2>5, <2>6, <2>8 DEF Left
    <3> HIDE DEF d
    <3> QED BY <2>1, <2>5, <3>1 DEF Marks
  <2> QED BY <2>7, <2>8
<1>4. ASSUME NEW old \in Txs, NEW id \in Txs,
             RetryTransaction(old, id) \/ \E p \in Procs : CreateReplacement(p, old, id)
      PROVE  Marks(db, db', sub, Left)
  <2> DEFINE m == [ReplacementOf(old) EXCEPT !.status = "approved"]
             d == AddTx(db, <<id, 0>>, m)
  <2>1. CanReplace(old, id) /\ <<id, 0>> \in Refs
    BY <1>4, CopiesAssumption DEF RetryTransaction, CreateReplacement, Refs
  <2>2. /\ ReplacementOf(old) \in TxMeta /\ ReplacementOf(old).status = "unapproved"
        /\ m \in TxMeta /\ m.status = "approved"
    BY <2>1, TypedReplacement DEF ReplacementOf, NewTxMeta
  <2>3. CASE RetryTransaction(old, id)
    BY <1>0, <2>1, <2>2, <2>3, WriteMarks DEF RetryTransaction
  <2>4. d \in TxStore /\ Marks(db, d, sub, Left)
    <3> HIDE DEF m
    <3> QED BY <1>0, <2>1, <2>2, AddTxType, WriteMarks
  <2>5. ASSUME NEW p \in Procs, CreateReplacement(p, old, id)
        PROVE  Marks(db, db', sub, Left)
    <3>1. ApproveTransaction(p, id, d)
      BY <2>5 DEF CreateReplacement
    <3> HIDE DEF d
    <3> QED BY <2>4, <3>1, ApproveMarks, MarksTrans
  <2> QED BY <1>4, <2>3, <2>5
<1>5. CASE SwitchNetwork \/ \E a \in Accounts : ResetAccount(a)
  <2>1. db'.obj = db.obj
    BY <1>0, <1>5 DEF SwitchNetwork, ResetAccount, WipeTransactions, TxStore
  <2> QED BY <2>1, SameObjectsMark
<1>6. ASSUME NEW r \in Refs, UpdateTransaction(r) PROVE Marks(db, db', sub, Left)
  BY <1>6, SameObjectsMark DEF UpdateTransaction
<1> QED BY <1>1, <1>2, <1>3, <1>4, <1>5, <1>6 DEF User

LEMMA ApprovalMarks ==
  ASSUME Typed, SubmittedWasSent, NEW p \in Procs, Approval(p) \/ TakeNonceLock(p), NEW rej
  PROVE  Marks(db, db', Broadcast, rej)
<1> DEFINE r == proc[p].ref
           raw == [nonce |-> proc[p].nonce, chain |-> proc[p].chain]
<1>0. db \in TxStore
  BY DEF Typed, TypeOK
<1>1. CASE TakeNonceLock(p) \/ NodeAccepts(p)
  BY <1>1, SameObjectsMark DEF TakeNonceLock, NodeAccepts
<1>2. CASE BlockAnswer(p)
  <2> DEFINE m == [db.obj[r] EXCEPT !.chain = network]
  <2>1. r \in Refs /\ network \in Networks
    BY <1>2 DEF BlockAnswer, Typed, TypeOK, ProcOK
  <2>2. m \in TxMeta /\ m.status = db.obj[r].status
    BY <1>0, <2>1, ObjType, TxMetaFields DEF TxMeta
  <2>3. db' = WithTxMeta(db, r, m)
    BY <1>2 DEF BlockAnswer
  <2> HIDE DEF m, r
  <2> QED BY <1>0, <2>1, <2>2, <2>3, WriteMarks
<1>3. CASE Count(p)
  <2>1. proc[p].id \in Txs /\ r \in Refs
    BY <1>3 DEF Count, Typed, ProcOK
  <2>2. PICK count \in Nat : \E next \in NextNonce(db, network, From[proc[p].id], count) :
                               CountAnswer(p, next)
    BY <1>3, <2>1, FromAssumption DEF Count, CountOf, Typed, TypeOK, ProcStates
  <2>3. PICK next \in Nat : CountAnswer(p, next)
    BY <2>2, NextNonceType DEF Typed
  <2> DEFINE nonce == TxNonce(db.obj[r], next)
             m == [db.obj[r] EXCEPT !.nonce = nonce]
             d == UpdateTx(WithTxMeta(db, r, m), r)
  <2>4. nonce \in Nat \cup {None}
    BY <1>0, <2>1, <2>3, ObjType DEF TxNonce, TxMeta
  <2>5. m \in TxMeta /\ m.status = db.obj[r].status
    <3> HIDE DEF nonce
    <3> QED BY <1>0, <2>1, <2>4, ObjType, TxMetaFields DEF TxMeta
  <2>6. db' = d \/ FailApproval(p, d) \/ FailApproval(p, db)
    BY <2>3 DEF CountAnswer
  <2>7. d \in TxStore /\ Marks(db, d, Broadcast, rej)
    <3> HIDE DEF m
    <3> QED BY <1>0, <2>1, <2>5, SavedType, WriteMarks
  <2> HIDE DEF d
  <2> QED BY <1>0, <2>1, <2>6, <2>7, FailMarks, MarksTrans
<1>4. CASE SignAnswer(p)
  <2> DEFINE m == [db.obj[r] EXCEPT !.raw = raw]
             d == UpdateTx(WithTxMeta(db, r, m), r)
             e == SetTxStatus(d, network, proc[p].id, "signed")
  <2>1. proc[p].id \in Txs /\ r \in Refs /\ raw \in RawTx
    BY <1>4 DEF SignAnswer, Typed, TypeOK, ProcOK, ProcStates, RawTx
  <2>2. m \in TxMeta /\ m.status = db.obj[r].status
    <3> HIDE DEF raw
    <3> QED BY <1>0, <2>1, ObjType, TxMetaFields DEF TxMeta
  <2>3. d \in TxStore /\ Marks(db, d, Broadcast, rej)
    <3> HIDE DEF m
    <3> QED BY <1>0, <2>1, <2>2, SavedType, WriteMarks
  <2>4. e \in TxStore /\ Marks(db, e, Broadcast, rej)
    <3> HIDE DEF d
    <3> QED BY <2>1, <2>3, SetTxStatusType, SetTxStatusMarks, MarksTrans DEF Statuses
  <2>5. db' = e \/ FailApproval(p, e)
    BY <1>4 DEF SignAnswer
  <2> HIDE DEF e
  <2> QED BY <2>1, <2>4, <2>5, FailMarks, MarksTrans
<1>5. CASE SendAnswer(p)
  <2> DEFINE t == GetTx(db, network, proc[p].id)
             m == [db.obj[t] EXCEPT !.hash = raw]
             d == WithTxMeta(db, t, m)
  <2>1. proc[p].id \in Txs /\ raw \in RawTx /\ proc[p].id \in Broadcast
    BY <1>5 DEF SendAnswer, Typed, TypeOK, ProcOK, ProcStates, RawTx, SubmittedWasSent
  <2>2. CASE t # None /\ db' = SetTxStatus(d, network, proc[p].id, "submitted")
    <3>1. t \in Refs
      BY <1>0, <2>1, <2>2, GetTxType
    <3>2. m \in TxMeta /\ m.status = db.obj[t].status
      <4> HIDE DEF raw, t
      <4> QED BY <1>0, <2>1, <3>1, ObjType, TxMetaFields DEF TxMeta
    <3>3. d \in TxStore /\ Marks(db, d, Broadcast, rej)
      <4> HIDE DEF m, t
      <4> QED BY <1>0, <3>1, <3>2, WithTxMetaType, WriteMarks
    <3> HIDE DEF d
    <3> QED BY <2>1, <2>2, <3>3, SetTxStatusMarks, MarksTrans DEF Statuses
  <2>3. CASE FailApproval(p, db)
    BY <1>0, <2>1, <2>3, FailMarks
  <2> QED BY <1>5, <2>2, <2>3 DEF SendAnswer
<1>6. CASE CallFailed(p)
  BY <1>0, <1>6, FailMarks DEF CallFailed, Typed, ProcOK
<1> QED BY <1>1, <1>2, <1>3, <1>4, <1>5, <1>6 DEF Approval

LEMMA NextMarks ==
  ASSUME Typed, SubmittedWasSent, Next, ~Restart
  PROVE  Marks(db, db', Broadcast, Left)
<1>0. db \in TxStore
  BY DEF Typed, TypeOK
<1>1. ASSUME NEW r \in Refs, SponsorshipAnswer(r) \/ Redo(r)
      PROVE  Marks(db, db', Broadcast, Left)
  <2> DEFINE m == [db.obj[r] EXCEPT !.ld = FALSE]
             d == UpdateTx(WithTxMeta(db, r, m), r)
  <2>1. m \in TxMeta /\ m.status = db.obj[r].status /\ IdOf(r) \in Txs
    BY <1>0, ObjType, TxMetaFields DEF TxMeta, Refs, IdOf
  <2>2. d \in TxStore /\ Marks(db, d, Broadcast, Left)
    <3> HIDE DEF m
    <3> QED BY <1>0, <2>1, SavedType, WriteMarks
  <2>3. CASE SponsorshipAnswer(r)
    BY <1>0, <2>3, UpdateMarks DEF SponsorshipAnswer
  <2>4. CASE RedoGas(r)
    <3> HIDE DEF m
    <3> QED BY <1>0, <2>1, <2>4, WriteMarks DEF RedoGas, m
  <2>5. CASE RedoReady(r)
    BY <1>0, <2>5, UpdateMarks DEF RedoReady
  <2>6. CASE RedoFailed(r)
    <3>1. db' = SetTxStatus(d, network, IdOf(r), "failed")
      BY <2>6 DEF RedoFailed, SetTxStatusFailed
    <3> HIDE DEF d
    <3> QED BY <2>1, <2>2, <3>1, SetTxStatusMarks, MarksTrans DEF Statuses
  <2> QED BY <1>1, <2>3, <2>4, <2>5, <2>6 DEF Redo
<1>2. ASSUME NEW n \in Networks, NetworkUp(n) PROVE Marks(db, db', Broadcast, Left)
  BY <1>0, <1>2, FailEachMarks DEF NetworkUp, BootCleanUp
<1>3. CASE FireTimer
  <2>1. db'.obj = db.obj
    <3>1. UpdateTx(db, Head(db.timers).ref).obj = db.obj
      BY <1>0 DEF UpdateTx, TxStore
    <3>2. UpdateTx(db, Head(db.timers).ref) \in TxStore
      BY <1>0, <1>3, RunTimerType, UpdateTxType DEF FireTimer, Timer
    <3> QED BY <1>3, <3>1, <3>2 DEF FireTimer, RunTimer, TxStore
  <2> QED BY <2>1, SameObjectsMark
<1>4. CASE Persist \/ (\E n \in Networks, a \in Accounts : ChainExecutes(n, a))
  BY <1>4, SameObjectsMark DEF Persist, ChainExecutes
<1> QED BY <1>1, <1>2, <1>3, <1>4, RequestMarks, UserMarks, ApprovalMarks DEF Next

(* A step leaves a request made, and no answer is given but from an object. *)
LEMMA NextAnswers ==
  ASSUME Typed, [Next]_vars
  PROVE  /\ \A id \in Txs : Added(id) => Added(id)'
         /\ \A id \in Txs : dapp'[id] \in {"hash", "rejected"} =>
              \/ dapp'[id] = dapp[id]
              \/ \E r \in Refs :
                   /\ IdOf(r) = id
                   /\ db'.obj[r].status = IF dapp'[id] = "hash" THEN "submitted" ELSE "rejected"
         /\ \A p \in Procs : proc'[p].pc = "reply" =>
              \/ proc[p].pc = "reply" /\ proc'[p].id = proc[p].id
              \/ \E s \in sent' : s.id = proc'[p].id
         /\ sent \subseteq sent'
         /\ crashes' \in {crashes, crashes + 1}
<1>0. /\ adding \in [Txs -> AddStates] /\ dapp \in [Txs -> Answers]
      /\ proc \in [Procs -> ProcStates] /\ crashes \in Nat
  BY DEF Typed, TypeOK
<1>1. ASSUME NEW id \in Txs, Request(id) \/ Defaults(id)
      PROVE  /\ \A i \in Txs : Added(i) => Added(i)'
             /\ \A i \in Txs : dapp'[i] \in {"hash", "rejected"} => dapp'[i] = dapp[i]
             /\ UNCHANGED <<proc, sent, crashes>>
  BY <1>0, <1>1 DEF Request, Defaults, GenerateTxMeta, RefuseRequest, StoreUnapproved,
     DefaultsReady, DefaultsFailed, Added
<1>2. ASSUME NEW old \in Txs, NEW id \in Txs, CanReplace(old, id)
      PROVE  /\ \A i \in Txs : Added(i) => Added(i)'
             /\ dapp' = dapp /\ UNCHANGED <<sent, crashes>>
  BY <1>0, <1>2 DEF CanReplace, Added
<1>3. ASSUME NEW p \in Procs, NEW id, NEW d, ApproveTransaction(p, id, d)
      PROVE  \A q \in Procs : proc'[q].pc = "reply" => proc'[q] = proc[q]
  BY <1>0, <1>3 DEF ApproveTransaction, IdleProc
<1>4. CASE User
  BY <1>2, <1>3, <1>4 DEF User, OpenWindow, UpdateTransaction, UpdateAndApproveTransaction,
     CancelTransaction, CreateReplacement, RetryTransaction, SwitchNetwork, ResetAccount, Added
<1>5. ASSUME NEW p \in Procs, NEW d, FailApproval(p, d) \/ Finish(p)
      PROVE  \A q \in Procs : proc'[q].pc = "reply" => proc'[q] = proc[q]
  BY <1>0, <1>5 DEF FailApproval, Finish, IdleProc
<1>6. ASSUME NEW p \in Procs, Approval(p) \/ TakeNonceLock(p)
      PROVE  /\ UNCHANGED <<adding, dapp, crashes>> /\ sent \subseteq sent'
             /\ \A q \in Procs : proc'[q].pc = "reply" =>
                  proc'[q] = proc[q] \/ \E s \in sent' : s.id = proc'[q].id
  <2>1. CASE NodeAccepts(p)
    <3> DEFINE new == [id |-> proc[p].id, net |-> proc[p].asked,
                       raw |-> [nonce |-> proc[p].nonce, chain |-> proc[p].chain]]
    <3>0. new.id = proc[p].id
      OBVIOUS
    <3>1. /\ proc' = [proc EXCEPT ![p].pc = "reply"]
          /\ UNCHANGED <<adding, dapp, crashes>> /\ sent' = sent \cup {new}
      BY <2>1 DEF NodeAccepts
    <3> HIDE DEF new
    <3>2. proc'[p].id = proc[p].id /\ \A q \in Procs \ {p} : proc'[q] = proc[q]
      BY <1>0, <3>1 DEF ProcStates
    <3>3. new \in sent' /\ sent \subseteq sent'
      BY <3>1
    <3> QED BY <3>0, <3>1, <3>2, <3>3
  <2>2. CASE SendAnswer(p) \/ CallFailed(p)
    BY <1>5, <2>2 DEF SendAnswer, CallFailed
  <2>3. CASE SignAnswer(p)
    <3>1. /\ UNCHANGED <<adding, dapp, crashes, sent>>
          /\ \/ \E d : FailApproval(p, d)
             \/ \E t, n : proc' = [proc EXCEPT ![p] = [@ EXCEPT !.pc = "send", !.ref = t,
                                                              !.asked = n]]
      BY <2>3 DEF SignAnswer
    <3>2. ASSUME NEW t, NEW n, proc' = [proc EXCEPT ![p] = [@ EXCEPT !.pc = "send",
                                          !.ref = t, !.asked = n]]
          PROVE  \A q \in Procs : proc'[q].pc = "reply" => proc'[q] = proc[q]
      BY <1>0, <3>2 DEF ProcStates
    <3> QED BY <1>5, <3>1, <3>2
  <2>4. CASE Count(p)
    <3>1. PICK count : \E next \in NextNonce(db, network, From[proc[p].id], count) :
                         CountAnswer(p, next)
      BY <2>4 DEF Count
    <3>2. PICK next : CountAnswer(p, next)
      BY <3>1
    <3>3. /\ UNCHANGED <<adding, dapp, crashes, sent>>
          /\ \/ \E d : FailApproval(p, d)
             \/ \E t, n, c : proc' = [proc EXCEPT ![p] = [@ EXCEPT !.pc = "sign", !.ref = t,
                                                            !.nonce = n, !.chain = c]]
      BY <3>2 DEF CountAnswer
    <3>4. ASSUME NEW t, NEW n, NEW c,
                 proc' = [proc EXCEPT ![p] = [@ EXCEPT !.pc = "sign", !.ref = t,
                                                !.nonce = n, !.chain = c]]
          PROVE  \A q \in Procs : proc'[q].pc = "reply" => proc'[q] = proc[q]
      BY <1>0, <3>4 DEF ProcStates
    <3> QED BY <1>5, <3>3, <3>4
  <2>5. CASE BlockAnswer(p) \/ TakeNonceLock(p)
    BY <1>0, <2>5 DEF BlockAnswer, TakeNonceLock, ProcStates
  <2> QED BY <1>6, <2>1, <2>2, <2>3, <2>4, <2>5 DEF Approval
<1>7. CASE FireTimer
  <2>1. Head(db.timers) \in Timer /\ RunTimer(db) \in TxStore
    BY <1>7, RunTimerType DEF FireTimer, Typed, TypeOK
  <2> DEFINE t == Head(db.timers)
  <2>2. t.ref \in Refs /\ IdOf(t.ref) \in Txs
    BY <2>1 DEF Timer, Refs, IdOf
  <2>3. db'.obj = db.obj
    <3>1. UpdateTx(db, t.ref).obj = db.obj /\ UpdateTx(db, t.ref) \in TxStore
      BY <2>2, UpdateTxType DEF UpdateTx, TxStore, Typed, TypeOK
    <3> QED BY <1>7, <3>1 DEF FireTimer, RunTimer, TxStore
  <2>4. /\ UNCHANGED <<adding, proc, sent, crashes>>
        /\ \A i \in Txs : i # IdOf(t.ref) => dapp'[i] = dapp[i]
        /\ dapp'[IdOf(t.ref)] \in {dapp[IdOf(t.ref)], AnswerFor(db.obj[t.ref].status)}
    <3> HIDE DEF t
    <3>1. /\ UNCHANGED <<adding, proc, sent, crashes>>
          /\ dapp' = [dapp EXCEPT ![IdOf(t.ref)] =
                        IF @ = "waiting" /\ t.status \in {"submitted", "rejected", "failed"}
                        THEN AnswerFor(db.obj[t.ref].status) ELSE @]
      BY <1>7 DEF FireTimer, t
    <3> QED BY <1>0, <2>2, <3>1
  <2>5. /\ AnswerFor(db.obj[t.ref].status) = "hash" => db.obj[t.ref].status = "submitted"
        /\ AnswerFor(db.obj[t.ref].status) = "rejected" => db.obj[t.ref].status = "rejected"
    <3> HIDE DEF t
    <3> QED BY DEF AnswerFor
  <2> HIDE DEF t
  <2> QED BY <2>2, <2>3, <2>4, <2>5 DEF Added
<1>8. CASE Restart
  BY <1>0, <1>8 DEF Restart, Added, IdleProc
<1>9. CASE \/ \E r \in Refs : SponsorshipAnswer(r) \/ Redo(r)
           \/ \E n \in Networks : NetworkUp(n)
           \/ Persist
           \/ \E n \in Networks, a \in Accounts : ChainExecutes(n, a)
           \/ UNCHANGED vars
  BY <1>9 DEF SponsorshipAnswer, Redo, RedoGas, RedoReady, RedoFailed, NetworkUp, Persist, ChainExecutes,
     vars, Added
<1>10. CASE \E id \in Txs : Request(id) \/ Defaults(id)
  BY <1>1, <1>10
<1>11. CASE \E p \in Procs : Approval(p) \/ TakeNonceLock(p)
  BY <1>6, <1>11 DEF Added
<1> QED BY <1>4, <1>7, <1>8, <1>9, <1>10, <1>11 DEF Next

LEMMA DiskKept ==
  ASSUME [Next]_vars, ~Persist
  PROVE  disk' = disk
<1>1. ASSUME NEW p \in Procs, NEW next, CountAnswer(p, next) PROVE disk' = disk
  BY <1>1 DEF CountAnswer
<1>2. ASSUME NEW p \in Procs, Approval(p) \/ TakeNonceLock(p) PROVE disk' = disk
  BY <1>1, <1>2 DEF Approval, TakeNonceLock, BlockAnswer, Count, SignAnswer, NodeAccepts,
     SendAnswer, CallFailed
<1>3. User => disk' = disk
  BY DEF User, OpenWindow, UpdateTransaction, UpdateAndApproveTransaction,
     CancelTransaction, CreateReplacement, RetryTransaction, CanReplace, SwitchNetwork,
     ResetAccount
<1>4. ASSUME NEW id \in Txs, Request(id) \/ Defaults(id) PROVE disk' = disk
  BY <1>4 DEF Request, Defaults, GenerateTxMeta, RefuseRequest, StoreUnapproved,
     DefaultsReady, DefaultsFailed
<1>5. ASSUME NEW r \in Refs, SponsorshipAnswer(r) \/ Redo(r) PROVE disk' = disk
  BY <1>5 DEF SponsorshipAnswer, Redo, RedoGas, RedoReady, RedoFailed
<1>6. CASE \/ \E n \in Networks : NetworkUp(n)
           \/ FireTimer \/ Restart
           \/ \E n \in Networks, a \in Accounts : ChainExecutes(n, a)
           \/ UNCHANGED vars
  BY <1>6 DEF NetworkUp, FireTimer, Restart, ChainExecutes, vars
<1> QED BY <1>2, <1>3, <1>4, <1>5, <1>6 DEF Next

LEMMA InitTruthful == Init => Truthful
BY NoneAssumption DEF Init, Truthful, SubmittedWasSent, RejectedIsGone, NewTxMeta, IdleProc

LEMMA NextTruthful == Typed /\ Truthful /\ [Next]_vars => Truthful'
<1> SUFFICES ASSUME Typed, Truthful, [Next]_vars PROVE Truthful'
  OBVIOUS
<1>0. /\ db \in TxStore /\ \A r \in Refs : IdOf(r) \in Txs
      /\ Broadcast \subseteq Broadcast' /\ crashes \in Nat
  BY NextAnswers DEF Typed, TypeOK, Refs, IdOf, Broadcast
<1>1. \A p \in Procs : proc'[p].pc = "reply" => proc'[p].id \in Broadcast'
  BY <1>0, NextAnswers DEF Truthful, SubmittedWasSent, Broadcast
<1>2. CASE Restart
  <2>1. \A r \in Refs : db'.obj[r].status = "submitted" => IdOf(r) \in Broadcast'
    <3> SUFFICES ASSUME NEW r \in Refs, db'.obj[r].status = "submitted"
                 PROVE  IdOf(r) \in Broadcast'
      OBVIOUS
    <3>1. db'.obj[r] = IF r[2] = 0 /\ disk[IdOf(r)] # None
                       THEN disk[IdOf(r)] ELSE NewTxMeta(SomeNetwork)
      BY <1>2 DEF Restart
    <3>2. disk[IdOf(r)] # None /\ disk[IdOf(r)].status = "submitted"
      BY <3>1 DEF NewTxMeta
    <3> QED BY <1>0, <3>2 DEF Truthful, SubmittedWasSent
  <2>2. disk' = disk /\ crashes' # 0 /\ \A id \in Txs : dapp'[id] = "hash" => dapp[id] = "hash"
    BY <1>0, <1>2 DEF Restart
  <2> QED BY <1>0, <1>1, <2>1, <2>2 DEF Truthful, SubmittedWasSent, RejectedIsGone
<1>3. CASE ~Restart
  <2>1. Marks(db, db', Broadcast, Left)
    <3>1. UNCHANGED vars => Marks(db, db', Broadcast, Left)
      BY SameObjectsMark DEF vars
    <3> QED BY <1>3, <3>1, NextMarks DEF Truthful
  <2>2. \A r \in Refs : db'.obj[r].status = "submitted" => IdOf(r) \in Broadcast'
    BY <1>0, <2>1 DEF Marks, Truthful, SubmittedWasSent
  <2>3. \A id \in Txs : dapp'[id] = "hash" => id \in Broadcast'
    BY <1>0, <2>2, NextAnswers DEF Truthful, SubmittedWasSent
  <2>4. \A id \in Txs : disk'[id] # None =>
           \/ disk'[id] = disk[id]
           \/ db.list[id] \in Refs /\ IdOf(db.list[id]) = id /\ disk'[id] = db.obj[db.list[id]]
    <3>1. CASE Persist
      BY <1>0, <3>1 DEF Persist, Current, TxStore, TxList
    <3>2. CASE ~Persist
      BY <1>3, <3>2, DiskKept
    <3> QED BY <3>1, <3>2
  <2>5. \A id \in Txs : disk'[id] # None /\ disk'[id].status = "submitted" => id \in Broadcast'
    BY <1>0, <2>4 DEF Truthful, SubmittedWasSent
  <2>6. RejectedIsGone'
    <3> SUFFICES ASSUME crashes' = 0
                 PROVE  /\ \A id \in Txs : db'.list[id] # None => Added(id)'
                        /\ \A r \in Refs : db'.obj[r].status = "rejected" => Gone(IdOf(r))'
                        /\ \A id \in Txs : dapp'[id] = "rejected" => Gone(id)'
      BY DEF RejectedIsGone
    <3>1. crashes = 0 /\ crashes' = crashes
      BY <1>0, NextAnswers
    <3>2. \A id \in Txs : Added(id) => Added(id)'
      BY NextAnswers
    <3>3. adding' \in [Txs -> AddStates]
      BY NextTyped DEF Typed, TypeOK
    <3>4. \A id \in Txs : db'.list[id] # None => Added(id)'
      BY <3>1, <3>2, <3>3, NextStaysRemoved DEF StaysRemoved, Truthful, RejectedIsGone, Added,
         AddStates
    <3>5. \A id \in Txs : Gone(id) => Gone(id)'
      BY <3>1, <3>2, NextStaysRemoved DEF StaysRemoved, Gone, Added
    <3>6. \A id \in Left : Gone(id)'
      BY <3>1, <3>2 DEF Left, Truthful, RejectedIsGone, Gone
    <3>7. \A r \in Refs : db'.obj[r].status = "rejected" => Gone(IdOf(r))'
      BY <1>0, <2>1, <3>1, <3>5, <3>6 DEF Marks, Truthful, RejectedIsGone
    <3>8. \A id \in Txs : dapp'[id] = "rejected" => Gone(id)'
      BY <3>1, <3>5, <3>7, NextAnswers DEF Truthful, RejectedIsGone
    <3> QED BY <3>4, <3>7, <3>8
  <2> QED BY <1>1, <2>2, <2>3, <2>5, <2>6 DEF Truthful, SubmittedWasSent
<1> QED BY <1>2, <1>3

(***************************************************************************)
(* A dapp is given a hash only of a transaction some node accepted,        *)
(* whatever restarts in between, and is told "rejected" only of one that   *)
(* left the list for good.                                                 *)
(***************************************************************************)
THEOREM DappsAreToldTheTruth == Spec => []AnswersAreTrue
<1>1. Spec => []Typed
  BY InitTyped, NextTyped, PTL DEF Spec
<1>2. Truthful => AnswersAreTrue
  BY DEF Truthful, SubmittedWasSent, RejectedIsGone, AnswersAreTrue, Broadcast, Gone
<1> QED BY <1>1, <1>2, InitTruthful, NextTruthful, PTL DEF Spec

-----------------------------------------------------------------------------
(***************************************************************************)
(* The life of a transaction that no change of network and no restart      *)
(* disturbs, while the UI shows it in one window at a time.                *)
(*                                                                         *)
(* Then one object at a time is the entry of a transaction: a copy becomes *)
(* the entry while the transaction is still unapproved, an approval works  *)
(* on the entry to its end, and a deferred update saves what is the entry  *)
(* already.  The parts below speak of one transaction each, so a step has  *)
(* to be looked at for the transaction it is about only.                   *)
(***************************************************************************)
Undisturbed == switches = 0 /\ crashes = 0

(* The deferred status updates, in any order. *)
Deferred(d) == {d.timers[i] : i \in DOMAIN d.timers}

Active(p)     == proc[p].pc # "idle"
Approving(id) == \E p \in Procs : Active(p) /\ proc[p].id = id
Working(r)    == ui[r] \in {"open", "editing"}
Present(id)   == db.list[id] # None
Untimed(id)   == \A t \in Deferred(db) : IdOf(t.ref) # id

(* Before its request is through, nothing works on the transaction. *)
RequestCalm(id) ==
  /\ adding[id] # "none" => network # Loading
  /\ adding[id] = "checking" => addNet[id] = network
  /\ adding[id] \in {"none", "checking"} => ~Present(id) /\ Untimed(id)
  /\ adding[id] # "done" =>
       /\ dapp[id] = "none"
       /\ ~Approving(id)
       /\ \A r \in Refs : IdOf(r) = id => ui[r] = "unused"
  /\ adding[id] = "defaults" =>
       /\ db.obj[<<id, 0>>].ld
       /\ Present(id) => db.list[id] = <<id, 0>> /\ Current(id).status = "unapproved"

(* An entry is of the network in use, and untouched until it is approved. *)
EntryCalm(id) ==
  Present(id) =>
    /\ Current(id).net = network
    /\ Current(id).status \in {"unapproved", "approved", "signed", "submitted", "failed"}
    /\ Current(id).status = "unapproved" => Untimed(id)

(* A copy is no entry before it is sent back, and is sent back in time. *)
WindowCalm(id) ==
  \A r \in Refs : IdOf(r) = id =>
    /\ ui[r] # "unused" => r[2] > 0
    /\ r[2] > 0 /\ ui[r] # "used" =>
         db.list[id] # r /\ \A t \in Deferred(db) : t.ref # r
    /\ Working(r) =>
         /\ db.obj[r].status = "unapproved"
         /\ db.obj[r].net = network
         /\ Present(id) => Current(id).status = "unapproved"
         /\ \A w \in Refs : IdOf(w) = id /\ Working(w) => w = r
    /\ ui[r] = "open" => Present(id)

(* An approval holds the entry, at the status it gave it. *)
ApprovalCalm(id) ==
  \A p \in Procs : Active(p) /\ proc[p].id = id =>
    /\ db.list[id] = proc[p].ref
    /\ Current(id).status = IF proc[p].pc \in {"send", "reply"} THEN "signed" ELSE "approved"
    /\ proc[p].pc \in {"count", "send", "reply"} => proc[p].asked = network

(* A deferred update is of the entry, or of one that was rejected. *)
TimerCalm(id) ==
  \A t \in Deferred(db) : IdOf(t.ref) = id =>
    /\ t.status \in {"approved", "signed", "submitted", "failed", "rejected"}
    /\ IF t.status = "rejected"
       THEN ~Present(id) /\ db.obj[t.ref].status = "rejected"
       ELSE db.list[id] = t.ref
    /\ t.status \in {"submitted", "failed"} => db.obj[t.ref].status = t.status

(* What was broadcast was broadcast by the approval, once. *)
SentCalm(id) ==
  /\ \A s \in sent : s.id = id =>
       /\ Present(id)
       /\ \/ Current(id).status \in {"submitted", "failed"}
          \/ \E p \in Procs : proc[p].pc = "reply" /\ proc[p].id = id
  /\ \A s, t \in sent : s.id = id /\ t.id = id => s = t

CalmOf(id) ==
  /\ RequestCalm(id)
  /\ EntryCalm(id)
  /\ WindowCalm(id)
  /\ ApprovalCalm(id)
  /\ TimerCalm(id)
  /\ SentCalm(id)

Calm == (\A r \in Refs : redo[r] = NotRedone) /\ \A id \in Txs : CalmOf(id)

(***************************************************************************)
(* The step leaves the transaction alone; deferred updates of it may run.  *)
(***************************************************************************)
Apart(id) ==
  /\ db'.list[id] = db.list[id]
  /\ \A r \in Refs : IdOf(r) = id => db'.obj[r] = db.obj[r] /\ ui'[r] = ui[r]
  /\ \A t \in Deferred(db') : IdOf(t.ref) = id => t \in Deferred(db)
  /\ adding'[id] = adding[id] /\ addNet'[id] = addNet[id] /\ dapp'[id] = dapp[id]
  /\ \A p \in Procs :
       (Active(p) /\ proc[p].id = id) \/ (Active(p)' /\ proc'[p].id = id)
         => proc'[p] = proc[p]
  /\ \A s : s.id = id => (s \in sent' <=> s \in sent)

LEMMA DeferredType ==
  ASSUME Typed
  PROVE  \A t \in Deferred(db) : t \in Timer /\ t.ref \in Refs /\ IdOf(t.ref) \in Txs
<1>1. db.timers \in Seq(Timer)
  BY DEF Typed, TypeOK, TxStore
<1>2. \A i \in DOMAIN db.timers : db.timers[i] \in Timer
  BY <1>1
<1> QED BY <1>2 DEF Deferred, Timer, Refs, IdOf

LEMMA ApartKeepsEntry ==
  ASSUME Typed, NEW id \in Txs, Apart(id)
  PROVE  /\ Present(id)' <=> Present(id)
         /\ Present(id) => Current(id)' = Current(id)
         /\ StatusOf(id)' = StatusOf(id)
         /\ Approving(id)' <=> Approving(id)
         /\ \A r \in Refs : IdOf(r) = id => (Working(r)' <=> Working(r))
         /\ Untimed(id) => Untimed(id)'
<1>1. db.list[id] # None => db.list[id] \in Refs /\ IdOf(db.list[id]) = id
  BY DEF Typed, TypeOK, TxStore, TxList
<1>2. Present(id)' <=> Present(id)
  BY DEF Apart, Present
<1>3. Present(id) => Current(id)' = Current(id)
  BY <1>1 DEF Apart, Present, Current
<1>4. StatusOf(id)' = StatusOf(id)
  BY <1>2, <1>3 DEF StatusOf, Present
<1>5. Approving(id)' <=> Approving(id)
  BY DEF Apart, Approving, Active
<1>6. \A r \in Refs : IdOf(r) = id => (Working(r)' <=> Working(r))
  BY DEF Apart, Working
<1>7. Untimed(id) => Untimed(id)'
  BY DEF Apart, Untimed
<1> QED BY <1>2, <1>3, <1>4, <1>5, <1>6, <1>7

LEMMA ApartStaysCalm ==
  ASSUME Typed, NEW id \in Txs, CalmOf(id), Apart(id), network' = network
  PROVE  CalmOf(id)'
<1>1. RequestCalm(id)'
  <2>1. <<id, 0>> \in Refs /\ IdOf(<<id, 0>>) = id
    BY CopiesAssumption DEF Refs, IdOf
  <2> QED BY <2>1, ApartKeepsEntry DEF CalmOf, RequestCalm, Apart, Present
<1>2. EntryCalm(id)'
  BY ApartKeepsEntry DEF CalmOf, EntryCalm
<1>3. WindowCalm(id)'
  BY ApartKeepsEntry DEF CalmOf, WindowCalm, Apart
<1>4. ApprovalCalm(id)'
  <2> SUFFICES ASSUME NEW p \in Procs, Active(p)', proc'[p].id = id
               PROVE  /\ db'.list[id] = proc'[p].ref
                      /\ Current(id)'.status = IF proc'[p].pc \in {"send", "reply"}
                                               THEN "signed" ELSE "approved"
                      /\ proc'[p].pc \in {"count", "send", "reply"} => proc'[p].asked = network'
    BY DEF ApprovalCalm
  <2>1. proc'[p] = proc[p] /\ db'.list[id] = db.list[id]
    BY DEF Apart
  <2>2. proc[p].ref # None
    BY <2>1, NoneAssumption DEF Active, Typed, ProcOK
  <2>3. db.list[id] = proc[p].ref
    BY <2>1 DEF CalmOf, ApprovalCalm, Active
  <2>4. Current(id)' = Current(id)
    BY <2>2, <2>3, ApartKeepsEntry DEF Present
  <2> QED BY <2>1, <2>4 DEF CalmOf, ApprovalCalm, Active
<1>5. TimerCalm(id)'
  <2> SUFFICES ASSUME NEW t \in Deferred(db'), IdOf(t.ref) = id
               PROVE  /\ t.status \in {"approved", "signed", "submitted", "failed", "rejected"}
                      /\ IF t.status = "rejected"
                         THEN ~Present(id)' /\ db'.obj[t.ref].status = "rejected"
                         ELSE db'.list[id] = t.ref
                      /\ t.status \in {"submitted", "failed"} => db'.obj[t.ref].status = t.status
    BY DEF TimerCalm
  <2>1. t \in Deferred(db) /\ db'.list[id] = db.list[id]
    BY DEF Apart
  <2>2. t.ref \in Refs
    BY <2>1, DeferredType
  <2>3. db'.obj[t.ref] = db.obj[t.ref]
    BY <2>2 DEF Apart
  <2> QED BY <2>1, <2>3 DEF CalmOf, TimerCalm, Present
<1>6. SentCalm(id)'
  <2>1. \A s \in sent' : s.id = id => s \in sent
    BY DEF Apart
  <2>2. \A p \in Procs : proc[p].pc = "reply" /\ proc[p].id = id
                           => proc'[p].pc = "reply" /\ proc'[p].id = id
    BY DEF Apart, Active
  <2> QED BY <2>1, <2>2, ApartKeepsEntry DEF CalmOf, SentCalm
<1> QED BY <1>1, <1>2, <1>3, <1>4, <1>5, <1>6 DEF CalmOf

-----------------------------------------------------------------------------
(***************************************************************************)
(* The store e came from d by writing the object r, giving its id the      *)
(* entry l, and deferring updates among T: what every operation does.      *)
(***************************************************************************)
Change(d, e, r, l, m, T) ==
  /\ e.list = [d.list EXCEPT ![IdOf(r)] = l]
  /\ e.obj = [d.obj EXCEPT ![r] = m]
  /\ Deferred(e) \subseteq Deferred(d) \cup T

LEMMA ChangeTrans ==
  ASSUME NEW d \in TxStore, NEW e, NEW f, NEW r \in Refs, NEW l, NEW m, NEW T,
         NEW k, NEW n, NEW U, Change(d, e, r, l, m, T), Change(e, f, r, k, n, U)
  PROVE  Change(d, f, r, k, n, T \cup U)
BY DEF Change, TxStore, TxList

LEMMA WriteChange ==
  ASSUME NEW d \in TxStore, NEW r \in Refs, NEW m
  PROVE  Change(d, WithTxMeta(d, r, m), r, d.list[IdOf(r)], m, {})
BY DEF Change, WithTxMeta, TxStore, TxList, Deferred

LEMMA AddChange ==
  ASSUME NEW d \in TxStore, NEW r \in Refs, NEW m
  PROVE  Change(d, AddTx(d, r, m), r, r, m, {})
BY DEF Change, AddTx, TxStore, TxList, Deferred

LEMMA UpdateChange ==
  ASSUME NEW d \in TxStore, NEW r \in Refs
  PROVE  Change(d, UpdateTx(d, r), r, IF d.list[IdOf(r)] = None THEN None ELSE r, d.obj[r], {})
BY DEF Change, UpdateTx, TxStore, TxList, Deferred, Refs, IdOf

LEMMA SaveChange ==
  ASSUME NEW d \in TxStore, NEW r \in Refs, NEW m \in TxMeta
  PROVE  Change(d, UpdateTx(WithTxMeta(d, r, m), r), r,
                IF d.list[IdOf(r)] = None THEN None ELSE r, m, {})
<1> DEFINE e == WithTxMeta(d, r, m)
           f == UpdateTx(e, r)
<1>1. e \in TxStore /\ e.list = d.list /\ e.obj[r] = m
  BY WithTxMetaType DEF WithTxMeta, TxStore
<1>2. Change(d, e, r, d.list[IdOf(r)], m, {})
  BY WriteChange
<1> HIDE DEF e
<1>3. Change(e, f, r, IF d.list[IdOf(r)] = None THEN None ELSE r, m, {})
  BY <1>1, UpdateChange
<1>4. Change(d, f, r, IF d.list[IdOf(r)] = None THEN None ELSE r, m, {} \cup {})
  <2> HIDE DEF f
  <2> QED BY <1>2, <1>3, ChangeTrans
<1> QED BY <1>4 DEF e

LEMMA AppendDefers ==
  ASSUME NEW S, NEW s \in Seq(S), NEW t \in S
  PROVE  {Append(s, t)[i] : i \in DOMAIN Append(s, t)} = {s[i] : i \in DOMAIN s} \cup {t}
<1> DEFINE a == Append(s, t)
<1>1. /\ a \in Seq(S) /\ Len(a) = Len(s) + 1 /\ Len(s) \in Nat
      /\ \A i \in 1 .. Len(s) : a[i] = s[i]
      /\ a[Len(s) + 1] = t
  OBVIOUS
<1>2. DOMAIN a = 1 .. (Len(s) + 1) /\ DOMAIN s = 1 .. Len(s)
  BY <1>1
<1>3. 1 .. (Len(s) + 1) = (1 .. Len(s)) \cup {Len(s) + 1}
  BY <1>1
<1> HIDE DEF a
<1> QED BY <1>1, <1>2, <1>3 DEF a

LEMMA StatusChange ==
  ASSUME NEW d \in TxStore, NEW r \in Refs, NEW s \in Statuses,
         d.list[IdOf(r)] = r, NEW n, d.obj[r].net = n
  PROVE  /\ Change(d, SetTxStatus(d, n, IdOf(r), s), r, r, [d.obj[r] EXCEPT !.status = s],
                   {[ref |-> r, status |-> s]})
         /\ Deferred(SetTxStatus(d, n, IdOf(r), s)) = Deferred(d) \cup {[ref |-> r, status |-> s]}
<1> DEFINE e == SetTxStatus(d, n, IdOf(r), s)
           t == [ref |-> r, status |-> s]
<1>1. GetTx(d, n, IdOf(r)) = r /\ r # None
  BY NoneAssumption DEF GetTx
<1>2. /\ e.list = d.list
      /\ e.obj = [d.obj EXCEPT ![r].status = s]
      /\ e.timers = Append(d.timers, t)
  BY <1>1 DEF SetTxStatus, TxStore
<1>3. t \in Timer /\ d.timers \in Seq(Timer)
  BY DEF Timer, TxStore
<1>4. Deferred(e) = Deferred(d) \cup {t}
  <2> HIDE DEF e, t
  <2> QED BY <1>2, <1>3, AppendDefers DEF Deferred
<1>5. d.list = [d.list EXCEPT ![IdOf(r)] = r]
  BY DEF TxStore, TxList
<1>6. e.obj = [d.obj EXCEPT ![r] = [d.obj[r] EXCEPT !.status = s]]
  BY <1>2
<1> HIDE DEF e
<1> QED BY <1>2, <1>4, <1>5, <1>6 DEF Change, e

LEMMA RejectChange ==
  ASSUME NEW d \in TxStore, NEW r \in Refs, d.list[IdOf(r)] = r, NEW n, d.obj[r].net = n
  PROVE  Change(d, SetTxStatusRejected(d, n, IdOf(r)), r, None,
                [d.obj[r] EXCEPT !.status = "rejected"], {[ref |-> r, status |-> "rejected"]})
<1> DEFINE e == SetTxStatus(d, n, IdOf(r), "rejected")
<1>1. Change(d, e, r, r, [d.obj[r] EXCEPT !.status = "rejected"],
             {[ref |-> r, status |-> "rejected"]})
  BY StatusChange DEF Statuses
<1>2. IdOf(r) \in Txs /\ e \in TxStore
  BY SetTxStatusType DEF Statuses, Refs, IdOf
<1> HIDE DEF e
<1>3. /\ RemoveTx(e, IdOf(r)).list = [e.list EXCEPT ![IdOf(r)] = None]
      /\ RemoveTx(e, IdOf(r)).obj = e.obj /\ RemoveTx(e, IdOf(r)).timers = e.timers
  BY <1>2 DEF RemoveTx, TxStore
<1>4. Deferred(RemoveTx(e, IdOf(r))) = Deferred(e)
  BY <1>3 DEF Deferred
<1>5. [e.list EXCEPT ![IdOf(r)] = None] = [d.list EXCEPT ![IdOf(r)] = None]
  BY <1>1, <1>2 DEF Change, TxStore, TxList
<1> QED BY <1>1, <1>3, <1>4, <1>5 DEF Change, SetTxStatusRejected, e

(***************************************************************************)
(* What a change leaves alone, and what it makes of its own transaction.   *)
(***************************************************************************)
LEMMA ChangeElsewhere ==
  ASSUME NEW d \in TxStore, NEW e, NEW r \in Refs, NEW l, NEW m, NEW T,
         Change(d, e, r, l, m, T), \A t \in T : t.ref = r
  PROVE  /\ e.list[IdOf(r)] = l
         /\ e.obj[r] = m
         /\ \A q \in Refs : q # r => e.obj[q] = d.obj[q]
         /\ \A id \in Txs : id # IdOf(r) => e.list[id] = d.list[id]
         /\ \A t \in Deferred(e) : t \in Deferred(d) \/ t \in T
         /\ \A id \in Txs : id # IdOf(r) =>
              /\ \A q \in Refs : IdOf(q) = id => e.obj[q] = d.obj[q]
              /\ \A t \in Deferred(e) : IdOf(t.ref) = id => t \in Deferred(d)
BY DEF Change, TxStore, TxList, Refs, IdOf
-----------------------------------------------------------------------------
(***************************************************************************)
(* A step about one transaction, which takes its status along.             *)
(***************************************************************************)
Others(id) == \A j \in Txs \ {id} : Apart(j)

Step(id, from, to) ==
  /\ Others(id)
  /\ CalmOf(id)'
  /\ StatusOf(id) \in from
  /\ StatusOf(id)' = to
  /\ network' = network
  /\ redo' = redo

LEMMA StepStaysCalm ==
  ASSUME Typed, Calm, NEW id \in Txs, NEW from, NEW to, Step(id, from, to)
  PROVE  /\ Calm'
         /\ \A j \in Txs \ {id} : StatusOf(j)' = StatusOf(j) /\ dapp'[j] = dapp[j]
<1>1. \A j \in Txs \ {id} : CalmOf(j)'
  BY ApartStaysCalm DEF Step, Others, Calm
<1>2. \A j \in Txs \ {id} : StatusOf(j)' = StatusOf(j) /\ dapp'[j] = dapp[j]
  BY ApartKeepsEntry DEF Step, Others, Apart
<1> QED BY <1>1, <1>2 DEF Step, Calm

(* A step that does nothing at all, as seen by the transactions. *)
LEMMA IdleApart ==
  ASSUME UNCHANGED <<db, ui, adding, addNet, dapp, proc, sent>>
  PROVE  \A id \in Txs : Apart(id)
BY DEF Apart

(* What a transaction with no store step keeps of its calm. *)
LEMMA QuietStep ==
  ASSUME NEW id \in Txs, CalmOf(id), UNCHANGED <<db, ui, proc, sent, network>>,
         RequestCalm(id)'
  PROVE  CalmOf(id)' /\ StatusOf(id)' = StatusOf(id)
<1>1. StatusOf(id)' = StatusOf(id) /\ Deferred(db)' = Deferred(db)
  BY DEF StatusOf, Current, Deferred
<1>2. EntryCalm(id)' /\ WindowCalm(id)' /\ ApprovalCalm(id)' /\ TimerCalm(id)' /\ SentCalm(id)'
  BY <1>1 DEF CalmOf, EntryCalm, WindowCalm, ApprovalCalm, TimerCalm, SentCalm,
     Present, Current, Active, Working, Untimed
<1> QED BY <1>1, <1>2 DEF CalmOf

LEMMA CalmGenerate ==
  ASSUME Typed, Calm, NEW id \in Txs, GenerateTxMeta(id)
  PROVE  Step(id, {"absent"}, "absent") /\ dapp' = dapp
<1>1. /\ adding[id] = "none" /\ network # Loading
      /\ adding'[id] = "checking" /\ addNet'[id] = network
      /\ \A j \in Txs \ {id} : adding'[j] = adding[j] /\ addNet'[j] = addNet[j]
      /\ UNCHANGED <<db, ui, proc, sent, network, redo, dapp>>
  BY DEF GenerateTxMeta, Typed, TypeOK
<1>2. Others(id)
  BY <1>1 DEF Others, Apart
<1>3. CalmOf(id)
  BY DEF Calm
<1>4. RequestCalm(id)'
  BY <1>1, <1>3 DEF CalmOf, RequestCalm, Present, Untimed, Approving, Active, Deferred
<1>5. StatusOf(id) = "absent"
  BY <1>1, <1>3 DEF CalmOf, RequestCalm, Present, StatusOf
<1> QED BY <1>1, <1>2, <1>3, <1>4, <1>5, QuietStep DEF Step

LEMMA CalmRefuse ==
  ASSUME Typed, Calm, NEW id \in Txs, RefuseRequest(id)
  PROVE  /\ Step(id, {"absent"}, "absent")
         /\ dapp[id] = "none" /\ dapp' = [dapp EXCEPT ![id] = dapp'[id]]
         /\ dapp'[id] \in {"none", "error"}
<1>1. /\ adding[id] = "checking" /\ adding'[id] = "done"
      /\ \A j \in Txs \ {id} : adding'[j] = adding[j] /\ dapp'[j] = dapp[j]
      /\ UNCHANGED <<db, ui, proc, sent, network, redo, addNet>>
      /\ dapp' = [dapp EXCEPT ![id] = dapp'[id]] /\ dapp'[id] \in {"none", "error"}
  BY DEF RefuseRequest, Typed, TypeOK
<1>2. Others(id)
  BY <1>1 DEF Others, Apart
<1>3. CalmOf(id)
  BY DEF Calm
<1>4. RequestCalm(id)' /\ dapp[id] = "none"
  BY <1>1, <1>3 DEF CalmOf, RequestCalm
<1>5. StatusOf(id) = "absent"
  BY <1>1, <1>3 DEF CalmOf, RequestCalm, Present, StatusOf
<1> QED BY <1>1, <1>2, <1>3, <1>4, <1>5, QuietStep DEF Step

(* The new object of a transaction that nothing works on yet. *)
LEMMA AddedCalm ==
  ASSUME Typed, Calm, NEW id \in Txs, adding[id] \in {"none", "checking"},
         adding'[id] \in {"defaults", "done"}, NEW m \in TxMeta,
         Change(db, db', <<id, 0>>, <<id, 0>>, m, {}),
         m.status = "unapproved", m.net = network, network # Loading,
         adding'[id] = "defaults" => m.ld,
         \A j \in Txs \ {id} : adding'[j] = adding[j] /\ addNet'[j] = addNet[j],
         UNCHANGED <<ui, proc, sent, network, redo, dapp>>
  PROVE  Step(id, {"absent"}, "unapproved")
<1> DEFINE r == <<id, 0>>
<1>0. r \in Refs /\ IdOf(r) = id /\ r[2] = 0 /\ r # None
  BY CopiesAssumption, NoneAssumption DEF Refs, IdOf
<1>a. Change(db, db', r, r, m, {}) /\ db \in TxStore
  BY DEF Typed, TypeOK
<1> HIDE DEF r
<1>1. /\ db'.list[id] = r /\ db'.obj[r] = m
      /\ \A q \in Refs : q # r => db'.obj[q] = db.obj[q]
      /\ \A t \in Deferred(db') : t \in Deferred(db)
      /\ \A j \in Txs : j # id =>
           /\ db'.list[j] = db.list[j]
           /\ \A q \in Refs : IdOf(q) = j => db'.obj[q] = db.obj[q]
           /\ \A t \in Deferred(db') : IdOf(t.ref) = j => t \in Deferred(db)
  BY <1>0, <1>a, ChangeElsewhere
<1>2. Others(id)
  BY <1>1 DEF Others, Apart
<1>3. CalmOf(id) /\ ~Present(id) /\ Untimed(id) /\ dapp[id] = "none" /\ ~Approving(id)
      /\ \A q \in Refs : IdOf(q) = id => ui[q] = "unused"
  BY DEF Calm, CalmOf, RequestCalm
<1>4. Present(id)' /\ Current(id)' = m
  BY <1>0, <1>1 DEF Present, Current
<1>5. Untimed(id)'
  BY <1>1, <1>3 DEF Untimed
<1>6. ~Approving(id)'
  BY <1>3 DEF Approving, Active
<1>7. RequestCalm(id)'
  BY <1>1, <1>3, <1>4, <1>6 DEF RequestCalm, r
<1>8. EntryCalm(id)'
  BY <1>4, <1>5 DEF EntryCalm
<1>9. WindowCalm(id)'
  BY <1>0, <1>1, <1>3, <1>5 DEF WindowCalm, Working, Untimed
<1>10. ApprovalCalm(id)' /\ TimerCalm(id)'
  BY <1>5, <1>6 DEF ApprovalCalm, TimerCalm, Approving, Untimed
<1>11. SentCalm(id)'
  BY <1>3 DEF SentCalm, CalmOf
<1>12. StatusOf(id) = "absent" /\ StatusOf(id)' = "unapproved"
  BY <1>3, <1>4 DEF StatusOf, Present
<1> QED BY <1>2, <1>7, <1>8, <1>9, <1>10, <1>11, <1>12 DEF Step, CalmOf

LEMMA CalmStore ==
  ASSUME Typed, Calm, NEW id \in Txs, StoreUnapproved(id)
  PROVE  Step(id, {"absent"}, "unapproved") /\ dapp' = dapp
<1> DEFINE m == NewTxMeta(addNet[id])
<1>1. adding[id] = "checking" /\ addNet[id] = network /\ network \in Networks /\ network # Loading
  BY NetworkAssumption DEF StoreUnapproved, Calm, CalmOf, RequestCalm, Typed, TypeOK
<1>2. m \in TxMeta /\ m.status = "unapproved" /\ m.net = network /\ m.ld
  BY <1>1, NewTxMetaType DEF NewTxMeta
<1>3. Change(db, db', <<id, 0>>, <<id, 0>>, m, {})
  <2>1. <<id, 0>> \in Refs
    BY CopiesAssumption DEF Refs
  <2> QED BY <2>1, AddChange DEF StoreUnapproved, Typed, TypeOK
<1>4. /\ adding'[id] = "defaults"
      /\ \A j \in Txs \ {id} : adding'[j] = adding[j] /\ addNet'[j] = addNet[j]
      /\ UNCHANGED <<ui, proc, sent, network, redo, dapp>>
  BY DEF StoreUnapproved, Typed, TypeOK
<1> HIDE DEF m
<1> QED BY <1>1, <1>2, <1>3, <1>4, AddedCalm

(* A step that writes an object but no status, and makes no new entry. *)
LEMMA TouchedCalm ==
  ASSUME Typed, NEW r \in Refs, NEW id \in Txs, IdOf(r) = id, CalmOf(id),
         NEW m \in TxMeta, m.status = db.obj[r].status, m.net = db.obj[r].net,
         Change(db, db', r, db.list[id], m, {}),
         UNCHANGED <<ui, sent, network>>,
         \A p \in Procs : proc[p].pc = "reply" => proc'[p] = proc[p]
  PROVE  /\ EntryCalm(id)' /\ WindowCalm(id)' /\ TimerCalm(id)' /\ SentCalm(id)'
         /\ StatusOf(id)' = StatusOf(id)
         /\ db'.list = db.list
         /\ Present(id) => Current(id)' = IF db.list[id] = r THEN m ELSE Current(id)
         /\ Untimed(id) => Untimed(id)'
         /\ \A j \in Txs \ {id} :
              /\ \A q \in Refs : IdOf(q) = j => db'.obj[q] = db.obj[q]
              /\ \A t \in Deferred(db') : IdOf(t.ref) = j => t \in Deferred(db)
<1>0. db \in TxStore /\ db.list[id] \in Refs \cup {None}
  BY DEF Typed, TypeOK, TxStore, TxList
<1>1. /\ db'.list = db.list /\ db'.obj[r] = m
      /\ \A q \in Refs : q # r => db'.obj[q] = db.obj[q]
      /\ \A t \in Deferred(db') : t \in Deferred(db)
  <2>1. db'.list = db.list
    BY <1>0 DEF Change, TxStore, TxList
  <2> QED BY <1>0, <2>1, ChangeElsewhere
<1>2. \A q \in Refs : db'.obj[q].status = db.obj[q].status /\ db'.obj[q].net = db.obj[q].net
  BY <1>1
<1>3. Present(id)' <=> Present(id)
  BY <1>1 DEF Present
<1>4. Present(id) => Current(id)' = (IF db.list[id] = r THEN m ELSE Current(id))
  BY <1>0, <1>1 DEF Present, Current
<1>5. Present(id) => /\ Current(id)'.status = Current(id).status
                     /\ Current(id)'.net = Current(id).net
  BY <1>4 DEF Current
<1>6. Untimed(id) => Untimed(id)'
  BY <1>1 DEF Untimed
<1>7. EntryCalm(id)'
  BY <1>3, <1>5, <1>6 DEF CalmOf, EntryCalm
<1>8. WindowCalm(id)'
  BY <1>1, <1>2, <1>3, <1>5 DEF CalmOf, WindowCalm, Working
<1>9. TimerCalm(id)'
  BY <1>1, <1>2, <1>3, DeferredType DEF CalmOf, TimerCalm
<1>10. SentCalm(id)'
  BY <1>3, <1>5 DEF CalmOf, SentCalm
<1>11. StatusOf(id)' = StatusOf(id)
  BY <1>3, <1>5 DEF StatusOf, Present
<1>12. \A j \in Txs \ {id} :
              /\ \A q \in Refs : IdOf(q) = j => db'.obj[q] = db.obj[q]
              /\ \A t \in Deferred(db') : IdOf(t.ref) = j => t \in Deferred(db)
  BY <1>1
<1> QED BY <1>1, <1>4, <1>6, <1>7, <1>8, <1>9, <1>10, <1>11, <1>12

LEMMA CalmDefaults ==
  ASSUME Typed, Calm, NEW id \in Txs, Defaults(id)
  PROVE  /\ Step(id, {"absent", "unapproved"}, StatusOf(id))
         /\ dapp[id] = "none" /\ dapp' = [dapp EXCEPT ![id] = dapp'[id]]
         /\ dapp'[id] \in {"none", "waiting", "error"}
<1> DEFINE r == <<id, 0>>
           m == [db.obj[r] EXCEPT !.ld = FALSE]
<1>0. r \in Refs /\ IdOf(r) = id
  BY CopiesAssumption DEF Refs, IdOf
<1>1. /\ adding[id] = "defaults" /\ adding'[id] = "done"
      /\ db' = UpdateTx(WithTxMeta(db, r, m), r)
      /\ \A j \in Txs \ {id} : adding'[j] = adding[j] /\ dapp'[j] = dapp[j]
      /\ UNCHANGED <<ui, proc, sent, network, redo, addNet>>
      /\ dapp' = [dapp EXCEPT ![id] = dapp'[id]]
      /\ dapp'[id] \in {"none", "waiting", "error"}
  BY DEF Defaults, DefaultsReady, DefaultsFailed, Typed, TypeOK
<1>2. CalmOf(id) /\ dapp[id] = "none" /\ ~Approving(id) /\ network # Loading
      /\ (Present(id) => db.list[id] = r /\ Current(id).status = "unapproved")
  BY <1>1 DEF Calm, CalmOf, RequestCalm
<1>3. m \in TxMeta /\ m.status = db.obj[r].status /\ m.net = db.obj[r].net
  BY <1>0, ObjType, TxMetaFields DEF Typed, TypeOK, TxMeta
<1>4. Change(db, db', r, db.list[id], m, {})
  <2>1. db.list[id] = IF db.list[IdOf(r)] = None THEN None ELSE r
    BY <1>0, <1>2 DEF Present
  <2> HIDE DEF m, r
  <2> QED BY <1>0, <1>1, <1>3, <2>1, SaveChange DEF Typed, TypeOK
<1> HIDE DEF m, r
<1>5. /\ EntryCalm(id)' /\ WindowCalm(id)' /\ TimerCalm(id)' /\ SentCalm(id)'
      /\ StatusOf(id)' = StatusOf(id) /\ db'.list = db.list
      /\ \A j \in Txs \ {id} :
              /\ \A q \in Refs : IdOf(q) = j => db'.obj[q] = db.obj[q]
              /\ \A t \in Deferred(db') : IdOf(t.ref) = j => t \in Deferred(db)
  BY <1>0, <1>1, <1>2, <1>3, <1>4, TouchedCalm
<1>6. Others(id)
  BY <1>1, <1>5 DEF Others, Apart
<1>7. RequestCalm(id)'
  BY <1>1, <1>2 DEF RequestCalm
<1>8. ApprovalCalm(id)'
  BY <1>1, <1>2 DEF ApprovalCalm, Approving, Active
<1>9. StatusOf(id) \in {"absent", "unapproved"}
  BY <1>2 DEF StatusOf, Present
<1> QED BY <1>1, <1>2, <1>5, <1>6, <1>7, <1>8, <1>9 DEF Step, CalmOf

-----------------------------------------------------------------------------
(***************************************************************************)
(* The windows.                                                            *)
(***************************************************************************)
LEMMA ShownCalm ==
  ASSUME Typed, NEW id \in Txs, CalmOf(id)
  PROVE  /\ Present(id) => /\ GetTx(db, network, id) = db.list[id]
                           /\ db.list[id] \in Refs /\ IdOf(db.list[id]) = id
                           /\ Current(id) \in TxMeta /\ db.list[id] # None
                           /\ Current(id) = db.obj[db.list[id]]
         /\ Shown(id) <=> Present(id) /\ Current(id).status = "unapproved"
<1>1. Present(id) => /\ db.list[id] \in Refs /\ IdOf(db.list[id]) = id
                     /\ Current(id) \in TxMeta
  BY DEF Present, Current, Typed, TypeOK, TxStore, TxList
<1> QED BY <1>1 DEF CalmOf, EntryCalm, Present, Current, GetTx, Shown

LEMMA CalmOpenWindow ==
  ASSUME Typed, Calm, ~MultiWindow, NEW r \in Refs, OpenWindow(r)
  PROVE  Step(IdOf(r), {"unapproved"}, "unapproved") /\ dapp' = dapp
<1> DEFINE id == IdOf(r)
           c == Current(id)
<1>0. id \in Txs /\ db \in TxStore
  BY DEF Refs, IdOf, Typed, TypeOK
<1> HIDE DEF id
<1>1. CalmOf(id) /\ IdOf(r) = id
  BY <1>0 DEF Calm, id
<1>2. /\ r[2] > 0 /\ ui[r] = "unused" /\ Shown(id) /\ ~c.ld
      /\ \A w \in Refs : IdOf(w) = id /\ w[2] > 0 => ~Working(w)
      /\ db' = WithTxMeta(db, r, c)
      /\ ui'[r] = "open" /\ \A q \in Refs : q # r => ui'[q] = ui[q]
      /\ UNCHANGED <<adding, addNet, redo, proc, sent, network, dapp>>
  BY DEF OpenWindow, Windows, Working, id, Typed, TypeOK
<1>3. /\ Present(id) /\ c.status = "unapproved" /\ c \in TxMeta /\ c = db.obj[db.list[id]]
      /\ db.list[id] \in Refs /\ c.net = network
  BY <1>0, <1>1, <1>2, ShownCalm DEF CalmOf, EntryCalm
<1>4. db.list[id] # r /\ Untimed(id)
  BY <1>1, <1>2, <1>3 DEF CalmOf, WindowCalm, EntryCalm
<1>5. adding[id] = "done"
  BY <1>0, <1>1, <1>2, <1>3 DEF CalmOf, RequestCalm, Present, Typed, TypeOK, AddStates
<1> HIDE DEF c
<1>6. Change(db, db', r, db.list[id], c, {})
  BY <1>0, <1>1, <1>2, WriteChange
<1>7. /\ db'.list[id] = db.list[id] /\ db'.obj[r] = c
      /\ \A q \in Refs : q # r => db'.obj[q] = db.obj[q]
      /\ \A t \in Deferred(db') : t \in Deferred(db)
      /\ \A j \in Txs : j # id => db'.list[j] = db.list[j]
  <2>1. \A t \in {} : t.ref = r
    OBVIOUS
  <2> QED BY <1>0, <1>1, <1>6, <2>1, ChangeElsewhere
<1>8. Others(id)
  BY <1>1, <1>2, <1>7 DEF Others, Apart
<1>9. Present(id)' /\ Current(id)' = c
  BY <1>3, <1>4, <1>7 DEF Present, Current, c
<1>10. Untimed(id)'
  BY <1>4, <1>7 DEF Untimed
<1>11. RequestCalm(id)'
  BY <1>1, <1>2, <1>5 DEF RequestCalm, CalmOf
<1>12. EntryCalm(id)'
  BY <1>2, <1>3, <1>9, <1>10 DEF EntryCalm
<1>13. WindowCalm(id)'
  <2>2. \A w \in Refs : IdOf(w) = id /\ Working(w)' => w = r
    BY <1>1, <1>2 DEF Working, CalmOf, WindowCalm
  <2> QED BY <1>1, <1>2, <1>3, <1>4, <1>7, <1>9, <1>10, <2>2
          DEF WindowCalm, CalmOf, Working, Untimed
<1>14. ApprovalCalm(id)' /\ TimerCalm(id)' /\ SentCalm(id)'
  BY <1>1, <1>2, <1>3, <1>7, <1>9, <1>10
     DEF ApprovalCalm, TimerCalm, SentCalm, CalmOf, Active, Untimed, c
<1>15. StatusOf(id) = "unapproved" /\ StatusOf(id)' = "unapproved"
  BY <1>3, <1>9 DEF StatusOf, Present, c
<1> QED BY <1>1, <1>2, <1>8, <1>11, <1>12, <1>13, <1>14, <1>15 DEF Step, CalmOf

(* A transaction the user has not approved yet. *)
LEMMA UnapprovedCalm ==
  ASSUME Typed, NEW id \in Txs, CalmOf(id), Present(id), Current(id).status = "unapproved"
  PROVE  /\ Untimed(id)
         /\ ~Approving(id)
         /\ \A s \in sent : s.id # id
         /\ adding[id] \in {"defaults", "done"}
         /\ network # Loading
<1>1. Untimed(id)
  BY DEF CalmOf, EntryCalm
<1>2. ~Approving(id)
  BY DEF CalmOf, ApprovalCalm, Approving
<1>3. \A s \in sent : s.id # id
  BY <1>2 DEF CalmOf, SentCalm, Approving, Active
<1>4. adding[id] \in {"defaults", "done"}
  BY DEF CalmOf, RequestCalm, Typed, TypeOK, AddStates
<1> QED BY <1>1, <1>2, <1>3, <1>4 DEF CalmOf, RequestCalm

LEMMA CalmEdit ==
  ASSUME Typed, Calm, NEW r \in Refs, UpdateTransaction(r)
  PROVE  Step(IdOf(r), {StatusOf(IdOf(r))}, StatusOf(IdOf(r))) /\ dapp' = dapp
<1> DEFINE id == IdOf(r)
<1>0. id \in Txs
  BY DEF Refs, IdOf
<1> HIDE DEF id
<1>1. CalmOf(id) /\ IdOf(r) = id
  BY <1>0 DEF Calm, id
<1>2. /\ ui[r] = "open" /\ ui'[r] = "editing" /\ \A q \in Refs : q # r => ui'[q] = ui[q]
      /\ UNCHANGED <<db, adding, addNet, redo, proc, sent, network, dapp>>
  BY DEF UpdateTransaction, Typed, TypeOK
<1>3. Others(id)
  BY <1>1, <1>2 DEF Others, Apart
<1>4. \A w \in Refs : Working(w)' <=> Working(w)
  BY <1>2 DEF Working
<1>5. RequestCalm(id)'
  BY <1>1, <1>2 DEF CalmOf, RequestCalm, Present, Current, Untimed, Deferred, Approving, Active
<1>6. WindowCalm(id)'
  BY <1>1, <1>2, <1>4 DEF CalmOf, WindowCalm, Present, Current, Deferred
<1>7. /\ EntryCalm(id)' /\ ApprovalCalm(id)' /\ TimerCalm(id)' /\ SentCalm(id)'
      /\ StatusOf(id)' = StatusOf(id)
  BY <1>1, <1>2 DEF CalmOf, EntryCalm, ApprovalCalm, TimerCalm, SentCalm, Present, Current,
     Untimed, Deferred, Active, StatusOf
<1> QED BY <1>1, <1>2, <1>3, <1>5, <1>6, <1>7 DEF Step, CalmOf

LEMMA CalmSponsorship ==
  ASSUME Typed, Calm, NEW r \in Refs, SponsorshipAnswer(r)
  PROVE  Step(IdOf(r), {StatusOf(IdOf(r))}, StatusOf(IdOf(r))) /\ dapp' = dapp
<1> DEFINE id == IdOf(r)
           l == IF db.list[id] = None THEN None ELSE r
<1>0. id \in Txs /\ db \in TxStore /\ r # None
  BY NoneAssumption DEF Refs, IdOf, Typed, TypeOK
<1> HIDE DEF id
<1>1. CalmOf(id) /\ IdOf(r) = id
  BY <1>0 DEF Calm, id
<1>2. /\ ui[r] = "editing" /\ ui'[r] = "used" /\ \A q \in Refs : q # r => ui'[q] = ui[q]
      /\ db' = UpdateTx(db, r)
      /\ UNCHANGED <<adding, addNet, redo, proc, sent, network, dapp>>
  BY DEF SponsorshipAnswer, Typed, TypeOK
<1>3. /\ Working(r) /\ db.obj[r].status = "unapproved" /\ db.obj[r].net = network
      /\ Present(id) => Current(id).status = "unapproved"
      /\ r[2] > 0 /\ ui[r] # "used"
      /\ \A w \in Refs : IdOf(w) = id /\ Working(w) => w = r
  BY <1>1, <1>2 DEF CalmOf, WindowCalm, Working
<1>4. Change(db, db', r, l, db.obj[r], {})
  BY <1>0, <1>1, <1>2, UpdateChange
<1> HIDE DEF l
<1>5. /\ db'.list[id] = l
      /\ \A q \in Refs : db'.obj[q] = db.obj[q]
      /\ \A t \in Deferred(db') : t \in Deferred(db)
      /\ \A j \in Txs : j # id => db'.list[j] = db.list[j]
  <2>1. \A t \in {} : t.ref = r
    OBVIOUS
  <2> QED BY <1>0, <1>1, <1>4, <2>1, ChangeElsewhere
<1>6. Others(id)
  BY <1>1, <1>2, <1>5 DEF Others, Apart
<1>7. /\ Present(id)' <=> Present(id)
      /\ Present(id) => db'.list[id] = r /\ Current(id)' = db.obj[r]
      /\ ~Present(id) => db'.list[id] = None /\ db.list[id] = None
  BY <1>0, <1>5 DEF Present, Current, l
<1>8. Present(id) => /\ Untimed(id) /\ ~Approving(id) /\ \A s \in sent : s.id # id
  BY <1>0, <1>1, <1>3, UnapprovedCalm
<1>9. adding[id] = "done"
  BY <1>0, <1>1, <1>2 DEF CalmOf, RequestCalm, Typed, TypeOK, AddStates
<1>10. RequestCalm(id)'
  BY <1>1, <1>2, <1>9 DEF RequestCalm, CalmOf
<1>11. Untimed(id) => Untimed(id)'
  BY <1>5 DEF Untimed
<1>12. EntryCalm(id)'
  BY <1>2, <1>3, <1>7, <1>8, <1>11 DEF EntryCalm
<1>13. WindowCalm(id)'
  <2>1. \A w \in Refs : IdOf(w) = id => ~Working(w)'
    BY <1>2, <1>3 DEF Working
  <2>2. \A w \in Refs : IdOf(w) = id /\ w[2] > 0 /\ ui'[w] # "used" =>
          /\ w # r /\ db.list[id] # w
          /\ \A t \in Deferred(db') : t.ref # w
    BY <1>1, <1>2, <1>5 DEF CalmOf, WindowCalm
  <2>3. \A w \in Refs : IdOf(w) = id => (ui'[w] # "unused" => w[2] > 0) /\ ui'[w] # "open"
    BY <1>1, <1>2, <1>3, <2>1 DEF CalmOf, WindowCalm, Working
  <2>4. db'.list[id] = db.list[id] \/ db'.list[id] = r
    BY <1>7
  <2> QED BY <2>1, <2>2, <2>3, <2>4 DEF WindowCalm
<1>14. ApprovalCalm(id)'
  <2>1. CASE Present(id)
    BY <1>2, <1>8, <2>1 DEF ApprovalCalm, Approving, Active
  <2>2. CASE ~Present(id)
    BY <1>0, <1>1, <1>2, <1>7, <2>2, NoneAssumption DEF CalmOf, ApprovalCalm, Active, Typed, ProcOK
  <2> QED BY <2>1, <2>2
<1>15. TimerCalm(id)'
  <2>1. CASE Present(id)
    BY <1>8, <1>11, <2>1 DEF TimerCalm, Untimed
  <2>2. CASE ~Present(id)
    BY <1>1, <1>5, <1>7, <2>2, DeferredType DEF CalmOf, TimerCalm
  <2> QED BY <2>1, <2>2
<1>16. SentCalm(id)'
  <2>1. CASE Present(id)
    BY <1>2, <1>8, <2>1 DEF SentCalm
  <2>2. CASE ~Present(id)
    BY <1>1, <1>2, <2>2 DEF CalmOf, SentCalm
  <2> QED BY <2>1, <2>2
<1>17. StatusOf(id)' = StatusOf(id)
  BY <1>3, <1>7 DEF StatusOf, Present
<1> QED BY <1>1, <1>2, <1>6, <1>10, <1>12, <1>13, <1>14, <1>15, <1>16, <1>17 DEF Step, CalmOf

LEMMA CalmCancel ==
  ASSUME Typed, Calm, ~MultiWindow, NEW id \in Txs, CancelTransaction(id)
  PROVE  Step(id, {"unapproved"}, "absent") /\ dapp' = dapp
<1> DEFINE r == db.list[id]
           m == [db.obj[r] EXCEPT !.status = "rejected"]
           T == {[ref |-> r, status |-> "rejected"]}
<1>0. CalmOf(id) /\ db \in TxStore
  BY DEF Calm, Typed, TypeOK
<1>1. Present(id) /\ Current(id).status = "unapproved"
  <2>1. CASE Shown(id)
    BY <1>0, <2>1, ShownCalm
  <2>2. ASSUME NEW w \in Windows(id), ui[w] = "open" PROVE Present(id) /\ Current(id).status = "unapproved"
    BY <1>0, <2>2 DEF Windows, CalmOf, WindowCalm, Working
  <2> QED BY <2>1, <2>2 DEF CancelTransaction
<1>2. /\ r \in Refs /\ IdOf(r) = id /\ db.obj[r].net = network /\ db.obj[r] \in TxMeta
  BY <1>0, <1>1, ShownCalm DEF CalmOf, EntryCalm
<1>3. Untimed(id) /\ ~Approving(id) /\ (\A s \in sent : s.id # id)
      /\ adding[id] \in {"defaults", "done"}
  BY <1>0, <1>1, UnapprovedCalm
<1>4. /\ db' = SetTxStatusRejected(db, network, IdOf(r))
      /\ \A q \in Refs : ui'[q] = IF IdOf(q) = id /\ ui[q] = "open" THEN "used" ELSE ui[q]
      /\ UNCHANGED <<adding, addNet, redo, proc, sent, network, dapp>>
  BY <1>2 DEF CancelTransaction
<1>5. Change(db, db', r, None, m, T) /\ \A t \in T : t.ref = r
  BY <1>0, <1>2, <1>4, RejectChange
<1>6. m.status = "rejected" /\ m.ld = db.obj[r].ld
  BY <1>2 DEF TxMeta
<1>c. db.list[id] = r
  OBVIOUS
<1>d. \A t \in T : t.ref = r /\ t.status = "rejected"
  OBVIOUS
<1> HIDE DEF r, m, T
<1>7. /\ db'.list[id] = None /\ db'.obj[r] = m
      /\ \A q \in Refs : q # r => db'.obj[q] = db.obj[q]
      /\ \A t \in Deferred(db') : t \in Deferred(db) \/ t \in T
      /\ \A j \in Txs : j # id => db'.list[j] = db.list[j]
  BY <1>0, <1>2, <1>5, ChangeElsewhere
<1>8. Others(id)
  BY <1>2, <1>4, <1>5, <1>7 DEF Others, Apart
<1>9. ~Present(id)' /\ EntryCalm(id)'
  BY <1>7 DEF Present, EntryCalm
<1>10. RequestCalm(id)'
  <2>1. <<id, 0>> \in Refs
    BY CopiesAssumption DEF Refs
  <2>2. ~Approving(id)'
    BY <1>3, <1>4 DEF Approving, Active
  <2> QED BY <1>0, <1>2, <1>3, <1>4, <1>6, <1>7, <1>9, <2>1, <2>2 DEF CalmOf, RequestCalm
<1>11. WindowCalm(id)'
  <2>1. \A q \in Refs : IdOf(q) = id /\ q[2] > 0 /\ ui[q] # "used" =>
          /\ q # r
          /\ \A t \in Deferred(db') : t.ref # q
    BY <1>0, <1>c, <1>d, <1>3, <1>7 DEF CalmOf, WindowCalm, Untimed
  <2>2. \A q \in Refs : IdOf(q) = id => /\ (Working(q)' => Working(q))
                                        /\ ui'[q] # "open"
                                        /\ (ui'[q] # "used" => ui[q] # "used")
                                        /\ (ui'[q] # "unused" => ui[q] # "unused")
    BY <1>4 DEF Working
  <2>3. \A q \in Refs : IdOf(q) = id /\ Working(q) => q # r
    BY <1>0, <2>1 DEF CalmOf, WindowCalm, Working
  <2>4. \A q \in Refs : q # None
    BY NoneAssumption
  <2> QED BY <1>0, <1>4, <1>7, <1>9, <2>1, <2>2, <2>3, <2>4 DEF CalmOf, WindowCalm
<1>12. ApprovalCalm(id)' /\ SentCalm(id)'
  BY <1>3, <1>4 DEF ApprovalCalm, SentCalm, Approving, Active
<1>13. TimerCalm(id)'
  BY <1>d, <1>3, <1>6, <1>7, <1>9 DEF TimerCalm, Untimed
<1>14. StatusOf(id) = "unapproved" /\ StatusOf(id)' = "absent"
  BY <1>1, <1>7 DEF StatusOf, Present
<1> QED BY <1>4, <1>8, <1>9, <1>10, <1>11, <1>12, <1>13, <1>14 DEF Step, CalmOf
-----------------------------------------------------------------------------
(***************************************************************************)
(* The approvals.                                                          *)
(***************************************************************************)
LEMMA NotInProcess ==
  ASSUME Exclusive, NEW id, ~Approving(id)
  PROVE  id \notin inProcess
BY DEF Exclusive, OneApprovalPerTx, Approving, Active

(* An approval starts: the object it was started with becomes the entry. *)
LEMMA ApprovedCalm ==
  ASSUME Typed, Exclusive, Calm, NEW p \in Procs, proc[p].pc = "idle",
         NEW r \in Refs, NEW id \in Txs, IdOf(r) = id,
         NEW d \in TxStore, NEW m \in TxMeta, Change(db, d, r, r, m, {}),
         m.net = network, network # Loading,
         ApproveTransaction(p, id, d),
         Untimed(id), ~Approving(id), \A s \in sent : s.id # id,
         adding'[id] = "done",
         \A q \in Refs : IdOf(q) = id => /\ ~Working(q)'
                                         /\ ui'[q] # "unused" => q[2] > 0
                                         /\ q[2] > 0 /\ ui'[q] # "used" => q # r,
         \A q \in Refs : IdOf(q) # id => ui'[q] = ui[q],
         \A j \in Txs \ {id} : adding'[j] = adding[j] /\ addNet'[j] = addNet[j],
         UNCHANGED <<sent, network, redo, dapp>>
  PROVE  Others(id) /\ CalmOf(id)' /\ StatusOf(id)' = "approved"
<1> DEFINE n == [m EXCEPT !.status = "approved"]
           T == {[ref |-> r, status |-> "approved"]}
           k == [IdleProc EXCEPT !.pc = "block", !.id = id, !.ref = r]
<1>0. db \in TxStore /\ r # None
  BY NoneAssumption DEF Typed, TypeOK
<1>1. d.list[id] = r /\ d.obj[r] = m
  <2>1. \A t \in {} : t.ref = r
    OBVIOUS
  <2> QED BY <1>0, <2>1, ChangeElsewhere
<1>2. GetTx(d, network, id) = r
  BY <1>0, <1>1 DEF GetTx
<1>3. /\ db' = SetTxStatus(d, network, id, "approved")
      /\ proc' = [proc EXCEPT ![p] = k]
  BY <1>0, <1>1, <1>2, NotInProcess DEF ApproveTransaction
<1>4. Change(d, db', r, r, n, T)
  BY <1>1, <1>3, StatusChange DEF Statuses
<1>5. Change(db, db', r, r, n, {} \cup T)
  <2> HIDE DEF n, T
  <2> QED BY <1>0, <1>4, ChangeTrans
<1>6. /\ n.status = "approved" /\ n.net = network
      /\ \A t \in {} \cup T : t.ref = r /\ t.status = "approved"
      /\ k.pc = "block" /\ k.id = id /\ k.ref = r
  BY DEF TxMeta, IdleProc
<1> HIDE DEF n, T, k
<1>7. /\ db'.list[id] = r /\ db'.obj[r] = n
      /\ \A q \in Refs : q # r => db'.obj[q] = db.obj[q]
      /\ \A t \in Deferred(db') : t \in Deferred(db) \/ t \in {} \cup T
      /\ \A j \in Txs : j # id => db'.list[j] = db.list[j]
  BY <1>0, <1>5, <1>6, ChangeElsewhere
<1>8. /\ proc'[p] = k /\ \A q \in Procs : q # p => proc'[q] = proc[q]
  BY <1>3 DEF Typed, TypeOK, Active
<1>9. Others(id)
  <2> SUFFICES ASSUME NEW j \in Txs, j # id PROVE Apart(j)
    BY DEF Others
  <2>1. \A q \in Procs :
          (Active(q) /\ proc[q].id = j) \/ (Active(q)' /\ proc'[q].id = j)
            => proc'[q] = proc[q]
    BY <1>6, <1>8 DEF Active
  <2> QED BY <1>6, <1>7, <2>1 DEF Apart
<1>10. Present(id)' /\ Current(id)' = n
  BY <1>0, <1>7 DEF Present, Current
<1>11. RequestCalm(id)'
  BY DEF RequestCalm
<1>12. EntryCalm(id)'
  BY <1>6, <1>10 DEF EntryCalm
<1>13. WindowCalm(id)'
  <2>1. \A t \in Deferred(db') : IdOf(t.ref) = id => t.ref = r
    BY <1>6, <1>7 DEF Untimed
  <2> QED BY <1>7, <1>10, <2>1 DEF WindowCalm
<1>14. ApprovalCalm(id)'
  BY <1>6, <1>7, <1>8, <1>10 DEF ApprovalCalm, Approving, Active
<1>15. TimerCalm(id)'
  BY <1>6, <1>7 DEF TimerCalm, Untimed
<1>16. SentCalm(id)'
  BY DEF SentCalm
<1>17. StatusOf(id)' = "approved"
  BY <1>6, <1>7, <1>0, <1>10 DEF StatusOf
<1> QED BY <1>9, <1>11, <1>12, <1>13, <1>14, <1>15, <1>16, <1>17 DEF CalmOf

LEMMA CalmUpdateAndApprove ==
  ASSUME Typed, Exclusive, Calm, NEW p \in Procs, NEW r \in Refs,
         NEW c \in CustomNonces \cup {None}, UpdateAndApproveTransaction(p, r, c)
  PROVE  Step(IdOf(r), {"unapproved"}, "approved") /\ dapp' = dapp
<1> DEFINE id == IdOf(r)
           m == [db.obj[r] EXCEPT !.custom = c]
           d == UpdateTx(WithTxMeta(db, r, m), r)
<1>0. id \in Txs /\ db \in TxStore
  BY DEF Refs, IdOf, Typed, TypeOK
<1>1. CalmOf(id)
  BY <1>0 DEF Calm
<1>2. /\ ui[r] = "open" /\ ui'[r] = "used" /\ \A q \in Refs : q # r => ui'[q] = ui[q]
      /\ proc[p].pc = "idle" /\ ApproveTransaction(p, id, d)
      /\ UNCHANGED <<adding, addNet, redo, sent, network, dapp>>
  BY DEF UpdateAndApproveTransaction, Typed, TypeOK
<1>3. /\ Present(id) /\ Current(id).status = "unapproved" /\ db.obj[r].net = network
      /\ \A w \in Refs : IdOf(w) = id /\ Working(w) => w = r
      /\ \A w \in Refs : IdOf(w) = id => (ui[w] # "unused" => w[2] > 0)
  BY <1>1, <1>2 DEF CalmOf, WindowCalm, Working
<1>4. /\ Untimed(id) /\ ~Approving(id) /\ (\A s \in sent : s.id # id)
      /\ network # Loading
  BY <1>0, <1>1, <1>3, UnapprovedCalm
<1>5. adding[id] = "done"
  BY <1>0, <1>1, <1>2 DEF CalmOf, RequestCalm, Typed, TypeOK, AddStates
<1>6. m \in TxMeta /\ m.net = network
  BY <1>0, <1>3, ObjType, TxMetaFields, CustomAssumption DEF TxMeta
<1>7. d \in TxStore /\ Change(db, d, r, r, m, {})
  <2>1. db.list[IdOf(r)] # None
    BY <1>3 DEF Present
  <2> HIDE DEF m
  <2>2. Change(db, d, r, IF db.list[IdOf(r)] = None THEN None ELSE r, m, {})
    BY <1>0, <1>6, SaveChange
  <2> QED BY <1>0, <1>6, <2>1, <2>2, SavedType
<1>8. \A q \in Refs : IdOf(q) = id => /\ ~Working(q)'
                                      /\ ui'[q] # "unused" => q[2] > 0
                                      /\ q[2] > 0 /\ ui'[q] # "used" => q # r
  BY <1>2, <1>3 DEF Working
<1>9. StatusOf(id) = "unapproved"
  BY <1>3 DEF StatusOf, Present
<1> HIDE DEF m, d
<1>10. Others(id) /\ CalmOf(id)' /\ StatusOf(id)' = "approved"
  BY <1>0, <1>2, <1>4, <1>5, <1>6, <1>7, <1>8, ApprovedCalm
<1> QED BY <1>2, <1>9, <1>10 DEF Step

(* A replacement is the wallet's own new transaction. *)
LEMMA ReplacementCalm ==
  ASSUME Typed, Calm, NEW old \in Txs, NEW id \in Txs, CanReplace(old, id)
  PROVE  /\ adding[id] = "none" /\ adding'[id] = "done"
         /\ network \in Networks /\ network # Loading
         /\ \A j \in Txs \ {id} : adding'[j] = adding[j] /\ addNet'[j] = addNet[j]
         /\ UNCHANGED <<ui, sent, network, redo, dapp>>
         /\ CalmOf(id) /\ StatusOf(id) = "absent"
         /\ Untimed(id) /\ ~Approving(id) /\ (\A s \in sent : s.id # id)
         /\ \A q \in Refs : IdOf(q) = id => ui[q] = "unused"
<1>1. /\ adding[id] = "none" /\ adding'[id] = "done"
      /\ \A j \in Txs \ {id} : adding'[j] = adding[j] /\ addNet'[j] = addNet[j]
      /\ UNCHANGED <<ui, sent, network, redo, dapp>>
  BY DEF CanReplace, Typed, TypeOK
<1>2. network \in Networks /\ network # Loading
  BY TypedReplacement, NetworkAssumption DEF Loading
<1>3. CalmOf(id)
  BY DEF Calm
<1>4. /\ Untimed(id) /\ ~Approving(id) /\ (\A s \in sent : s.id # id) /\ ~Present(id)
      /\ \A q \in Refs : IdOf(q) = id => ui[q] = "unused"
  BY <1>1, <1>3 DEF CalmOf, RequestCalm, SentCalm
<1> QED BY <1>1, <1>2, <1>3, <1>4 DEF StatusOf, Present

LEMMA CalmCreateReplacement ==
  ASSUME Typed, Exclusive, Calm, NEW p \in Procs, NEW old \in Txs, NEW id \in Txs,
         CreateReplacement(p, old, id)
  PROVE  Step(id, {"absent"}, "approved") /\ dapp' = dapp
<1> DEFINE r == <<id, 0>>
           m == [ReplacementOf(old) EXCEPT !.status = "approved"]
           d == AddTx(db, r, m)
<1>0. r \in Refs /\ IdOf(r) = id /\ r[2] = 0 /\ db \in TxStore
  BY CopiesAssumption DEF Refs, IdOf, Typed, TypeOK
<1>1. CanReplace(old, id) /\ proc[p].pc = "idle" /\ ApproveTransaction(p, id, d)
  BY DEF CreateReplacement
<1>2. m \in TxMeta /\ m.net = network
  BY <1>1, TypedReplacement DEF ReplacementOf, NewTxMeta
<1>3. d \in TxStore /\ Change(db, d, r, r, m, {})
  <2> HIDE DEF m, r
  <2> QED BY <1>0, <1>2, AddTxType, AddChange
<1> HIDE DEF r, m, d
<1>4. \A q \in Refs : IdOf(q) = id => /\ ~Working(q)'
                                      /\ ui'[q] # "unused" => q[2] > 0
                                      /\ q[2] > 0 /\ ui'[q] # "used" => q # r
  BY <1>0, <1>1, ReplacementCalm DEF Working
<1>5. \A q \in Refs : ui'[q] = ui[q]
  BY <1>1, ReplacementCalm
<1>6. Others(id) /\ CalmOf(id)' /\ StatusOf(id)' = "approved"
  BY <1>0, <1>1, <1>2, <1>3, <1>4, <1>5, ReplacementCalm, ApprovedCalm
<1> QED BY <1>1, <1>6, ReplacementCalm DEF Step

LEMMA CalmRetry ==
  ASSUME Typed, Calm, NEW old \in Txs, NEW id \in Txs, RetryTransaction(old, id)
  PROVE  Step(id, {"absent"}, "unapproved") /\ dapp' = dapp
<1> DEFINE m == ReplacementOf(old)
<1>0. <<id, 0>> \in Refs /\ db \in TxStore
  BY CopiesAssumption DEF Refs, Typed, TypeOK
<1>1. CanReplace(old, id) /\ db' = AddTx(db, <<id, 0>>, m) /\ UNCHANGED proc
  BY DEF RetryTransaction
<1>2. m \in TxMeta /\ m.net = network /\ m.status = "unapproved"
  BY <1>1, TypedReplacement DEF ReplacementOf, NewTxMeta
<1> HIDE DEF m
<1>3. Change(db, db', <<id, 0>>, <<id, 0>>, m, {})
  BY <1>0, <1>1, AddChange
<1>4. Step(id, {"absent"}, "unapproved")
  BY <1>1, <1>2, <1>3, ReplacementCalm, AddedCalm
<1> QED BY <1>1, <1>4, ReplacementCalm

(* What is known of a transaction that is being approved. *)
LEMMA ActiveCalm ==
  ASSUME Typed, Exclusive, Calm, NEW p \in Procs, Active(p)
  PROVE  /\ proc[p].id \in Txs /\ proc[p].ref \in Refs /\ IdOf(proc[p].ref) = proc[p].id
         /\ CalmOf(proc[p].id)
         /\ db.list[proc[p].id] = proc[p].ref
         /\ Present(proc[p].id) /\ proc[p].ref # None
         /\ Current(proc[p].id) = db.obj[proc[p].ref]
         /\ GetTx(db, network, proc[p].id) = proc[p].ref
         /\ db.obj[proc[p].ref].net = network
         /\ db.obj[proc[p].ref].status = IF proc[p].pc \in {"send", "reply"}
                                         THEN "signed" ELSE "approved"
         /\ adding[proc[p].id] = "done" /\ network \in Networks /\ network # Loading
         /\ \A q \in Refs : IdOf(q) = proc[p].id => ~Working(q)
         /\ \A q \in Procs : Active(q) /\ proc[q].id = proc[p].id => q = p
         /\ proc[p].pc # "reply" => \A s \in sent : s.id # proc[p].id
<1> DEFINE id == proc[p].id
           r == proc[p].ref
<1>1. id \in Txs /\ r \in Refs /\ IdOf(r) = id /\ r # None
  BY NoneAssumption DEF Typed, ProcOK, Active
<1>2. CalmOf(id)
  BY <1>1 DEF Calm
<1>3. db.list[id] = r /\ Present(id) /\ Current(id) = db.obj[r]
  BY <1>1, <1>2 DEF CalmOf, ApprovalCalm, Present, Current
<1>4. db.obj[r].status = IF proc[p].pc \in {"send", "reply"} THEN "signed" ELSE "approved"
  BY <1>2, <1>3 DEF CalmOf, ApprovalCalm
<1>5. db.obj[r].net = network /\ GetTx(db, network, id) = r
  BY <1>1, <1>2, <1>3 DEF CalmOf, EntryCalm, GetTx
<1>6. adding[id] = "done" /\ network # Loading
  BY <1>1, <1>2 DEF CalmOf, RequestCalm, Approving, Typed, TypeOK, AddStates
<1>7. \A q \in Refs : IdOf(q) = id => ~Working(q)
  BY <1>2, <1>3, <1>4 DEF CalmOf, WindowCalm
<1>8. \A q \in Procs : Active(q) /\ proc[q].id = id => q = p
  BY DEF Exclusive, OneApprovalPerTx, Active
<1>9. proc[p].pc # "reply" => \A s \in sent : s.id # id
  BY <1>2, <1>3, <1>4, <1>8 DEF CalmOf, SentCalm, Active
<1>10. network \in Networks
  BY <1>6 DEF Typed, TypeOK
<1> QED BY <1>1, <1>2, <1>3, <1>4, <1>5, <1>6, <1>7, <1>8, <1>9, <1>10

(* The approval goes on to its next await, before it signs. *)
LEMMA MovedCalm ==
  ASSUME Typed, Exclusive, Calm, NEW p \in Procs, Active(p),
         NEW id, id = proc[p].id, NEW r, r = proc[p].ref,
         proc[p].pc \notin {"send", "reply"},
         NEW m \in TxMeta, m.status = db.obj[r].status, m.net = network,
         Change(db, db', r, r, m, {}),
         proc'[p].pc \in {"lock", "count", "sign"},
         proc'[p].id = id, proc'[p].ref = r,
         proc'[p].pc = "count" => proc'[p].asked = network,
         \A q \in Procs : q # p => proc'[q] = proc[q],
         UNCHANGED <<adding, addNet, redo, ui, sent, network, dapp>>
  PROVE  Step(id, {"approved"}, "approved")
<1>1. /\ id \in Txs /\ r \in Refs /\ IdOf(r) = id /\ CalmOf(id)
      /\ db.list[id] = r /\ Present(id) /\ Current(id) = db.obj[r] /\ db.obj[r].net = network
      /\ db.obj[r].status = "approved" /\ adding[id] = "done" /\ network # Loading
      /\ \A q \in Procs : Active(q) /\ proc[q].id = id => q = p
      /\ \A s \in sent : s.id # id
  BY ActiveCalm DEF Active
<1>2. WindowCalm(id)' /\ TimerCalm(id)' /\ EntryCalm(id)'
      /\ StatusOf(id)' = StatusOf(id) /\ db'.list = db.list
      /\ Current(id)' = m
      /\ \A j \in Txs \ {id} :
              /\ \A q \in Refs : IdOf(q) = j => db'.obj[q] = db.obj[q]
              /\ \A t \in Deferred(db') : IdOf(t.ref) = j => t \in Deferred(db)
  <2>1. \A q \in Procs : proc[q].pc = "reply" => proc'[q] = proc[q]
    OBVIOUS
  <2> QED BY <1>1, <2>1, TouchedCalm
<1>3. Others(id)
  <2>1. \A q \in Procs : Active(q)' /\ proc'[q].id # id => q # p
    OBVIOUS
  <2> QED BY <1>1, <1>2 DEF Others, Apart
<1>4. RequestCalm(id)'
  BY <1>1 DEF RequestCalm
<1>5. ApprovalCalm(id)'
  <2> SUFFICES ASSUME NEW q \in Procs, Active(q)', proc'[q].id = id PROVE q = p
    BY <1>1, <1>2 DEF ApprovalCalm
  <2> QED BY <1>1 DEF Active
<1>6. SentCalm(id)'
  BY <1>1 DEF SentCalm
<1>7. StatusOf(id) = "approved"
  BY <1>1 DEF StatusOf, Present
<1> QED BY <1>2, <1>3, <1>4, <1>5, <1>6, <1>7 DEF Step, CalmOf

(* The approval gives its transaction the next status, or its last one. *)
LEMMA MarkedCalm ==
  ASSUME Typed, Exclusive, Calm, NEW p \in Procs, Active(p),
         NEW id, id = proc[p].id, NEW r, r = proc[p].ref,
         NEW s \in {"signed", "submitted", "failed"},
         s = "signed" => proc[p].pc # "reply",
         NEW m \in TxMeta, m.status = s, m.net = network,
         NEW T, T = {[ref |-> r, status |-> s]},
         Change(db, db', r, r, m, T),
         IF s = "signed"
         THEN /\ proc'[p].pc = "send" /\ proc'[p].id = id
              /\ proc'[p].ref = r /\ proc'[p].asked = network
         ELSE proc'[p].pc = "idle",
         \A q \in Procs : q # p => proc'[q] = proc[q],
         UNCHANGED <<adding, addNet, redo, ui, sent, network, dapp>>
  PROVE  Step(id, {StatusOf(id)}, s)
<1>1. /\ id \in Txs /\ r \in Refs /\ IdOf(r) = id /\ CalmOf(id)
      /\ db.list[id] = r /\ Present(id) /\ Current(id) = db.obj[r] /\ r # None
      /\ db.obj[r].status \in {"approved", "signed"} /\ adding[id] = "done" /\ network # Loading
      /\ \A q \in Procs : Active(q) /\ proc[q].id = id => q = p
      /\ \A q \in Refs : IdOf(q) = id => ~Working(q)
      /\ proc[p].pc # "reply" => \A t \in sent : t.id # id
  BY ActiveCalm
<1>2. \A t \in T : t.ref = r /\ t.status = s
  OBVIOUS
<1>3. /\ db'.list[id] = r /\ db'.obj[r] = m
      /\ \A q \in Refs : q # r => db'.obj[q] = db.obj[q]
      /\ \A t \in Deferred(db') : t \in Deferred(db) \/ t \in T
      /\ \A j \in Txs : j # id => db'.list[j] = db.list[j]
  <2>1. db \in TxStore /\ Change(db, db', r, r, m, T)
    BY DEF Typed, TypeOK
  <2>2. /\ db'.list[IdOf(r)] = r /\ db'.obj[r] = m
        /\ \A q \in Refs : q # r => db'.obj[q] = db.obj[q]
        /\ \A t \in Deferred(db') : t \in Deferred(db) \/ t \in T
        /\ \A j \in Txs : j # IdOf(r) => db'.list[j] = db.list[j]
    <3>1. r \in Refs /\ \A t \in T : t.ref = r
      BY <1>1, <1>2
    <3> QED BY <2>1, <3>1, ChangeElsewhere
  <2> QED BY <1>1, <2>2
<1>4. Others(id)
  BY <1>1, <1>2, <1>3 DEF Others, Apart, Active
<1>5. Present(id)' /\ Current(id)' = m
  BY <1>1, <1>3 DEF Present, Current
<1>6. RequestCalm(id)' /\ EntryCalm(id)'
  BY <1>1, <1>5 DEF RequestCalm, EntryCalm
<1>7. WindowCalm(id)'
  <2>1. \A q \in Refs : IdOf(q) = id => ~Working(q)' /\ ui'[q] = ui[q]
    BY <1>1 DEF Working
  <2>2. \A q \in Refs : IdOf(q) = id /\ q[2] > 0 /\ ui[q] # "used" =>
          q # r /\ \A t \in Deferred(db') : t.ref # q
    BY <1>1, <1>2, <1>3 DEF CalmOf, WindowCalm
  <2> QED BY <1>1, <1>3, <1>5, <2>1, <2>2 DEF WindowCalm, CalmOf
<1>8. ApprovalCalm(id)'
  BY <1>1, <1>3, <1>5 DEF ApprovalCalm, Active
<1>9. TimerCalm(id)'
  <2> SUFFICES ASSUME NEW t \in Deferred(db'), IdOf(t.ref) = id
               PROVE  /\ t.status \in {"approved", "signed", "submitted", "failed"}
                      /\ t.ref = r
                      /\ t.status \in {"submitted", "failed"} => s = t.status
    BY <1>3, <1>5 DEF TimerCalm
  <2>1. CASE t \in Deferred(db)
    BY <1>1, <2>1 DEF CalmOf, TimerCalm
  <2> QED BY <1>2, <1>3, <2>1
<1>10. SentCalm(id)'
  BY <1>1, <1>5 DEF SentCalm, CalmOf
<1>11. StatusOf(id)' = s
  BY <1>1, <1>3, <1>5 DEF StatusOf
<1> QED BY <1>4, <1>6, <1>7, <1>8, <1>9, <1>10, <1>11 DEF Step, CalmOf

(* What the approval goes by: the entry it holds, at the status it gave it. *)
LEMMA ActiveStatus ==
  ASSUME Typed, Exclusive, Calm, NEW p \in Procs, Active(p)
  PROVE  StatusOf(proc[p].id) = IF proc[p].pc \in {"send", "reply"}
                                THEN "signed" ELSE "approved"
BY ActiveCalm DEF StatusOf, Present

LEMMA CalmBlockAnswer ==
  ASSUME Typed, Exclusive, Calm, NEW p \in Procs, NEW id, id = proc[p].id, BlockAnswer(p)
  PROVE  Step(id, {"approved"}, "approved") /\ dapp' = dapp
<1> DEFINE r == proc[p].ref
           m == [db.obj[r] EXCEPT !.chain = network]
<1>1. /\ Active(p) /\ proc[p].pc = "block"
      /\ db' = WithTxMeta(db, r, m)
      /\ proc'[p].pc = "lock" /\ proc'[p].id = proc[p].id /\ proc'[p].ref = r
      /\ \A q \in Procs : q # p => proc'[q] = proc[q]
      /\ UNCHANGED <<adding, addNet, redo, ui, sent, network, dapp>>
  BY DEF BlockAnswer, Active, Typed, TypeOK, ProcStates
<1>2. /\ r \in Refs /\ db \in TxStore /\ db.list[IdOf(r)] = r
      /\ db.obj[r].net = network /\ network \in Networks
  BY <1>1, ActiveCalm DEF Typed, TypeOK
<1>3. m \in TxMeta /\ m.status = db.obj[r].status /\ m.net = network
  BY <1>2, ObjType, TxMetaFields DEF TxMeta
<1> HIDE DEF m
<1>4. Change(db, db', r, r, m, {})
  BY <1>1, <1>2, WriteChange
<1> QED BY <1>1, <1>3, <1>4, MovedCalm

LEMMA CalmTakeNonceLock ==
  ASSUME Typed, Exclusive, Calm, NEW p \in Procs, NEW id, id = proc[p].id, TakeNonceLock(p)
  PROVE  Step(id, {"approved"}, "approved") /\ dapp' = dapp
<1> DEFINE r == proc[p].ref
<1>1. /\ Active(p) /\ proc[p].pc = "lock"
      /\ db' = db
      /\ proc'[p].pc = "count" /\ proc'[p].id = proc[p].id /\ proc'[p].ref = r
      /\ proc'[p].asked = network
      /\ \A q \in Procs : q # p => proc'[q] = proc[q]
      /\ UNCHANGED <<adding, addNet, redo, ui, sent, network, dapp>>
  BY DEF TakeNonceLock, Active, Typed, TypeOK, ProcStates
<1>2. /\ r \in Refs /\ db \in TxStore /\ db.list[IdOf(r)] = r /\ db.obj[r].net = network
  BY <1>1, ActiveCalm DEF Typed, TypeOK
<1>3. db.obj[r] \in TxMeta
  BY <1>2, ObjType
<1>4. Change(db, db', r, r, db.obj[r], {})
  BY <1>1, <1>2 DEF Change, TxStore, TxList
<1> QED BY <1>1, <1>2, <1>3, <1>4, MovedCalm

(* The approval fails, on a store it may have written its object in. *)
LEMMA CalmFail ==
  ASSUME Typed, Exclusive, Calm, NEW p \in Procs, Active(p),
         NEW id, id = proc[p].id, NEW d \in TxStore, NEW m \in TxMeta, m.net = network,
         Change(db, d, proc[p].ref, proc[p].ref, m, {}),
         FailApproval(p, d),
         UNCHANGED <<adding, addNet, redo, ui, sent, network, dapp>>
  PROVE  Step(id, {"approved", "signed"}, "failed")
<1> DEFINE r == proc[p].ref
           n == [m EXCEPT !.status = "failed"]
           T == {[ref |-> r, status |-> "failed"]}
<1>1. /\ r \in Refs /\ IdOf(r) = proc[p].id /\ db \in TxStore
  BY ActiveCalm DEF Typed, TypeOK
<1>2. d.list[IdOf(r)] = r /\ d.obj[r] = m
  <2>1. \A t \in {} : t.ref = r
    OBVIOUS
  <2> QED BY <1>1, <2>1, ChangeElsewhere
<1>3. /\ db' = SetTxStatus(d, network, IdOf(r), "failed")
      /\ proc'[p].pc = "idle"
      /\ \A q \in Procs : q # p => proc'[q] = proc[q]
  BY <1>1 DEF FailApproval, SetTxStatusFailed, Finish, IdleProc, Typed, TypeOK
<1>4. Change(d, db', r, r, n, T)
  BY <1>1, <1>2, <1>3, StatusChange DEF Statuses
<1>5. n \in TxMeta /\ n.status = "failed" /\ n.net = network
  BY DEF TxMeta, Statuses
<1> HIDE DEF n
<1>6. Change(db, db', r, r, n, {} \cup T)
  <2> HIDE DEF T
  <2> QED BY <1>1, <1>4, ChangeTrans
<1>7. {} \cup T = {[ref |-> r, status |-> "failed"]}
  OBVIOUS
<1>8. Step(id, {StatusOf(id)}, "failed")
  <2> HIDE DEF T
  <2> QED BY <1>3, <1>5, <1>6, <1>7, MarkedCalm
<1> QED BY <1>8, ActiveStatus DEF Step

LEMMA CalmCallFailed ==
  ASSUME Typed, Exclusive, Calm, NEW p \in Procs, NEW id, id = proc[p].id, CallFailed(p)
  PROVE  Step(id, {"approved", "signed"}, "failed") /\ dapp' = dapp
<1> DEFINE r == proc[p].ref
<1>1. /\ Active(p) /\ FailApproval(p, db)
      /\ UNCHANGED <<adding, addNet, redo, ui, sent, network, dapp>>
  BY DEF CallFailed, Active
<1>2. /\ r \in Refs /\ db \in TxStore /\ db.list[IdOf(r)] = r /\ db.obj[r].net = network
  BY <1>1, ActiveCalm DEF Typed, TypeOK
<1>3. db.obj[r] \in TxMeta
  BY <1>2, ObjType
<1>4. Change(db, db, r, r, db.obj[r], {})
  BY <1>2 DEF Change, TxStore, TxList
<1> QED BY <1>1, <1>2, <1>3, <1>4, CalmFail

(* The nonce is there: the object is written, and signed or failed. *)
LEMMA CalmCount ==
  ASSUME Typed, Exclusive, Calm, NEW p \in Procs, NEW id, id = proc[p].id, Count(p)
  PROVE  /\ \/ Step(id, {"approved"}, "approved")
            \/ Step(id, {"approved", "signed"}, "failed")
         /\ dapp' = dapp
<1> DEFINE r == proc[p].ref
           m(nonce) == [db.obj[r] EXCEPT !.nonce = nonce]
           d(nonce) == UpdateTx(WithTxMeta(db, r, m(nonce)), r)
<1>1. PICK count \in CountOf(p, From[id]) :
        \E next \in NextNonce(db, network, From[id], count) : CountAnswer(p, next)
  BY DEF Count
<1>2. Active(p) /\ proc[p].pc = "count"
  BY DEF Count, Active
<1>3. /\ id \in Txs /\ r \in Refs /\ IdOf(r) = id /\ db \in TxStore /\ r # None
      /\ db.list[IdOf(r)] = r /\ db.obj[r].net = network
  BY <1>2, ActiveCalm DEF Typed, TypeOK
<1>4. count \in Nat
  BY <1>1, <1>3, FromAssumption DEF CountOf, Typed, TypeOK, ProcStates
<1>5. PICK next \in Nat : CountAnswer(p, next)
  BY <1>1, <1>4, NextNonceType DEF Typed
<1> DEFINE nonce == TxNonce(db.obj[r], next)
<1>6. nonce \in Nat \cup {None}
  BY <1>3, <1>5, ObjType DEF TxNonce, TxMeta
<1> HIDE DEF nonce
<1>7. m(nonce) \in TxMeta /\ m(nonce).status = db.obj[r].status /\ m(nonce).net = network
  BY <1>3, <1>6, ObjType, TxMetaFields DEF TxMeta
<1> HIDE DEF m
<1>8. Change(db, d(nonce), r, r, m(nonce), {}) /\ d(nonce) \in TxStore
  <2>1. db.list[IdOf(r)] # None
    BY <1>3
  <2>2. Change(db, d(nonce), r, IF db.list[IdOf(r)] = None THEN None ELSE r, m(nonce), {})
    BY <1>3, <1>7, SaveChange
  <2> QED BY <1>3, <1>7, <2>1, <2>2, SavedType
<1>9. UNCHANGED <<adding, addNet, redo, ui, sent, network, dapp>>
  BY <1>5 DEF CountAnswer
<1>10. GetTx(d(nonce), network, id) = r
  <2>1. d(nonce).list[id] = r /\ d(nonce).obj[r] = m(nonce)
    <3>1. \A t \in {} : t.ref = r
      OBVIOUS
    <3> HIDE DEF d
    <3> QED BY <1>3, <1>8, <3>1, ChangeElsewhere
  <2> HIDE DEF d
  <2> QED BY <1>3, <1>7, <2>1 DEF GetTx
<1> HIDE DEF d
<1>11. CASE FailApproval(p, d(nonce))
  BY <1>2, <1>7, <1>8, <1>9, <1>11, CalmFail
<1>12. CASE FailApproval(p, db)
  <2>1. Change(db, db, r, r, db.obj[r], {}) /\ db.obj[r] \in TxMeta
    BY <1>3, ObjType DEF Change, TxStore, TxList
  <2> QED BY <1>2, <1>3, <1>9, <1>12, <2>1, CalmFail
<1>13. CASE /\ db' = d(nonce)
            /\ \E x, y : proc' = [proc EXCEPT ![p] = [@ EXCEPT !.pc = "sign", !.ref = r,
                                                              !.nonce = x, !.chain = y]]
  <2>1. /\ proc'[p].pc = "sign" /\ proc'[p].id = id /\ proc'[p].ref = r
        /\ \A q \in Procs : q # p => proc'[q] = proc[q]
    BY <1>13 DEF Typed, TypeOK, ProcStates
  <2> QED BY <1>2, <1>7, <1>8, <1>9, <1>13, <2>1, MovedCalm
<1>14. \/ FailApproval(p, d(nonce))
       \/ FailApproval(p, db)
       \/ /\ db' = d(nonce)
          /\ \E x, y : proc' = [proc EXCEPT ![p] = [@ EXCEPT !.pc = "sign", !.ref = r,
                                                            !.nonce = x, !.chain = y]]
  BY <1>5, <1>10 DEF CountAnswer, nonce, d, m
<1> QED BY <1>9, <1>11, <1>12, <1>13, <1>14

LEMMA CalmSignAnswer ==
  ASSUME Typed, Exclusive, Calm, NEW p \in Procs, NEW id, id = proc[p].id, SignAnswer(p)
  PROVE  /\ Step(id, {"approved"}, "signed") /\ dapp' = dapp
         /\ proc'[p].ref = proc[p].ref /\ proc'[p].nonce = proc[p].nonce
<1> DEFINE r == proc[p].ref
           raw == [nonce |-> proc[p].nonce, chain |-> proc[p].chain]
           m == [db.obj[r] EXCEPT !.raw = raw]
           n == [m EXCEPT !.status = "signed"]
           d == UpdateTx(WithTxMeta(db, r, m), r)
           e == SetTxStatus(d, network, id, "signed")
           T == {[ref |-> r, status |-> "signed"]}
<1>1. /\ Active(p) /\ proc[p].pc = "sign"
      /\ UNCHANGED <<adding, addNet, redo, ui, sent, network, dapp>>
  BY DEF SignAnswer, Active
<1>2. /\ id \in Txs /\ r \in Refs /\ IdOf(r) = id /\ db \in TxStore /\ r # None
      /\ db.list[IdOf(r)] = r /\ db.obj[r].net = network
      /\ proc[p].nonce \in Nat /\ proc[p] \in ProcStates
  BY <1>1, ActiveCalm DEF Typed, TypeOK, ProcOK
<1>3. raw \in RawTx
  BY <1>2 DEF RawTx, ProcStates
<1> HIDE DEF raw
<1>4. m \in TxMeta /\ m.net = network
  BY <1>2, <1>3, ObjType, TxMetaFields DEF TxMeta
<1> HIDE DEF m
<1>5. n \in TxMeta /\ n.status = "signed" /\ n.net = network
  BY <1>4 DEF TxMeta, Statuses
<1>6. Change(db, d, r, r, m, {}) /\ d \in TxStore
  <2>1. db.list[IdOf(r)] # None
    BY <1>2
  <2>2. Change(db, d, r, IF db.list[IdOf(r)] = None THEN None ELSE r, m, {})
    BY <1>2, <1>4, SaveChange
  <2> QED BY <1>2, <1>4, <2>1, <2>2, SavedType
<1>7. d.list[IdOf(r)] = r /\ d.obj[r] = m
  <2>1. \A t \in {} : t.ref = r
    OBVIOUS
  <2> HIDE DEF d
  <2> QED BY <1>2, <1>6, <2>1, ChangeElsewhere
<1> HIDE DEF d
<1>8. Change(d, e, r, r, n, T)
  BY <1>2, <1>4, <1>6, <1>7, StatusChange DEF Statuses
<1> HIDE DEF e
<1>9. Change(db, e, r, r, n, {} \cup T)
  <2> HIDE DEF T, n
  <2> QED BY <1>2, <1>6, <1>8, ChangeTrans
<1>10. GetTx(e, network, id) = r
  <2>1. \A t \in {} \cup T : t.ref = r
    OBVIOUS
  <2> HIDE DEF T, n
  <2>2. e.list[id] = r /\ e.obj[r] = n
    BY <1>2, <1>9, <2>1, ChangeElsewhere
  <2> QED BY <1>2, <1>5, <2>2 DEF GetTx
<1>11. /\ db' = e
       /\ proc' = [proc EXCEPT ![p] = [@ EXCEPT !.pc = "send", !.ref = r, !.asked = network]]
  BY <1>2, <1>10 DEF SignAnswer, e, d, m, raw
<1>12. /\ proc'[p].pc = "send" /\ proc'[p].id = id /\ proc'[p].ref = r
       /\ proc'[p].asked = network /\ proc'[p].nonce = proc[p].nonce
       /\ \A q \in Procs : q # p => proc'[q] = proc[q]
  BY <1>2, <1>11 DEF Typed, TypeOK, ProcStates
<1>13. {} \cup T = {[ref |-> r, status |-> "signed"]}
  OBVIOUS
<1>14. StatusOf(id) = "approved"
  BY <1>1, ActiveStatus
<1> HIDE DEF n, T
<1>15. Step(id, {StatusOf(id)}, "signed")
  BY <1>1, <1>5, <1>9, <1>11, <1>12, <1>13, MarkedCalm
<1> QED BY <1>1, <1>12, <1>14, <1>15

LEMMA CalmSendAnswer ==
  ASSUME Typed, Exclusive, Calm, NEW p \in Procs, NEW id, id = proc[p].id, SendAnswer(p)
  PROVE  /\ Step(id, {"signed"}, "submitted") /\ dapp' = dapp
         /\ db'.list[id] = proc[p].ref
<1> DEFINE r == proc[p].ref
           raw == [nonce |-> proc[p].nonce, chain |-> proc[p].chain]
           m == [db.obj[r] EXCEPT !.hash = raw]
           n == [m EXCEPT !.status = "submitted"]
           d == WithTxMeta(db, r, m)
           T == {[ref |-> r, status |-> "submitted"]}
<1>1. /\ Active(p) /\ proc[p].pc = "reply"
      /\ UNCHANGED <<adding, addNet, redo, ui, sent, network, dapp>>
  BY DEF SendAnswer, Active
<1>2. /\ id \in Txs /\ r \in Refs /\ IdOf(r) = id /\ db \in TxStore /\ r # None
      /\ db.list[IdOf(r)] = r /\ db.obj[r].net = network
      /\ GetTx(db, network, id) = r
      /\ proc[p].nonce \in Nat /\ proc[p] \in ProcStates
  BY <1>1, ActiveCalm DEF Typed, TypeOK, ProcOK
<1>3. raw \in RawTx
  BY <1>2 DEF RawTx, ProcStates
<1>4. db' = SetTxStatus(d, network, id, "submitted") /\ Finish(p)
  BY <1>2 DEF SendAnswer
<1> HIDE DEF raw
<1>5. m \in TxMeta /\ m.net = network
  BY <1>2, <1>3, ObjType, TxMetaFields DEF TxMeta
<1> HIDE DEF m
<1>6. n \in TxMeta /\ n.status = "submitted" /\ n.net = network
  BY <1>5 DEF TxMeta, Statuses
<1>7. Change(db, d, r, r, m, {}) /\ d \in TxStore
  <2>1. Change(db, d, r, db.list[IdOf(r)], m, {})
    BY <1>2, WriteChange
  <2> QED BY <1>2, <1>5, <2>1, WithTxMetaType
<1>8. d.list[IdOf(r)] = r /\ d.obj[r] = m
  <2>1. \A t \in {} : t.ref = r
    OBVIOUS
  <2> HIDE DEF d
  <2> QED BY <1>2, <1>7, <2>1, ChangeElsewhere
<1> HIDE DEF d
<1>9. Change(d, db', r, r, n, T)
  BY <1>2, <1>4, <1>5, <1>7, <1>8, StatusChange DEF Statuses
<1>10. Change(db, db', r, r, n, {} \cup T)
  <2> HIDE DEF T, n
  <2> QED BY <1>2, <1>7, <1>9, ChangeTrans
<1>11. proc'[p].pc = "idle" /\ \A q \in Procs : q # p => proc'[q] = proc[q]
  BY <1>4 DEF Finish, IdleProc, Typed, TypeOK
<1>12. {} \cup T = {[ref |-> r, status |-> "submitted"]}
  OBVIOUS
<1>13. StatusOf(id) = "signed"
  BY <1>1, ActiveStatus
<1> HIDE DEF n, T
<1>14. Step(id, {StatusOf(id)}, "submitted")
  BY <1>1, <1>6, <1>10, <1>11, <1>12, MarkedCalm
<1>15. db'.list[id] = r
  <2>1. \A t \in {} \cup T : t.ref = r
    BY DEF T
  <2> QED BY <1>2, <1>10, <2>1, ChangeElsewhere
<1> QED BY <1>1, <1>13, <1>14, <1>15

LEMMA CalmNodeAccepts ==
  ASSUME Typed, Exclusive, Calm, NEW p \in Procs, NEW id, id = proc[p].id, NodeAccepts(p)
  PROVE  Step(id, {"signed"}, "signed") /\ dapp' = dapp
<1> DEFINE x == [id |-> id, net |-> proc[p].asked,
                 raw |-> [nonce |-> proc[p].nonce, chain |-> proc[p].chain]]
<1>1. /\ Active(p) /\ proc[p].pc = "send"
      /\ sent' = sent \cup {x}
      /\ proc'[p] = [proc[p] EXCEPT !.pc = "reply"]
      /\ \A q \in Procs : q # p => proc'[q] = proc[q]
      /\ UNCHANGED <<db, adding, addNet, redo, ui, network, dapp>>
  BY DEF NodeAccepts, Active, Typed, TypeOK
<1>2. /\ proc'[p].pc = "reply" /\ proc'[p].id = id /\ proc'[p].ref = proc[p].ref
      /\ proc'[p].asked = proc[p].asked
  BY <1>1 DEF Typed, TypeOK, ProcStates
<1>3. /\ id \in Txs /\ CalmOf(id) /\ Present(id) /\ adding[id] = "done" /\ network # Loading
      /\ \A q \in Procs : Active(q) /\ proc[q].id = id => q = p
      /\ \A s \in sent : s.id # id
  BY <1>1, ActiveCalm
<1>4. x.id = id
  OBVIOUS
<1> HIDE DEF x
<1>5. Others(id)
  <2> SUFFICES ASSUME NEW j \in Txs, j # id PROVE Apart(j)
    BY DEF Others
  <2>1. \A s : s.id = j => (s \in sent' <=> s \in sent)
    BY <1>1, <1>4
  <2>2. \A q \in Procs :
          (Active(q) /\ proc[q].id = j) \/ (Active(q)' /\ proc'[q].id = j)
            => proc'[q] = proc[q]
    BY <1>1, <1>2
  <2> QED BY <1>1, <2>1, <2>2 DEF Apart
<1>6. StatusOf(id)' = StatusOf(id) /\ StatusOf(id) = "signed" /\ (Present(id)' <=> Present(id))
      /\ Current(id)' = Current(id) /\ Deferred(db)' = Deferred(db)
      /\ \A r : Working(r)' <=> Working(r)
  BY <1>1, ActiveStatus DEF StatusOf, Current, Present, Deferred, Working
<1>7. RequestCalm(id)'
  BY <1>1, <1>3 DEF RequestCalm
<1>8. EntryCalm(id)' /\ WindowCalm(id)' /\ TimerCalm(id)'
  BY <1>1, <1>3, <1>6 DEF CalmOf, EntryCalm, WindowCalm, TimerCalm, Untimed
<1>9. ApprovalCalm(id)'
  <2>1. /\ db.list[id] = proc[p].ref /\ Current(id).status = "signed"
        /\ proc[p].asked = network
    BY <1>1, <1>3 DEF CalmOf, ApprovalCalm
  <2>2. \A q \in Procs : Active(q)' /\ proc'[q].id = id => q = p
    BY <1>1, <1>3 DEF Active
  <2> QED BY <1>1, <1>2, <1>6, <2>1, <2>2 DEF ApprovalCalm
<1>10. SentCalm(id)'
  BY <1>1, <1>2, <1>3, <1>4, <1>6 DEF SentCalm
<1> QED BY <1>1, <1>3, <1>5, <1>6, <1>7, <1>8, <1>9, <1>10 DEF Step, CalmOf

-----------------------------------------------------------------------------
(***************************************************************************)
(* The deferred updates, and the network.                                  *)
(***************************************************************************)
LEMMA FewerTimersCalm ==
  ASSUME Typed, NEW id \in Txs, CalmOf(id), db'.list = db.list, db'.obj = db.obj,
         Deferred(db') \subseteq Deferred(db), UNCHANGED <<ui, proc, sent, network>>,
         RequestCalm(id)'
  PROVE  CalmOf(id)' /\ StatusOf(id)' = StatusOf(id)
<1>1. /\ StatusOf(id)' = StatusOf(id) /\ (Present(id)' <=> Present(id))
      /\ Current(id)' = Current(id) /\ (Untimed(id) => Untimed(id)')
      /\ \A r : Working(r)' <=> Working(r)
      /\ \A p : Active(p)' <=> Active(p)
  BY DEF StatusOf, Current, Present, Untimed, Working, Active
<1>2. EntryCalm(id)' /\ WindowCalm(id)' /\ ApprovalCalm(id)' /\ TimerCalm(id)' /\ SentCalm(id)'
  BY <1>1 DEF CalmOf, EntryCalm, WindowCalm, ApprovalCalm, TimerCalm, SentCalm
<1> QED BY <1>1, <1>2 DEF CalmOf

LEMMA TailDefers ==
  ASSUME NEW S, NEW s \in Seq(S), s # <<>>
  PROVE  /\ \A i \in DOMAIN Tail(s) : \E j \in DOMAIN s : Tail(s)[i] = s[j]
         /\ \E j \in DOMAIN s : Head(s) = s[j]
<1>1. Len(s) \in Nat /\ Len(s) > 0 /\ DOMAIN s = 1 .. Len(s) /\ Head(s) = s[1]
  OBVIOUS
<1>2. DOMAIN Tail(s) = 1 .. (Len(s) - 1) /\ \A i \in 1 .. (Len(s) - 1) : Tail(s)[i] = s[i + 1]
  BY <1>1
<1> QED BY <1>1, <1>2

(* The dapp that waits is told what became of its transaction. *)
Told(id) ==
  /\ dapp[id] = "waiting"
  /\ \E a \in {"hash", "failed", "rejected"} :
       /\ StatusOf(id) = CASE a = "hash"     -> "submitted"
                           [] a = "failed"   -> "failed"
                           [] a = "rejected" -> "absent"
       /\ dapp' = [dapp EXCEPT ![id] = a]

LEMMA CalmFireTimer ==
  ASSUME Typed, Calm, FireTimer
  PROVE  /\ \E id \in Txs : /\ Step(id, {StatusOf(id)}, StatusOf(id))
                            /\ dapp' = dapp \/ Told(id)
         /\ db'.list = db.list /\ db'.obj = db.obj
<1> DEFINE t == Head(db.timers)
           r == t.ref
           e == UpdateTx(db, r)
<1>1. /\ db.timers \in Seq(Timer) /\ db.timers # <<>> /\ db \in TxStore
      /\ db' = RunTimer(db)
      /\ dapp' = [dapp EXCEPT ![IdOf(r)] =
                IF @ = "waiting" /\ t.status \in {"submitted", "rejected", "failed"}
                THEN AnswerFor(db.obj[r].status) ELSE @]
      /\ UNCHANGED <<network, adding, addNet, redo, ui, proc, sent>>
  BY DEF FireTimer, Typed, TypeOK, TxStore
<1>2. /\ \A i \in DOMAIN Tail(db.timers) : \E j \in DOMAIN db.timers : Tail(db.timers)[i] = db.timers[j]
      /\ \E j \in DOMAIN db.timers : t = db.timers[j]
  BY <1>1, TailDefers
<1>3. t \in Deferred(db)
  BY <1>2 DEF Deferred
<1>4. t \in Timer /\ r \in Refs /\ IdOf(r) \in Txs /\ r # None
  BY <1>3, DeferredType, NoneAssumption
<1>i. PICK id \in Txs : id = IdOf(r)
  BY <1>4
<1>5. CalmOf(id)
  BY <1>4 DEF Calm
<1>6. IF t.status = "rejected"
      THEN db.list[id] = None /\ db.obj[r].status = "rejected"
      ELSE db.list[id] = r
  BY <1>3, <1>5, <1>i DEF CalmOf, TimerCalm, Present
<1>7. e.list = db.list /\ e.obj = db.obj
  BY <1>1, <1>4, <1>6, <1>i DEF UpdateTx, TxStore, TxList
<1>8. db'.list = db.list /\ db'.obj = db.obj /\ db'.timers = Tail(db.timers)
  BY <1>1, <1>7 DEF RunTimer, UpdateTx, TxStore
<1>9. Deferred(db') \subseteq Deferred(db)
  BY <1>2, <1>8 DEF Deferred
<1>10. dapp' = dapp \/ Told(id)
  <2>1. CASE /\ dapp[id] = "waiting" /\ t.status \in {"submitted", "rejected", "failed"}
    <3>1. dapp' = [dapp EXCEPT ![id] = AnswerFor(db.obj[r].status)]
      BY <1>1, <1>i, <2>1 DEF Typed, TypeOK
    <3>2. db.obj[r].status = t.status
      BY <1>3, <1>5, <1>6, <1>i, <2>1 DEF CalmOf, TimerCalm
    <3>3. StatusOf(id) = IF t.status = "rejected" THEN "absent" ELSE t.status
      BY <1>4, <1>6, <3>2 DEF StatusOf, Current
    <3> HIDE DEF t, r
    <3>4. CASE t.status = "submitted"
      BY <2>1, <3>1, <3>2, <3>3, <3>4 DEF Told, AnswerFor
    <3>5. CASE t.status = "failed"
      BY <2>1, <3>1, <3>2, <3>3, <3>5 DEF Told, AnswerFor
    <3>6. CASE t.status = "rejected"
      BY <2>1, <3>1, <3>2, <3>3, <3>6 DEF Told, AnswerFor
    <3> QED BY <2>1, <3>4, <3>5, <3>6
  <2>2. CASE ~(dapp[id] = "waiting" /\ t.status \in {"submitted", "rejected", "failed"})
    BY <1>1, <1>i, <2>2 DEF Typed, TypeOK
  <2> QED BY <2>1, <2>2
<1>11. \A j \in Txs : j # id => dapp'[j] = dapp[j]
  BY <1>1, <1>i DEF Typed, TypeOK
<1> HIDE DEF t, r, e
<1>12. Others(id)
  BY <1>1, <1>8, <1>9, <1>11 DEF Others, Apart
<1>13. RequestCalm(id)'
  <2>1. adding[id] # "done" => dapp'[id] = "none"
    BY <1>5, <1>10 DEF CalmOf, RequestCalm, Told
  <2>2. /\ Present(id)' <=> Present(id)
        /\ Current(id)' = Current(id)
        /\ Untimed(id) => Untimed(id)'
        /\ Approving(id)' <=> Approving(id)
    BY <1>1, <1>8, <1>9 DEF Present, Current, Untimed, Approving, Active
  <2> QED BY <1>1, <1>5, <1>8, <2>1, <2>2 DEF CalmOf, RequestCalm
<1>14. CalmOf(id)' /\ StatusOf(id)' = StatusOf(id)
  BY <1>1, <1>4, <1>5, <1>8, <1>9, <1>13, FewerTimersCalm
<1> QED BY <1>1, <1>4, <1>8, <1>10, <1>12, <1>14 DEF Step

(* The network is found: nothing was asked before, so nothing is cleaned up. *)
LEMMA CalmNetworkUp ==
  ASSUME Typed, Calm, NEW n \in Networks, NetworkUp(n)
  PROVE  /\ Calm'
         /\ \A id \in Txs : StatusOf(id)' = StatusOf(id)
         /\ dapp' = dapp
         /\ db'.list = db.list /\ db'.obj = db.obj
         /\ sent = {} /\ \A p \in Procs : ~Active(p)
<1>1. /\ network = Loading /\ network' = n /\ n # Loading
      /\ UNCHANGED <<adding, addNet, ui, proc, sent, dapp>>
      /\ BootCleanUp(n)
  BY NetworkAssumption DEF NetworkUp, Loading
<1>2. \A id \in Txs : /\ CalmOf(id) /\ adding[id] = "none" /\ ~Present(id) /\ Untimed(id)
                      /\ ~Approving(id) /\ dapp[id] = "none"
                      /\ \A s \in sent : s.id # id
                      /\ \A r \in Refs : IdOf(r) = id => ui[r] = "unused"
  <2> SUFFICES ASSUME NEW id \in Txs
               PROVE  /\ CalmOf(id) /\ adding[id] = "none" /\ ~Present(id) /\ Untimed(id)
                      /\ ~Approving(id) /\ dapp[id] = "none"
                      /\ \A s \in sent : s.id # id
                      /\ \A r \in Refs : IdOf(r) = id => ui[r] = "unused"
    OBVIOUS
  <2>1. CalmOf(id) /\ adding[id] = "none"
    BY <1>1 DEF Calm, CalmOf, RequestCalm
  <2> QED BY <2>1 DEF CalmOf, RequestCalm, SentCalm
<1>3. \A s : TxsByStatus(db, n, s) = {}
  BY <1>2 DEF TxsByStatus, GetTx, Present
<1>4. redo' = redo
  BY <1>1, <1>3 DEF BootCleanUp, Entries, Typed, TypeOK
<1>5. PICK ids \in Orders({}) : db' = FailEach(db, ids)
  BY <1>1, <1>3 DEF BootCleanUp
<1>6. DOMAIN ids = {}
  BY <1>5, FS_EmptySet DEF Orders
<1>7. db'.list = db.list /\ db'.obj = db.obj /\ db'.timers = db.timers
  <2> DEFINE new == [i \in DOMAIN ids |-> [ref |-> db.list[ids[i]], status |-> "failed"]]
             obj == [r \in Refs |-> IF \E i \in DOMAIN ids : db.list[ids[i]] = r
                                    THEN [db.obj[r] EXCEPT !.status = "failed"]
                                    ELSE db.obj[r]]
  <2>1. obj = db.obj
    BY <1>6 DEF Typed, TypeOK, TxStore
  <2>2. new = <<>>
    BY <1>6
  <2>3. db.timers \o <<>> = db.timers
    BY ConcatEmptySeq DEF Typed, TypeOK, TxStore
  <2>4. db' = [db EXCEPT !.obj = obj, !.timers = @ \o new]
    BY <1>5, Zenon DEF FailEach
  <2> HIDE DEF obj, new
  <2> QED BY <2>1, <2>2, <2>3, <2>4 DEF Typed, TypeOK, TxStore
<1>8. \A id \in Txs : CalmOf(id)' /\ StatusOf(id)' = StatusOf(id)
  <2> SUFFICES ASSUME NEW id \in Txs PROVE CalmOf(id)' /\ StatusOf(id)' = StatusOf(id)
    OBVIOUS
  <2>1. ~Present(id)' /\ Untimed(id)' /\ ~Approving(id)'
    BY <1>1, <1>2, <1>7 DEF Present, Untimed, Deferred, Approving, Active
  <2>2. RequestCalm(id)' /\ EntryCalm(id)' /\ ApprovalCalm(id)' /\ TimerCalm(id)' /\ SentCalm(id)'
    BY <1>1, <1>2, <2>1
       DEF RequestCalm, EntryCalm, ApprovalCalm, TimerCalm, SentCalm, Approving, Untimed
  <2>3. WindowCalm(id)'
    BY <1>1, <1>2, <1>7, <2>1 DEF CalmOf, WindowCalm, Working, Deferred
  <2>4. StatusOf(id)' = StatusOf(id)
    BY <1>2, <2>1 DEF StatusOf, Present
  <2> QED BY <2>2, <2>3, <2>4 DEF CalmOf
<1>9. sent = {} /\ \A p \in Procs : ~Active(p)
  BY <1>2 DEF Typed, TypeOK, SentTx, ProcOK, Active, Approving
<1> QED BY <1>1, <1>4, <1>7, <1>8, <1>9 DEF Calm
-----------------------------------------------------------------------------
(***************************************************************************)
(* Every step, as a step of TxLifecycle or a stutter.                      *)
(***************************************************************************)
Lives == [id \in Txs |-> StatusOf(id)]

Stutters == Lives' = Lives /\ dapp' = dapp

Moves == Lifecycle!Next \/ Stutters

LEMMA StepMoves ==
  ASSUME Typed, Calm, NEW id \in Txs, NEW from, NEW to, Step(id, from, to)
  PROVE  /\ Calm'
         /\ Lives' = [Lives EXCEPT ![id] = to]
         /\ Lives[id] \in from
         /\ StatusOf(id) = to => Lives' = Lives
<1>1. /\ Calm'
      /\ \A j \in Txs \ {id} : StatusOf(j)' = StatusOf(j)
  BY StepStaysCalm
<1>2. StatusOf(id)' = to /\ StatusOf(id) \in from
  BY DEF Step
<1> QED BY <1>1, <1>2 DEF Lives

(* The ten ways a transaction and its requester move. *)
LEMMA StatusMoves ==
  ASSUME Typed, Calm, NEW id \in Txs, NEW from, NEW to, Step(id, from, to), dapp' = dapp,
         \/ from = {"absent"} /\ to \in {"unapproved", "approved"}
         \/ from = {"unapproved"} /\ to \in {"approved", "absent"}
         \/ from = {"approved"} /\ to = "signed"
         \/ from = {"signed"} /\ to = "submitted"
         \/ from = {"approved", "signed"} /\ to = "failed"
  PROVE  Calm' /\ Moves
<1>1. Lifecycle!Move(id, from, to) /\ Calm'
  BY StepMoves DEF Lifecycle!Move, Lives
<1> QED BY <1>1 DEF Moves, Lifecycle!Next, Lifecycle!Store, Lifecycle!Replace,
        Lifecycle!Approve, Lifecycle!Sign, Lifecycle!Submit, Lifecycle!Fail, Lifecycle!Reject

LEMMA StepStutters ==
  ASSUME Typed, Calm, NEW id \in Txs, NEW from, Step(id, from, StatusOf(id)), dapp' = dapp
  PROVE  Calm' /\ Moves
BY StepMoves DEF Moves, Stutters

LEMMA RequesterMoves ==
  ASSUME Typed, Calm, NEW id \in Txs, NEW from, Step(id, from, StatusOf(id)),
         dapp[id] = "none", dapp' = [dapp EXCEPT ![id] = dapp'[id]],
         dapp'[id] \in {"none", "waiting", "error"}
  PROVE  Calm' /\ Moves
<1>1. Calm' /\ Lives' = Lives
  BY StepMoves
<1>2. dapp'[id] = "none" => dapp' = dapp
  BY DEF Typed, TypeOK
<1>3. dapp'[id] = "waiting" => Lifecycle!Listen(id)
  BY <1>1 DEF Lifecycle!Listen, Lives
<1>4. dapp'[id] = "error" => Lifecycle!Refuse(id)
  BY <1>1 DEF Lifecycle!Refuse, Lives
<1> QED BY <1>1, <1>2, <1>3, <1>4 DEF Moves, Stutters, Lifecycle!Next

LEMMA ToldMoves ==
  ASSUME Typed, Calm, NEW id \in Txs, NEW from, Step(id, from, StatusOf(id)), Told(id)
  PROVE  Calm' /\ Moves
<1>1. Calm' /\ Lives' = Lives
  BY StepMoves
<1>2. Lifecycle!Tell(id)
  <2>1. Lives[id] = StatusOf(id)
    BY DEF Lives
  <2> QED BY <1>1, <2>1 DEF Lifecycle!Tell, Lives, Told
<1> QED BY <1>1, <1>2 DEF Moves, Lifecycle!Next

LEMMA IdleMoves ==
  ASSUME Typed, Calm, UNCHANGED <<db, ui, adding, addNet, dapp, proc, sent, network, redo>>
  PROVE  Calm' /\ Moves
<1>1. \A id \in Txs : CalmOf(id)' /\ StatusOf(id)' = StatusOf(id)
  BY IdleApart, ApartStaysCalm, ApartKeepsEntry DEF Calm
<1> QED BY <1>1 DEF Calm, Moves, Stutters, Lives

LEMMA RequestMoves ==
  ASSUME Typed, Calm, NEW id \in Txs, Request(id) \/ Defaults(id)
  PROVE  Calm' /\ Moves
<1>1. CASE GenerateTxMeta(id)
  <2>1. Step(id, {"absent"}, StatusOf(id)) /\ dapp' = dapp
    BY <1>1, CalmGenerate DEF Step
  <2> QED BY <2>1, StepStutters
<1>2. CASE RefuseRequest(id)
  <2>1. Step(id, {"absent"}, StatusOf(id))
    BY <1>2, CalmRefuse DEF Step
  <2> QED BY <1>2, <2>1, CalmRefuse, RequesterMoves
<1>3. CASE StoreUnapproved(id)
  BY <1>3, CalmStore, StatusMoves
<1>4. CASE Defaults(id)
  BY <1>4, CalmDefaults, RequesterMoves
<1> QED BY <1>1, <1>2, <1>3, <1>4 DEF Request

LEMMA UserMoves ==
  ASSUME Typed, Exclusive, ~MultiWindow, Undisturbed, Calm, User, Undisturbed'
  PROVE  Calm' /\ Moves
<1>0. \A r \in Refs : IdOf(r) \in Txs
  BY DEF Refs, IdOf
<1>1. ASSUME NEW r \in Refs, OpenWindow(r) PROVE Calm' /\ Moves
  <2>1. Step(IdOf(r), {"unapproved"}, StatusOf(IdOf(r))) /\ dapp' = dapp
    BY <1>1, CalmOpenWindow DEF Step
  <2> QED BY <1>0, <2>1, StepStutters
<1>2. ASSUME NEW r \in Refs, UpdateTransaction(r) PROVE Calm' /\ Moves
  BY <1>0, <1>2, CalmEdit, StepStutters
<1>3. ASSUME NEW p \in Procs, NEW r \in Refs, NEW c \in CustomNonces \cup {None},
             UpdateAndApproveTransaction(p, r, c)
      PROVE  Calm' /\ Moves
  BY <1>0, <1>3, CalmUpdateAndApprove, StatusMoves
<1>4. ASSUME NEW id \in Txs, CancelTransaction(id) PROVE Calm' /\ Moves
  BY <1>4, CalmCancel, StatusMoves
<1>5. ASSUME NEW p \in Procs, NEW old \in Txs, NEW id \in Txs, CreateReplacement(p, old, id)
      PROVE  Calm' /\ Moves
  BY <1>5, CalmCreateReplacement, StatusMoves
<1>6. ASSUME NEW old \in Txs, NEW id \in Txs, RetryTransaction(old, id)
      PROVE  Calm' /\ Moves
  BY <1>6, CalmRetry, StatusMoves
<1>7. ~SwitchNetwork /\ \A a \in Accounts : ~ResetAccount(a)
  BY DEF SwitchNetwork, ResetAccount, Undisturbed
<1> QED BY <1>1, <1>2, <1>3, <1>4, <1>5, <1>6, <1>7 DEF User

LEMMA ApprovalMoves ==
  ASSUME Typed, Exclusive, Calm, NEW p \in Procs, Approval(p) \/ TakeNonceLock(p)
  PROVE  Calm' /\ Moves
<1>1. Active(p)
  BY DEF Approval, TakeNonceLock, BlockAnswer, Count, SignAnswer, NodeAccepts, SendAnswer,
     CallFailed, Active
<1>2. PICK id \in Txs : id = proc[p].id
  BY <1>1, ActiveCalm
<1>3. CASE BlockAnswer(p) \/ TakeNonceLock(p)
  <2>1. Step(id, {"approved"}, StatusOf(id)) /\ dapp' = dapp
    BY <1>2, <1>3, CalmBlockAnswer, CalmTakeNonceLock DEF Step
  <2> QED BY <2>1, StepStutters
<1>4. CASE Count(p)
  <2>1. CASE Step(id, {"approved"}, "approved")
    <3>1. Step(id, {"approved"}, StatusOf(id)) /\ dapp' = dapp
      BY <1>2, <1>4, <2>1, CalmCount DEF Step
    <3> QED BY <3>1, StepStutters
  <2>2. CASE Step(id, {"approved", "signed"}, "failed")
    BY <1>2, <1>4, <2>2, CalmCount, StatusMoves
  <2> QED BY <1>2, <1>4, <2>1, <2>2, CalmCount
<1>5. CASE SignAnswer(p)
  BY <1>2, <1>5, CalmSignAnswer, StatusMoves
<1>6. CASE NodeAccepts(p)
  <2>1. Step(id, {"signed"}, StatusOf(id)) /\ dapp' = dapp
    BY <1>2, <1>6, CalmNodeAccepts DEF Step
  <2> QED BY <2>1, StepStutters
<1>7. CASE SendAnswer(p)
  BY <1>2, <1>7, CalmSendAnswer, StatusMoves
<1>8. CASE CallFailed(p)
  BY <1>2, <1>8, CalmCallFailed, StatusMoves
<1> QED BY <1>3, <1>4, <1>5, <1>6, <1>7, <1>8 DEF Approval

LEMMA NextMoves ==
  ASSUME Typed, Exclusive, ~MultiWindow, Undisturbed, Calm, [Next]_vars, Undisturbed'
  PROVE  Calm' /\ Moves
<1>0. \A r \in Refs : IdOf(r) \in Txs
  BY DEF Refs, IdOf
<1>1. CASE \E id \in Txs : Request(id) \/ Defaults(id)
  BY <1>1, RequestMoves
<1>2. CASE User
  BY <1>2, UserMoves
<1>3. CASE \E p \in Procs : Approval(p) \/ TakeNonceLock(p)
  BY <1>3, ApprovalMoves
<1>4. ASSUME NEW r \in Refs, SponsorshipAnswer(r) PROVE Calm' /\ Moves
  BY <1>0, <1>4, CalmSponsorship, StepStutters
<1>5. ASSUME NEW r \in Refs, Redo(r) PROVE FALSE
  BY <1>5 DEF Redo, RedoGas, RedoReady, RedoFailed, Calm, NotRedone
<1>6. ASSUME NEW n \in Networks, NetworkUp(n) PROVE Calm' /\ Moves
  BY <1>6, CalmNetworkUp DEF Moves, Stutters, Lives
<1>7. CASE FireTimer
  <2>1. PICK id \in Txs : /\ Step(id, {StatusOf(id)}, StatusOf(id))
                          /\ dapp' = dapp \/ Told(id)
    BY <1>7, CalmFireTimer
  <2> QED BY <2>1, StepStutters, ToldMoves
<1>8. CASE Restart
  BY <1>8 DEF Restart, Undisturbed
<1>9. CASE Persist \/ (\E n \in Networks, a \in Accounts : ChainExecutes(n, a)) \/ UNCHANGED vars
  BY <1>9, IdleMoves DEF Persist, ChainExecutes, vars
<1> QED BY <1>1, <1>2, <1>3, <1>4, <1>5, <1>6, <1>7, <1>8, <1>9 DEF Next

LEMMA InitCalm == Init => Calm
<1> SUFFICES ASSUME Init PROVE Calm
  OBVIOUS
<1>1. Deferred(db) = {} /\ \A id \in Txs : ~Present(id)
  BY DEF Init, Deferred, Present
<1>2. \A p \in Procs : ~Active(p) /\ proc[p].pc # "reply"
  BY DEF Init, Active, IdleProc
<1>3. ASSUME NEW id \in Txs PROVE CalmOf(id)
  <2>1. ~Present(id) /\ Untimed(id) /\ ~Approving(id)
    BY <1>1, <1>2 DEF Untimed, Approving
  <2>2. /\ adding[id] = "none" /\ dapp[id] = "none" /\ sent = {}
        /\ \A r \in Refs : ui[r] = "unused" /\ ~Working(r)
        /\ \A r \in Refs : db.list[id] # r
    BY NoneAssumption DEF Init, Working
  <2>3. RequestCalm(id) /\ EntryCalm(id) /\ SentCalm(id)
    BY <2>1, <2>2 DEF RequestCalm, EntryCalm, SentCalm
  <2>4. WindowCalm(id)
    BY <1>1, <2>2 DEF WindowCalm
  <2>5. ApprovalCalm(id) /\ TimerCalm(id)
    BY <1>1, <2>1 DEF ApprovalCalm, TimerCalm, Approving
  <2> QED BY <2>3, <2>4, <2>5 DEF CalmOf
<1> QED BY <1>3 DEF Init, Calm

LEMMA UndisturbedBefore ==
  ASSUME Typed, [Next]_vars, Undisturbed' PROVE Undisturbed
<1>1. switches \in Nat /\ crashes \in Nat
  BY DEF Typed, TypeOK
<1>2. switches' \in {switches, switches + 1} /\ crashes' \in {crashes, crashes + 1}
  <2>1. CASE \E p \in Procs : Approval(p) \/ TakeNonceLock(p)
    BY <2>1 DEF Approval, TakeNonceLock, BlockAnswer, Count, CountAnswer, SignAnswer,
       NodeAccepts, SendAnswer, CallFailed
  <2>2. CASE User
    BY <2>2 DEF User, OpenWindow, UpdateTransaction, UpdateAndApproveTransaction,
       CancelTransaction, CreateReplacement, RetryTransaction, CanReplace, SwitchNetwork,
       ResetAccount
  <2>3. CASE ~(User \/ \E p \in Procs : Approval(p) \/ TakeNonceLock(p))
    BY <2>3 DEF Next, vars, Request, GenerateTxMeta, RefuseRequest, StoreUnapproved, Defaults,
       DefaultsReady, DefaultsFailed, SponsorshipAnswer, Redo, RedoGas, RedoReady, RedoFailed, NetworkUp,
       FireTimer, Persist, Restart, ChainExecutes
  <2> QED BY <2>1, <2>2, <2>3
<1> QED BY <1>1, <1>2 DEF Undisturbed

(* The inductive invariant of an undisturbed life. *)
CalmWhile == Undisturbed => Calm

LEMMA NextCalm ==
  ASSUME ~MultiWindow
  PROVE  Typed /\ Exclusive /\ CalmWhile /\ [Next]_vars => CalmWhile'
BY UndisturbedBefore, NextMoves DEF CalmWhile

LEMMA CalmIsOneHash == Typed /\ Calm => OneHashPerTx
<1> SUFFICES ASSUME Typed, Calm, NEW s \in sent, NEW t \in sent, s.id = t.id PROVE s = t
  BY DEF OneHashPerTx
<1>1. s.id \in Txs
  BY DEF Typed, TypeOK, SentTx
<1> QED BY <1>1 DEF Calm, CalmOf, SentCalm

(***************************************************************************)
(* One window at a time, and until the network is changed or the page      *)
(* restarts: no transaction is broadcast twice.                            *)
(***************************************************************************)
THEOREM BroadcastOnce ==
  ASSUME ~MultiWindow
  PROVE  Spec => [](Undisturbed => OneHashPerTx)
<1>1. Spec => []Typed
  BY InitTyped, NextTyped, PTL DEF Spec
<1>2. Spec => []Exclusive
  BY <1>1, InitExclusive, NextExclusive, PTL DEF Spec
<1>3. Init => CalmWhile
  BY InitCalm DEF CalmWhile
<1>4. Spec => []CalmWhile
  BY <1>1, <1>2, <1>3, NextCalm, PTL DEF Spec
<1>5. Typed /\ CalmWhile => (Undisturbed => OneHashPerTx)
  BY CalmIsOneHash DEF CalmWhile
<1> QED BY <1>1, <1>4, <1>5, PTL

(***************************************************************************)
(* Then the controller implements TxLifecycle: a transaction moves once    *)
(* through its statuses, and the dapp learns what became of it.            *)
(***************************************************************************)
THEOREM LifecycleImplemented ==
  ASSUME ~MultiWindow, MaxSwitches = 0, MaxCrashes = 0
  PROVE  Spec => ImplementsLifecycle
<1>1. Spec => []Typed
  BY InitTyped, NextTyped, PTL DEF Spec
<1>2. Spec => []Exclusive
  BY <1>1, InitExclusive, NextExclusive, PTL DEF Spec
<1>3. Init => CalmWhile /\ Undisturbed
  BY InitCalm DEF CalmWhile, Init, Undisturbed
<1>4. Typed /\ Undisturbed /\ [Next]_vars => Undisturbed'
  <2> SUFFICES ASSUME Typed, Undisturbed, [Next]_vars PROVE Undisturbed'
    OBVIOUS
  <2>1. ~SwitchNetwork /\ ~Restart /\ \A a \in Accounts : ~ResetAccount(a)
    BY DEF SwitchNetwork, Restart, ResetAccount, Undisturbed
  <2>2. CASE \E p \in Procs : Approval(p) \/ TakeNonceLock(p)
    BY <2>2 DEF Approval, TakeNonceLock, BlockAnswer, Count, CountAnswer, SignAnswer,
       NodeAccepts, SendAnswer, CallFailed, Undisturbed
  <2>3. CASE User
    BY <2>1, <2>3 DEF User, OpenWindow, UpdateTransaction, UpdateAndApproveTransaction,
       CancelTransaction, CreateReplacement, RetryTransaction, CanReplace, Undisturbed
  <2>4. CASE ~(User \/ \E p \in Procs : Approval(p) \/ TakeNonceLock(p))
    BY <2>1, <2>4 DEF Next, vars, Request, GenerateTxMeta, RefuseRequest, StoreUnapproved,
       Defaults, DefaultsReady, DefaultsFailed, SponsorshipAnswer, Redo, RedoGas, RedoReady, RedoFailed,
       NetworkUp, FireTimer, Persist, ChainExecutes, Undisturbed
  <2> QED BY <2>2, <2>3, <2>4
<1>5. Spec => []Undisturbed
  BY <1>1, <1>3, <1>4, PTL DEF Spec
<1>6. Spec => []CalmWhile
  BY <1>1, <1>2, <1>3, NextCalm, PTL DEF Spec
<1>7. Init => Lifecycle!Init
  BY DEF Init, Lifecycle!Init, StatusOf
<1>8. /\ Typed /\ Exclusive /\ Undisturbed /\ CalmWhile /\ [Next]_vars /\ Undisturbed'
      => [Lifecycle!Next]_(Lifecycle!vars)
  BY NextMoves DEF CalmWhile, Moves, Stutters, Lives, Lifecycle!vars
<1>9. Spec => Lifecycle!Spec
  BY <1>1, <1>2, <1>5, <1>6, <1>7, <1>8, PTL DEF Spec, Lifecycle!Spec
<1> QED BY <1>9 DEF ImplementsLifecycle

-----------------------------------------------------------------------------
(***************************************************************************)
(* Nonces, in an undisturbed life and with none typed in by the user.      *)
(*                                                                         *)
(* A nonce is taken once a transaction with it is submitted, and backed    *)
(* when every nonce below it is executed or was broadcast.  The lock of    *)
(* the account keeps the nonce of an approval from being taken until the   *)
(* approval ends; a replacement has its original's nonce, which is backed. *)
(***************************************************************************)
Submitted(id) == Present(id) /\ Current(id).status = "submitted"

Taken(a, n) == \E id \in Txs : Submitted(id) /\ From[id] = a /\ Current(id).nonce = n

Announced(a, n) == \E s \in sent : From[s.id] = a /\ s.raw.nonce = n

Backed(a, n) ==
  \A m \in 0 .. (n - 1) :
    (network \in Networks /\ m < chainNonce[network][a]) \/ Announced(a, m)

(* The objects: no typed nonce, and none written that is not backed. *)
ObjectNonces(id) ==
  \A r \in Refs : IdOf(r) = id =>
    /\ db.obj[r].custom = None
    /\ db.obj[r].nonce # None => Backed(From[id], db.obj[r].nonce)

(* An approval that has its nonce. *)
Nonced(p) == proc[p].pc \in {"sign", "send", "reply"}

ApprovalNonces(id) ==
  \A p \in Procs : Nonced(p) /\ proc[p].id = id =>
    /\ db.obj[proc[p].ref].nonce = proc[p].nonce
    /\ Backed(From[id], proc[p].nonce)
    /\ ~db.obj[proc[p].ref].last => ~Taken(From[id], proc[p].nonce)
    /\ proc[p].pc = "reply" => \E s \in sent : s.id = id /\ s.raw.nonce = proc[p].nonce

SentNonces(id) ==
  \A s \in sent : s.id = id =>
    s.net = network /\ s.raw.nonce \in Nat /\ Backed(From[id], s.raw.nonce)

EntryNonces(id) ==
  Submitted(id) =>
    /\ \E s \in sent : s.id = id /\ s.raw.nonce = Current(id).nonce
    /\ ~Current(id).last =>
         \A j \in Txs \ {id} : Submitted(j) /\ ~Current(j).last /\ From[j] = From[id]
           => Current(j).nonce # Current(id).nonce

NoncesOf(id) ==
  ObjectNonces(id) /\ ApprovalNonces(id) /\ SentNonces(id) /\ EntryNonces(id)

NoncesKept == \A id \in Txs : NoncesOf(id)

-----------------------------------------------------------------------------
(***************************************************************************)
(* The store e came from d by writes that keep the nonces, except that an  *)
(* object in S that is no replacement may have been given a new one.       *)
(***************************************************************************)
KeepsNonces(d, e, S) ==
  \A r \in Refs :
    /\ e.obj[r].custom = d.obj[r].custom
    /\ e.obj[r].last = d.obj[r].last
    /\ r \notin S \/ d.obj[r].last => e.obj[r].nonce = d.obj[r].nonce

LEMMA KeepsTrans ==
  ASSUME NEW d, NEW e, NEW f, NEW S, KeepsNonces(d, e, S), KeepsNonces(e, f, S)
  PROVE  KeepsNonces(d, f, S)
BY DEF KeepsNonces

LEMMA SameObjectsKeep ==
  ASSUME NEW d, NEW e, NEW S, e.obj = d.obj
  PROVE  KeepsNonces(d, e, S)
BY DEF KeepsNonces

LEMMA WriteKeeps ==
  ASSUME NEW d \in TxStore, NEW r \in Refs, NEW m \in TxMeta, NEW S,
         m.custom = d.obj[r].custom, m.last = d.obj[r].last,
         r \notin S \/ d.obj[r].last => m.nonce = d.obj[r].nonce
  PROVE  /\ KeepsNonces(d, WithTxMeta(d, r, m), S)
         /\ KeepsNonces(d, UpdateTx(WithTxMeta(d, r, m), r), S)
<1>1. WithTxMeta(d, r, m).obj = [d.obj EXCEPT ![r] = m]
  BY DEF WithTxMeta, TxStore
<1>2. \A e \in TxStore : UpdateTx(e, r).obj = e.obj
  BY DEF UpdateTx, TxStore
<1>3. WithTxMeta(d, r, m) \in TxStore
  BY WithTxMetaType
<1>4. d.obj \in [Refs -> TxMeta]
  BY DEF TxStore
<1> QED BY <1>1, <1>2, <1>3, <1>4 DEF KeepsNonces

LEMMA SetTxStatusKeeps ==
  ASSUME NEW d \in TxStore, NEW n, NEW id \in Txs, NEW s \in Statuses, NEW S
  PROVE  KeepsNonces(d, SetTxStatus(d, n, id, s), S)
<1> DEFINE r == GetTx(d, n, id)
<1>1. CASE r = None
  BY <1>1, SameObjectsKeep DEF SetTxStatus
<1>2. CASE r # None
  <2>1. r \in Refs
    BY <1>2, GetTxType
  <2>2. SetTxStatus(d, n, id, s).obj = [d.obj EXCEPT ![r].status = s]
    BY <1>2 DEF SetTxStatus, TxStore
  <2>3. d.obj \in [Refs -> TxMeta]
    BY DEF TxStore
  <2> HIDE DEF r
  <2>4. \A q \in Refs : /\ SetTxStatus(d, n, id, s).obj[q].nonce = d.obj[q].nonce
                        /\ SetTxStatus(d, n, id, s).obj[q].last = d.obj[q].last
                        /\ SetTxStatus(d, n, id, s).obj[q].custom = d.obj[q].custom
    BY <2>1, <2>2, <2>3 DEF TxMeta
  <2> QED BY <2>4 DEF KeepsNonces
<1> QED BY <1>1, <1>2

LEMMA RejectKeeps ==
  ASSUME NEW d \in TxStore, NEW n, NEW id \in Txs, NEW S
  PROVE  KeepsNonces(d, SetTxStatusRejected(d, n, id), S)
<1> DEFINE e == SetTxStatus(d, n, id, "rejected")
<1>1. KeepsNonces(d, e, S) /\ e \in TxStore
  BY SetTxStatusKeeps, SetTxStatusType DEF Statuses
<1> HIDE DEF e
<1>2. RemoveTx(e, id).obj = e.obj
  BY <1>1 DEF RemoveTx, TxStore
<1> QED BY <1>1, <1>2, SameObjectsKeep, KeepsTrans DEF SetTxStatusRejected, e

LEMMA ApproveKeeps ==
  ASSUME NEW p, NEW id \in Txs, NEW d \in TxStore, ApproveTransaction(p, id, d), NEW S
  PROVE  KeepsNonces(d, db', S)
BY SetTxStatusKeeps, SameObjectsKeep DEF ApproveTransaction, Statuses

LEMMA FailKeeps ==
  ASSUME NEW p, proc[p].id \in Txs, NEW d \in TxStore, FailApproval(p, d), NEW S
  PROVE  KeepsNonces(d, db', S)
BY SetTxStatusKeeps DEF FailApproval, SetTxStatusFailed, Statuses

-----------------------------------------------------------------------------
(***************************************************************************)
(* A step about a transaction that is not submitted, before or after it:   *)
(* the nonces that are taken stay those, and what was broadcast stays.     *)
(***************************************************************************)
LEMMA NotSubmitted ==
  ASSUME NEW id \in Txs, StatusOf(id) # "submitted" PROVE ~Submitted(id)
BY DEF Submitted, StatusOf, Present

LEMMA TakenKept ==
  ASSUME Typed, NEW id \in Txs, NEW from, NEW to, Step(id, from, to),
         "submitted" \notin from, to # "submitted",
         sent \subseteq sent', chainNonce' = chainNonce
  PROVE  /\ \A j \in Txs : Submitted(j)' <=> Submitted(j)
         /\ \A j \in Txs : Submitted(j) => Current(j)' = Current(j)
         /\ ~Submitted(id)
         /\ \A a, n : Taken(a, n)' <=> Taken(a, n)
         /\ \A a, n : Backed(a, n) => Backed(a, n)'
<1>1. ~Submitted(id) /\ ~Submitted(id)'
  BY DEF Step, Submitted, StatusOf, Present
<1>2. \A j \in Txs \ {id} : /\ Present(j)' <=> Present(j)
                            /\ Present(j) => Current(j)' = Current(j)
  BY ApartKeepsEntry DEF Step, Others
<1>3. /\ \A j \in Txs : Submitted(j)' <=> Submitted(j)
      /\ \A j \in Txs : Submitted(j) => Current(j)' = Current(j)
  BY <1>1, <1>2 DEF Submitted
<1>4. \A a, n : Taken(a, n)' <=> Taken(a, n)
  BY <1>3 DEF Taken
<1>5. \A a, n : Backed(a, n) => Backed(a, n)'
  BY DEF Backed, Announced, Step
<1> QED BY <1>1, <1>3, <1>4, <1>5

LEMMA ApartNonces ==
  ASSUME Typed, NEW j \in Txs, NoncesOf(j), Apart(j), network' = network,
         \A i \in Txs : Submitted(i)' <=> Submitted(i),
         \A i \in Txs : Submitted(i) => Current(i)' = Current(i),
         \A a, n : Taken(a, n)' <=> Taken(a, n),
         \A a, n : Backed(a, n) => Backed(a, n)'
  PROVE  NoncesOf(j)'
<1>1. ObjectNonces(j)'
  BY DEF NoncesOf, ObjectNonces, Apart
<1>2. ApprovalNonces(j)'
  <2> SUFFICES ASSUME NEW p \in Procs, Nonced(p)', proc'[p].id = j
               PROVE  /\ db'.obj[proc'[p].ref].nonce = proc'[p].nonce
                      /\ Backed(From[j], proc[p].nonce)
                      /\ ~db'.obj[proc'[p].ref].last => ~Taken(From[j], proc[p].nonce)
                      /\ proc'[p].pc = "reply" =>
                           \E s \in sent' : s.id = j /\ s.raw.nonce = proc'[p].nonce
                      /\ proc'[p] = proc[p]
    BY DEF ApprovalNonces
  <2>1. proc'[p] = proc[p]
    BY DEF Apart, Nonced, Active
  <2>2. Nonced(p) /\ proc[p].id = j
    BY <2>1 DEF Nonced
  <2>3. proc[p].ref \in Refs /\ IdOf(proc[p].ref) = j
    BY <2>2 DEF Typed, ProcOK, Nonced
  <2>4. db'.obj[proc[p].ref] = db.obj[proc[p].ref]
    BY <2>3 DEF Apart
  <2>5. \A s \in sent : s.id = j => s \in sent'
    BY DEF Apart
  <2> QED BY <2>1, <2>2, <2>4, <2>5 DEF NoncesOf, ApprovalNonces
<1>3. SentNonces(j)'
  <2>1. \A s \in sent' : s.id = j => s \in sent
    BY DEF Apart
  <2> QED BY <2>1 DEF NoncesOf, SentNonces
<1>4. EntryNonces(j)'
  <2>1. \A s \in sent : s.id = j => s \in sent'
    BY DEF Apart
  <2> QED BY <2>1 DEF NoncesOf, EntryNonces
<1> QED BY <1>1, <1>2, <1>3, <1>4 DEF NoncesOf

LEMMA NoncesStep ==
  ASSUME Typed, NoncesKept, NEW id \in Txs, NEW from, NEW to, Step(id, from, to),
         "submitted" \notin from, to # "submitted",
         sent \subseteq sent', chainNonce' = chainNonce,
         ObjectNonces(id)', ApprovalNonces(id)', SentNonces(id)'
  PROVE  NoncesKept'
<1>1. \A j \in Txs \ {id} : NoncesOf(j)'
  BY TakenKept, ApartNonces DEF NoncesKept, Step, Others
<1>2. EntryNonces(id)'
  BY TakenKept DEF EntryNonces
<1> QED BY <1>1, <1>2 DEF NoncesKept, NoncesOf

(* What most steps do: no nonce is written, and no approval gets one. *)
LEMMA KeptStep ==
  ASSUME Typed, NoncesKept, NEW id \in Txs, NEW from, NEW to, Step(id, from, to),
         "submitted" \notin from, to # "submitted",
         sent' = sent, chainNonce' = chainNonce,
         NEW S, KeepsNonces(db, db', S),
         \A r \in S \cap Refs : db'.obj[r].nonce # None => Backed(From[IdOf(r)], db'.obj[r].nonce),
         \A p \in Procs : Nonced(p)' /\ proc'[p].id = id =>
           /\ Nonced(p) /\ proc[p].id = id /\ proc'[p].ref \notin S
           /\ proc'[p].ref = proc[p].ref /\ proc'[p].nonce = proc[p].nonce
           /\ proc'[p].pc = "reply" => proc[p].pc = "reply"
  PROVE  NoncesKept'
<1>1. /\ NoncesOf(id)
      /\ \A a, n : Taken(a, n)' <=> Taken(a, n)
      /\ \A a, n : Backed(a, n) => Backed(a, n)'
  BY TakenKept DEF NoncesKept
<1>2. ObjectNonces(id)'
  <2> SUFFICES ASSUME NEW r \in Refs, IdOf(r) = id
               PROVE  /\ db'.obj[r].custom = None
                      /\ db'.obj[r].nonce # None => Backed(From[id], db'.obj[r].nonce)
    BY <1>1 DEF ObjectNonces
  <2> QED BY <1>1 DEF NoncesOf, ObjectNonces, KeepsNonces
<1>3. ApprovalNonces(id)'
  <2> SUFFICES ASSUME NEW p \in Procs, Nonced(p)', proc'[p].id = id
               PROVE  /\ db'.obj[proc'[p].ref].nonce = proc'[p].nonce
                      /\ Backed(From[id], proc[p].nonce)
                      /\ ~db'.obj[proc'[p].ref].last => ~Taken(From[id], proc[p].nonce)
                      /\ proc'[p].pc = "reply" =>
                           \E s \in sent' : s.id = id /\ s.raw.nonce = proc'[p].nonce
                      /\ proc'[p].nonce = proc[p].nonce
    BY <1>1 DEF ApprovalNonces
  <2>1. Nonced(p) /\ proc[p].id = id /\ proc[p].ref \in Refs
    BY DEF Typed, ProcOK, Nonced
  <2> QED BY <1>1, <2>1 DEF NoncesOf, ApprovalNonces, KeepsNonces
<1>4. SentNonces(id)'
  BY <1>1 DEF NoncesOf, SentNonces, Step
<1> QED BY <1>2, <1>3, <1>4, NoncesStep

(* And what the others do: nothing about any transaction. *)
LEMMA NoncesIdle ==
  ASSUME Typed, NoncesKept, db'.list = db.list, db'.obj = db.obj, proc' = proc, sent' = sent,
         \A n \in Networks, a \in Accounts : chainNonce[n][a] <= chainNonce'[n][a],
         chainNonce' \in [Networks -> [Accounts -> Nat]],
         network' = network \/ (network = Loading /\ sent = {} /\ \A p \in Procs : ~Active(p))
  PROVE  NoncesKept'
<1>1. /\ \A j \in Txs : Submitted(j)' <=> Submitted(j)
      /\ \A j : Current(j)' = Current(j)
  BY DEF Submitted, Current, Present
<1>2. \A a, n : Taken(a, n)' <=> Taken(a, n)
  BY <1>1 DEF Taken
<1>3. network' = network => \A a \in Accounts, n \in Nat : Backed(a, n) => Backed(a, n)'
  <2> SUFFICES ASSUME network' = network, NEW a \in Accounts, NEW n \in Nat, Backed(a, n),
                      NEW m \in 0 .. (n - 1)
               PROVE  (network \in Networks /\ m < chainNonce'[network][a]) \/ Announced(a, m)'
    BY DEF Backed
  <2>1. Announced(a, m) => Announced(a, m)'
    BY DEF Announced
  <2>2. network \in Networks => /\ chainNonce[network][a] \in Nat
                                /\ chainNonce'[network][a] \in Nat
                                /\ chainNonce[network][a] <= chainNonce'[network][a]
    BY DEF Typed, TypeOK
  <2> QED BY <2>1, <2>2 DEF Backed
<1> SUFFICES ASSUME NEW id \in Txs PROVE NoncesOf(id)'
  BY DEF NoncesKept
<1>4. NoncesOf(id) /\ From[id] \in Accounts
  BY FromAssumption DEF NoncesKept
<1>5. ObjectNonces(id)'
  <2> SUFFICES ASSUME NEW r \in Refs, IdOf(r) = id, db.obj[r].nonce # None
               PROVE  Backed(From[id], db.obj[r].nonce)'
    BY <1>4 DEF NoncesOf, ObjectNonces
  <2>1. db.obj[r].nonce \in Nat /\ Backed(From[id], db.obj[r].nonce)
    BY <1>4, ObjType DEF NoncesOf, ObjectNonces, Typed, TypeOK, TxMeta
  <2>2. CASE network' = network
    BY <1>3, <1>4, <2>1, <2>2 DEF NoncesOf, ObjectNonces
  <2>3. CASE network = Loading /\ sent = {}
    <3>1. \A a, m : ~Announced(a, m)
      BY <2>3 DEF Announced
    <3>2. \A m \in 0 .. (db.obj[r].nonce - 1) : FALSE
      BY <2>1, <2>3, <3>1, NetworkAssumption DEF Backed, Loading
    <3>3. db.obj[r].nonce = 0
      BY <2>1, <3>2
    <3> QED BY <3>3 DEF Backed
  <2> QED BY <2>2, <2>3
<1>6. ApprovalNonces(id)'
  <2> SUFFICES ASSUME NEW p \in Procs, Nonced(p), proc[p].id = id
               PROVE  /\ db.obj[proc[p].ref].nonce = proc[p].nonce
                      /\ Backed(From[id], proc[p].nonce) /\ proc[p].nonce \in Nat
                      /\ ~db.obj[proc[p].ref].last => ~Taken(From[id], proc[p].nonce)
                      /\ proc[p].pc = "reply" =>
                           \E s \in sent : s.id = id /\ s.raw.nonce = proc[p].nonce
                      /\ network' = network
    BY <1>2, <1>3, <1>4 DEF ApprovalNonces, Nonced
  <2>1. Active(p) /\ proc[p].nonce \in Nat
    BY DEF Nonced, Active, Typed, ProcOK
  <2> QED BY <1>4, <2>1 DEF NoncesOf, ApprovalNonces
<1>7. SentNonces(id)'
  BY <1>3, <1>4 DEF NoncesOf, SentNonces
<1>8. EntryNonces(id)'
  BY <1>1, <1>4 DEF NoncesOf, EntryNonces
<1> QED BY <1>5, <1>6, <1>7, <1>8 DEF NoncesOf
-----------------------------------------------------------------------------
(***************************************************************************)
(* Requests, replacements and windows: new objects, with no nonce, or with *)
(* that of the original or of the entry they are copies of.                *)
(***************************************************************************)
LEMMA WrittenNonces ==
  ASSUME Typed, NoncesKept, NEW id \in Txs, NEW from, NEW to, Step(id, from, to),
         "submitted" \notin from, to # "submitted", sent' = sent, chainNonce' = chainNonce,
         NEW r \in Refs, \A q \in Refs : q # r => db'.obj[q] = db.obj[q],
         db'.obj[r].custom = None, IdOf(r) = id,
         db'.obj[r].nonce # None => Backed(From[id], db'.obj[r].nonce),
         \A p \in Procs : proc'[p].id = id => ~Nonced(p)'
  PROVE  NoncesKept'
<1>1. NoncesOf(id) /\ \A a, n : Backed(a, n) => Backed(a, n)'
  BY TakenKept DEF NoncesKept
<1>2. ObjectNonces(id)'
  BY <1>1 DEF NoncesOf, ObjectNonces
<1>3. ApprovalNonces(id)'
  BY DEF ApprovalNonces
<1>4. SentNonces(id)'
  BY <1>1, TakenKept DEF NoncesOf, SentNonces, Step
<1> QED BY <1>2, <1>3, <1>4, NoncesStep

LEMMA NoncesStore ==
  ASSUME Typed, Calm, NoncesKept, NEW id \in Txs, StoreUnapproved(id)
  PROVE  NoncesKept'
<1> DEFINE r == <<id, 0>>
<1>1. Step(id, {"absent"}, "unapproved")
  BY CalmStore
<1>2. /\ adding[id] = "checking" /\ db' = AddTx(db, r, NewTxMeta(addNet[id]))
      /\ UNCHANGED <<proc, sent, chainNonce>>
  BY DEF StoreUnapproved
<1>3. r \in Refs /\ db \in TxStore
  BY CopiesAssumption DEF Refs, Typed, TypeOK
<1>4. /\ db'.obj[r] = NewTxMeta(addNet[id])
      /\ \A q \in Refs : q # r => db'.obj[q] = db.obj[q]
  <2> HIDE DEF r
  <2> QED BY <1>2, <1>3 DEF AddTx, TxStore
<1>5. ~Approving(id)
  BY <1>2 DEF Calm, CalmOf, RequestCalm
<1>6. \A p \in Procs : proc'[p].id = id => ~Nonced(p)'
  BY <1>2, <1>5 DEF Nonced, Approving, Active
<1>7. db'.obj[r].custom = None /\ db'.obj[r].nonce = None /\ IdOf(r) = id
  BY <1>4 DEF NewTxMeta, IdOf
<1> HIDE DEF r
<1> QED BY <1>1, <1>2, <1>3, <1>4, <1>6, <1>7, WrittenNonces

LEMMA ReplacementNonces ==
  ASSUME Typed, Calm, NoncesKept, NEW old \in Txs, NEW id \in Txs, CanReplace(old, id)
  PROVE  /\ ReplacementOf(old).custom = None
         /\ ReplacementOf(old).last
         /\ ReplacementOf(old).nonce # None => Backed(From[id], ReplacementOf(old).nonce)
         /\ ReplacementOf(old) \in TxMeta
         /\ ~Approving(id)
<1>1. From[id] = From[old] /\ Current(old) = db.obj[db.list[old]]
      /\ db.list[old] \in Refs /\ IdOf(db.list[old]) = old
  BY GetTxType DEF CanReplace, Current, Typed, TypeOK
<1>2. /\ ReplacementOf(old).custom = None /\ ReplacementOf(old).last
      /\ ReplacementOf(old).nonce = Current(old).nonce
  BY DEF ReplacementOf, NewTxMeta
<1>3. Current(old).nonce # None => Backed(From[id], Current(old).nonce)
  BY <1>1 DEF NoncesKept, NoncesOf, ObjectNonces
<1> QED BY <1>2, <1>3, ReplacementCalm, TypedReplacement

LEMMA NoncesRetry ==
  ASSUME Typed, Calm, NoncesKept, NEW old \in Txs, NEW id \in Txs, RetryTransaction(old, id)
  PROVE  NoncesKept'
<1> DEFINE r == <<id, 0>>
           m == ReplacementOf(old)
<1>1. Step(id, {"absent"}, "unapproved")
  BY CalmRetry
<1>2. CanReplace(old, id) /\ db' = AddTx(db, r, m) /\ UNCHANGED <<proc, sent, chainNonce>>
  BY DEF RetryTransaction, CanReplace
<1>3. r \in Refs /\ db \in TxStore
  BY CopiesAssumption DEF Refs, Typed, TypeOK
<1>4. db'.obj[r] = m /\ \A q \in Refs : q # r => db'.obj[q] = db.obj[q]
  <2> HIDE DEF r, m
  <2> QED BY <1>2, <1>3 DEF AddTx, TxStore
<1>5. /\ m.custom = None /\ ~Approving(id) /\ IdOf(r) = id
      /\ m.nonce # None => Backed(From[id], m.nonce)
  BY <1>2, ReplacementNonces DEF IdOf
<1>6. \A p \in Procs : proc'[p].id = id => ~Nonced(p)'
  BY <1>2, <1>5 DEF Nonced, Approving, Active
<1> HIDE DEF r, m
<1> QED BY <1>1, <1>2, <1>3, <1>4, <1>5, <1>6, WrittenNonces

LEMMA NoncesCreateReplacement ==
  ASSUME Typed, Exclusive, Calm, NoncesKept, NEW p \in Procs, NEW old \in Txs, NEW id \in Txs,
         CreateReplacement(p, old, id)
  PROVE  NoncesKept'
<1> DEFINE r == <<id, 0>>
           m == [ReplacementOf(old) EXCEPT !.status = "approved"]
           d == AddTx(db, r, m)
<1>1. Step(id, {"absent"}, "approved")
  BY CalmCreateReplacement
<1>2. /\ CanReplace(old, id) /\ ApproveTransaction(p, id, d)
      /\ UNCHANGED <<sent, chainNonce>>
  BY DEF CreateReplacement, CanReplace
<1>3. r \in Refs /\ db \in TxStore
  BY CopiesAssumption DEF Refs, Typed, TypeOK
<1>5. /\ m \in TxMeta /\ m.custom = None /\ ~Approving(id)
      /\ m.nonce # None => Backed(From[id], m.nonce)
  BY <1>2, ReplacementNonces, TypedReplacement DEF TxMeta
<1> HIDE DEF m, r
<1>4. d \in TxStore /\ d.obj[r] = m /\ \A q \in Refs : q # r => d.obj[q] = db.obj[q]
  BY <1>3, <1>5, AddTxType DEF AddTx, TxStore
<1> HIDE DEF d
<1>6. KeepsNonces(d, db', {})
  BY <1>2, <1>4, ApproveKeeps
<1>7. /\ db'.obj[r].custom = None /\ db'.obj[r].nonce = m.nonce
      /\ \A q \in Refs : q # r => /\ db'.obj[q].custom = db.obj[q].custom
                                  /\ db'.obj[q].nonce = db.obj[q].nonce
  BY <1>3, <1>4, <1>5, <1>6 DEF KeepsNonces
<1>8. \A q \in Procs : proc'[q].id = id => ~Nonced(q)'
  <2>1. \A q \in Procs : proc[q].id = id => ~Nonced(q)
    BY <1>5 DEF Approving, Active, Nonced
  <2>2. CASE UNCHANGED signing
    BY <2>1, <2>2 DEF Nonced
  <2>3. CASE ~UNCHANGED signing
    <3>1. /\ proc'[p].pc = "block" /\ \A q \in Procs : q # p => proc'[q] = proc[q]
      BY <1>2, <2>3 DEF ApproveTransaction, IdleProc, Typed, TypeOK
    <3> QED BY <2>1, <3>1 DEF Nonced
  <2> QED BY <2>2, <2>3
<1>9. NoncesOf(id) /\ \A a, n : Backed(a, n) => Backed(a, n)'
  BY <1>1, <1>2, TakenKept DEF NoncesKept
<1>10. ObjectNonces(id)'
  BY <1>5, <1>7, <1>9 DEF NoncesOf, ObjectNonces
<1>11. ApprovalNonces(id)' /\ SentNonces(id)'
  BY <1>1, <1>2, <1>8, <1>9, TakenKept DEF ApprovalNonces, NoncesOf, SentNonces, Step
<1> QED BY <1>1, <1>2, <1>10, <1>11, NoncesStep

LEMMA NoncesOpenWindow ==
  ASSUME Typed, Calm, ~MultiWindow, NoncesKept, NEW r \in Refs, OpenWindow(r)
  PROVE  NoncesKept'
<1>1. PICK id \in Txs : id = IdOf(r)
  BY DEF Refs, IdOf
<1>2. Step(id, {"unapproved"}, "unapproved")
  BY <1>1, CalmOpenWindow
<1>3. /\ db' = WithTxMeta(db, r, Current(id)) /\ Shown(id)
      /\ UNCHANGED <<proc, sent, chainNonce>>
  BY <1>1 DEF OpenWindow
<1>4. CalmOf(id) /\ NoncesOf(id)
  BY DEF Calm, NoncesKept
<1>5. /\ Present(id) /\ Current(id).status = "unapproved" /\ Current(id) = db.obj[db.list[id]]
      /\ db.list[id] \in Refs /\ IdOf(db.list[id]) = id
  BY <1>3, <1>4, ShownCalm
<1>6. ~Approving(id)
  BY <1>4, <1>5, UnapprovedCalm
<1>7. \A p \in Procs : proc'[p].id = id => ~Nonced(p)'
  BY <1>3, <1>6 DEF Nonced, Approving, Active
<1>8. db'.obj[r] = Current(id) /\ \A q \in Refs : q # r => db'.obj[q] = db.obj[q]
  BY <1>3 DEF WithTxMeta, Typed, TypeOK, TxStore
<1>9. /\ db'.obj[r].custom = None /\ IdOf(r) = id
      /\ db'.obj[r].nonce # None => Backed(From[id], db'.obj[r].nonce)
  BY <1>1, <1>4, <1>5, <1>8 DEF NoncesOf, ObjectNonces
<1> QED BY <1>2, <1>3, <1>7, <1>8, <1>9, WrittenNonces

LEMMA NoncesDefaults ==
  ASSUME Typed, Calm, NoncesKept, NEW id \in Txs, Defaults(id)
  PROVE  NoncesKept'
<1> DEFINE r == <<id, 0>>
           m == [db.obj[r] EXCEPT !.ld = FALSE]
<1>1. Step(id, {"absent", "unapproved"}, StatusOf(id))
  BY CalmDefaults
<1>2. /\ db' = UpdateTx(WithTxMeta(db, r, m), r)
      /\ UNCHANGED <<proc, sent, chainNonce>>
  BY DEF Defaults, DefaultsReady, DefaultsFailed
<1>3. r \in Refs /\ db \in TxStore
  BY CopiesAssumption DEF Refs, Typed, TypeOK
<1>4. /\ m \in TxMeta /\ m.custom = db.obj[r].custom /\ m.last = db.obj[r].last
      /\ m.nonce = db.obj[r].nonce
  <2> HIDE DEF r
  <2> QED BY <1>3, ObjType, TxMetaFields DEF TxMeta
<1> HIDE DEF m, r
<1>5. KeepsNonces(db, db', {})
  BY <1>2, <1>3, <1>4, WriteKeeps
<1>6. StatusOf(id) # "submitted"
  BY <1>1 DEF Step
<1> QED BY <1>1, <1>2, <1>5, <1>6, KeptStep DEF Nonced

LEMMA NoncesSponsorship ==
  ASSUME Typed, Calm, NoncesKept, NEW r \in Refs, SponsorshipAnswer(r)
  PROVE  NoncesKept'
<1>1. PICK id \in Txs : id = IdOf(r)
  BY DEF Refs, IdOf
<1>2. Step(id, {StatusOf(id)}, StatusOf(id))
  BY <1>1, CalmSponsorship
<1>3. /\ ui[r] = "editing" /\ db' = UpdateTx(db, r) /\ UNCHANGED <<proc, sent, chainNonce>>
  BY DEF SponsorshipAnswer
<1>4. StatusOf(id) # "submitted"
  BY <1>1, <1>3 DEF Calm, CalmOf, WindowCalm, Working, StatusOf, Present
<1>5. db'.obj = db.obj
  BY <1>3 DEF UpdateTx, Typed, TypeOK, TxStore
<1>6. KeepsNonces(db, db', {})
  BY <1>5, SameObjectsKeep
<1> QED BY <1>2, <1>3, <1>4, <1>6, KeptStep DEF Nonced

LEMMA NoncesUpdateAndApprove ==
  ASSUME Typed, Exclusive, Calm, NoncesKept, NEW p \in Procs, NEW r \in Refs,
         UpdateAndApproveTransaction(p, r, None)
  PROVE  NoncesKept'
<1> DEFINE m == [db.obj[r] EXCEPT !.custom = None]
           d == UpdateTx(WithTxMeta(db, r, m), r)
<1>1. PICK id \in Txs : id = IdOf(r)
  BY DEF Refs, IdOf
<1>2. Step(id, {"unapproved"}, "approved")
  BY <1>1, CalmUpdateAndApprove
<1>3. ApproveTransaction(p, id, d) /\ UNCHANGED <<sent, chainNonce>>
  BY <1>1 DEF UpdateAndApproveTransaction
<1>4. db \in TxStore /\ db.obj[r].custom = None
  BY <1>1 DEF Typed, TypeOK, NoncesKept, NoncesOf, ObjectNonces
<1>5. /\ m \in TxMeta /\ m.custom = db.obj[r].custom /\ m.last = db.obj[r].last
      /\ m.nonce = db.obj[r].nonce
  BY <1>4, ObjType, TxMetaFields DEF TxMeta
<1> HIDE DEF m
<1>6. d \in TxStore /\ KeepsNonces(db, d, {})
  BY <1>4, <1>5, WriteKeeps, SavedType
<1> HIDE DEF d
<1>7. KeepsNonces(db, db', {})
  BY <1>3, <1>6, ApproveKeeps, KeepsTrans
<1>8. \A q \in Procs : Nonced(q)' => Nonced(q) /\ proc'[q] = proc[q]
  BY <1>3 DEF ApproveTransaction, Nonced, IdleProc, Typed, TypeOK
<1> QED BY <1>2, <1>3, <1>7, <1>8, KeptStep

LEMMA NoncesCancel ==
  ASSUME Typed, Calm, ~MultiWindow, NoncesKept, NEW id \in Txs, CancelTransaction(id)
  PROVE  NoncesKept'
<1>1. Step(id, {"unapproved"}, "absent")
  BY CalmCancel
<1>2. /\ db' = SetTxStatusRejected(db, network, id)
      /\ UNCHANGED <<proc, sent, chainNonce>>
  BY DEF CancelTransaction
<1>3. KeepsNonces(db, db', {})
  BY <1>2, RejectKeeps DEF Typed, TypeOK
<1> QED BY <1>1, <1>2, <1>3, KeptStep DEF Nonced
-----------------------------------------------------------------------------
(***************************************************************************)
(* The approvals.                                                          *)
(***************************************************************************)
LEMMA NoncesBlockAnswer ==
  ASSUME Typed, Exclusive, Calm, NoncesKept, NEW p \in Procs, BlockAnswer(p)
  PROVE  NoncesKept'
<1> DEFINE r == proc[p].ref
           m == [db.obj[r] EXCEPT !.chain = network]
<1>1. PICK id \in Txs : id = proc[p].id
  BY DEF BlockAnswer, Typed, ProcOK
<1>2. Step(id, {"approved"}, "approved")
  BY <1>1, CalmBlockAnswer
<1>3. /\ db' = WithTxMeta(db, r, m) /\ UNCHANGED <<sent, chainNonce>>
      /\ proc[p].pc = "block" /\ network \in Networks
      /\ proc' = [proc EXCEPT ![p].pc = "lock"]
  BY DEF BlockAnswer, Typed, TypeOK
<1>4. r \in Refs /\ db \in TxStore
  BY <1>3 DEF Typed, TypeOK, ProcOK
<1>5. /\ m \in TxMeta /\ m.custom = db.obj[r].custom /\ m.last = db.obj[r].last
      /\ m.nonce = db.obj[r].nonce
  <2> HIDE DEF r
  <2> QED BY <1>3, <1>4, ObjType, TxMetaFields DEF TxMeta
<1> HIDE DEF m
<1>6. KeepsNonces(db, db', {})
  BY <1>3, <1>4, <1>5, WriteKeeps
<1>7. \A q \in Procs : Nonced(q)' => Nonced(q) /\ proc'[q] = proc[q]
  BY <1>3 DEF Nonced, Typed, TypeOK, ProcStates
<1> QED BY <1>2, <1>3, <1>6, <1>7, KeptStep

LEMMA NoncesTakeNonceLock ==
  ASSUME Typed, Exclusive, Calm, NoncesKept, NEW p \in Procs, TakeNonceLock(p)
  PROVE  NoncesKept'
<1>1. PICK id \in Txs : id = proc[p].id
  BY DEF TakeNonceLock, Typed, ProcOK
<1>2. Step(id, {"approved"}, "approved")
  BY <1>1, CalmTakeNonceLock
<1>3. /\ UNCHANGED <<db, sent, chainNonce>>
      /\ proc'[p].pc = "count" /\ \A q \in Procs : q # p => proc'[q] = proc[q]
  BY DEF TakeNonceLock, Typed, TypeOK, ProcStates
<1>4. KeepsNonces(db, db', {})
  BY <1>3, SameObjectsKeep
<1>5. \A q \in Procs : Nonced(q)' => Nonced(q) /\ proc'[q] = proc[q]
  BY <1>3 DEF Nonced
<1> QED BY <1>2, <1>3, <1>4, <1>5, KeptStep

(* A failed approval has no nonce any more. *)
LEMMA NoncesFail ==
  ASSUME Typed, Exclusive, Calm, NoncesKept, NEW p \in Procs, Active(p),
         NEW id \in Txs, id = proc[p].id, NEW from, NEW to, Step(id, from, to),
         "submitted" \notin from, to # "submitted",
         NEW d \in TxStore, NEW S, KeepsNonces(db, d, S), FailApproval(p, d),
         \A r \in S \cap Refs : d.obj[r].nonce # None => Backed(From[IdOf(r)], d.obj[r].nonce),
         UNCHANGED <<sent, chainNonce>>
  PROVE  NoncesKept'
<1>1. KeepsNonces(db, db', S)
  BY FailKeeps, KeepsTrans
<1>2. proc'[p].pc = "idle" /\ \A q \in Procs : q # p => proc'[q] = proc[q]
  BY DEF FailApproval, Finish, IdleProc, Typed, TypeOK
<1>3. \A q \in Procs : Active(q) /\ proc[q].id = id => q = p
  BY ActiveCalm
<1>4. \A q \in Procs : proc'[q].id = id => ~Nonced(q)'
  BY <1>2, <1>3 DEF Nonced, Active
<1>5. proc[p].id \in Txs
  OBVIOUS
<1>6. KeepsNonces(d, db', {})
  BY <1>5, FailKeeps
<1>7. \A r \in S \cap Refs : db'.obj[r].nonce = d.obj[r].nonce
  BY <1>6 DEF KeepsNonces
<1> QED BY <1>1, <1>4, <1>7, KeptStep

LEMMA NoncesCallFailed ==
  ASSUME Typed, Exclusive, Calm, NoncesKept, NEW p \in Procs, CallFailed(p)
  PROVE  NoncesKept'
<1>1. PICK id \in Txs : id = proc[p].id
  BY DEF CallFailed, Typed, ProcOK
<1>2. Step(id, {"approved", "signed"}, "failed")
  BY <1>1, CalmCallFailed
<1>3. Active(p) /\ FailApproval(p, db) /\ UNCHANGED <<sent, chainNonce>>
  BY DEF CallFailed, Active
<1>4. KeepsNonces(db, db, {}) /\ db \in TxStore
  BY SameObjectsKeep DEF Typed, TypeOK
<1> QED BY <1>1, <1>2, <1>3, <1>4, NoncesFail

LEMMA NoncesSignAnswer ==
  ASSUME Typed, Exclusive, Calm, NoncesKept, NEW p \in Procs, SignAnswer(p)
  PROVE  NoncesKept'
<1> DEFINE r == proc[p].ref
           raw == [nonce |-> proc[p].nonce, chain |-> proc[p].chain]
           m == [db.obj[r] EXCEPT !.raw = raw]
           d == UpdateTx(WithTxMeta(db, r, m), r)
<1>1. PICK id \in Txs : id = proc[p].id
  BY DEF SignAnswer, Typed, ProcOK
<1>2. /\ Step(id, {"approved"}, "signed")
      /\ proc'[p].ref = proc[p].ref /\ proc'[p].nonce = proc[p].nonce
  BY <1>1, CalmSignAnswer
<1>3. /\ \/ db' = SetTxStatus(d, network, id, "signed")
         \/ FailApproval(p, SetTxStatus(d, network, id, "signed"))
      /\ UNCHANGED <<sent, chainNonce>> /\ proc[p].pc = "sign" /\ Active(p)
  BY <1>1 DEF SignAnswer, Active
<1>4. r \in Refs /\ db \in TxStore /\ proc[p] \in ProcStates
  BY <1>3 DEF Typed, TypeOK, ProcOK
<1>5. raw \in RawTx
  BY <1>4 DEF RawTx, ProcStates
<1> HIDE DEF raw
<1>6. /\ m \in TxMeta /\ m.custom = db.obj[r].custom /\ m.last = db.obj[r].last
      /\ m.nonce = db.obj[r].nonce
  <2> HIDE DEF r
  <2> QED BY <1>4, <1>5, ObjType, TxMetaFields DEF TxMeta
<1> HIDE DEF m
<1>7. d \in TxStore /\ KeepsNonces(db, d, {})
  BY <1>4, <1>6, WriteKeeps, SavedType
<1> HIDE DEF d
<1>8. /\ SetTxStatus(d, network, id, "signed") \in TxStore
      /\ KeepsNonces(db, SetTxStatus(d, network, id, "signed"), {})
  BY <1>7, SetTxStatusKeeps, SetTxStatusType, KeepsTrans DEF Statuses
<1>9. KeepsNonces(db, db', {})
  BY <1>1, <1>3, <1>8, FailKeeps, KeepsTrans
<1>10. \A q \in Procs : q # p => proc'[q] = proc[q] \/ ~Nonced(q)'
  BY <1>3 DEF SignAnswer, FailApproval, Finish, Typed, TypeOK
<1>11. proc'[p].pc # "reply"
  <2>1. CASE \E t, n : proc' = [proc EXCEPT ![p] = [@ EXCEPT !.pc = "send", !.ref = t,
                                                            !.asked = n]]
    BY <1>4, <2>1 DEF ProcStates, Typed, TypeOK
  <2>2. CASE proc' = [proc EXCEPT ![p] = IdleProc]
    BY <2>2 DEF IdleProc, Typed, TypeOK
  <2> QED BY <2>1, <2>2 DEF SignAnswer, FailApproval, Finish
<1>12. ASSUME NEW q \in Procs, Nonced(q)', proc'[q].id = id
       PROVE  /\ Nonced(q) /\ proc[q].id = id
              /\ proc'[q].ref = proc[q].ref /\ proc'[q].nonce = proc[q].nonce
              /\ proc'[q].pc = "reply" => proc[q].pc = "reply"
  <2>1. CASE q = p
    BY <1>1, <1>2, <1>3, <1>11, <1>12, <2>1 DEF Nonced
  <2>2. CASE q # p
    BY <1>10, <1>12, <2>2 DEF Nonced
  <2> QED BY <2>1, <2>2
<1> QED BY <1>2, <1>3, <1>9, <1>12, KeptStep

(***************************************************************************)
(* The tracker's nonce: the first from the network's count that is not     *)
(* taken, and so every nonce below it is executed or taken.                *)
(***************************************************************************)
LEMMA TakenIsBacked ==
  ASSUME Typed, NoncesKept, NEW a, NEW n, Taken(a, n)
  PROVE  Announced(a, n) /\ Backed(a, n)
<1>1. PICK id \in Txs : Submitted(id) /\ From[id] = a /\ Current(id).nonce = n
  BY DEF Taken
<1>2. NoncesOf(id)
  BY DEF NoncesKept
<1>3. PICK s \in sent : s.id = id /\ s.raw.nonce = n
  BY <1>1, <1>2 DEF NoncesOf, EntryNonces
<1> QED BY <1>1, <1>2, <1>3 DEF NoncesOf, SentNonces, Announced

LEMMA PendingIsTaken ==
  ASSUME Typed, Calm, NEW a, NEW n \in Nat
  PROVE  n \in LocalNonces(db, network, a, PendingStatuses) <=> Taken(a, n)
<1> DEFINE S == {i \in Txs : From[i] = a /\ \E s \in PendingStatuses :
                                              i \in TxsByStatus(db, network, s)}
<1>1. \A i \in Txs : i \in S <=> Submitted(i) /\ From[i] = a
  <2> SUFFICES ASSUME NEW i \in Txs
               PROVE  GetTx(db, network, i) # None <=> Present(i)
    BY DEF PendingStatuses, TxsByStatus, Submitted, Present, Current, GetTx
  <2> QED BY DEF Calm, CalmOf, EntryCalm, GetTx, Present, Current
<1>2. n # None
  BY NoneAssumption
<1>3. n \in LocalNonces(db, network, a, PendingStatuses)
        <=> \E i \in S : db.obj[db.list[i]].nonce = n
  <2>1. LocalNonces(db, network, a, PendingStatuses)
          = {db.obj[db.list[i]].nonce : i \in S} \ {None}
    BY DEF LocalNonces
  <2> HIDE DEF S
  <2> QED BY <1>2, <2>1
<1> HIDE DEF S
<1>4. \A i \in S : i \in Txs
  BY DEF S
<1> QED BY <1>1, <1>3, <1>4 DEF Taken, Current

LEMMA NothingCompleted ==
  ASSUME Calm, NEW a
  PROVE  LocalNonces(db, network, a, CompletedStatuses) = {}
<1>1. \A i \in Txs : i \notin TxsByStatus(db, network, "executed")
                     /\ i \notin TxsByStatus(db, network, "confirmed")
  BY DEF Calm, CalmOf, EntryCalm, TxsByStatus, GetTx, Present, Current
<1> QED BY <1>1 DEF LocalNonces, CompletedStatuses

LEMMA NextIsFree ==
  ASSUME Typed, Calm, NoncesKept, NEW a, network \in Networks,
         chainNonce[network][a] \in Nat,
         NEW next \in NextNonce(db, network, a, chainNonce[network][a])
  PROVE  next \in Nat /\ Backed(a, next) /\ ~Taken(a, next)
<1> DEFINE count == chainNonce[network][a]
           pending == LocalNonces(db, network, a, PendingStatuses)
           completed == {m + 1 : m \in LocalNonces(db, network, a, CompletedStatuses)}
<1>1. next \in Nat
  BY NextNonceType DEF Typed
<1>2. completed = {}
  BY NothingCompleted
<1>3. next \in HighestContinuousFrom(pending, count)
  <2>1. PICK start \in {m \in completed \cup {count} :
                          \A k \in completed \cup {count} : k <= m} :
               next \in HighestContinuousFrom(pending, start)
    BY DEF NextNonce
  <2> HIDE DEF completed, pending
  <2> QED BY <1>2, <2>1
<1>4. /\ count <= next /\ next \notin pending
      /\ \A m \in count .. (next - 1) : m \in pending
  <2> HIDE DEF pending
  <2> QED BY <1>3 DEF HighestContinuousFrom
<1>5. ~Taken(a, next)
  BY <1>1, <1>4, PendingIsTaken
<1>6. ASSUME NEW m \in 0 .. (next - 1)
      PROVE  m < count \/ Announced(a, m)
  <2>1. m < count \/ m \in pending
    <3> HIDE DEF pending
    <3> QED BY <1>1, <1>4
  <2>2. m \in Nat
    BY <1>1
  <2> QED BY <2>1, <2>2, PendingIsTaken, TakenIsBacked
<1> QED BY <1>1, <1>5, <1>6 DEF Backed

LEMMA NoncesCount ==
  ASSUME Typed, Exclusive, Calm, NoncesKept, NEW p \in Procs, Count(p)
  PROVE  NoncesKept'
<1> DEFINE r == proc[p].ref
           m(nonce) == [db.obj[r] EXCEPT !.nonce = nonce]
           d(nonce) == UpdateTx(WithTxMeta(db, r, m(nonce)), r)
<1>1. PICK id \in Txs : id = proc[p].id
  BY DEF Count, Typed, ProcOK
<1>2. Active(p) /\ proc[p].pc = "count"
  BY DEF Count, Active
<1>3. /\ r \in Refs /\ IdOf(r) = id /\ db \in TxStore /\ r # None
      /\ db.list[id] = r /\ db.obj[r].net = network /\ network \in Networks
      /\ CalmOf(id) /\ NoncesOf(id) /\ network # Loading
  BY <1>1, <1>2, ActiveCalm DEF Typed, TypeOK, NoncesKept
<1>4. proc[p].asked = network /\ chainNonce[network][From[id]] \in Nat
  BY <1>1, <1>2, <1>3, FromAssumption DEF CalmOf, ApprovalCalm, Typed, TypeOK
<1>5. PICK next \in NextNonce(db, network, From[id], chainNonce[network][From[id]]) :
        CountAnswer(p, next)
  BY <1>1, <1>3, <1>4 DEF Count, CountOf
<1>6. next \in Nat /\ Backed(From[id], next) /\ ~Taken(From[id], next)
  BY <1>3, <1>4, <1>5, NextIsFree
<1> DEFINE nonce == TxNonce(db.obj[r], next)
<1>7. nonce = IF db.obj[r].last THEN db.obj[r].nonce ELSE next
  BY <1>3 DEF TxNonce, NoncesOf, ObjectNonces
<1>8. /\ nonce # None => Backed(From[id], nonce)
      /\ ~db.obj[r].last => ~Taken(From[id], nonce)
      /\ nonce \in Nat \cup {None}
  <2>1. db.obj[r].nonce # None => Backed(From[id], db.obj[r].nonce)
    BY <1>3 DEF NoncesOf, ObjectNonces
  <2>2. db.obj[r].nonce \in Nat \cup {None}
    BY <1>3, ObjType DEF TxMeta
  <2> QED BY <1>6, <1>7, <2>1, <2>2
<1>9. db.obj[r].last => nonce = db.obj[r].nonce
  BY <1>7
<1> HIDE DEF nonce
<1>10. /\ m(nonce) \in TxMeta /\ m(nonce).custom = db.obj[r].custom
       /\ m(nonce).last = db.obj[r].last /\ m(nonce).nonce = nonce
       /\ m(nonce).net = network
  <2> HIDE DEF r
  <2> QED BY <1>3, <1>8, ObjType, TxMetaFields DEF TxMeta
<1> HIDE DEF m
<1>11. d(nonce) \in TxStore /\ KeepsNonces(db, d(nonce), {r})
  BY <1>3, <1>9, <1>10, WriteKeeps, SavedType
<1>12. d(nonce).list[id] = r /\ d(nonce).obj[r] = m(nonce)
  <2>1. WithTxMeta(db, r, m(nonce)).list = db.list
        /\ WithTxMeta(db, r, m(nonce)).obj[r] = m(nonce)
        /\ WithTxMeta(db, r, m(nonce)) \in TxStore
    BY <1>3, <1>10, WithTxMetaType DEF WithTxMeta, TxStore
  <2> QED BY <1>3, <2>1 DEF UpdateTx, TxStore, TxList
<1>13. GetTx(d(nonce), network, id) = r
  BY <1>3, <1>10, <1>12 DEF GetTx
<1>14. UNCHANGED <<sent, chainNonce>>
  BY <1>5 DEF CountAnswer
<1> DEFINE Signs == /\ nonce # None /\ db' = d(nonce)
                    /\ proc' = [proc EXCEPT ![p] = [@ EXCEPT
                                  !.pc = "sign", !.ref = r,
                                  !.nonce = d(nonce).obj[r].nonce,
                                  !.chain = d(nonce).obj[r].chain]]
<1>15. Signs \/ FailApproval(p, d(nonce)) \/ FailApproval(p, db)
  BY <1>1, <1>5, <1>13 DEF CountAnswer, nonce, d, m
<1> HIDE DEF d
<1>16. PICK from, to : Step(id, from, to) /\ "submitted" \notin from /\ to # "submitted"
  <2>1. \/ Step(id, {"approved"}, "approved")
        \/ Step(id, {"approved", "signed"}, "failed")
    BY <1>1, CalmCount
  <2> QED BY <2>1
<1>17. CASE FailApproval(p, d(nonce)) \/ FailApproval(p, db)
  <2>1. KeepsNonces(db, db, {r})
    BY SameObjectsKeep
  <2>2. /\ d(nonce).obj[r].nonce # None => Backed(From[id], d(nonce).obj[r].nonce)
        /\ db.obj[r].nonce # None => Backed(From[id], db.obj[r].nonce)
    BY <1>3, <1>8, <1>10, <1>12 DEF NoncesOf, ObjectNonces
  <2> QED BY <1>1, <1>2, <1>3, <1>11, <1>14, <1>16, <1>17, <2>1, <2>2, NoncesFail
<1>18. CASE Signs
  <2>1. /\ proc'[p].pc = "sign" /\ proc'[p].id = id /\ proc'[p].ref = r
        /\ proc'[p].nonce = nonce
        /\ \A q \in Procs : q # p => proc'[q] = proc[q]
    BY <1>1, <1>10, <1>12, <1>18 DEF Typed, TypeOK, ProcStates
  <2>2. db'.obj[r].nonce = nonce /\ db'.obj[r].last = db.obj[r].last
    BY <1>10, <1>12, <1>18
  <2>3. /\ \A a, n : Taken(a, n)' <=> Taken(a, n)
        /\ \A a, n : Backed(a, n) => Backed(a, n)'
    BY <1>14, <1>16, TakenKept
  <2>4. ObjectNonces(id)'
    <3> SUFFICES ASSUME NEW q \in Refs, IdOf(q) = id
                 PROVE  /\ db'.obj[q].custom = None
                        /\ db'.obj[q].nonce # None => Backed(From[id], db'.obj[q].nonce)
      BY <2>3 DEF ObjectNonces
    <3>1. CASE q = r
      BY <1>3, <1>8, <1>11, <1>18, <2>2, <3>1 DEF KeepsNonces, NoncesOf, ObjectNonces
    <3>2. CASE q # r
      BY <1>3, <1>11, <1>18, <3>2 DEF KeepsNonces, NoncesOf, ObjectNonces
    <3> QED BY <3>1, <3>2
  <2>5. \A q \in Procs : Nonced(q)' /\ proc'[q].id = id => q = p
    BY <1>1, <1>2, <2>1, ActiveCalm DEF Nonced, Active
  <2>6. ApprovalNonces(id)'
    BY <1>8, <1>18, <2>1, <2>2, <2>3, <2>5 DEF ApprovalNonces
  <2>7. SentNonces(id)'
    BY <1>3, <1>14, <1>16, <2>3 DEF NoncesOf, SentNonces, Step
  <2> QED BY <1>14, <1>16, <2>4, <2>6, <2>7, NoncesStep
<1> QED BY <1>15, <1>17, <1>18

(* The broadcast: of the nonce the approval has had all along. *)
LEMMA NoncesNodeAccepts ==
  ASSUME Typed, Exclusive, Calm, NoncesKept, NEW p \in Procs, NodeAccepts(p)
  PROVE  NoncesKept'
<1> DEFINE x == [id |-> proc[p].id, net |-> proc[p].asked,
                 raw |-> [nonce |-> proc[p].nonce, chain |-> proc[p].chain]]
<1>1. PICK id \in Txs : id = proc[p].id
  BY DEF NodeAccepts, Typed, ProcOK
<1>2. Step(id, {"signed"}, "signed")
  BY <1>1, CalmNodeAccepts
<1>3. /\ Nonced(p) /\ Active(p) /\ sent' = sent \cup {x} /\ UNCHANGED <<db, chainNonce>>
      /\ proc'[p] = [proc[p] EXCEPT !.pc = "reply"]
      /\ \A q \in Procs : q # p => proc'[q] = proc[q]
  BY DEF NodeAccepts, Nonced, Active, Typed, TypeOK
<1>4. /\ proc'[p].id = id /\ proc'[p].ref = proc[p].ref /\ proc'[p].nonce = proc[p].nonce
      /\ proc[p].nonce \in Nat
  BY <1>1, <1>3 DEF Typed, TypeOK, ProcStates, ProcOK, Nonced
<1>5. proc[p].asked = network /\ NoncesOf(id)
  BY <1>1 DEF NodeAccepts, Calm, CalmOf, ApprovalCalm, Active, NoncesKept
<1>6. /\ db.obj[proc[p].ref].nonce = proc[p].nonce
      /\ Backed(From[id], proc[p].nonce)
      /\ ~db.obj[proc[p].ref].last => ~Taken(From[id], proc[p].nonce)
  BY <1>1, <1>3, <1>5 DEF NoncesOf, ApprovalNonces
<1>7. x.id = id /\ x.net = network /\ x.raw.nonce = proc[p].nonce /\ x \in sent'
  BY <1>1, <1>3, <1>5
<1>8. sent \subseteq sent' /\ \A s \in sent' : s \in sent \/ s = x
  BY <1>3
<1> HIDE DEF x
<1>9. /\ \A a, n : Taken(a, n)' <=> Taken(a, n)
      /\ \A a, n : Backed(a, n) => Backed(a, n)'
  BY <1>2, <1>3, <1>8, TakenKept
<1>10. ObjectNonces(id)'
  BY <1>3, <1>5, <1>9 DEF NoncesOf, ObjectNonces
<1>11. \A q \in Procs : Nonced(q)' /\ proc'[q].id = id => q = p
  BY <1>1, <1>3, ActiveCalm DEF Nonced, Active
<1>12. ApprovalNonces(id)'
  BY <1>3, <1>4, <1>6, <1>7, <1>9, <1>11 DEF ApprovalNonces
<1>13. SentNonces(id)'
  <2>1. network' = network
    BY <1>2 DEF Step
  <2> SUFFICES ASSUME NEW s \in sent', s.id = id
               PROVE  s.net = network /\ s.raw.nonce \in Nat /\ Backed(From[id], s.raw.nonce)
    BY <1>9, <2>1 DEF SentNonces
  <2> QED BY <1>4, <1>5, <1>6, <1>7, <1>8 DEF NoncesOf, SentNonces
<1> QED BY <1>2, <1>3, <1>8, <1>10, <1>12, <1>13, NoncesStep

(* The nonce is taken now: the lock kept the account's other approvals waiting. *)
LEMMA NoncesSendAnswer ==
  ASSUME Typed, Exclusive, Calm, NoncesKept, NEW p \in Procs, SendAnswer(p)
  PROVE  NoncesKept'
<1> DEFINE r == proc[p].ref
           nonce == proc[p].nonce
           raw == [nonce |-> proc[p].nonce, chain |-> proc[p].chain]
           m == [db.obj[r] EXCEPT !.hash = raw]
           d == WithTxMeta(db, r, m)
<1>1. PICK id \in Txs : id = proc[p].id
  BY DEF SendAnswer, Typed, ProcOK
<1>2. Step(id, {"signed"}, "submitted") /\ db'.list[id] = r
  BY <1>1, CalmSendAnswer
<1>3. /\ proc[p].pc = "reply" /\ Active(p) /\ Nonced(p) /\ UNCHANGED <<sent, chainNonce>>
  BY DEF SendAnswer, Active, Nonced
<1>4. /\ r \in Refs /\ IdOf(r) = id /\ db \in TxStore /\ r # None /\ db.list[id] = r
      /\ GetTx(db, network, id) = r /\ proc[p] \in ProcStates /\ NoncesOf(id)
  BY <1>1, <1>3, ActiveCalm DEF Typed, TypeOK, NoncesKept
<1>5. raw \in RawTx
  BY <1>1, <1>3, <1>4 DEF RawTx, ProcStates
<1>6. db' = SetTxStatus(d, network, id, "submitted") /\ Finish(p)
  BY <1>1, <1>4 DEF SendAnswer
<1> HIDE DEF raw
<1>7. /\ m \in TxMeta /\ m.custom = db.obj[r].custom /\ m.last = db.obj[r].last
      /\ m.nonce = db.obj[r].nonce
  <2> HIDE DEF r
  <2> QED BY <1>4, <1>5, ObjType, TxMetaFields DEF TxMeta
<1> HIDE DEF m
<1>8. d \in TxStore /\ KeepsNonces(db, d, {})
  BY <1>4, <1>7, WriteKeeps, WithTxMetaType
<1> HIDE DEF d
<1>9. KeepsNonces(db, db', {})
  BY <1>6, <1>8, SetTxStatusKeeps, KeepsTrans DEF Statuses
<1>10. proc'[p].pc = "idle" /\ \A q \in Procs : q # p => proc'[q] = proc[q]
  BY <1>6 DEF Finish, IdleProc, Typed, TypeOK
<1>11. /\ db.obj[r].nonce = nonce
       /\ ~db.obj[r].last => ~Taken(From[id], nonce)
       /\ \E s \in sent : s.id = id /\ s.raw.nonce = nonce
  BY <1>1, <1>3, <1>4 DEF NoncesOf, ApprovalNonces
<1>12. /\ Submitted(id)' /\ ~Submitted(id)
       /\ Current(id)'.nonce = nonce /\ Current(id)'.last = db.obj[r].last
  <2>1. Submitted(id)' /\ ~Submitted(id)
    BY <1>2 DEF Step, Submitted, StatusOf, Present
  <2> QED BY <1>2, <1>4, <1>9, <1>11, <2>1 DEF Current, KeepsNonces
<1>13. ASSUME NEW j \in Txs, j # id
       PROVE  /\ Submitted(j)' <=> Submitted(j)
              /\ Submitted(j) => Current(j)' = Current(j)
  BY <1>2, <1>13, ApartKeepsEntry DEF Step, Others, Submitted
<1>14. \A a, n : Taken(a, n) => Taken(a, n)'
  BY <1>12, <1>13 DEF Taken
<1>15. \A a, n : Taken(a, n)' => Taken(a, n) \/ (a = From[id] /\ n = nonce)
  BY <1>12, <1>13 DEF Taken
<1>16. network' = network /\ \A a, n : Backed(a, n)' <=> Backed(a, n)
  BY <1>2, <1>3 DEF Step, Backed, Announced
<1> SUFFICES ASSUME NEW j \in Txs PROVE NoncesOf(j)'
  BY DEF NoncesKept
<1>17. NoncesOf(j)
  BY DEF NoncesKept
<1>18. ObjectNonces(j)'
  BY <1>9, <1>16, <1>17 DEF NoncesOf, ObjectNonces, KeepsNonces
<1>19. ApprovalNonces(j)'
  <2> SUFFICES ASSUME NEW q \in Procs, Nonced(q)', proc'[q].id = j
               PROVE  /\ db'.obj[proc[q].ref].nonce = proc[q].nonce
                      /\ Backed(From[j], proc[q].nonce)
                      /\ ~db'.obj[proc[q].ref].last => ~Taken(From[j], proc[q].nonce)'
                      /\ proc[q].pc = "reply" =>
                           \E s \in sent : s.id = j /\ s.raw.nonce = proc[q].nonce
                      /\ proc'[q] = proc[q]
    BY <1>3, <1>16 DEF ApprovalNonces
  <2>1. q # p /\ proc'[q] = proc[q]
    BY <1>10 DEF Nonced
  <2>2. Nonced(q) /\ proc[q].id = j /\ proc[q].ref \in Refs
    BY <2>1 DEF Nonced, Typed, ProcOK
  <2>3. From[j] # From[id]
    <3>1. proc[p].pc \in Holding /\ proc[q].pc \in Holding
      BY <1>3, <2>2 DEF Nonced, Holding
    <3>2. lock[From[id]] = p /\ lock[From[j]] = q
      BY <1>1, <2>2, <3>1, FromAssumption DEF Exclusive, NonceLockHeld
    <3> QED BY <2>1, <3>2
  <2> QED BY <1>9, <1>15, <1>17, <2>1, <2>2, <2>3 DEF NoncesOf, ApprovalNonces, KeepsNonces
<1>20. SentNonces(j)'
  BY <1>3, <1>16, <1>17 DEF NoncesOf, SentNonces
<1>21. EntryNonces(j)'
  <2>1. CASE j = id
    <3>1. ~db.obj[r].last =>
            \A i \in Txs \ {id} : Submitted(i) /\ From[i] = From[id]
              => Current(i).nonce # nonce
      BY <1>11 DEF Taken
    <3> QED BY <1>3, <1>11, <1>12, <1>13, <2>1, <3>1 DEF EntryNonces
  <2>2. CASE j # id
    <3>1. Submitted(j) /\ ~db.obj[r].last /\ From[j] = From[id] => Current(j).nonce # nonce
      BY <1>11 DEF Taken
    <3> QED BY <1>3, <1>12, <1>13, <1>17, <2>2, <3>1 DEF NoncesOf, EntryNonces
  <2> QED BY <2>1, <2>2
<1> QED BY <1>18, <1>19, <1>20, <1>21 DEF NoncesOf

-----------------------------------------------------------------------------
(***************************************************************************)
(* Every step keeps the nonces.                                            *)
(***************************************************************************)
LEMMA NoncesChain ==
  ASSUME Typed, NoncesKept, NEW n \in Networks, NEW a \in Accounts, ChainExecutes(n, a)
  PROVE  NoncesKept'
<1>1. /\ UNCHANGED <<db, proc, sent, network>>
      /\ chainNonce' = [chainNonce EXCEPT ![n][a] = @ + 1]
      /\ chainNonce \in [Networks -> [Accounts -> Nat]]
  BY DEF ChainExecutes, Typed, TypeOK
<1>2. /\ chainNonce' \in [Networks -> [Accounts -> Nat]]
      /\ \A k \in Networks, b \in Accounts : chainNonce[k][b] <= chainNonce'[k][b]
  BY <1>1
<1> QED BY <1>1, <1>2, NoncesIdle

LEMMA NoncesQuiet ==
  ASSUME Typed, NoncesKept, db'.list = db.list, db'.obj = db.obj,
         UNCHANGED <<proc, sent, chainNonce>>,
         network' = network \/ (network = Loading /\ sent = {} /\ \A p \in Procs : ~Active(p))
  PROVE  NoncesKept'
<1>1. chainNonce' \in [Networks -> [Accounts -> Nat]]
  BY DEF Typed, TypeOK
<1>2. \A k \in Networks, b \in Accounts : chainNonce[k][b] <= chainNonce'[k][b]
  BY <1>1
<1> QED BY <1>1, <1>2, NoncesIdle

LEMMA NextNonces ==
  ASSUME Typed, Exclusive, ~MultiWindow, CustomNonces = {}, Undisturbed, Calm, NoncesKept,
         [Next]_vars, Undisturbed'
  PROVE  NoncesKept'
<1>1. ASSUME NEW id \in Txs, Request(id) PROVE NoncesKept'
  BY <1>1, NoncesStore, NoncesQuiet DEF Request, GenerateTxMeta, RefuseRequest
<1>2. ASSUME NEW id \in Txs, Defaults(id) PROVE NoncesKept'
  BY <1>2, NoncesDefaults
<1>3. CASE User
  <2>1. ASSUME NEW r \in Refs, OpenWindow(r) \/ UpdateTransaction(r) PROVE NoncesKept'
    BY <2>1, NoncesOpenWindow, NoncesQuiet DEF UpdateTransaction
  <2>2. ASSUME NEW p \in Procs, NEW r \in Refs, NEW c \in CustomNonces \cup {None},
               UpdateAndApproveTransaction(p, r, c)
        PROVE  NoncesKept'
    BY <2>2, NoncesUpdateAndApprove
  <2>3. ~SwitchNetwork /\ \A a \in Accounts : ~ResetAccount(a)
    BY DEF SwitchNetwork, ResetAccount, Undisturbed
  <2> QED BY <1>3, <2>1, <2>2, <2>3, NoncesCancel, NoncesCreateReplacement, NoncesRetry DEF User
<1>4. ASSUME NEW p \in Procs, Approval(p) \/ TakeNonceLock(p) PROVE NoncesKept'
  BY <1>4, NoncesBlockAnswer, NoncesTakeNonceLock, NoncesCount, NoncesSignAnswer,
     NoncesNodeAccepts, NoncesSendAnswer, NoncesCallFailed DEF Approval
<1>5. ASSUME NEW r \in Refs, SponsorshipAnswer(r) \/ Redo(r) PROVE NoncesKept'
  <2>1. ~Redo(r)
    BY DEF Redo, RedoGas, RedoReady, RedoFailed, Calm, NotRedone
  <2> QED BY <1>5, <2>1, NoncesSponsorship
<1>6. ASSUME NEW n \in Networks, NetworkUp(n) PROVE NoncesKept'
  <2>1. network = Loading /\ UNCHANGED <<proc, sent, chainNonce>>
    BY <1>6 DEF NetworkUp
  <2> QED BY <1>6, <2>1, CalmNetworkUp, NoncesQuiet
<1>7. CASE FireTimer
  <2>1. UNCHANGED <<proc, sent, chainNonce, network>>
    BY <1>7 DEF FireTimer
  <2> QED BY <1>7, <2>1, CalmFireTimer, NoncesQuiet
<1>8. ~Restart
  BY DEF Restart, Undisturbed
<1>9. CASE Persist \/ UNCHANGED vars
  BY <1>9, NoncesQuiet DEF Persist, vars
<1> QED BY <1>1, <1>2, <1>3, <1>4, <1>5, <1>6, <1>7, <1>8, <1>9, NoncesChain DEF Next

LEMMA InitNonces == Init => NoncesKept
<1> SUFFICES ASSUME Init, NEW id \in Txs PROVE NoncesOf(id)
  BY DEF NoncesKept
<1>1. sent = {} /\ ~Present(id) /\ \A p \in Procs : ~Nonced(p)
  BY DEF Init, Present, Nonced, IdleProc
<1>2. \A r \in Refs : db.obj[r].custom = None /\ db.obj[r].nonce = None
  BY DEF Init, NewTxMeta
<1> QED BY <1>1, <1>2 DEF NoncesOf, ObjectNonces, ApprovalNonces, SentNonces, EntryNonces,
     Submitted

(* The inductive invariant of an undisturbed life without typed nonces. *)
NoncesWhile == Undisturbed => NoncesKept

LEMMA KeptIsConsecutive == Typed /\ Calm /\ NoncesKept => NoncesAreConsecutive
<1> SUFFICES ASSUME Typed, Calm, NoncesKept PROVE NoncesAreConsecutive
  OBVIOUS
<1>1. \A i \in Numbered : i \in Txs /\ Submitted(i) /\ ~Current(i).last
  BY DEF Numbered, Submitted, Present
<1>2. ASSUME NEW i \in Numbered, NEW j \in Numbered, i # j, From[i] = From[j]
      PROVE  Current(i).nonce # Current(j).nonce
  BY <1>1, <1>2 DEF NoncesKept, NoncesOf, EntryNonces
<1>3. ASSUME NEW s \in sent, NEW n \in 0 .. (s.raw.nonce - 1)
      PROVE  \/ n < chainNonce[s.net][From[s.id]]
             \/ \E t \in sent : t.net = s.net /\ From[t.id] = From[s.id] /\ t.raw.nonce = n
  <2>1. \A t \in sent : t.id \in Txs /\ t.net = network
    BY DEF Typed, TypeOK, SentTx, NoncesKept, NoncesOf, SentNonces
  <2>2. Backed(From[s.id], s.raw.nonce)
    BY <2>1 DEF NoncesKept, NoncesOf, SentNonces
  <2> QED BY <2>1, <2>2 DEF Backed, Announced
<1> QED BY <1>2, <1>3 DEF NoncesAreConsecutive

(***************************************************************************)
(* No nonce typed in, one window at a time, and until the network is       *)
(* changed or the page restarts: two transactions never share a nonce      *)
(* unless one replaces the other, and none waits for a nonce nobody sent.  *)
(***************************************************************************)
THEOREM NoncesInSequence ==
  ASSUME ~MultiWindow, CustomNonces = {}
  PROVE  Spec => [](Undisturbed => NoncesAreConsecutive)
<1>1. Spec => []Typed
  BY InitTyped, NextTyped, PTL DEF Spec
<1>2. Spec => []Exclusive
  BY <1>1, InitExclusive, NextExclusive, PTL DEF Spec
<1>3. Init => CalmWhile /\ NoncesWhile
  BY InitCalm, InitNonces DEF CalmWhile, NoncesWhile
<1>4. Spec => []CalmWhile
  BY <1>1, <1>2, <1>3, NextCalm, PTL DEF Spec
<1>5. Typed /\ Exclusive /\ CalmWhile /\ NoncesWhile /\ [Next]_vars => NoncesWhile'
  BY UndisturbedBefore, NextNonces DEF CalmWhile, NoncesWhile
<1>6. Spec => []NoncesWhile
  BY <1>1, <1>2, <1>3, <1>4, <1>5, PTL DEF Spec
<1>7. Typed /\ CalmWhile /\ NoncesWhile => (Undisturbed => NoncesAreConsecutive)
  BY KeptIsConsecutive DEF CalmWhile, NoncesWhile
<1> QED BY <1>1, <1>4, <1>6, <1>7, PTL

-----------------------------------------------------------------------------
(***************************************************************************)
(* Why no transaction is left approved with nobody at work, before the     *)
(* network is changed.                                                     *)
(*                                                                         *)
(* An entry will be what the last deferred update of its id saves, and is  *)
(* settled when that is not an approved object.  Nothing but the start of  *)
(* an approval makes an object approved, so every other step keeps what is *)
(* settled settled (Still), and an approval settles its transaction when   *)
(* it ends, because it finds it: the network is the one it began on.       *)
(***************************************************************************)
UntimedIn(d, id) == \A t \in Deferred(d) : IdOf(t.ref) # id

EndsAs(d, id, r) ==
  \/ r = d.list[id] /\ UntimedIn(d, id)
  \/ \E i \in DOMAIN d.timers :
       /\ d.timers[i].ref = r /\ IdOf(r) = id
       /\ \A j \in DOMAIN d.timers : i < j => IdOf(d.timers[j].ref) # id

Settled(d, id) ==
  d.list[id] # None => \A r \in Refs : EndsAs(d, id, r) => d.obj[r].status # "approved"

(* The store e came from d by writes that unsettle the ids of S at most. *)
Still(d, e, S) ==
  /\ \A id \in Txs \ S : Settled(d, id) => Settled(e, id)
  /\ \A id \in Txs : d.list[id] = None =>
       e.list[id] = None /\ (UntimedIn(d, id) => UntimedIn(e, id))
  /\ \A r \in Refs : e.obj[r].status = "approved" => d.obj[r].status = "approved"

LEMMA StillTrans ==
  ASSUME NEW d, NEW e, NEW f, NEW S, Still(d, e, S), Still(e, f, S)
  PROVE  Still(d, f, S)
BY DEF Still

LEMMA StillItself == ASSUME NEW d, NEW S PROVE Still(d, d, S)
BY DEF Still

(***************************************************************************)
(* updateTx of an object that is not approved, or of an id of S.           *)
(***************************************************************************)
LEMMA UpdateStill ==
  ASSUME NEW d \in TxStore, NEW r \in Refs, NEW S,
         d.obj[r].status # "approved" \/ IdOf(r) \in S
  PROVE  Still(d, UpdateTx(d, r), S)
<1> DEFINE e == UpdateTx(d, r)
<1>1. /\ e.obj = d.obj /\ e.timers = d.timers
      /\ \A id \in Txs : id # IdOf(r) \/ d.list[id] = None => e.list[id] = d.list[id]
      /\ d.list[IdOf(r)] # None => e.list[IdOf(r)] = r
  BY DEF UpdateTx, TxStore, TxList, Refs, IdOf
<1>2. ASSUME NEW id \in Txs \ S, Settled(d, id), e.list[id] # None,
             NEW q \in Refs, EndsAs(e, id, q)
      PROVE  e.obj[q].status # "approved"
  <2>1. d.list[id] # None
    BY <1>1, <1>2
  <2>2. CASE EndsAs(d, id, q)
    BY <1>1, <1>2, <2>1, <2>2 DEF Settled
  <2>3. CASE q = r /\ id = IdOf(r)
    BY <1>1, <1>2, <2>3
  <2> HIDE DEF e
  <2> QED BY <1>1, <1>2, <2>1, <2>2, <2>3 DEF EndsAs, UntimedIn, Deferred
<1>3. \A id \in Txs \ S : Settled(d, id) => Settled(e, id)
  BY <1>2 DEF Settled
<1> HIDE DEF e
<1>4. \A id \in Txs : UntimedIn(d, id) => UntimedIn(e, id)
  BY <1>1 DEF UntimedIn, Deferred
<1> QED BY <1>1, <1>3, <1>4 DEF Still, e

(***************************************************************************)
(* Writing an object in place, its status not to "approved".               *)
(***************************************************************************)
LEMMA WriteStill ==
  ASSUME NEW d \in TxStore, NEW r \in Refs, NEW m \in TxMeta, NEW S,
         m.status # "approved" \/ m.status = d.obj[r].status
  PROVE  Still(d, WithTxMeta(d, r, m), S)
<1> DEFINE e == WithTxMeta(d, r, m)
<1>1. e.list = d.list /\ e.timers = d.timers
  BY DEF WithTxMeta, TxStore
<1>2. \A q \in Refs : e.obj[q].status = "approved" => d.obj[q].status = "approved"
  BY DEF WithTxMeta, TxStore
<1> HIDE DEF e
<1>3. \A id \in Txs : UntimedIn(d, id) <=> UntimedIn(e, id)
  BY <1>1 DEF UntimedIn, Deferred
<1>4. \A id \in Txs, q \in Refs : EndsAs(e, id, q) <=> EndsAs(d, id, q)
  BY <1>1, <1>3 DEF EndsAs
<1>5. \A id \in Txs \ S : Settled(d, id) => Settled(e, id)
  BY <1>1, <1>2, <1>4 DEF Settled
<1> QED BY <1>1, <1>2, <1>3, <1>5 DEF Still, e

LEMMA SavedStill ==
  ASSUME NEW d \in TxStore, NEW r \in Refs, NEW m \in TxMeta, NEW S,
         m.status = d.obj[r].status,
         d.obj[r].status # "approved" \/ IdOf(r) \in S
  PROVE  Still(d, UpdateTx(WithTxMeta(d, r, m), r), S)
<1> DEFINE e == WithTxMeta(d, r, m)
<1>1. e \in TxStore /\ Still(d, e, S) /\ e.obj[r] = m
  BY WithTxMetaType, WriteStill DEF WithTxMeta, TxStore
<1> HIDE DEF e
<1>2. Still(e, UpdateTx(e, r), S)
  BY <1>1, UpdateStill
<1> QED BY <1>1, <1>2, StillTrans DEF e

(***************************************************************************)
(* A status set on an entry that is found: nothing changes for the other   *)
(* ids, and a status other than "approved" settles the entry.              *)
(***************************************************************************)
LEMMA StatusSettles ==
  ASSUME NEW d \in TxStore, NEW n, NEW id \in Txs, NEW s \in Statuses,
         GetTx(d, n, id) # None
  PROVE  /\ s # "approved" => Settled(SetTxStatus(d, n, id, s), id)
         /\ \A j \in Txs \ {id} : Settled(d, j) => Settled(SetTxStatus(d, n, id, s), j)
         /\ \A j \in Txs \ {id} : UntimedIn(d, j) => UntimedIn(SetTxStatus(d, n, id, s), j)
         /\ \A q \in Refs \ {d.list[id]} : SetTxStatus(d, n, id, s).obj[q] = d.obj[q]
         /\ SetTxStatus(d, n, id, s).obj[d.list[id]].status = s
         /\ SetTxStatus(d, n, id, s).list = d.list
<1> DEFINE r == d.list[id]
           e == SetTxStatus(d, n, id, s)
           k == Len(d.timers)
<1>1. r \in Refs /\ r = GetTx(d, n, id) /\ IdOf(r) = id
  BY GetTxType
<1>2. /\ e.list = d.list
      /\ e.obj = [d.obj EXCEPT ![r].status = s]
      /\ e.timers = Append(d.timers, [ref |-> r, status |-> s])
  BY <1>1 DEF SetTxStatus, TxStore
<1> HIDE DEF e, r
<1>3. (\A q \in Refs \ {r} : e.obj[q] = d.obj[q]) /\ e.obj[r].status = s
  BY <1>1, <1>2 DEF TxStore, TxMeta
<1> DEFINE T == d.timers
<1>4. /\ T \in Seq(Timer) /\ k \in Nat /\ DOMAIN T = 1 .. k
      /\ DOMAIN e.timers = 1 .. (k + 1)
      /\ \A i \in 1 .. k : e.timers[i] = T[i]
      /\ e.timers[k + 1].ref = r
  BY <1>2 DEF TxStore
<1> HIDE DEF k, T
<1>5. ASSUME NEW q \in Refs, EndsAs(e, id, q) PROVE q = r
  <2>1. k + 1 \in DOMAIN e.timers /\ IdOf(e.timers[k + 1].ref) = id
    BY <1>1, <1>4
  <2>2. ~UntimedIn(e, id)
    BY <2>1 DEF UntimedIn, Deferred
  <2>3. PICK i \in DOMAIN e.timers :
          /\ e.timers[i].ref = q
          /\ \A j \in DOMAIN e.timers : i < j => IdOf(e.timers[j].ref) # id
    BY <1>5, <2>2 DEF EndsAs
  <2>4. i = k + 1
    BY <2>1, <2>3, <1>4
  <2> QED BY <2>3, <2>4, <1>4
<1>6. s # "approved" => Settled(e, id)
  BY <1>3, <1>5 DEF Settled
<1>7. ASSUME NEW j \in Txs \ {id} PROVE UntimedIn(d, j) <=> UntimedIn(e, j)
  BY <1>1, <1>4 DEF UntimedIn, Deferred, T
<1>8. ASSUME NEW j \in Txs \ {id}, NEW q \in Refs, EndsAs(e, j, q)
      PROVE  EndsAs(d, j, q) /\ (IdOf(q) = j \/ q = d.list[j])
  <2>1. CASE q = e.list[j] /\ UntimedIn(e, j)
    BY <1>2, <1>7, <2>1 DEF EndsAs
  <2>2. CASE \E i \in DOMAIN e.timers :
               /\ e.timers[i].ref = q /\ IdOf(q) = j
               /\ \A l \in DOMAIN e.timers : i < l => IdOf(e.timers[l].ref) # j
    <3>1. PICK i \in DOMAIN e.timers :
               /\ e.timers[i].ref = q /\ IdOf(q) = j
               /\ \A l \in DOMAIN e.timers : i < l => IdOf(e.timers[l].ref) # j
      BY <2>2
    <3>2. i # k + 1
      BY <1>1, <1>4, <3>1
    <3>3. i \in DOMAIN T /\ T[i].ref = q
      BY <1>4, <3>1, <3>2
    <3>4. \A l \in DOMAIN T : i < l => IdOf(T[l].ref) # j
      BY <1>4, <3>1
    <3> QED BY <3>1, <3>3, <3>4 DEF EndsAs, T
  <2> QED BY <1>8, <2>1, <2>2 DEF EndsAs
<1>9. ASSUME NEW j \in Txs \ {id}, Settled(d, j) PROVE Settled(e, j)
  <2> SUFFICES ASSUME e.list[j] # None, NEW q \in Refs, EndsAs(e, j, q)
               PROVE  e.obj[q].status # "approved"
    BY DEF Settled
  <2>1. d.list[j] # None /\ EndsAs(d, j, q)
    BY <1>2, <1>8
  <2>2. q # r
    <3>1. d.list[j] # None => IdOf(d.list[j]) = j
      BY DEF TxStore, TxList
    <3> QED BY <1>1, <1>8, <2>1, <3>1
  <2> QED BY <1>3, <1>9, <2>1, <2>2 DEF Settled
<1> QED BY <1>2, <1>3, <1>6, <1>7, <1>9 DEF e, r

LEMMA StatusStill ==
  ASSUME NEW d \in TxStore, NEW n, NEW id \in Txs, NEW s \in Statuses, s # "approved", NEW S
  PROVE  Still(d, SetTxStatus(d, n, id, s), S)
<1> DEFINE e == SetTxStatus(d, n, id, s)
<1>1. CASE GetTx(d, n, id) = None
  BY <1>1, StillItself DEF SetTxStatus
<1>2. CASE GetTx(d, n, id) # None
  <2>1. d.list[id] # None /\ d.list[id] \in Refs
    BY <1>2, GetTxType DEF GetTx
  <2>2. /\ \A j \in Txs : Settled(d, j) => Settled(e, j)
        /\ \A j \in Txs \ {id} : UntimedIn(d, j) => UntimedIn(e, j)
        /\ \A q \in Refs : e.obj[q].status = "approved" => d.obj[q].status = "approved"
        /\ e.list = d.list
    BY <1>2, <2>1, StatusSettles
  <2> HIDE DEF e
  <2> QED BY <2>1, <2>2 DEF Still, e
<1> QED BY <1>1, <1>2

LEMMA RemoveStill ==
  ASSUME NEW d \in TxStore, NEW id \in Txs, NEW S
  PROVE  Still(d, RemoveTx(d, id), S)
<1> DEFINE e == RemoveTx(d, id)
<1>1. /\ e.obj = d.obj /\ e.timers = d.timers
      /\ e.list[id] = None
      /\ \A j \in Txs \ {id} : e.list[j] = d.list[j]
  BY DEF RemoveTx, TxStore, TxList
<1> HIDE DEF e
<1>2. \A j \in Txs : UntimedIn(d, j) <=> UntimedIn(e, j)
  BY <1>1 DEF UntimedIn, Deferred
<1>3. \A j \in Txs \ {id}, q \in Refs : EndsAs(e, j, q) <=> EndsAs(d, j, q)
  BY <1>1, <1>2 DEF EndsAs
<1>4. \A j \in Txs : Settled(d, j) => Settled(e, j)
  BY <1>1, <1>3 DEF Settled
<1> QED BY <1>1, <1>2, <1>4 DEF Still, e

LEMMA RejectStill ==
  ASSUME NEW d \in TxStore, NEW n, NEW id \in Txs, NEW S
  PROVE  Still(d, SetTxStatusRejected(d, n, id), S)
<1>1. "rejected" \in Statuses
  BY DEF Statuses
<1>2. SetTxStatus(d, n, id, "rejected") \in TxStore
  BY <1>1, SetTxStatusType
<1>3. Still(d, SetTxStatus(d, n, id, "rejected"), S)
  BY <1>1, StatusStill
<1> QED BY <1>2, <1>3, RemoveStill, StillTrans DEF SetTxStatusRejected

(***************************************************************************)
(* The oldest update runs: what the entry will end as is as before.        *)
(***************************************************************************)
LEMMA TimerStill ==
  ASSUME NEW d \in TxStore, d.timers # <<>>, NEW S
  PROVE  Still(d, RunTimer(d), S)
<1> DEFINE T == d.timers
           t == Head(T)
           k == Len(T)
           e == RunTimer(d)
<1>1. /\ T \in Seq(Timer) /\ k \in Nat \ {0} /\ DOMAIN T = 1 .. k
      /\ t = T[1] /\ t \in Timer
      /\ Tail(T) \in Seq(Timer) /\ DOMAIN Tail(T) = 1 .. (k - 1)
      /\ \A i \in 1 .. (k - 1) : Tail(T)[i] = T[i + 1]
  BY DEF TxStore
<1>2. t.ref \in Refs /\ IdOf(t.ref) \in Txs
  BY <1>1 DEF Timer, Refs, IdOf
<1>3. /\ e.obj = d.obj /\ e.timers = Tail(T)
      /\ \A id \in Txs : id # IdOf(t.ref) \/ d.list[id] = None => e.list[id] = d.list[id]
      /\ d.list[IdOf(t.ref)] # None => e.list[IdOf(t.ref)] = t.ref
  <2> HIDE DEF t, T
  <2>1. e = [UpdateTx(d, t.ref) EXCEPT !.timers = Tail(@)]
    BY DEF RunTimer, t, T
  <2> HIDE DEF e
  <2>2. UpdateTx(d, t.ref) \in TxStore
    BY <1>2, UpdateTxType
  <2>3. e.obj = UpdateTx(d, t.ref).obj /\ e.list = UpdateTx(d, t.ref).list
        /\ e.timers = Tail(UpdateTx(d, t.ref).timers)
    BY <2>1, <2>2 DEF TxStore
  <2> QED BY <1>2, <2>3 DEF UpdateTx, TxStore, TxList, T
<1> HIDE DEF e, t, k, T
<1>4. \A i \in DOMAIN e.timers : i + 1 \in DOMAIN T /\ e.timers[i] = T[i + 1]
  BY <1>1, <1>3
<1>5. \A i \in DOMAIN T : i = 1 \/ (i - 1 \in DOMAIN e.timers /\ e.timers[i - 1] = T[i])
  BY <1>1, <1>3
<1>6. ASSUME NEW id \in Txs, UntimedIn(d, id) PROVE UntimedIn(e, id)
  BY <1>4, <1>6 DEF UntimedIn, Deferred, T
<1>7. ASSUME NEW id \in Txs, e.list[id] # None, NEW q \in Refs, EndsAs(e, id, q)
      PROVE  EndsAs(d, id, q)
  <2>1. CASE q = e.list[id] /\ UntimedIn(e, id) /\ id = IdOf(t.ref)
    <3>1. d.list[id] # None /\ q = t.ref /\ T[1].ref = q /\ 1 \in DOMAIN T
      BY <1>1, <1>3, <1>7, <2>1
    <3>2. \A j \in DOMAIN T : 1 < j => IdOf(T[j].ref) # id
      BY <1>1, <1>5, <2>1 DEF UntimedIn, Deferred
    <3> QED BY <2>1, <3>1, <3>2 DEF EndsAs, T
  <2>2. CASE q = e.list[id] /\ UntimedIn(e, id) /\ id # IdOf(t.ref)
    <3>1. UntimedIn(d, id)
      BY <1>1, <1>5, <2>2 DEF UntimedIn, Deferred, T
    <3> QED BY <1>3, <2>2, <3>1 DEF EndsAs
  <2>3. CASE \E i \in DOMAIN e.timers :
               /\ e.timers[i].ref = q /\ IdOf(q) = id
               /\ \A j \in DOMAIN e.timers : i < j => IdOf(e.timers[j].ref) # id
    <3>1. PICK i \in DOMAIN e.timers :
               /\ e.timers[i].ref = q /\ IdOf(q) = id
               /\ \A j \in DOMAIN e.timers : i < j => IdOf(e.timers[j].ref) # id
      BY <2>3
    <3>2. i + 1 \in DOMAIN T /\ T[i + 1].ref = q /\ i \in Nat
      BY <1>1, <1>3, <1>4, <3>1
    <3>3. \A j \in DOMAIN T : i + 1 < j => IdOf(T[j].ref) # id
      <4> SUFFICES ASSUME NEW j \in DOMAIN T, i + 1 < j PROVE IdOf(T[j].ref) # id
        OBVIOUS
      <4>1. j - 1 \in DOMAIN e.timers /\ e.timers[j - 1] = T[j] /\ i < j - 1
        BY <1>1, <1>5, <3>2
      <4> QED BY <3>1, <4>1
    <3> QED BY <3>1, <3>2, <3>3 DEF EndsAs, T
  <2> QED BY <1>7, <2>1, <2>2, <2>3 DEF EndsAs
<1>8. \A id \in Txs : e.list[id] # None => d.list[id] # None
  BY <1>3
<1>9. \A id \in Txs \ S : Settled(d, id) => Settled(e, id)
  BY <1>3, <1>7, <1>8 DEF Settled
<1> QED BY <1>3, <1>6, <1>8, <1>9 DEF Still, e

-----------------------------------------------------------------------------
(* While the network loads, before it was changed: the page has just started. *)
Paused ==
  /\ db.timers = <<>>
  /\ \A p \in Procs : ~Active(p)
  /\ \A r \in Refs : ~Working(r) /\ ~Redone(r)
  /\ \A id \in Txs : adding[id] \in {"none", "done"} /\ db.list[id] \in {None, <<id, 0>>}

(* Before it is stored, a transaction has neither entry nor update. *)
Unrequested ==
  \A id \in Txs : adding[id] \in {"none", "checking"} =>
    db.list[id] = None /\ UntimedIn(db, id)

(* What a window, the clean-up or the request will save was not confirmed. *)
Unconfirmed ==
  \A r \in Refs :
    /\ Working(r) => r[2] > 0
    /\ Redone(r) => r[2] = 0 /\ adding[IdOf(r)] = "done"
    /\ Working(r) \/ Redone(r) \/ (r[2] = 0 /\ adding[IdOf(r)] = "defaults")
         => db.obj[r].status # "approved"

OnOneNetwork == \A p \in Procs : Active(p) => addNet[proc[p].id] = network

AllSettled ==
  \A id \in Txs \ inProcess : addNet[id] = network => Settled(db, id)

Settling ==
  ~changed =>
    /\ network = Loading => Paused
    /\ Unrequested
    /\ Unconfirmed
    /\ OnOneNetwork
    /\ AllSettled

(***************************************************************************)
(* A step on a network that is there, which unsettles no transaction but   *)
(* those of S, which it settles itself, keeps the invariant.               *)
(***************************************************************************)
LEMMA SettlingKept ==
  ASSUME Typed, Settling, network # Loading, NEW S, Still(db, db', S),
         UNCHANGED <<network, changed, addNet>>,
         \A p \in Procs : Active(p)' => Active(p) /\ proc'[p].id = proc[p].id,
         \A r \in Refs : (Working(r)' => Working(r)) /\ (Redone(r)' => Redone(r)),
         \A id \in Txs : adding'[id] = adding[id] \/ adding'[id] = "done",
         \A id \in Txs \ inProcess' :
           /\ id \in inProcess \/ id \in S
           /\ db'.list[id] # None
           /\ addNet[id] = network
           => Settled(db', id)
  PROVE  Settling'
<1> SUFFICES ASSUME ~changed
             PROVE  Unrequested' /\ Unconfirmed' /\ OnOneNetwork' /\ AllSettled'
  BY DEF Settling
<1>1. Unrequested /\ Unconfirmed /\ OnOneNetwork /\ AllSettled
  BY DEF Settling
<1>2. Unrequested'
  BY <1>1 DEF Unrequested, Still
<1>3. Unconfirmed'
  <2>1. \A r \in Refs : IdOf(r) \in Txs
    BY DEF Refs, IdOf
  <2> QED BY <1>1, <2>1 DEF Unconfirmed, Still
<1>4. OnOneNetwork'
  BY <1>1 DEF OnOneNetwork
<1>5. AllSettled'
  <2> SUFFICES ASSUME NEW id \in Txs \ inProcess', addNet[id] = network
               PROVE  Settled(db', id)
    BY DEF AllSettled
  <2>1. CASE id \in inProcess \/ id \in S
    BY <2>1 DEF Settled
  <2>2. CASE id \notin inProcess /\ id \notin S
    BY <1>1, <2>2 DEF AllSettled, Still
  <2> QED BY <2>1, <2>2
<1> QED BY <1>2, <1>3, <1>4, <1>5

(***************************************************************************)
(* A lookup that finds nothing while the network loads.                    *)
(***************************************************************************)
LEMMA LoadingHides ==
  ASSUME NEW d \in TxStore, NEW id \in Txs
  PROVE  GetTx(d, Loading, id) = None
<1>1. SUFFICES ASSUME GetTx(d, Loading, id) # None PROVE FALSE
  OBVIOUS
<1>2. d.obj[GetTx(d, Loading, id)] \in TxMeta /\ d.obj[GetTx(d, Loading, id)].net = Loading
  BY <1>1, GetTxType, ObjType
<1> QED BY <1>2, NetworkAssumption DEF TxMeta, Loading

(***************************************************************************)
(* An approval that ends finds its entry, if there is one.                 *)
(***************************************************************************)
LEMMA OwnIsFound ==
  ASSUME Typed, OwnNetwork, NEW id \in Txs, Present(id), addNet[id] = network
  PROVE  GetTx(db, network, id) # None
<1>1. db.list[id] \in Refs /\ IdOf(db.list[id]) = id
  BY DEF Present, Typed, TypeOK, TxStore, TxList
<1>2. db.obj[db.list[id]].net = addNet[id]
  BY <1>1 DEF OwnNetwork, LiveOnOwn, Live, Held
<1> QED BY <1>2 DEF GetTx, Present

LEMMA FailSettles ==
  ASSUME Typed, OwnNetwork, OwnNetwork', Settling, network # Loading, NEW p \in Procs,
         Active(p), NEW d \in TxStore, Still(db, d, {proc[p].id}), FailApproval(p, d),
         UNCHANGED <<network, changed, flows, ui>>, TypeOK'
  PROVE  Settling'
<1> DEFINE id == proc[p].id
<1>1. id \in Txs
  BY DEF Typed, ProcOK, Active
<1>2. db' = SetTxStatus(d, network, id, "failed") /\ inProcess' = inProcess \ {id}
      /\ proc' = [proc EXCEPT ![p] = IdleProc]
  BY DEF FailApproval, SetTxStatusFailed, Finish
<1>3. "failed" \in Statuses
  BY DEF Statuses
<1>4. Still(db, db', {id})
  BY <1>1, <1>2, <1>3, StatusStill, StillTrans
<1>5. ASSUME db'.list[id] # None, addNet[id] = network PROVE Settled(db', id)
  <2>1. CASE GetTx(d, network, id) # None
    BY <1>1, <1>2, <1>3, <2>1, StatusSettles
  <2>2. CASE GetTx(d, network, id) = None
    <3>1. db' = d
      BY <1>2, <2>2 DEF SetTxStatus
    <3>2. db'.list[id] \in Refs /\ IdOf(db'.list[id]) = id
      BY <1>1, <1>5 DEF TypeOK, TxStore, TxList
    <3>3. db'.obj[db'.list[id]].net = network
      BY <1>5, <3>2 DEF OwnNetwork, LiveOnOwn, Live, Held
    <3> QED BY <1>5, <2>2, <3>1, <3>3 DEF GetTx
  <2> QED BY <2>1, <2>2
<1>6. \A q \in Procs : Active(q)' => Active(q) /\ proc'[q].id = proc[q].id
  BY <1>2 DEF Active, IdleProc, Typed, TypeOK
<1>7. \A r \in Refs : (Working(r)' => Working(r)) /\ (Redone(r)' => Redone(r))
  BY DEF Working, Redone
<1>8. \A j \in Txs \ inProcess' : j \in inProcess \/ j \in {id} => j = id
  BY <1>2
<1> HIDE DEF id
<1> QED BY <1>4, <1>5, <1>6, <1>7, <1>8, SettlingKept

(***************************************************************************)
(* A step that is no part of an approval.                                  *)
(***************************************************************************)
LEMMA SettlingQuiet ==
  ASSUME Typed, Settling, network # Loading, Still(db, db', {}),
         UNCHANGED <<network, changed, addNet, proc, inProcess>>,
         \A r \in Refs : (Working(r)' => Working(r)) /\ (Redone(r)' => Redone(r)),
         \A id \in Txs : adding'[id] = adding[id] \/ adding'[id] = "done"
  PROVE  Settling'
<1>1. \A p \in Procs : Active(p)' => Active(p) /\ proc'[p].id = proc[p].id
  BY DEF Active
<1>2. \A id \in Txs \ inProcess' : ~(id \in inProcess \/ id \in {})
  OBVIOUS
<1> QED BY <1>1, <1>2, SettlingKept

(***************************************************************************)
(* The store e came from d by writes that make nothing approved but the    *)
(* entry of id, and unsettle no other id.                                  *)
(***************************************************************************)
StillBut(d, e, id) ==
  /\ \A j \in Txs \ {id} : Settled(d, j) => Settled(e, j)
  /\ \A j \in Txs \ {id} : d.list[j] = None =>
       e.list[j] = None /\ (UntimedIn(d, j) => UntimedIn(e, j))
  /\ \A r \in Refs \ {e.list[id]} :
       e.obj[r].status = "approved" => d.obj[r].status = "approved"

LEMMA AddStill ==
  ASSUME NEW d \in TxStore, NEW id \in Txs, NEW m \in TxMeta
  PROVE  /\ StillBut(d, AddTx(d, <<id, 0>>, m), id)
         /\ AddTx(d, <<id, 0>>, m).list[id] = <<id, 0>>
         /\ AddTx(d, <<id, 0>>, m).obj[<<id, 0>>] = m
         /\ UntimedIn(d, id) /\ m.status # "approved" => Settled(AddTx(d, <<id, 0>>, m), id)
<1> DEFINE r == <<id, 0>>
           e == AddTx(d, r, m)
<1>1. r \in Refs /\ IdOf(r) = id
  BY CopiesAssumption DEF Refs, IdOf
<1> HIDE DEF r
<1>2. /\ e.list[id] = r /\ e.obj[r] = m /\ e.timers = d.timers
      /\ \A j \in Txs \ {id} : e.list[j] = d.list[j]
      /\ \A q \in Refs \ {r} : e.obj[q] = d.obj[q]
  BY <1>1 DEF AddTx, TxStore, TxList
<1> HIDE DEF e
<1>3. \A j \in Txs : UntimedIn(e, j) <=> UntimedIn(d, j)
  BY <1>2 DEF UntimedIn, Deferred
<1>4. ASSUME NEW j \in Txs \ {id}, Settled(d, j) PROVE Settled(e, j)
  <2>1. \A q \in Refs : EndsAs(e, j, q) => EndsAs(d, j, q)
    BY <1>2, <1>3 DEF EndsAs
  <2>2. ASSUME NEW q \in Refs, EndsAs(e, j, q), d.list[j] # None PROVE q # r
    <3>1. IdOf(d.list[j]) = j
      BY <2>2 DEF TxStore, TxList
    <3> QED BY <1>1, <1>2, <2>2, <3>1 DEF EndsAs
  <2> QED BY <1>2, <1>4, <2>1, <2>2 DEF Settled
<1>5. ASSUME UntimedIn(d, id), m.status # "approved" PROVE Settled(e, id)
  <2>1. \A i \in DOMAIN e.timers : IdOf(e.timers[i].ref) # id
    BY <1>3, <1>5 DEF UntimedIn, Deferred
  <2>2. \A q \in Refs : EndsAs(e, id, q) => q = r
    BY <1>2, <2>1 DEF EndsAs
  <2> QED BY <1>2, <1>5, <2>2 DEF Settled
<1>6. \A q \in Refs \ {e.list[id]} : e.obj[q] = d.obj[q]
  BY <1>2
<1>7. StillBut(d, e, id)
  BY <1>2, <1>3, <1>4, <1>6 DEF StillBut
<1> QED BY <1>2, <1>5, <1>7 DEF e, r

(***************************************************************************)
(* A transaction is stored unapproved: that of a request, or a retry.      *)
(***************************************************************************)
LEMMA SettlingAdded ==
  ASSUME Typed, Settling, ~changed, network # Loading, NEW id \in Txs, NEW m \in TxMeta,
         m.status # "approved", adding[id] \in {"none", "checking"},
         db' = AddTx(db, <<id, 0>>, m),
         adding'[id] \in {"defaults", "done"},
         \A j \in Txs \ {id} : adding'[j] = adding[j] /\ addNet'[j] = addNet[j],
         addNet'[id] \in {addNet[id], network},
         UNCHANGED <<network, changed, proc, inProcess, ui, redo>>
  PROVE  Settling'
<1>0. Unrequested /\ Unconfirmed /\ OnOneNetwork /\ AllSettled
  BY DEF Settling
<1>1. UntimedIn(db, id)
  BY <1>0 DEF Unrequested
<1>2. /\ StillBut(db, db', id) /\ Settled(db', id)
      /\ db'.list[id] = <<id, 0>> /\ db'.obj[<<id, 0>>] = m
  BY <1>1, AddStill DEF Typed, TypeOK
<1>3. Unrequested'
  BY <1>0, <1>2 DEF Unrequested, StillBut
<1>4. Unconfirmed'
  <2>1. \A q \in Refs : db'.obj[q].status = "approved" => q # <<id, 0>> /\ db.obj[q].status = "approved"
    BY <1>2 DEF StillBut
  <2>2. \A q \in Refs : IdOf(q) \in Txs /\ (q[2] = 0 /\ IdOf(q) = id => q = <<id, 0>>)
    BY DEF Refs, IdOf
  <2>3. \A q \in Refs : (Working(q)' <=> Working(q)) /\ (Redone(q)' <=> Redone(q))
    BY DEF Working, Redone
  <2> QED BY <1>0, <2>1, <2>2, <2>3 DEF Unconfirmed
<1>5. OnOneNetwork'
  BY <1>0 DEF OnOneNetwork, Active, Typed, ProcOK
<1>6. AllSettled'
  BY <1>0, <1>2 DEF AllSettled, StillBut
<1> QED BY <1>3, <1>4, <1>5, <1>6 DEF Settling

LEMMA SettlingRequest ==
  ASSUME Typed, Settling, ~changed, network # Loading, NEW id \in Txs,
         Request(id) \/ Defaults(id)
  PROVE  Settling'
<1> DEFINE r == <<id, 0>>
<1>0. Unrequested /\ Unconfirmed /\ OnOneNetwork /\ AllSettled
  BY DEF Settling
<1>1. r \in Refs /\ IdOf(r) = id /\ r[2] = 0
  BY CopiesAssumption DEF Refs, IdOf
<1>2. CASE GenerateTxMeta(id)
  <2>1. /\ UNCHANGED <<network, changed, db, proc, inProcess, ui, redo>>
        /\ adding[id] = "none" /\ adding' = [adding EXCEPT ![id] = "checking"]
        /\ addNet' = [addNet EXCEPT ![id] = network]
    BY <1>2 DEF GenerateTxMeta
  <2>2. db.list[id] = None /\ UntimedIn(db, id)
    BY <1>0, <2>1 DEF Unrequested
  <2>3. Unrequested'
    BY <1>0, <2>1, <2>2 DEF Unrequested, Typed, TypeOK
  <2>4. Unconfirmed'
    <3>1. \A q \in Refs : IdOf(q) \in Txs
      BY DEF Refs, IdOf
    <3> QED BY <1>0, <2>1, <3>1 DEF Unconfirmed, Working, Redone, Typed, TypeOK
  <2>5. OnOneNetwork'
    BY <1>0, <2>1 DEF OnOneNetwork, Active, Typed, TypeOK, ProcOK
  <2>6. AllSettled'
    BY <1>0, <2>1, <2>2 DEF AllSettled, Settled, Typed, TypeOK
  <2> QED BY <2>1, <2>3, <2>4, <2>5, <2>6 DEF Settling
<1>3. CASE RefuseRequest(id)
  BY <1>3, StillItself, SettlingQuiet DEF RefuseRequest, Working, Redone, Typed, TypeOK
<1>4. CASE StoreUnapproved(id)
  <2> DEFINE m == NewTxMeta(addNet[id])
  <2>1. /\ UNCHANGED <<network, changed, addNet, proc, inProcess, ui, redo>>
        /\ adding[id] = "checking" /\ adding' = [adding EXCEPT ![id] = "defaults"]
        /\ db' = AddTx(db, r, m)
    BY <1>4 DEF StoreUnapproved
  <2>2. m \in TxMeta /\ m.status = "unapproved"
    BY <2>1, NewTxMetaType DEF Typed, AddOK, NewTxMeta
  <2> HIDE DEF m
  <2> QED BY <2>1, <2>2, SettlingAdded DEF Typed, TypeOK
<1>5. CASE Defaults(id)
  <2> DEFINE m == [db.obj[r] EXCEPT !.ld = FALSE]
  <2>1. /\ UNCHANGED <<network, changed, addNet, proc, inProcess, ui, redo>>
        /\ adding[id] = "defaults" /\ adding' = [adding EXCEPT ![id] = "done"]
        /\ db' = UpdateTx(WithTxMeta(db, r, m), r)
    BY <1>5 DEF Defaults, DefaultsReady, DefaultsFailed
  <2>2. db.obj[r].status # "approved"
    BY <1>0, <1>1, <2>1 DEF Unconfirmed
  <2>3. m \in TxMeta /\ m.status = db.obj[r].status
    BY <1>1, ObjType, TxMetaFields DEF Typed, TypeOK, TxMeta
  <2>4. Still(db, db', {})
    <3> HIDE DEF m, r
    <3> QED BY <1>1, <2>1, <2>2, <2>3, SavedStill DEF Typed, TypeOK
  <2> QED BY <2>1, <2>4, SettlingQuiet DEF Working, Redone, Typed, TypeOK
<1> QED BY <1>2, <1>3, <1>4, <1>5 DEF Request

LEMMA SettlingOpen ==
  ASSUME Typed, Settling, ~changed, network # Loading, NEW r \in Refs, OpenWindow(r)
  PROVE  Settling'
<1> DEFINE m == Current(IdOf(r))
<1>0. Unrequested /\ Unconfirmed /\ OnOneNetwork /\ AllSettled
  BY DEF Settling
<1>1. /\ r[2] > 0 /\ db' = WithTxMeta(db, r, m) /\ ui' = [ui EXCEPT ![r] = "open"]
      /\ UNCHANGED <<network, changed, flows, proc, inProcess>>
      /\ Shown(IdOf(r))
  BY DEF OpenWindow
<1>2. IdOf(r) \in Txs /\ r[2] # 0
  BY <1>1, CopiesAssumption DEF Refs, IdOf
<1>3. m \in TxMeta /\ m.status = "unapproved"
  BY <1>1, <1>2, GetTxType, ObjType DEF Shown, Current, Typed, TypeOK
<1> HIDE DEF m
<1>4. Still(db, db', {})
  BY <1>1, <1>3, WriteStill DEF Typed, TypeOK
<1>5. db'.obj[r].status = "unapproved"
  BY <1>1, <1>3 DEF WithTxMeta, Typed, TypeOK, TxStore
<1>6. Unrequested'
  BY <1>0, <1>1, <1>4 DEF Unrequested, Still
<1>7. Unconfirmed'
  <2> SUFFICES ASSUME NEW q \in Refs
               PROVE  /\ Working(q)' => q[2] > 0
                      /\ Redone(q)' => q[2] = 0 /\ adding'[IdOf(q)] = "done"
                      /\ Working(q)' \/ Redone(q)' \/ (q[2] = 0 /\ adding'[IdOf(q)] = "defaults")
                           => db'.obj[q].status # "approved"
    BY DEF Unconfirmed
  <2>1. Redone(q)' <=> Redone(q)
    BY <1>1 DEF Redone
  <2>2. CASE q = r
    BY <1>0, <1>1, <1>2, <1>5, <2>1, <2>2 DEF Unconfirmed
  <2>3. CASE q # r
    <3>1. Working(q)' <=> Working(q)
      BY <1>1, <2>3 DEF Working, Typed, TypeOK
    <3> QED BY <1>0, <1>1, <1>4, <2>1, <3>1 DEF Unconfirmed, Still
  <2> QED BY <2>2, <2>3
<1>8. OnOneNetwork'
  BY <1>0, <1>1 DEF OnOneNetwork, Active
<1>9. AllSettled'
  BY <1>0, <1>1, <1>4 DEF AllSettled, Still
<1> QED BY <1>1, <1>6, <1>7, <1>8, <1>9 DEF Settling

LEMMA SettlingEdit ==
  ASSUME Typed, Settling, ~changed, network # Loading, NEW r \in Refs,
         UpdateTransaction(r) \/ SponsorshipAnswer(r)
  PROVE  Settling'
<1>1. Working(r) /\ UNCHANGED <<network, changed, flows, proc, inProcess>>
  BY DEF UpdateTransaction, SponsorshipAnswer, Working
<1>2. db.obj[r].status # "approved"
  BY <1>1 DEF Settling, Unconfirmed
<1>3. Still(db, db', {})
  BY <1>2, UpdateStill, StillItself DEF UpdateTransaction, SponsorshipAnswer, Typed, TypeOK
<1>4. \A q \in Refs : (Working(q)' => Working(q)) /\ (Redone(q)' => Redone(q))
  BY <1>1 DEF UpdateTransaction, SponsorshipAnswer, Working, Redone, Typed, TypeOK
<1> QED BY <1>1, <1>3, <1>4, SettlingQuiet

LEMMA SettlingCancel ==
  ASSUME Typed, Settling, ~changed, network # Loading, NEW id \in Txs, CancelTransaction(id)
  PROVE  Settling'
<1>1. UNCHANGED <<network, changed, flows, proc, inProcess>>
  BY DEF CancelTransaction
<1>2. Still(db, db', {})
  BY RejectStill DEF CancelTransaction, Typed, TypeOK
<1>3. \A q \in Refs : (Working(q)' => Working(q)) /\ (Redone(q)' => Redone(q))
  BY <1>1 DEF CancelTransaction, Working, Redone
<1> QED BY <1>1, <1>2, <1>3, SettlingQuiet

(***************************************************************************)
(* approveTransaction starts, on the store d: the object it makes approved *)
(* is the entry, which nothing else must be about to save.                 *)
(***************************************************************************)
LEMMA SettlingApprove ==
  ASSUME Typed, Settling, ~changed, network # Loading, NEW p \in Procs, NEW id \in Txs,
         NEW d \in TxStore, ApproveTransaction(p, id, d),
         UNCHANGED <<network, changed>>,
         addNet' = [addNet EXCEPT ![id] = network],
         StillBut(db, d, id), id \in inProcess',
         Present(id) \/ adding'[id] = "done",
         \A j \in Txs : adding'[j] = adding[j] \/ (j = id /\ adding'[j] = "done"),
         \A r \in Refs : (Working(r)' => Working(r)) /\ (Redone(r)' => Redone(r)),
         \A r \in Refs : r = d.list[id] =>
           /\ ~Working(r)' /\ ~Redone(r)'
           /\ r[2] = 0 => adding'[id] # "defaults"
  PROVE  Settling'
<1>0. Unrequested /\ Unconfirmed /\ OnOneNetwork /\ AllSettled
  BY DEF Settling
<1>1. /\ \/ db' = d
         \/ GetTx(d, network, id) # None /\ db' = SetTxStatus(d, network, id, "approved")
      /\ inProcess' = inProcess \/ inProcess' = inProcess \cup {id}
      /\ \A q \in Procs : proc'[q] = proc[q] \/ proc'[q].id = id
  <2>1. CASE db' = d /\ UNCHANGED signing
    BY <2>1
  <2>2. CASE /\ GetTx(d, network, id) # None
             /\ db' = SetTxStatus(d, network, id, "approved")
             /\ inProcess' = inProcess \cup {id}
             /\ proc' = [proc EXCEPT ![p] = [IdleProc EXCEPT !.pc = "block", !.id = id,
                                                            !.ref = d.list[id]]]
    <3>1. \A q \in Procs : proc'[q] = proc[q] \/ proc'[q].id = id
      BY <2>2 DEF IdleProc, Typed, TypeOK
    <3> QED BY <2>2, <3>1
  <2> QED BY <2>1, <2>2 DEF ApproveTransaction
<1>2. /\ \A j \in Txs \ {id} : Settled(d, j) => Settled(db', j)
      /\ \A j \in Txs \ {id} : UntimedIn(d, j) => UntimedIn(db', j)
      /\ db'.list = d.list
      /\ \A q \in Refs \ {d.list[id]} : db'.obj[q] = d.obj[q]
  BY <1>1, StatusSettles DEF Statuses
<1>3. Unrequested'
  <2> SUFFICES ASSUME NEW j \in Txs, adding'[j] \in {"none", "checking"}
               PROVE  db'.list[j] = None /\ UntimedIn(db', j)
    BY DEF Unrequested
  <2>1. adding'[j] = adding[j]
    OBVIOUS
  <2>2. db.list[j] = None /\ UntimedIn(db, j)
    BY <1>0, <2>1 DEF Unrequested
  <2>3. j # id
    BY <2>2 DEF Present
  <2> QED BY <1>2, <2>2, <2>3 DEF StillBut
<1>4. Unconfirmed'
  <2> SUFFICES ASSUME NEW q \in Refs
               PROVE  /\ Working(q)' => q[2] > 0
                      /\ Redone(q)' => q[2] = 0 /\ adding'[IdOf(q)] = "done"
                      /\ Working(q)' \/ Redone(q)' \/ (q[2] = 0 /\ adding'[IdOf(q)] = "defaults")
                           => db'.obj[q].status # "approved"
    BY DEF Unconfirmed
  <2>1. IdOf(q) \in Txs
    BY DEF Refs, IdOf
  <2>2. CASE q = d.list[id]
    <3>1. IdOf(q) = id
      BY <2>2, NoneAssumption DEF TxStore, TxList
    <3> QED BY <1>0, <2>1, <2>2, <3>1 DEF Unconfirmed
  <2>3. CASE q # d.list[id]
    <3>1. db'.obj[q].status = "approved" => db.obj[q].status = "approved"
      BY <1>2, <2>3 DEF StillBut
    <3> QED BY <1>0, <2>1, <3>1 DEF Unconfirmed
  <2> QED BY <2>2, <2>3
<1>5. OnOneNetwork'
  BY <1>0, <1>1 DEF OnOneNetwork, Active, Typed, TypeOK, ProcOK
<1>6. AllSettled'
  <2> SUFFICES ASSUME NEW j \in Txs \ inProcess', addNet'[j] = network PROVE Settled(db', j)
    BY DEF AllSettled
  <2>1. CASE j = id
    BY <2>1
  <2>2. CASE j # id
    <3>1. Settled(db, j)
      BY <1>0, <1>1, <2>2 DEF AllSettled, Typed, TypeOK
    <3> QED BY <1>2, <2>2, <3>1 DEF StillBut
  <2> QED BY <2>1, <2>2
<1> QED BY <1>3, <1>4, <1>5, <1>6 DEF Settling

LEMMA SettlingConfirm ==
  ASSUME Typed, OwnNetwork, Settling, ~changed, network # Loading, NEW p \in Procs, NEW r \in Refs,
         NEW c \in CustomNonces \cup {None}, UpdateAndApproveTransaction(p, r, c)
  PROVE  Settling'
<1> DEFINE m == [db.obj[r] EXCEPT !.custom = c]
           d == UpdateTx(WithTxMeta(db, r, m), r)
           id == IdOf(r)
<1>0. Unconfirmed
  BY DEF Settling
<1>1. id \in Txs /\ m \in TxMeta /\ m.status = db.obj[r].status
  BY ObjType, TxMetaFields, CustomAssumption DEF Typed, TypeOK, TxMeta, Refs, IdOf
<1>2. /\ ApproveTransaction(p, id, d) /\ ui[r] = "open" /\ ui' = [ui EXCEPT ![r] = "used"]
      /\ UNCHANGED <<network, changed, flows>>
  BY DEF UpdateAndApproveTransaction
<1>3. r[2] # 0 /\ db.obj[r].status # "approved"
  <2>1. Working(r)
    BY <1>2 DEF Working
  <2>2. r[2] \in Nat
    BY CopiesAssumption DEF Refs
  <2> QED BY <1>0, <2>1, <2>2 DEF Unconfirmed
<1>4. d \in TxStore /\ Still(db, d, {})
  <2> HIDE DEF m, id
  <2> QED BY <1>1, <1>3, SavedType, SavedStill DEF Typed, TypeOK
<1>5. d.list[id] \in {None, r} /\ (db.list[id] = None => d.list[id] = None)
  BY <1>1 DEF UpdateTx, WithTxMeta, Typed, TypeOK, TxStore, TxList
<1> HIDE DEF d, m
<1>6. CASE ~Present(id) \/ id \in inProcess \/ GetTx(d, network, id) = None
  <2>1. db' = d /\ UNCHANGED signing
    BY <1>2, <1>5, <1>6 DEF ApproveTransaction, GetTx, Present
  <2>2. \A q \in Refs : (Working(q)' => Working(q)) /\ (Redone(q)' => Redone(q))
    BY <1>2 DEF Working, Redone, Typed, TypeOK
  <2> QED BY <1>2, <1>4, <2>1, <2>2, SettlingQuiet
<1>7. CASE Present(id) /\ id \notin inProcess /\ GetTx(d, network, id) # None
  <2>1. id \in inProcess' /\ GetTx(d, network, id) = r /\ d.obj[r].net = network
    BY <1>1, <1>2, <1>4, <1>5, <1>7, GetTxType DEF ApproveTransaction
  <2>2. addNet[id] = network
    <3>1. d.obj[r].net = db.obj[r].net
      BY <1>1 DEF d, m, UpdateTx, WithTxMeta, Typed, TypeOK, TxStore, TxMeta
    <3>2. Live(r)
      BY <1>2 DEF Live, Busy
    <3> QED BY <2>1, <3>1, <3>2 DEF OwnNetwork, LiveOnOwn
  <2>3. addNet' = [addNet EXCEPT ![id] = network]
    BY <1>1, <1>2, <2>2 DEF Typed, TypeOK
  <2>4. StillBut(db, d, id)
    BY <1>4 DEF Still, StillBut
  <2>5. \A q \in Refs : (Working(q)' => Working(q)) /\ (Redone(q)' => Redone(q))
    BY <1>2 DEF Working, Redone, Typed, TypeOK
  <2>6. ~Working(r)' /\ ~Redone(r)'
    BY <1>0, <1>2, <1>3 DEF Unconfirmed, Working, Redone, Typed, TypeOK
  <2>7. \A q \in Refs : q = d.list[id] =>
          ~Working(q)' /\ ~Redone(q)' /\ (q[2] = 0 => adding'[id] # "defaults")
    <3>1. \A q \in Refs : q = d.list[id] => q = r
      BY <1>5, NoneAssumption
    <3> QED BY <1>3, <2>6, <3>1
  <2>8. \A j \in Txs : adding'[j] = adding[j]
    BY <1>2
  <2> HIDE DEF id
  <2> QED BY <1>1, <1>2, <1>4, <1>7, <2>1, <2>3, <2>4, <2>5, <2>7, <2>8, SettlingApprove
<1> QED BY <1>6, <1>7

LEMMA SettlingReplacement ==
  ASSUME Typed, Settling, ~changed, network # Loading, NEW old \in Txs, NEW id \in Txs,
         RetryTransaction(old, id) \/ \E p \in Procs : CreateReplacement(p, old, id)
  PROVE  Settling'
<1> DEFINE r == <<id, 0>>
           m == ReplacementOf(old)
           n == [m EXCEPT !.status = "approved"]
<1>0. Unconfirmed
  BY DEF Settling
<1>1. /\ CanReplace(old, id)
      /\ \/ \E p \in Procs : ApproveTransaction(p, id, AddTx(db, r, n))
         \/ db' = AddTx(db, r, m) /\ UNCHANGED signing
  BY DEF CreateReplacement, RetryTransaction
<1>2. /\ adding[id] = "none" /\ adding' = [adding EXCEPT ![id] = "done"]
      /\ addNet' = [addNet EXCEPT ![id] = network]
      /\ UNCHANGED <<network, changed, redo, ui>>
      /\ GetTx(db, network, old) # None
  BY <1>1 DEF CanReplace
<1>3. m \in TxMeta /\ m.status = "unapproved" /\ m.net = network
  <2>1. m \in TxMeta
    BY <1>1, TypedReplacement
  <2> QED BY <2>1 DEF ReplacementOf, NewTxMeta
<1>4. n \in TxMeta /\ n.net = network
  <2> HIDE DEF m
  <2> QED BY <1>3, TxMetaFields DEF Statuses, TxMeta
<1> HIDE DEF m, n
<1>5. CASE db' = AddTx(db, r, m) /\ UNCHANGED signing
  BY <1>2, <1>3, <1>5, SettlingAdded DEF Typed, TypeOK
<1>6. ASSUME NEW p \in Procs, ApproveTransaction(p, id, AddTx(db, r, n)) PROVE Settling'
  <2> DEFINE d == AddTx(db, r, n)
  <2>1. r \in Refs /\ IdOf(r) = id /\ r[2] = 0
    BY CopiesAssumption DEF Refs, IdOf
  <2>2. /\ d \in TxStore /\ StillBut(db, d, id)
        /\ d.list[id] = r /\ d.obj[r] = n
    BY <1>4, <2>1, AddTxType, AddStill DEF Typed, TypeOK
  <2> HIDE DEF d, r
  <2>3. GetTx(d, network, id) # None
    BY <1>4, <2>1, <2>2, NoneAssumption DEF GetTx
  <2>4. id \in inProcess'
    BY <1>6, <2>3 DEF ApproveTransaction, d
  <2>5. ~Working(r)' /\ ~Redone(r)'
    BY <1>0, <1>2, <2>1 DEF Unconfirmed, Working, Redone
  <2>6. \A q \in Refs : (Working(q)' => Working(q)) /\ (Redone(q)' => Redone(q))
    BY <1>2 DEF Working, Redone
  <2>7. /\ adding'[id] = "done"
        /\ \A j \in Txs : adding'[j] = adding[j] \/ (j = id /\ adding'[j] = "done")
    BY <1>2 DEF Typed, TypeOK
  <2>8. \A q \in Refs : q = d.list[id] =>
          ~Working(q)' /\ ~Redone(q)' /\ (q[2] = 0 => adding'[id] # "defaults")
    BY <2>2, <2>5, <2>7
  <2>9. ApproveTransaction(p, id, d)
    BY <1>6 DEF d
  <2> QED BY <1>2, <2>2, <2>4, <2>6, <2>7, <2>8, <2>9, SettlingApprove
<1> QED BY <1>1, <1>5, <1>6

(***************************************************************************)
(* An approval goes on, or ends.                                           *)
(***************************************************************************)
LEMMA SettlingMove ==
  ASSUME Typed, Settling, network # Loading, NEW p \in Procs, Active(p),
         Still(db, db', {proc[p].id}),
         UNCHANGED <<network, changed, flows, ui, inProcess>>, proc[p].id \in inProcess,
         \A q \in Procs : proc'[q] = proc[q] \/ (q = p /\ proc'[q].id = proc[q].id)
  PROVE  Settling'
<1>1. \A q \in Procs : Active(q)' => Active(q) /\ proc'[q].id = proc[q].id
  BY DEF Active
<1>2. \A q \in Refs : (Working(q)' => Working(q)) /\ (Redone(q)' => Redone(q))
  BY DEF Working, Redone
<1>3. \A j \in Txs \ inProcess' : ~(j \in inProcess \/ j \in {proc[p].id})
  OBVIOUS
<1> QED BY <1>1, <1>2, <1>3, SettlingKept

LEMMA ActiveFacts ==
  ASSUME Typed, Exclusive, NEW p \in Procs, Active(p)
  PROVE  /\ proc[p].id \in Txs /\ proc[p].id \in inProcess
         /\ proc[p].ref \in Refs /\ IdOf(proc[p].ref) = proc[p].id
BY DEF Active, Typed, ProcOK, Exclusive, OneApprovalPerTx

LEMMA SettlingApproval ==
  ASSUME Typed, Typed', Exclusive, OwnNetwork, OwnNetwork', Settling, ~changed, network # Loading,
         NEW p \in Procs, Approval(p) \/ TakeNonceLock(p)
  PROVE  Settling'
<1> DEFINE r == proc[p].ref
           id == proc[p].id
<1>0. Active(p)
  BY DEF Approval, TakeNonceLock, BlockAnswer, Count, SignAnswer, NodeAccepts, SendAnswer,
         CallFailed, Active
<1>1. id \in Txs /\ id \in inProcess /\ r \in Refs /\ IdOf(r) = id /\ TypeOK'
  BY <1>0, ActiveFacts DEF Typed
<1>2. CASE BlockAnswer(p)
  <2> DEFINE m == [db.obj[r] EXCEPT !.chain = network]
  <2>0. network \in Networks
    BY DEF Typed, TypeOK
  <2>1. m \in TxMeta /\ m.status = db.obj[r].status
    BY <1>1, <2>0, ObjType, TxMetaFields DEF Typed, TypeOK, TxMeta
  <2>2. db' = WithTxMeta(db, r, m) /\ UNCHANGED <<network, changed, flows, ui, inProcess>>
    BY <1>2 DEF BlockAnswer
  <2>3. \A q \in Procs : proc'[q] = proc[q] \/ (q = p /\ proc'[q].id = proc[q].id)
    BY <1>2 DEF BlockAnswer, Typed, TypeOK, ProcStates
  <2> HIDE DEF m, r
  <2>4. Still(db, db', {id})
    BY <1>1, <2>1, <2>2, WriteStill DEF Typed, TypeOK
  <2> QED BY <1>0, <1>1, <2>2, <2>3, <2>4, SettlingMove
<1>3. CASE TakeNonceLock(p) \/ NodeAccepts(p)
  <2>1. \A q \in Procs : proc'[q] = proc[q] \/ (q = p /\ proc'[q].id = proc[q].id)
    BY <1>3 DEF TakeNonceLock, NodeAccepts, Typed, TypeOK, ProcStates
  <2>2. db' = db /\ UNCHANGED <<network, changed, flows, ui, inProcess>>
    BY <1>3 DEF TakeNonceLock, NodeAccepts
  <2> QED BY <1>0, <1>1, <2>1, <2>2, StillItself, SettlingMove
<1>4. CASE CallFailed(p)
  <2>1. FailApproval(p, db) /\ UNCHANGED <<network, changed, flows, ui>>
    BY <1>4 DEF CallFailed
  <2> QED BY <1>0, <1>1, <2>1, StillItself, FailSettles DEF Typed, TypeOK
<1>5. CASE Count(p)
  <2>1. PICK count \in Nat : \E next \in NextNonce(db, network, From[id], count) :
                               CountAnswer(p, next)
    BY <1>1, <1>5, FromAssumption DEF Count, CountOf, Typed, TypeOK, ProcStates
  <2>2. PICK next \in Nat : CountAnswer(p, next)
    BY <2>1, NextNonceType DEF Typed
  <2> DEFINE nonce == TxNonce(db.obj[r], next)
             m == [db.obj[r] EXCEPT !.nonce = nonce]
             d == UpdateTx(WithTxMeta(db, r, m), r)
             s == GetTx(d, network, id)
  <2>3. nonce \in Nat \cup {None}
    BY <1>1, <2>2, ObjType DEF TxNonce, TxMeta, Typed, TypeOK
  <2>4. m \in TxMeta /\ m.status = db.obj[r].status
    <3> HIDE DEF nonce
    <3> QED BY <1>1, <2>3, ObjType, TxMetaFields DEF Typed, TypeOK, TxMeta
  <2>5. d \in TxStore /\ Still(db, d, {id})
    <3> HIDE DEF m, r
    <3> QED BY <1>1, <2>4, SavedType, SavedStill DEF Typed, TypeOK
  <2>6. /\ UNCHANGED <<network, changed, flows, ui>>
        /\ \/ /\ s # None /\ db' = d /\ UNCHANGED inProcess
              /\ proc' = [proc EXCEPT ![p] = [@ EXCEPT !.pc = "sign", !.ref = s,
                                                !.nonce = d.obj[s].nonce,
                                                !.chain = d.obj[s].chain]]
           \/ FailApproval(p, d)
           \/ FailApproval(p, db)
    BY <2>2 DEF CountAnswer
  <2> HIDE DEF d, r, s
  <2>7. CASE FailApproval(p, d) \/ FailApproval(p, db)
    BY <1>0, <1>1, <2>5, <2>6, <2>7, StillItself, FailSettles DEF Typed, TypeOK
  <2>8. CASE /\ s # None /\ db' = d /\ UNCHANGED inProcess
             /\ proc' = [proc EXCEPT ![p] = [@ EXCEPT !.pc = "sign", !.ref = s,
                                               !.nonce = d.obj[s].nonce,
                                               !.chain = d.obj[s].chain]]
    <3>1. \A q \in Procs : proc'[q] = proc[q] \/ (q = p /\ proc'[q].id = proc[q].id)
      BY <2>8 DEF Typed, TypeOK, ProcStates
    <3> QED BY <1>0, <1>1, <2>5, <2>6, <2>8, <3>1, SettlingMove
  <2> QED BY <2>6, <2>7, <2>8
<1>6. CASE SignAnswer(p)
  <2> DEFINE raw == [nonce |-> proc[p].nonce, chain |-> proc[p].chain]
             m == [db.obj[r] EXCEPT !.raw = raw]
             c == UpdateTx(WithTxMeta(db, r, m), r)
             d == SetTxStatus(c, network, id, "signed")
             t == GetTx(d, network, id)
  <2>1. raw \in RawTx
    BY <1>6 DEF SignAnswer, Typed, TypeOK, ProcOK, ProcStates, RawTx
  <2>2. m \in TxMeta /\ m.status = db.obj[r].status
    <3> HIDE DEF raw
    <3> QED BY <1>1, <2>1, ObjType, TxMetaFields DEF Typed, TypeOK, TxMeta
  <2>3. c \in TxStore /\ Still(db, c, {id})
    <3> HIDE DEF m, r
    <3> QED BY <1>1, <2>2, SavedType, SavedStill DEF Typed, TypeOK
  <2>4. d \in TxStore /\ Still(db, d, {id})
    <3> HIDE DEF c
    <3> QED BY <1>1, <2>3, SetTxStatusType, StatusStill, StillTrans DEF Statuses
  <2>5. /\ UNCHANGED <<network, changed, flows, ui>>
        /\ \/ /\ db' = d /\ UNCHANGED inProcess
              /\ proc' = [proc EXCEPT ![p] = [@ EXCEPT !.pc = "send", !.ref = t,
                                                !.asked = network]]
           \/ FailApproval(p, d)
    BY <1>6 DEF SignAnswer
  <2> HIDE DEF d, r, t
  <2>6. CASE FailApproval(p, d)
    BY <1>0, <1>1, <2>4, <2>5, <2>6, FailSettles
  <2>7. CASE /\ db' = d /\ UNCHANGED inProcess
             /\ proc' = [proc EXCEPT ![p] = [@ EXCEPT !.pc = "send", !.ref = t,
                                               !.asked = network]]
    <3>1. \A q \in Procs : proc'[q] = proc[q] \/ (q = p /\ proc'[q].id = proc[q].id)
      BY <2>7 DEF Typed, TypeOK, ProcStates
    <3> QED BY <1>0, <1>1, <2>4, <2>5, <2>7, <3>1, SettlingMove
  <2> QED BY <2>5, <2>6, <2>7
<1>7. CASE SendAnswer(p)
  <2> DEFINE raw == [nonce |-> proc[p].nonce, chain |-> proc[p].chain]
             t == GetTx(db, network, id)
             m == [db.obj[t] EXCEPT !.hash = raw]
             d == WithTxMeta(db, t, m)
  <2>1. raw \in RawTx
    BY <1>7 DEF SendAnswer, Typed, TypeOK, ProcOK, ProcStates, RawTx
  <2>2. /\ UNCHANGED <<network, changed, flows, ui>>
        /\ \/ t # None /\ db' = SetTxStatus(d, network, id, "submitted") /\ Finish(p)
           \/ FailApproval(p, db)
    BY <1>7 DEF SendAnswer
  <2>3. CASE FailApproval(p, db)
    BY <1>0, <1>1, <2>2, <2>3, StillItself, FailSettles DEF Typed, TypeOK
  <2>4. CASE t # None /\ db' = SetTxStatus(d, network, id, "submitted") /\ Finish(p)
    <3>1. t \in Refs /\ t = db.list[id] /\ db.obj[t].net = network
      BY <1>1, <2>4, GetTxType DEF Typed, TypeOK
    <3>2. m \in TxMeta /\ m.status = db.obj[t].status /\ m.net = network
      <4> HIDE DEF raw, t
      <4> QED BY <2>1, <3>1, ObjType, TxMetaFields DEF Typed, TypeOK, TxMeta
    <3> HIDE DEF m, t
    <3>3. d \in TxStore /\ Still(db, d, {id}) /\ d.list = db.list /\ d.obj[t] = m
      BY <3>1, <3>2, WithTxMetaType, WriteStill DEF WithTxMeta, Typed, TypeOK, TxStore
    <3>4. GetTx(d, network, id) # None
      BY <2>4, <3>1, <3>2, <3>3 DEF GetTx
    <3> HIDE DEF d
    <3>5. Still(db, db', {id}) /\ Settled(db', id)
      <4>1. "submitted" \in Statuses
        BY DEF Statuses
      <4>2. Settled(SetTxStatus(d, network, id, "submitted"), id)
        BY <1>1, <3>3, <3>4, <4>1, StatusSettles
      <4>3. Still(d, SetTxStatus(d, network, id, "submitted"), {id})
        BY <1>1, <3>3, <4>1, StatusStill
      <4> QED BY <2>4, <3>3, <4>2, <4>3, StillTrans
    <3>6. \A q \in Procs : Active(q)' => Active(q) /\ proc'[q].id = proc[q].id
      BY <2>4 DEF Finish, Active, IdleProc, Typed, TypeOK
    <3>7. \A q \in Refs : (Working(q)' => Working(q)) /\ (Redone(q)' => Redone(q))
      BY <2>2 DEF Working, Redone
    <3>8. \A j \in Txs \ inProcess' : j \in inProcess \/ j \in {id} => j = id
      BY <2>4 DEF Finish
    <3> HIDE DEF id
    <3> QED BY <2>2, <3>5, <3>6, <3>7, <3>8, SettlingKept
  <2> QED BY <2>2, <2>3, <2>4
<1> QED BY <1>2, <1>3, <1>4, <1>5, <1>6, <1>7 DEF Approval

LEMMA SettlingRedo ==
  ASSUME Typed, Settling, ~changed, network # Loading, NEW r \in Refs, Redo(r)
  PROVE  Settling'
<1> DEFINE m == [db.obj[r] EXCEPT !.ld = FALSE]
           d == UpdateTx(WithTxMeta(db, r, m), r)
<1>1. m \in TxMeta /\ m.status = db.obj[r].status /\ IdOf(r) \in Txs
  BY ObjType, TxMetaFields DEF Typed, TypeOK, TxMeta, Refs, IdOf
<1>2. Redone(r) /\ UNCHANGED <<network, changed, adding, addNet, ui, proc, inProcess>>
  BY DEF Redo, RedoGas, RedoReady, RedoFailed, Redone
<1>3. db.obj[r].status # "approved"
  BY <1>2 DEF Settling, Unconfirmed
<1>4. \A q \in Refs : (Working(q)' => Working(q)) /\ (Redone(q)' => Redone(q))
  BY <1>2 DEF Redo, RedoGas, RedoReady, RedoFailed, Working, Redone, Typed, TypeOK, Redoing
<1>5. d \in TxStore /\ Still(db, d, {})
  <2> HIDE DEF m
  <2> QED BY <1>1, <1>3, SavedType, SavedStill DEF Typed, TypeOK
<1>6. Still(db, db', {})
  <2>1. CASE RedoGas(r)
    BY <1>1, <2>1, WriteStill DEF RedoGas, Typed, TypeOK
  <2>2. CASE RedoReady(r)
    BY <1>3, <2>2, UpdateStill DEF RedoReady, Typed, TypeOK
  <2>3. CASE RedoFailed(r)
    <3>1. db' = SetTxStatus(d, network, IdOf(r), "failed")
      BY <2>3 DEF RedoFailed, SetTxStatusFailed
    <3> HIDE DEF d
    <3> QED BY <1>1, <1>5, <3>1, StatusStill, StillTrans DEF Statuses
  <2> QED BY <2>1, <2>2, <2>3 DEF Redo
<1> QED BY <1>2, <1>4, <1>6, SettlingQuiet

LEMMA SettlingTimer ==
  ASSUME Typed, Settling, network # Loading, FireTimer
  PROVE  Settling'
<1>1. Still(db, db', {}) /\ UNCHANGED <<network, changed, flows, ui, proc, inProcess>>
  BY TimerStill DEF FireTimer, Typed, TypeOK
<1> QED BY <1>1, SettlingQuiet DEF Working, Redone

(***************************************************************************)
(* The clean-up leaves out none of the transactions it fails.              *)
(***************************************************************************)
LEMMA OrdersOnto ==
  ASSUME NEW S \in SUBSET Txs, NEW ids \in Orders(S)
  PROVE  \A id \in S : \E i \in DOMAIN ids : ids[i] = id
<1> DEFINE k == Cardinality(S)
<1>1. ids \in [1 .. k -> S] /\ k \in Nat /\ IsFiniteSet(S)
  BY OrdersType, FiniteAssumption, FS_Subset
<1>2. ids \in Injection(1 .. k, S)
  BY <1>1 DEF Orders, Injection, IsInjective
<1>3. Cardinality(1 .. k) = k
  BY <1>1, FS_Interval
<1>4. ids \in Surjection(1 .. k, S)
  <2> HIDE DEF k
  <2> QED BY <1>1, <1>2, <1>3, FS_Injection DEF k
<1> QED BY <1>1, <1>4 DEF Surjection

(***************************************************************************)
(* The network comes up for the first time: the entries are those the page *)
(* started with, and the clean-up fails the approved ones.                 *)
(***************************************************************************)
LEMMA SettlingNetworkUp ==
  ASSUME Typed, Exclusive, OwnNetwork, Settling, ~changed, NEW n \in Networks, NetworkUp(n)
  PROVE  Settling'
<1> DEFINE S == TxsByStatus(db, n, "approved")
<1>1. /\ network = Loading /\ network' = n
      /\ UNCHANGED <<adding, addNet, ui, proc, inProcess, changed>>
  BY DEF NetworkUp
<1>2. Paused /\ Unrequested /\ Unconfirmed
  BY <1>1 DEF Settling
<1>3. PICK ids \in Orders(S) : db' = FailEach(db, ids)
  BY DEF NetworkUp, BootCleanUp
<1>4. /\ S \in SUBSET Txs /\ \A id \in S : db.list[id] \in Refs /\ IdOf(db.list[id]) = id
      /\ \A id \in S : db.list[id] # None
  BY GetTxType DEF TxsByStatus, GetTx, Typed, TypeOK
<1>5. /\ Cardinality(S) \in Nat /\ DOMAIN ids = 1 .. Cardinality(S)
      /\ \A i \in DOMAIN ids : ids[i] \in S
      /\ \A id \in S : \E i \in DOMAIN ids : ids[i] = id
  <2> HIDE DEF S
  <2> QED BY <1>3, <1>4, OrdersType, OrdersOnto
<1>6. /\ db'.list = db.list
      /\ \A r \in Refs : db'.obj[r] = IF \E i \in DOMAIN ids : db.list[ids[i]] = r
                                      THEN [db.obj[r] EXCEPT !.status = "failed"]
                                      ELSE db.obj[r]
      /\ DOMAIN db'.timers = DOMAIN ids
      /\ \A i \in DOMAIN ids : db'.timers[i].ref = db.list[ids[i]]
  BY <1>2, <1>3, <1>5 DEF FailEach, Paused, Typed, TypeOK, TxStore
<1> HIDE DEF S
<1>7. \A m \in TxMeta : [m EXCEPT !.status = "failed"].status = "failed"
  BY DEF TxMeta
<1>8. \A r \in Refs : db.obj[r] \in TxMeta
  BY ObjType DEF Typed, TypeOK
<1>9. \A r \in Refs : db'.obj[r].status = "approved" => db.obj[r].status = "approved"
  BY <1>6, <1>7, <1>8
<1>10. ASSUME NEW id \in Txs, addNet[id] = n, db.list[id] # None
      PROVE  db'.obj[db.list[id]].status # "approved"
  <2>1. db.list[id] \in Refs /\ IdOf(db.list[id]) = id
    BY <1>10 DEF Typed, TypeOK, TxStore, TxList
  <2>2. db.obj[db.list[id]].net = n
    BY <1>10, <2>1 DEF OwnNetwork, LiveOnOwn, Live, Held
  <2>3. CASE db.obj[db.list[id]].status = "approved"
    <3>1. id \in S
      BY <1>10, <2>2, <2>3 DEF S, TxsByStatus, GetTx
    <3>2. \E i \in DOMAIN ids : db.list[ids[i]] = db.list[id]
      BY <1>5, <3>1
    <3> QED BY <1>6, <1>7, <1>8, <2>1, <3>2
  <2> QED BY <1>9, <2>1, <2>3
<1>11. ASSUME NEW id \in Txs, NEW r \in Refs, EndsAs(db', id, r) PROVE r = db.list[id]
  <2>1. ASSUME NEW i \in DOMAIN ids, db'.timers[i].ref = r, IdOf(r) = id PROVE r = db.list[id]
    <3>1. r = db.list[ids[i]] /\ IdOf(r) = ids[i]
      BY <1>4, <1>5, <1>6, <2>1
    <3> QED BY <2>1, <3>1
  <2> QED BY <1>6, <1>11, <2>1 DEF EndsAs
<1>12. AllSettled'
  BY <1>1, <1>6, <1>10, <1>11 DEF AllSettled, Settled
<1>13. \A id \in Txs : db.list[id] = None => UntimedIn(db', id)
  BY <1>4, <1>5, <1>6 DEF UntimedIn, Deferred
<1>14. Unrequested'
  BY <1>1, <1>2, <1>6, <1>13 DEF Unrequested
<1>15. ASSUME NEW r \in Refs, Redone(r)'
       PROVE  r[2] = 0 /\ adding[IdOf(r)] = "done" /\ db.obj[r].status = "unapproved"
  <2>1. PICK id \in TxsByStatus(db, n, "unapproved") : db.list[id] = r
    <3> SUFFICES ASSUME r \notin Entries(db, {id \in TxsByStatus(db, n, "unapproved") : Current(id).ld})
                 PROVE  FALSE
      BY DEF Entries
    <3>1. redo'[r] = redo[r]
      BY DEF NetworkUp, BootCleanUp, Typed, TypeOK
    <3>2. ~Redone(r)
      BY <1>2 DEF Paused
    <3> QED BY <1>15, <3>1, <3>2 DEF Redone
  <2>2. id \in Txs /\ db.list[id] # None /\ db.obj[r].status = "unapproved"
    BY <2>1 DEF TxsByStatus, GetTx
  <2>3. r = <<id, 0>>
    BY <1>2, <2>1, <2>2 DEF Paused
  <2>4. adding[id] = "done"
    BY <1>2, <2>2 DEF Paused, Unrequested
  <2> QED BY <2>2, <2>3, <2>4 DEF IdOf
<1>16. Unconfirmed'
  <2>1. \A r \in Refs : ~Working(r)' /\ adding'[IdOf(r)] # "defaults"
    BY <1>1, <1>2 DEF Paused, Working, Refs, IdOf
  <2> QED BY <1>1, <1>9, <1>15, <2>1 DEF Unconfirmed
<1>17. OnOneNetwork'
  BY <1>1, <1>2 DEF OnOneNetwork, Paused, Active
<1>18. network' # Loading
  BY <1>1, NetworkAssumption DEF Loading
<1> QED BY <1>12, <1>14, <1>16, <1>17, <1>18 DEF Settling

LEMMA SettlingRestart ==
  ASSUME Typed, OwnNetwork, Restart
  PROVE  Settling'
<1>1. \A id \in Txs : adding[id] = "none" => disk[id] = None
  BY DEF OwnNetwork, Fresh
<1>2. /\ db'.timers = <<>>
      /\ \A id \in Txs : db'.list[id] = IF disk[id] = None THEN None ELSE <<id, 0>>
      /\ \A id \in Txs : adding'[id] = IF adding[id] = "none" THEN "none" ELSE "done"
      /\ \A p \in Procs : proc'[p].pc = "idle"
      /\ \A r \in Refs : ui'[r] \in {"unused", "used"} /\ redo'[r] = NotRedone
      /\ network' = Loading
  BY DEF Restart, IdleProc
<1>3. Paused'
  <2>1. \A p \in Procs : ~Active(p)'
    BY <1>2 DEF Active
  <2>2. \A r \in Refs : ~Working(r)' /\ ~Redone(r)'
    BY <1>2 DEF Working, Redone, NotRedone
  <2> QED BY <1>2, <2>1, <2>2 DEF Paused
<1>4. Unrequested'
  <2>1. \A id \in Txs : UntimedIn(db', id)
    BY <1>2 DEF UntimedIn, Deferred
  <2> QED BY <1>1, <1>2, <2>1 DEF Unrequested
<1>5. Unconfirmed'
  <2>1. \A r \in Refs : ~Working(r)' /\ ~Redone(r)' /\ adding'[IdOf(r)] # "defaults"
    BY <1>2, <1>3 DEF Paused, Refs, IdOf
  <2> QED BY <2>1 DEF Unconfirmed
<1>6. OnOneNetwork'
  BY <1>3 DEF OnOneNetwork, Paused
<1>7. AllSettled'
  <2>1. \A id \in Txs : addNet'[id] # network'
    BY <1>2, NoneAssumption, NetworkAssumption DEF Restart, Typed, TypeOK, Loading
  <2> QED BY <2>1 DEF AllSettled
<1> QED BY <1>3, <1>4, <1>5, <1>6, <1>7 DEF Settling

(***************************************************************************)
(* Until it is up, nothing but the network itself and the disk moves.      *)
(***************************************************************************)
LEMMA LoadingStops ==
  ASSUME Typed, Settling, ~changed, network = Loading, Next
  PROVE  \/ \E n \in Networks : NetworkUp(n)
         \/ Persist \/ Restart
         \/ \E n \in Networks, a \in Accounts : ChainExecutes(n, a)
<1>1. Paused
  BY DEF Settling
<1>2. \A id \in Txs : GetTx(db, network, id) = None
  BY LoadingHides DEF Typed, TypeOK
<1>3. \A r \in Refs : IdOf(r) \in Txs /\ ~Shown(IdOf(r))
  BY <1>2 DEF Shown, Refs, IdOf
<1>4. ASSUME NEW id \in Txs PROVE ~Request(id) /\ ~Defaults(id)
  BY <1>1 DEF Paused, Request, GenerateTxMeta, RefuseRequest, StoreUnapproved, Defaults,
     DefaultsReady, DefaultsFailed
<1>5. ~User
  <2>1. ASSUME NEW r \in Refs PROVE ~OpenWindow(r) /\ ~UpdateTransaction(r)
    BY <1>1, <1>3 DEF Paused, Working, OpenWindow, UpdateTransaction
  <2>2. ASSUME NEW p, NEW r \in Refs, NEW c PROVE ~UpdateAndApproveTransaction(p, r, c)
    BY <1>1 DEF Paused, Working, UpdateAndApproveTransaction
  <2>3. ASSUME NEW id \in Txs PROVE ~CancelTransaction(id)
    BY <1>1, <1>2 DEF Paused, Working, CancelTransaction, Shown, Windows
  <2>4. ASSUME NEW p, NEW old \in Txs, NEW id
        PROVE  ~CreateReplacement(p, old, id) /\ ~RetryTransaction(old, id)
    BY <1>2 DEF CreateReplacement, RetryTransaction, CanReplace
  <2>5. ~SwitchNetwork /\ \A a \in Accounts : ~ResetAccount(a)
    BY DEF SwitchNetwork, ResetAccount
  <2> QED BY <2>1, <2>2, <2>3, <2>4, <2>5 DEF User
<1>6. ASSUME NEW p \in Procs PROVE ~Approval(p) /\ ~TakeNonceLock(p)
  BY <1>1 DEF Paused, Active, Approval, TakeNonceLock, BlockAnswer, Count, SignAnswer,
     NodeAccepts, SendAnswer, CallFailed
<1>7. ASSUME NEW r \in Refs PROVE ~SponsorshipAnswer(r) /\ ~Redo(r)
  BY <1>1 DEF Paused, Working, Redone, SponsorshipAnswer, Redo, RedoGas, RedoReady, RedoFailed
<1>8. ~FireTimer
  BY <1>1 DEF Paused, FireTimer
<1> QED BY <1>4, <1>5, <1>6, <1>7, <1>8 DEF Next

LEMMA SettlingIdle ==
  ASSUME Settling, UNCHANGED <<network, changed, db, flows, ui, signing>>
  PROVE  Settling'
BY DEF Settling, Paused, Unrequested, Unconfirmed, OnOneNetwork, AllSettled, Active, Working,
   Redone

LEMMA ChangedStays ==
  ASSUME [Next]_vars PROVE changed' = changed \/ changed' = TRUE \/ Restart
<1>1. CASE \E p \in Procs : Approval(p) \/ TakeNonceLock(p)
  BY <1>1 DEF Approval, TakeNonceLock, BlockAnswer, Count, CountAnswer, SignAnswer,
     NodeAccepts, SendAnswer, CallFailed
<1>2. CASE User
  BY <1>2 DEF User, OpenWindow, UpdateTransaction, UpdateAndApproveTransaction,
     CancelTransaction, CreateReplacement, RetryTransaction, CanReplace, SwitchNetwork,
     ResetAccount
<1>3. CASE ~(User \/ \E p \in Procs : Approval(p) \/ TakeNonceLock(p))
  BY <1>3 DEF Next, vars, Request, GenerateTxMeta, RefuseRequest, StoreUnapproved, Defaults,
     DefaultsReady, DefaultsFailed, SponsorshipAnswer, Redo, RedoGas, RedoReady, RedoFailed,
     NetworkUp, FireTimer, Persist, ChainExecutes
<1> QED BY <1>1, <1>2, <1>3

LEMMA NextSettling ==
  Typed /\ Exclusive /\ OwnNetwork /\ Settling /\ [Next]_vars => Settling'
<1> SUFFICES ASSUME Typed, Exclusive, OwnNetwork, Settling, [Next]_vars PROVE Settling'
  OBVIOUS
<1>1. Typed' /\ OwnNetwork'
  BY NextTyped, NextOwn
<1>2. CASE Restart
  BY <1>2, SettlingRestart
<1>3. CASE changed' = TRUE
  BY <1>3 DEF Settling
<1>4. CASE UNCHANGED <<network, changed, db, flows, ui, signing>>
  BY <1>4, SettlingIdle
<1>5. CASE ~changed /\ network = Loading /\ Next
  <2>1. Persist \/ (\E n \in Networks, a \in Accounts : ChainExecutes(n, a))
          => UNCHANGED <<network, changed, db, flows, ui, signing>>
    BY DEF Persist, ChainExecutes
  <2> QED BY <1>2, <1>4, <1>5, <2>1, LoadingStops, SettlingNetworkUp
<1>6. CASE ~changed /\ changed' # TRUE /\ network # Loading /\ Next
  <2>1. ASSUME NEW id \in Txs, Request(id) \/ Defaults(id) PROVE Settling'
    BY <1>6, <2>1, SettlingRequest
  <2>2. CASE User
    <3>1. ~SwitchNetwork /\ \A a \in Accounts : ~ResetAccount(a)
      BY <1>6 DEF SwitchNetwork, ResetAccount
    <3>2. ASSUME NEW r \in Refs, OpenWindow(r) \/ UpdateTransaction(r) PROVE Settling'
      BY <1>6, <3>2, SettlingOpen, SettlingEdit
    <3>3. ASSUME NEW p \in Procs, NEW r \in Refs, NEW c \in CustomNonces \cup {None},
                 UpdateAndApproveTransaction(p, r, c)
          PROVE  Settling'
      BY <1>6, <3>3, SettlingConfirm
    <3>4. ASSUME NEW id \in Txs, CancelTransaction(id) PROVE Settling'
      BY <1>6, <3>4, SettlingCancel
    <3>5. ASSUME NEW p \in Procs, NEW old \in Txs, NEW id \in Txs, CreateReplacement(p, old, id)
          PROVE  Settling'
      BY <1>6, <3>5, SettlingReplacement
    <3>6. ASSUME NEW old \in Txs, NEW id \in Txs, RetryTransaction(old, id)
          PROVE  Settling'
      BY <1>6, <3>6, SettlingReplacement
    <3> QED BY <2>2, <3>1, <3>2, <3>3, <3>4, <3>5, <3>6 DEF User
  <2>3. ASSUME NEW p \in Procs, Approval(p) \/ TakeNonceLock(p) PROVE Settling'
    BY <1>1, <1>6, <2>3, SettlingApproval
  <2>4. ASSUME NEW r \in Refs, SponsorshipAnswer(r) \/ Redo(r) PROVE Settling'
    BY <1>6, <2>4, SettlingEdit, SettlingRedo
  <2>5. ~\E n \in Networks : NetworkUp(n)
    BY <1>6 DEF NetworkUp
  <2>6. CASE FireTimer
    BY <1>6, <2>6, SettlingTimer
  <2>7. CASE Persist \/ \E n \in Networks, a \in Accounts : ChainExecutes(n, a)
    BY <1>4, <2>7 DEF Persist, ChainExecutes
  <2> QED BY <1>2, <1>6, <2>1, <2>2, <2>3, <2>4, <2>5, <2>6, <2>7 DEF Next
<1>7. changed' = changed \/ changed' = TRUE \/ Restart
  BY ChangedStays
<1>8. changed \in BOOLEAN
  BY DEF Typed, TypeOK
<1>9. UNCHANGED vars => UNCHANGED <<network, changed, db, flows, ui, signing>>
  BY DEF vars
<1> QED BY <1>2, <1>3, <1>4, <1>5, <1>6, <1>7, <1>8, <1>9

LEMMA InitSettling == Init => Settling
<1> SUFFICES ASSUME Init PROVE Settling
  OBVIOUS
<1>1. /\ db.timers = <<>> /\ (\A id \in Txs : db.list[id] = None /\ adding[id] = "none")
      /\ (\A r \in Refs : ui[r] = "unused" /\ redo[r] = NotRedone)
      /\ \A p \in Procs : proc[p].pc = "idle"
  BY DEF Init, IdleProc
<1>2. Paused
  BY <1>1 DEF Paused, Active, Working, Redone, NotRedone
<1>3. Unrequested
  BY <1>1 DEF Unrequested, UntimedIn, Deferred
<1>4. Unconfirmed
  <2>1. \A r \in Refs : ~Working(r) /\ ~Redone(r) /\ adding[IdOf(r)] # "defaults"
    BY <1>1, <1>2 DEF Paused, Refs, IdOf
  <2> QED BY <2>1 DEF Unconfirmed
<1>5. OnOneNetwork
  BY <1>2 DEF Paused, OnOneNetwork
<1>6. AllSettled
  BY <1>1 DEF AllSettled, Settled
<1> QED BY <1>2, <1>3, <1>4, <1>5, <1>6 DEF Settling

LEMMA SettledIsNoOrphan == Typed /\ OwnNetwork /\ Settling => NoOrphanApproved
<1> SUFFICES ASSUME Typed, OwnNetwork, Settling, ~changed, db.timers = <<>>,
                    NEW id \in TxsByStatus(db, network, "approved"), id \notin inProcess
             PROVE  FALSE
  BY DEF NoOrphanApproved
<1>1. /\ id \in Txs /\ GetTx(db, network, id) # None
      /\ db.list[id] # None /\ db.obj[db.list[id]].status = "approved"
  BY DEF TxsByStatus, GetTx
<1>2. /\ db.list[id] \in Refs /\ IdOf(db.list[id]) = id
      /\ db.obj[db.list[id]].net = network
  BY <1>1, GetTxType DEF Typed, TypeOK
<1>3. addNet[id] = network
  BY <1>2 DEF OwnNetwork, LiveOnOwn, Live, Held
<1>4. Settled(db, id)
  BY <1>1, <1>3 DEF Settling, AllSettled
<1>5. EndsAs(db, id, db.list[id])
  BY DEF EndsAs, UntimedIn, Deferred
<1> QED BY <1>1, <1>2, <1>4, <1>5 DEF Settled

(***************************************************************************)
(* Until the network is changed in this session of the page, whatever the  *)
(* windows, restarts and failures: with no status update deferred, an      *)
(* approved transaction of the network has an approval at work.            *)
(***************************************************************************)
THEOREM NoneLeftApproved == Spec => []NoOrphanApproved
<1>1. Spec => []Typed
  BY InitTyped, NextTyped, PTL DEF Spec
<1>2. Spec => []Exclusive
  BY <1>1, InitExclusive, NextExclusive, PTL DEF Spec
<1>3. Spec => []OwnNetwork
  BY <1>1, InitOwn, NextOwn, PTL DEF Spec
<1>4. Spec => []Settling
  BY <1>1, <1>2, <1>3, InitSettling, NextSettling, PTL DEF Spec
<1> QED BY <1>1, <1>3, <1>4, SettledIsNoOrphan, PTL
=============================================================================
