--------------------------- MODULE TxStateManager ---------------------------
(***************************************************************************)
(* The transaction store of app/scripts/controllers/transactions/          *)
(* tx-state-manager.js, as pure operators over one value d:                *)
(*                                                                         *)
(*   d.list    the store's list: which txMeta OBJECT holds the entry of    *)
(*             each transaction id (None: no entry)                        *)
(*   d.obj     the heap of txMeta objects                                  *)
(*   d.timers  the status updates that _setTxStatus has deferred with      *)
(*             setTimeout, oldest first                                    *)
(*                                                                         *)
(* The code keeps txMeta objects by reference: continuations hold them     *)
(* across awaits, and updateTx(txMeta) makes whichever object it is given  *)
(* the entry of its id.  A UI call arrives with a JSON copy, that is with  *)
(* another object of the same id.  Object <<id, 0>> is the one the         *)
(* controller created; <<id, k>>, k > 0, are the copies.                   *)
(*                                                                         *)
(* A handler that makes several calls nests these operators, in the order  *)
(* of the calls.  txParams the model does not tell apart (to, value, data, *)
(* gas), the debug history and the error texts are left out.               *)
(***************************************************************************)
EXTENDS Naturals, Sequences

CONSTANTS
  Txs,        \* transaction ids
  MaxCopies,  \* how many JSON copies of one txMeta the UI may send back
  Networks,   \* network ids; "loading" is not one of them
  Accounts,   \* addresses that send transactions
  From,       \* txParams.from of each transaction id
  None        \* an undefined field, list entry or lookup result

ASSUME CopiesAssumption  == MaxCopies \in Nat
ASSUME NetworkAssumption == "loading" \notin Networks
ASSUME FromAssumption    == From \in [Txs -> Accounts]

Loading == "loading"

Refs == Txs \X (0 .. MaxCopies)

IdOf(r) == r[1]

Statuses ==
  {"unapproved", "rejected", "approved", "signed", "submitted", "executed",
   "confirmed", "failed", "dropped"}

(***************************************************************************)
(* What a signature covers: the nonce and the chain id of the txParams     *)
(* that were signed, either of which may be missing.                       *)
(***************************************************************************)
RawTx == [nonce : Nat \cup {None}, chain : Networks \cup {None}]

ASSUME NoneAssumption ==
  /\ None \notin Nat
  /\ None \notin Networks \cup {Loading}
  /\ None \notin Txs
  /\ None \notin Refs
  /\ None \notin RawTx

TxMeta ==
  [status : Statuses,
   net    : Networks,              \* metamaskNetworkId
   ld     : BOOLEAN,               \* loadingDefaults
   nonce  : Nat \cup {None},       \* txParams.nonce
   last   : BOOLEAN,               \* lastGasPrice is set: a replacement
   custom : Nat \cup {None},       \* customNonceValue
   chain  : Networks \cup {None},  \* txParams.chainId
   raw    : RawTx \cup {None},     \* rawTx
   hash   : RawTx \cup {None}]     \* hash, named by the raw tx it is of

Timer == [ref : Refs, status : Statuses]

(* An entry is always an object of its own id. *)
TxList == {l \in [Txs -> Refs \cup {None}] : \A id \in Txs : l[id] # None => IdOf(l[id]) = id}

TxStore ==
  [list   : TxList,
   obj    : [Refs -> TxMeta],
   timers : Seq(Timer)]

-----------------------------------------------------------------------------

(* Mutant of GetTx: the entries of every network are visible. *)
GetTxOfAnyNetwork(d, n, id) == d.list[id]

(* getTx: only entries of the current network n are visible. *)
GetTx(d, n, id) ==
  IF d.list[id] # None /\ d.obj[d.list[id]].net = n THEN d.list[id] ELSE None

(* getFilteredTxList({status}): the ids of network n with a given status. *)
TxsByStatus(d, n, s) ==
  {id \in Txs : GetTx(d, n, id) # None /\ d.obj[d.list[id]].status = s}

(* addTx: the object r, with the content m, becomes the entry of its id. *)
AddTx(d, r, m) ==
  [d EXCEPT !.list[IdOf(r)] = r, !.obj[r] = m]

(* Mutant of UpdateTx: an id that has no entry gets one. *)
UpsertTx(d, r) == [d EXCEPT !.list[IdOf(r)] = r]

(* updateTx: r becomes the entry of its id, unless the id has no entry. *)
UpdateTx(d, r) ==
  IF d.list[IdOf(r)] = None THEN d ELSE [d EXCEPT !.list[IdOf(r)] = r]

(***************************************************************************)
(* _setTxStatus: nothing when getTx finds nothing; else the status is set  *)
(* at once, and saving it and telling the listeners is deferred.           *)
(***************************************************************************)
SetTxStatus(d, n, id, s) ==
  LET r == GetTx(d, n, id) IN
  IF r = None THEN d
  ELSE [d EXCEPT !.obj[r].status = s,
                 !.timers = Append(@, [ref |-> r, status |-> s])]

(* _removeTx, whatever the network of the entry. *)
RemoveTx(d, id) == [d EXCEPT !.list[id] = None]

(* Mutant of SetTxStatusRejected: the entry stays in the list. *)
RejectWithoutRemoving(d, n, id) == SetTxStatus(d, n, id, "rejected")

SetTxStatusRejected(d, n, id) == RemoveTx(SetTxStatus(d, n, id, "rejected"), id)

(* setTxStatusFailed: throws, changing nothing, when getTx finds nothing. *)
SetTxStatusFailed(d, n, id) == SetTxStatus(d, n, id, "failed")

(* wipeTransactions: the entries of one account on the current network. *)
WipeTransactions(d, n, a) ==
  [d EXCEPT !.list =
     [id \in Txs |-> IF From[id] = a /\ GetTx(d, n, id) # None
                     THEN None ELSE d.list[id]]]

(* The oldest deferred update runs: updateTx of the object it captured. *)
RunTimer(d) ==
  [UpdateTx(d, Head(d.timers).ref) EXCEPT !.timers = Tail(@)]

(* The value of an object with some of its fields written in place. *)
WithTxMeta(d, r, m) == [d EXCEPT !.obj[r] = m]
=============================================================================
