----------------------- MODULE PendingTxTracker_proofs ----------------------
(***************************************************************************)
(* Theorems about the pending transaction tracker, for every number of     *)
(* transactions, blocks, restarts, failed queries and nodes that lag.      *)
(***************************************************************************)
EXTENDS PendingTxTracker, FiniteSetTheorems, SequenceTheorems, TLAPS

Saved == [status : [Txs -> Statuses], receipt : [Txs -> Blocks \cup {None}],
          retry : [Txs -> Nat]]

Spending == [reorgs : Nat, evicted : Nat, lags : Nat, errors : Nat,
             switches : Nat, crashes : Nat]

Typed == TypeOK /\ disk \in Saved /\ spent \in Spending

-----------------------------------------------------------------------------
(***************************************************************************)
(* The inductive invariant.                                                *)
(***************************************************************************)

(* The transaction of an account with the nonce n is its n-th, from 0. *)
LedgerOrdered ==
  \A i \in 1 .. Len(ledger) : ledger[i].tx \in Txs => NonceOf[ledger[i].tx] = i - 1

Mined(id) == \E i \in 1 .. Len(ledger) : ledger[i].tx = id

(* Mined in a block that no longer leaves the chain. *)
Settled(id) == \E i \in 1 .. final : ledger[i].tx = id

ConfirmedSettled ==
  \A id \in Txs : status[id] = "confirmed" \/ disk.status[id] = "confirmed" => Settled(id)

(* The checks of a call that has ended because another check failed. *)
Stale(id) == {c \in checks : c.tx = id /\ ~c.held}

(***************************************************************************)
(* The call that holds the lock waits for one check of a transaction, and  *)
(* every failed query leaves at most one more behind.                      *)
(***************************************************************************)
ChecksCounted ==
  /\ IsFiniteSet(checks)
  /\ lock = "free" => \A c \in checks : ~c.held
  /\ \A c, d \in checks : c.held /\ d.held /\ c.tx = d.tx => c = d
  /\ \A id \in Txs : Cardinality(Stale(id)) <= spent.errors

(* What an approval still sends is not pending, and nobody checks it. *)
SendersUnknown ==
  \A id \in sending :
    /\ status[id] \notin {"submitted", "executed", "confirmed"}
    /\ \A c \in checks : c.tx # id

(* While no query failed, who asks for a receipt asks of no confirmed one. *)
AskedUnconfirmed ==
  spent.errors = 0 =>
    \A c \in checks : c.pc \in {"receipt", "count"} => status[c.tx] # "confirmed"

FinalInv ==
  LedgerOrdered /\ ConfirmedSettled /\ ChecksCounted /\ SendersUnknown /\ AskedUnconfirmed

(* On a chain that takes nothing back, what was once seen executed is so. *)
ReceiptsTrue ==
  spent.reorgs = 0 =>
    /\ \A id \in Txs : status[id] \in Completed \/ disk.status[id] \in Completed => Mined(id)
    /\ \A id \in Txs : receipt[id] # None \/ disk.receipt[id] # None => Mined(id)
    /\ \A c \in checks : c.rcpt # None => Mined(c.tx)
    /\ \A c \in checks : c.taken => \E other \in Duplicates(c.tx) : Mined(other)

(* The checks that missed the receipt and will see the nonce used. *)
Overtaken(id) == {c \in checks : c.tx = id /\ c.pc = "count" /\ c.rcpt = None}

Seen(id) == IF buffer[id] = None THEN 0 ELSE buffer[id]

(***************************************************************************)
(* A transaction that was executed looks overtaken only to the checks that *)
(* were under way when it was mined, at most one and one for every failed  *)
(* query, and to those a lagging node told of no receipt.                  *)
(***************************************************************************)
OvertakenCounted ==
  spent.reorgs = 0 =>
    \A id \in Txs :
      /\ NonceIsFree(id) => Seen(id) = 0
      /\ Mined(id) => Seen(id) + Cardinality(Overtaken(id)) <= 1 + spent.errors + spent.lags

Dead(id) == ~NonceIsFree(id) /\ ledger[NonceOf[id] + 1].tx # id

(* The buffer of three survives two answers that are late or fail. *)
DroppedDead ==
  spent.reorgs = 0 /\ spent.lags + spent.errors <= 2 =>
    \A id \in Txs : status[id] = "dropped" \/ disk.status[id] = "dropped" => Dead(id)

DropInv == ReceiptsTrue /\ OvertakenCounted /\ DroppedDead

PttInv == Typed /\ FinalInv /\ DropInv

-----------------------------------------------------------------------------
(***************************************************************************)
(* Types.                                                                  *)
(***************************************************************************)

USE DEF entries, memory, network

(* What _setTxStatus does to the status of each entry, and to the timers. *)
LEMMA SetTxStatusEffect ==
  ASSUME TypeOK, NEW new, DOMAIN new \subseteq Txs,
         \A id \in DOMAIN new : new[id] \in Statuses, SetTxStatus(new)
  PROVE  /\ status' \in [Txs -> Statuses]
         /\ timers' \in Nat
         /\ \A id \in Txs : status'[id] = IF up /\ id \in DOMAIN new THEN new[id] ELSE status[id]
<1>1. IsFiniteSet(DOMAIN new) /\ Cardinality(DOMAIN new) \in Nat
  BY FiniteAssumption, FS_Subset, FS_CardinalityType
<1> QED
  BY <1>1 DEF SetTxStatus, TypeOK

LEMMA SetOneStatus ==
  ASSUME TypeOK, NEW id \in Txs, NEW s \in Statuses, SetTxStatus([i \in {id} |-> s])
  PROVE  /\ status' \in [Txs -> Statuses]
         /\ timers' \in Nat
         /\ \A i \in Txs : status'[i] = IF up /\ i = id THEN s ELSE status[i]
BY SetTxStatusEffect

LEMMA SpendType ==
  ASSUME spent \in Spending, NEW what \in {"reorgs", "evicted", "lags", "errors", "switches", "crashes"},
         NEW max, Spend(what, max)
  PROVE  /\ spent' \in Spending
         /\ spent'[what] = spent[what] + 1
         /\ \A w \in {"reorgs", "evicted", "lags", "errors", "switches", "crashes"} \ {what} :
              spent'[w] = spent[w]
BY DEF Spend, Spending

LEMMA ViewEffect ==
  ASSUME spent \in Spending, NEW k, View(k)
  PROVE  /\ spent' \in Spending
         /\ \A w \in {"reorgs", "evicted", "errors", "switches", "crashes"} : spent'[w] = spent[w]
         /\ spent'.lags \in {spent.lags, spent.lags + 1}
         /\ k # Len(ledger) => spent'.lags = spent.lags + 1
<1>1. CASE UNCHANGED spent /\ k = Len(ledger)
  BY <1>1 DEF Spending
<1>2. CASE Spend("lags", MaxLags)
  BY <1>2, SpendType
<1> QED
  BY <1>1, <1>2 DEF View

LEMMA StoreCalledType == TypeOK /\ StoreCalled => calls' \subseteq Kinds
BY DEF TypeOK, StoreCalled, Kinds

(***************************************************************************)
(* What the end of a check does: it touches its own transaction only, and  *)
(* drops it, or marks it executed with the receipt it has, or failed.      *)
(***************************************************************************)
LEMMA OutcomeEffect ==
  ASSUME TypeOK, NEW c \in checks, NEW dropped, Outcome(c, dropped)
  PROVE  /\ status' \in [Txs -> Statuses] /\ timers' \in Nat
         /\ receipt' \in [Txs -> Blocks \cup {None}] /\ calls' \subseteq Kinds
         /\ \A id \in Txs \ {c.tx} : status'[id] = status[id] /\ receipt'[id] = receipt[id]
         /\ \/ status'[c.tx] = status[c.tx]
            \/ status'[c.tx] = "dropped" /\ (c.taken \/ dropped)
            \/ status'[c.tx] = "executed" /\ c.rcpt # None
            \/ status'[c.tx] = "failed"
         /\ receipt'[c.tx] = receipt[c.tx] \/ c.rcpt # None
<1>0. c.tx \in Txs /\ c.rcpt \in Blocks \cup {None}
  BY DEF TypeOK, Checks
<1>1. CASE /\ c.taken \/ dropped
           /\ SetTxStatus([i \in {c.tx} |-> "dropped"])
           /\ UNCHANGED <<receipt, calls>>
  BY <1>0, <1>1, SetOneStatus DEF TypeOK, Statuses
<1>2. CASE c.rcpt = None /\ UNCHANGED <<status, timers, receipt, calls>>
  BY <1>2 DEF TypeOK
<1>3. CASE c.rcpt # None /\ Executed(c.tx, c.rcpt)
  <2>1. CASE /\ receipt' = [receipt EXCEPT ![c.tx] = c.rcpt]
             /\ SetTxStatus([i \in {c.tx} |-> "executed"])
             /\ StoreCalled
    BY <1>0, <1>3, <2>1, SetOneStatus, StoreCalledType DEF TypeOK, Statuses
  <2>2. CASE UNCHANGED <<status, timers, receipt, calls>>
    BY <2>2 DEF TypeOK
  <2> QED
    BY <1>3, <2>1, <2>2 DEF Executed
<1>4. CASE /\ c.rcpt # None /\ SetTxStatus([i \in {c.tx} |-> "failed"])
           /\ StoreCalled /\ UNCHANGED receipt
  BY <1>0, <1>4, SetOneStatus, StoreCalledType DEF TypeOK, Statuses
<1> QED
  BY <1>1, <1>2, <1>3, <1>4 DEF Outcome

LEMMA InitTyped == Init => Typed
<1> SUFFICES ASSUME Init PROVE Typed
  OBVIOUS
<1> DEFINE S == [tx : Txs \cup {None}, block : Blocks]
<1>1. /\ ledger \in Seq(S) /\ Len(ledger) = 0
      /\ final \in 0 .. Len(ledger) /\ age \in [Txs -> 0 .. MaxAge]
  <2> HIDE DEF S
  <2> QED
    BY EmptySeq, BoundsAssumption DEF Init
<1>2. TypeOK
  BY <1>1 DEF Init, TypeOK, Statuses, Kinds
<1>3. disk \in Saved /\ spent \in Spending
  BY DEF Init, Saved, Spending, Statuses
<1> QED BY <1>2, <1>3 DEF Typed

(* The entries as they are saved. *)
LEMMA SavedType == TypeOK => [status |-> status, receipt |-> receipt, retry |-> retry] \in Saved
BY DEF TypeOK, Saved

LEMMA TypedSend ==
  ASSUME Typed, NEW id \in Txs,
         \/ Submit(id) \/ SubmitFailed(id) \/ Evict(id)
         \/ ResubmitAnswer(id) \/ ResubmitError(id)
  PROVE  Typed'
<1> USE DEF Typed
<1>1. CASE Submit(id)
  BY <1>1, SetOneStatus, StoreCalledType DEF Submit, TypeOK, Statuses
<1>2. CASE SubmitFailed(id)
  BY <1>2, SetOneStatus, StoreCalledType DEF SubmitFailed, TypeOK, Statuses
<1>3. CASE Evict(id)
  BY <1>3, SpendType DEF Evict, TypeOK
<1>4. CASE ResubmitAnswer(id)
  <2>1. pool' \subseteq Txs /\ retry' \in [Txs -> Nat] /\ calls' \subseteq Kinds
    BY <1>4 DEF ResubmitAnswer, TypeOK, Kinds
  <2> QED BY <1>4, <2>1 DEF ResubmitAnswer, TypeOK
<1>5. CASE ResubmitError(id)
  BY <1>5, SpendType, StoreCalledType DEF ResubmitError, TypeOK
<1> QED
  BY <1>1, <1>2, <1>3, <1>4, <1>5

LEMMA TypedEvents ==
  ASSUME Typed, FireTimer \/ StoreChanges \/ LatestBlock \/ NetworkDown \/ NetworkUp
  PROVE  Typed'
<1> USE DEF Typed
<1>1. CASE FireTimer
  <2>1. timers' \in Nat /\ listening' \in BOOLEAN
    BY <1>1 DEF FireTimer, TypeOK
  <2> QED BY <1>1, <2>1, StoreCalledType DEF FireTimer, TypeOK
<1>2. CASE StoreChanges
  BY <1>2, StoreCalledType DEF StoreChanges, TypeOK
<1>3. CASE LatestBlock
  <2>1. age' \in [Txs -> 0 .. MaxAge]
    BY <1>3, BoundsAssumption DEF LatestBlock, TypeOK
  <2>2. calls' \subseteq Kinds
    BY <1>3 DEF LatestBlock, TypeOK, Kinds
  <2> QED BY <1>3, <2>1, <2>2 DEF LatestBlock, TypeOK
<1>4. CASE NetworkDown
  BY <1>4, SpendType, StoreCalledType DEF NetworkDown, TypeOK
<1>5. CASE NetworkUp
  BY <1>5, StoreCalledType DEF NetworkUp, TypeOK
<1> QED
  BY <1>1, <1>2, <1>3, <1>4, <1>5

LEMMA NewCheckType ==
  ASSUME TypeOK, NEW id \in Txs PROVE NewCheck(id) \in Checks
BY DEF TypeOK, NewCheck, Checks

LEMMA TypedUpdate ==
  ASSUME Typed, EndUpdate \/ \E kind \in Kinds : StartUpdate(kind)
  PROVE  Typed'
<1> USE DEF Typed
<1>1. ASSUME NEW kind \in Kinds, StartUpdate(kind) PROVE Typed'
  <2> DEFINE bugged == {id \in Pending \cap Hashless : status[id] = "submitted"}
  <2>1. bugged \subseteq Txs /\ Pending \subseteq Txs
    BY DEF Pending
  <2>2. status' \in [Txs -> Statuses] /\ timers' \in Nat
    BY <1>1, <2>1, SetTxStatusEffect DEF StartUpdate, Statuses
  <2>3. checks' \subseteq Checks
    BY <1>1, <2>1, NewCheckType DEF StartUpdate, TypeOK
  <2>4. calls' \subseteq Kinds
    BY <1>1 DEF StartUpdate, TypeOK, Kinds
  <2> QED
    BY <1>1, <2>2, <2>3, <2>4 DEF StartUpdate, TypeOK
<1>2. CASE EndUpdate
  BY <1>2 DEF EndUpdate, TypeOK
<1> QED
  BY <1>1, <1>2

(* An entry of the chain. *)
LEMMA LedgerElement ==
  ASSUME TypeOK
  PROVE  /\ Len(ledger) \in Nat
         /\ \A i \in 1 .. Len(ledger) : ledger[i] \in [tx : Txs \cup {None}, block : Blocks]
<1> DEFINE S == [tx : Txs \cup {None}, block : Blocks]
<1>1. ledger \in Seq(S)
  BY DEF TypeOK
<1> HIDE DEF S
<1>2. Len(ledger) \in Nat /\ \A i \in 1 .. Len(ledger) : ledger[i] \in S
  BY <1>1, LenProperties, ElementOfSeq
<1> QED
  BY <1>2 DEF S

LEMMA ReceiptAtType ==
  ASSUME TypeOK, NEW id, NEW k \in 0 .. Len(ledger)
  PROVE  /\ ReceiptAt(id, k) \in Blocks \cup {None}
         /\ ReceiptAt(id, k) = None <=> \A i \in 1 .. k : ledger[i].tx # id
<1>1. CASE \E i \in 1 .. k : ledger[i].tx = id
  <2> DEFINE j == CHOOSE i \in 1 .. k : ledger[i].tx = id
  <2>1. j \in 1 .. k /\ ReceiptAt(id, k) = ledger[j].block
    BY <1>1 DEF ReceiptAt
  <2>2. ledger[j] \in [tx : Txs \cup {None}, block : Blocks]
    BY <2>1, LedgerElement
  <2> QED
    BY <1>1, <2>1, <2>2, NoneAssumption
<1>2. CASE ~\E i \in 1 .. k : ledger[i].tx = id
  BY <1>2 DEF ReceiptAt
<1> QED
  BY <1>1, <1>2

LEMMA CheckFields ==
  ASSUME TypeOK, NEW c \in checks
  PROVE  /\ c \in Checks /\ c.tx \in Txs /\ c.rcpt \in Blocks \cup {None}
         /\ c.taken \in BOOLEAN /\ c.held \in BOOLEAN
         /\ c.pc \in {"receipt", "count", "risk"}
BY DEF TypeOK, Checks

LEMMA TypedCheck ==
  ASSUME Typed, NEW c \in checks, Answer(c) \/ Failure(c)
  PROVE  Typed'
<1> USE DEF Typed
<1>0. c \in Checks /\ c.tx \in Txs /\ checks \subseteq Checks
  BY CheckFields DEF TypeOK
<1>1. ASSUME NEW k \in 0 .. Len(ledger), ReceiptAnswer(c, k) PROVE Typed'
  <2> DEFINE r == ReceiptAt(c.tx, k)
             t == NonceIsTaken(c.tx)
             d == [c EXCEPT !.pc = "count", !.rcpt = r, !.taken = t]
  <2>1. t \in BOOLEAN
    BY DEF NonceIsTaken
  <2>2. d \in Checks
    BY <1>0, <2>1, ReceiptAtType DEF Checks
  <2>3. spent' \in Spending
    BY <1>1, ViewEffect DEF ReceiptAnswer
  <2>4. checks' = (checks \ {c}) \cup {d}
    BY <1>1 DEF ReceiptAnswer
  <2> HIDE DEF d
  <2> QED
    BY <1>0, <1>1, <2>2, <2>3, <2>4 DEF ReceiptAnswer, TypeOK
<1>2. ASSUME NEW k \in 0 .. Len(ledger), CountAnswer(c, k) PROVE Typed'
  <2> DEFINE seen  == IF buffer[c.tx] = None THEN 0 ELSE buffer[c.tx]
             ahead == c.rcpt = None /\ k > NonceOf[c.tx]
             value == CASE ~ahead               -> seen
                        [] ahead /\ seen < 3  -> seen + 1
                        [] ahead /\ seen >= 3 -> None
  <2>1. seen \in 0 .. 3
    BY <1>0 DEF TypeOK
  <2>2. value \in 0 .. 3 \cup {None}
    BY <2>1
  <2>3. buffer' = [buffer EXCEPT ![c.tx] = value]
    BY <1>2 DEF CountAnswer, CountWithLimit
  <2>4. buffer' \in [Txs -> 0 .. 3 \cup {None}]
    BY <2>2, <2>3 DEF TypeOK
  <2>5. Outcome(c, ahead /\ seen >= 3)
    BY <1>2 DEF CountAnswer, CountWithLimit
  <2>6. spent' \in Spending
    BY <1>2, ViewEffect DEF CountAnswer, CountWithLimit
  <2> QED
    BY <1>2, <2>4, <2>5, <2>6, OutcomeEffect DEF CountAnswer, CountWithLimit, TypeOK
<1>3. CASE RiskAnswer(c)
  <2> DEFINE new == [id \in {c.tx} \cup Duplicates(c.tx) |->
                       IF id = c.tx THEN "confirmed" ELSE "dropped"]
  <2>1. Duplicates(c.tx) \subseteq Txs /\ \A id \in DOMAIN new : new[id] \in Statuses
    BY DEF Duplicates, Statuses
  <2>2. /\ status' \in [Txs -> Statuses] /\ timers' \in Nat /\ calls' \subseteq Kinds
        /\ spent' \in Spending
    <3>1. CASE UNCHANGED <<status, timers, calls, spent>>
      BY <3>1 DEF TypeOK
    <3>2. CASE /\ SetTxStatus(new) /\ UNCHANGED spent
               /\ calls' = calls \cup {"store" : id \in Duplicates(c.tx)}
      BY <1>0, <2>1, <3>2, SetTxStatusEffect DEF TypeOK, Kinds
    <3>3. CASE Spend("lags", MaxLags) /\ UNCHANGED <<status, timers, calls>>
      BY <3>3, SpendType DEF TypeOK
    <3> QED
      BY <1>3, <3>1, <3>2, <3>3 DEF RiskAnswer
  <2> QED
    BY <1>3, <2>2 DEF RiskAnswer, TypeOK
<1>4. CASE ReceiptError(c)
  <2>1. \A d \in checks : [d EXCEPT !.held = FALSE] \in Checks
    BY <1>0 DEF Checks
  <2>2. checks' \subseteq Checks
    BY <1>0, <1>4, <2>1 DEF ReceiptError
  <2> QED
    BY <1>4, <2>2, SpendType DEF ReceiptError, TypeOK
<1>5. CASE CountError(c)
  BY <1>5, OutcomeEffect, SpendType DEF CountError, TypeOK
<1>6. CASE RiskError(c)
  BY <1>6, SpendType, StoreCalledType DEF RiskError, TypeOK
<1> QED
  BY <1>1, <1>2, <1>3, <1>4, <1>5, <1>6 DEF Answer, Failure

LEMMA MineEffect ==
  ASSUME Typed, NEW id \in Txs \cup {None}, Mine(id)
  PROVE  /\ ledger' \in Seq([tx : Txs \cup {None}, block : Blocks])
         /\ Len(ledger') = Len(ledger) + 1 /\ Len(ledger) \in Nat
         /\ \A i \in 1 .. Len(ledger) : ledger'[i] = ledger[i]
         /\ ledger'[Len(ledger) + 1].tx = id
         /\ id # None => NonceOf[id] = Len(ledger)
<1> DEFINE S == [tx : Txs \cup {None}, block : Blocks]
           entry(success) == [tx |-> id, block |-> [number |-> spent.reorgs, success |-> success]]
<1>1. PICK success \in BOOLEAN : ledger' = Append(ledger, entry(success))
  BY DEF Mine
<1>2. entry(success) \in S /\ entry(success).tx = id
  BY DEF Typed, Spending, Blocks
<1>3. ledger \in Seq(S) /\ Len(ledger) \in Nat
  BY LedgerElement DEF Typed, TypeOK
<1> HIDE DEF entry, S
<1>4. /\ ledger' \in Seq(S) /\ Len(ledger') = Len(ledger) + 1
      /\ \A i \in 1 .. Len(ledger) : ledger'[i] = ledger[i]
      /\ ledger'[Len(ledger) + 1] = entry(success)
  BY <1>1, <1>2, <1>3, AppendProperties
<1>5. id # None => NonceOf[id] = Len(ledger)
  BY DEF Mine
<1> QED
  BY <1>2, <1>3, <1>4, <1>5 DEF S

LEMMA ReorgEffect ==
  ASSUME Typed, Reorg
  PROVE  /\ ledger' \in Seq([tx : Txs \cup {None}, block : Blocks])
         /\ Len(ledger') = Len(ledger) - 1 /\ Len(ledger) \in Nat
         /\ final < Len(ledger) /\ final \in Nat
         /\ \A i \in 1 .. Len(ledger') : ledger'[i] = ledger[i]
         /\ ledger[Len(ledger)].tx \in Txs \cup {None}
<1> DEFINE S == [tx : Txs \cup {None}, block : Blocks]
           n == Len(ledger) - 1
<1>1. /\ Len(ledger) \in Nat /\ \A i \in 1 .. Len(ledger) : ledger[i] \in S
      /\ final \in 0 .. Len(ledger) /\ final < Len(ledger) /\ ledger' = SubSeq(ledger, 1, n)
  BY LedgerElement DEF Reorg, Typed, TypeOK
<1>2. Len(ledger) \in 1 .. Len(ledger) /\ n \in Nat /\ \A i \in 1 .. n : ledger[i] \in S
  BY <1>1
<1>3. ledger[Len(ledger)].tx \in Txs \cup {None}
  BY <1>1, <1>2
<1> HIDE DEF S
<1>4. /\ ledger' \in Seq(S) /\ Len(ledger') = n
      /\ \A i \in 1 .. n : ledger'[i] = ledger[i]
  <2> HIDE DEF n
  <2>1. /\ SubSeq(ledger, 1, n) \in Seq(S)
        /\ Len(SubSeq(ledger, 1, n)) = IF 1 <= n THEN n - 1 + 1 ELSE 0
        /\ \A i \in 1 .. n - 1 + 1 : SubSeq(ledger, 1, n)[i] = ledger[1 + i - 1]
    BY <1>2, SubSeqProperties
  <2> QED
    BY <1>1, <1>2, <2>1
<1> QED
  BY <1>1, <1>3, <1>4 DEF S

LEMMA TypedChain ==
  ASSUME Typed, (\E id \in Txs \cup {None} : Mine(id)) \/ Finalize \/ Reorg
  PROVE  Typed'
<1> USE DEF Typed
<1>1. ASSUME NEW id \in Txs \cup {None}, Mine(id) PROVE Typed'
  <2>1. final \in 0 .. Len(ledger') /\ pool' \subseteq Txs
    BY <1>1, MineEffect DEF Mine, TypeOK
  <2> QED
    BY <1>1, <2>1, MineEffect DEF Mine, TypeOK
<1>2. CASE Finalize
  BY <1>2, LenProperties DEF Finalize, TypeOK
<1>3. CASE Reorg
  <2>1. pool' \subseteq Txs
    BY <1>3, ReorgEffect DEF Reorg, TypeOK
  <2> QED
    BY <1>3, <2>1, ReorgEffect, SpendType DEF Reorg, TypeOK
<1> QED
  BY <1>1, <1>2, <1>3

LEMMA TypedDisk ==
  ASSUME Typed, Persist \/ Restart
  PROVE  Typed'
<1> USE DEF Typed
<1>1. CASE Persist
  BY <1>1, SavedType DEF Persist, TypeOK
<1>2. CASE Restart
  BY <1>2, SpendType DEF Restart, TypeOK, Saved, Kinds
<1> QED
  BY <1>1, <1>2

LEMMA NextTyped == Typed /\ [Next]_vars => Typed'
<1> SUFFICES ASSUME Typed, [Next]_vars PROVE Typed'
  OBVIOUS
<1>1. CASE UNCHANGED vars
  BY <1>1 DEF vars, Typed, TypeOK
<1>2. CASE Next
  BY <1>2, TypedSend, TypedEvents, TypedUpdate, TypedCheck, TypedChain, TypedDisk DEF Next
<1> QED
  BY <1>1, <1>2

-----------------------------------------------------------------------------
(***************************************************************************)
(* What the actions do to the parts of the state the invariant is about.   *)
(***************************************************************************)

(* Nothing but bounds, calls, timers, the nodes' pool and the network.      *)
Quiet ==
  /\ UNCHANGED <<status, receipt, disk, sending, buffer, checks, ledger, final>>
  /\ spent' \in Spending
  /\ spent'.reorgs = spent.reorgs /\ spent'.lags = spent.lags
  /\ spent'.errors >= spent.errors

LEMMA QuietSteps ==
  ASSUME Typed,
         \/ \E id \in Txs : Evict(id) \/ ResubmitAnswer(id) \/ ResubmitError(id)
         \/ FireTimer \/ StoreChanges \/ LatestBlock \/ NetworkDown \/ NetworkUp
         \/ EndUpdate
         \/ UNCHANGED vars
  PROVE  Quiet
<1>0. spent \in Spending /\ spent.errors \in Nat
  BY DEF Typed, Spending
<1>1. CASE \E id \in Txs : Evict(id) \/ ResubmitAnswer(id) \/ ResubmitError(id)
  BY <1>0, <1>1, SpendType DEF Evict, ResubmitAnswer, ResubmitError, Quiet
<1>2. CASE FireTimer \/ StoreChanges \/ LatestBlock \/ NetworkDown \/ NetworkUp \/ EndUpdate
  BY <1>0, <1>2, SpendType
     DEF FireTimer, StoreChanges, LatestBlock, NetworkDown, NetworkUp, EndUpdate, Quiet
<1>3. CASE UNCHANGED vars
  BY <1>0, <1>3 DEF vars, Quiet
<1> QED
  BY <1>1, <1>2, <1>3

(* What is spent is never given back; only a reorganisation costs a reorg. *)
LEMMA SpentGrows ==
  ASSUME Typed, [Next]_vars
  PROVE  /\ spent' \in Spending
         /\ spent'.reorgs >= spent.reorgs /\ spent'.lags >= spent.lags
         /\ spent'.errors >= spent.errors
         /\ Reorg => spent'.reorgs > 0
<1>0. spent \in Spending /\ {spent.reorgs, spent.lags, spent.errors} \subseteq Nat
  BY DEF Typed, Spending
<1>1. CASE Quiet /\ ~Reorg
  BY <1>0, <1>1 DEF Quiet
<1>2. CASE Reorg
  BY <1>0, <1>2, SpendType DEF Reorg
<1>3. CASE /\ UNCHANGED spent
           /\ ~Reorg
  BY <1>0, <1>3
<1>4. CASE (\E c \in checks : Answer(c) \/ Failure(c)) /\ ~Reorg
  <2>1. PICK c \in checks : Answer(c) \/ Failure(c)
    BY <1>4
  <2>2. CASE \E k \in 0 .. Len(ledger) : View(k)
    BY <1>0, <1>4, <2>2, ViewEffect
  <2>3. CASE \E w \in {"lags", "errors"} : \E max : Spend(w, max)
    BY <1>0, <1>4, <2>3, SpendType
  <2>4. CASE UNCHANGED spent
    BY <1>3, <1>4, <2>4
  <2> QED
    BY <2>1, <2>2, <2>3, <2>4 DEF Answer, Failure, ReceiptAnswer, CountAnswer, CountWithLimit,
       RiskAnswer, ReceiptError, CountError, RiskError
<1>5. CASE Restart
  BY <1>0, <1>2, <1>5, SpendType DEF Restart
<1> QED
  <2>1. CASE \E id \in Txs : Submit(id) \/ SubmitFailed(id)
    BY <1>2, <1>3, <2>1 DEF Submit, SubmitFailed
  <2>2. CASE \E kind \in Kinds : StartUpdate(kind)
    BY <1>2, <1>3, <2>2 DEF StartUpdate
  <2>3. CASE (\E id \in Txs \cup {None} : Mine(id)) \/ Finalize \/ Persist
    BY <1>2, <1>3, <2>3 DEF Mine, Finalize, Persist
  <2> QED
    BY <1>1, <1>2, <1>4, <1>5, <2>1, <2>2, <2>3, QuietSteps DEF Next

(* The chain grows at its end, where it may shrink down to what is final. *)
LEMMA LedgerGrows ==
  ASSUME Typed, [Next]_vars
  PROVE  /\ Len(ledger) \in Nat /\ Len(ledger') \in Nat /\ final \in Nat /\ final' \in Nat
         /\ final <= final' /\ final <= Len(ledger') /\ final' <= Len(ledger')
         /\ \A i \in 1 .. Len(ledger) : i <= Len(ledger') => ledger'[i] = ledger[i]
         /\ ~Reorg => Len(ledger) <= Len(ledger')
         /\ (\A id \in Txs \cup {None} : ~Mine(id)) => Len(ledger') <= Len(ledger)
<1>0. Len(ledger) \in Nat /\ final \in 0 .. Len(ledger) /\ Len(ledger') \in Nat
      /\ final' \in 0 .. Len(ledger')
  <2>1. Typed'
    BY NextTyped
  <2>2. final \in 0 .. Len(ledger) /\ final' \in 0 .. Len(ledger')
    BY <2>1 DEF Typed, TypeOK
  <2>3. Len(ledger) \in Nat /\ Len(ledger') \in Nat
    BY <2>1, LenProperties DEF Typed, TypeOK
  <2> QED BY <2>2, <2>3
<1>1. ASSUME NEW id \in Txs \cup {None}, Mine(id) PROVE UNCHANGED final /\ Len(ledger') = Len(ledger) + 1
             /\ \A i \in 1 .. Len(ledger) : ledger'[i] = ledger[i]
  BY <1>1, MineEffect DEF Mine
<1>2. CASE \E id \in Txs \cup {None} : Mine(id)
  BY <1>0, <1>1, <1>2
<1>3. CASE Reorg
  <2>1. UNCHANGED final
    BY <1>3 DEF Reorg
  <2> QED
    BY <1>0, <1>3, <2>1, ReorgEffect
<1>4. CASE Finalize
  BY <1>0, <1>4 DEF Finalize
<1>5. CASE UNCHANGED <<ledger, final>>
  BY <1>0, <1>5
<1> QED
  <2>1. CASE \E c \in checks : Answer(c) \/ Failure(c)
    BY <1>5, <2>1 DEF Answer, Failure, ReceiptAnswer, CountAnswer, CountWithLimit,
       RiskAnswer, ReceiptError, CountError, RiskError
  <2>2. CASE Persist \/ Restart \/ (\E kind \in Kinds : StartUpdate(kind))
             \/ (\E id \in Txs : Submit(id) \/ SubmitFailed(id))
    BY <1>5, <2>2 DEF Persist, Restart, StartUpdate, Submit, SubmitFailed
  <2>3. CASE Quiet
    BY <1>5, <2>3 DEF Quiet
  <2> QED
    BY <1>2, <1>3, <1>4, <2>1, <2>2, <2>3, QuietSteps DEF Next
(* Why the status of a transaction may change. *)
ByApproval(id) ==
  id \in sending /\ id \notin sending' /\ status'[id] \in {"submitted", "failed"}

ByUpdate(id) == status[id] = "submitted" /\ status'[id] = "failed"

(* The fourth check that finds the nonce used gives the transaction up. *)
GivesUp(c) ==
  /\ c \in Overtaken(c.tx) /\ c.rcpt = None
  /\ NonceOf[c.tx] < Len(ledger)
  /\ Seen(c.tx) >= 3

ByCount(id) ==
  \E c \in checks :
    /\ c.tx = id /\ c.pc = "count"
    /\ \/ status'[id] = "dropped" /\ (c.taken \/ GivesUp(c))
       \/ status'[id] = "executed" /\ c.rcpt # None
       \/ status'[id] = "failed"

ByRisk(id) ==
  \E c \in checks :
    /\ c.pc = "risk" /\ IsFinal(c.tx, c.rcpt) /\ status[c.tx] = "executed"
    /\ \/ id = c.tx /\ status'[id] = "confirmed" /\ UNCHANGED spent
       \/ id \in Duplicates(c.tx) /\ status'[id] = "dropped"

ByRestart(id) ==
  /\ spent'.crashes # spent.crashes /\ status'[id] = disk.status[id]
  /\ checks' = {} /\ sending' = {}

LEMMA StatusSteps ==
  ASSUME Typed, [Next]_vars, NEW id \in Txs, status'[id] # status[id]
  PROVE  ByApproval(id) \/ ByUpdate(id) \/ ByCount(id) \/ ByRisk(id) \/ ByRestart(id)
<1> USE DEF Typed
<1>1. ASSUME NEW i \in Txs, Submit(i) \/ SubmitFailed(i) PROVE ByApproval(id)
  BY <1>1, SetOneStatus DEF Submit, SubmitFailed, ByApproval, Statuses
<1>2. ASSUME NEW kind \in Kinds, StartUpdate(kind) PROVE ByUpdate(id)
  <2> DEFINE bugged == {i \in Pending \cap Hashless : status[i] = "submitted"}
  <2>1. bugged \subseteq Txs
    BY DEF Pending
  <2>2. SetTxStatus([i \in bugged |-> "failed"])
    BY <1>2 DEF StartUpdate
  <2>3. status'[id] = IF up /\ id \in bugged THEN "failed" ELSE status[id]
    BY <2>1, <2>2, SetTxStatusEffect DEF Statuses
  <2> QED
    BY <2>3 DEF ByUpdate
<1>3. ASSUME NEW c \in checks, c.pc = "count", NEW dropped, Outcome(c, dropped), dropped => GivesUp(c)
      PROVE  ByCount(id)
  BY <1>3, OutcomeEffect DEF ByCount
<1>4. ASSUME NEW c \in checks, NEW k \in 0 .. Len(ledger), CountAnswer(c, k) PROVE ByCount(id)
  <2> DEFINE seen  == IF buffer[c.tx] = None THEN 0 ELSE buffer[c.tx]
             ahead == c.rcpt = None /\ k > NonceOf[c.tx]
  <2>1. c.pc = "count" /\ Outcome(c, ahead /\ seen >= 3)
    BY <1>4 DEF CountAnswer, CountWithLimit
  <2>2. ahead /\ seen >= 3 => GivesUp(c)
    <3>1. Len(ledger) \in Nat /\ NonceOf[c.tx] \in Nat
      BY LedgerElement, CheckFields, NonceAssumption
    <3> QED
      BY <2>1, <3>1 DEF GivesUp, Overtaken, Seen
  <2> HIDE DEF ahead, seen
  <2> QED
    BY <1>3, <2>1, <2>2
<1>5. ASSUME NEW c \in checks, CountError(c) PROVE ByCount(id)
  BY <1>3, <1>5 DEF CountError
<1>6. ASSUME NEW c \in checks, RiskAnswer(c) PROVE ByRisk(id)
  <2> DEFINE new == [i \in {c.tx} \cup Duplicates(c.tx) |->
                       IF i = c.tx THEN "confirmed" ELSE "dropped"]
  <2>1. IsFinal(c.tx, c.rcpt) /\ status[c.tx] = "executed" /\ SetTxStatus(new) /\ UNCHANGED spent
    BY <1>6 DEF RiskAnswer
  <2>2. DOMAIN new \subseteq Txs /\ \A i \in DOMAIN new : new[i] \in Statuses
    BY CheckFields DEF Duplicates, Statuses
  <2>3. status'[id] = IF up /\ id \in DOMAIN new THEN new[id] ELSE status[id]
    <3> HIDE DEF new
    <3> QED BY <2>1, <2>2, SetTxStatusEffect
  <2>4. c.pc = "risk"
    BY <1>6 DEF RiskAnswer
  <2> QED
    BY <2>1, <2>3, <2>4 DEF ByRisk
<1>7. CASE Restart
  BY <1>7, SpendType DEF Restart, ByRestart, Spending
<1>8. ~UNCHANGED status
  OBVIOUS
<1> QED
  <2>1. CASE \E c \in checks : Answer(c) \/ Failure(c)
    BY <1>4, <1>5, <1>6, <1>8, <2>1 DEF Answer, Failure, ReceiptAnswer, ReceiptError, RiskError
  <2>2. CASE Mine(None) \/ (\E i \in Txs \cup {None} : Mine(i)) \/ Finalize \/ Reorg \/ Persist
    BY <1>8, <2>2 DEF Mine, Finalize, Reorg, Persist
  <2>3. CASE Quiet
    BY <1>8, <2>3 DEF Quiet
  <2> QED
    BY <1>1, <1>2, <1>7, <2>1, <2>2, <2>3, QuietSteps DEF Next

(* The saved status of a transaction is one it had. *)
LEMMA DiskSteps ==
  ASSUME Typed, [Next]_vars, NEW id \in Txs
  PROVE  /\ disk'.status[id] \in {disk.status[id], status[id]}
         /\ disk'.receipt[id] \in {disk.receipt[id], receipt[id]}
<1>1. CASE Persist
  BY <1>1 DEF Persist
<1>2. CASE UNCHANGED disk
  BY <1>2
<1> QED
  <2>1. CASE \E c \in checks : Answer(c) \/ Failure(c)
    BY <1>2, <2>1 DEF Answer, Failure, ReceiptAnswer, CountAnswer, CountWithLimit,
       RiskAnswer, ReceiptError, CountError, RiskError
  <2>2. CASE Restart \/ (\E kind \in Kinds : StartUpdate(kind)) \/ Finalize \/ Reorg
             \/ (\E i \in Txs : Submit(i) \/ SubmitFailed(i)) \/ (\E i \in Txs \cup {None} : Mine(i))
    BY <1>2, <2>2 DEF Restart, StartUpdate, Submit, SubmitFailed, Mine, Finalize, Reorg
  <2>3. CASE Quiet
    BY <1>2, <2>3 DEF Quiet
  <2> QED
    BY <1>1, <2>1, <2>2, <2>3, QuietSteps DEF Next
-----------------------------------------------------------------------------
(***************************************************************************)
(* The chain.                                                              *)
(***************************************************************************)

LEMMA LedgerOrderedStep ==
  ASSUME Typed, LedgerOrdered, [Next]_vars
  PROVE  LedgerOrdered'
<1> SUFFICES ASSUME NEW i \in 1 .. Len(ledger'), ledger'[i].tx \in Txs
             PROVE  NonceOf[ledger'[i].tx] = i - 1
  BY DEF LedgerOrdered
<1>1. Len(ledger) \in Nat /\ Len(ledger') \in Nat
  BY LedgerGrows
<1>2. CASE i <= Len(ledger)
  BY <1>1, <1>2, LedgerGrows DEF LedgerOrdered
<1>3. CASE i > Len(ledger)
  <2>1. PICK id \in Txs \cup {None} : Mine(id)
    BY <1>1, <1>3, LedgerGrows
  <2>2. i = Len(ledger) + 1 /\ ledger'[i].tx = id
    BY <1>1, <1>3, <2>1, MineEffect
  <2> QED
    BY <1>1, <2>1, <2>2, MineEffect, NoneAssumption
<1> QED
  BY <1>1, <1>2, <1>3

(* A mined transaction is at the place of its nonce. *)
LEMMA MinedPlace ==
  ASSUME Typed, LedgerOrdered, NEW id \in Txs
  PROVE  /\ Mined(id) <=> NonceOf[id] < Len(ledger) /\ ledger[NonceOf[id] + 1].tx = id
         /\ Settled(id) <=> NonceOf[id] < final /\ ledger[NonceOf[id] + 1].tx = id
         /\ Settled(id) => Mined(id)
         /\ Dead(id) <=> NonceOf[id] < Len(ledger) /\ ledger[NonceOf[id] + 1].tx # id
         /\ NonceOf[id] \in Nat
<1>1. Len(ledger) \in Nat /\ final \in 0 .. Len(ledger) /\ NonceOf[id] \in Nat
  BY LedgerElement, NonceAssumption DEF Typed, TypeOK
<1>2. ASSUME NEW i \in 1 .. Len(ledger), ledger[i].tx = id PROVE NonceOf[id] = i - 1
  BY <1>2 DEF LedgerOrdered
<1>3. Mined(id) <=> NonceOf[id] < Len(ledger) /\ ledger[NonceOf[id] + 1].tx = id
  BY <1>1, <1>2 DEF Mined
<1>4. Settled(id) <=> NonceOf[id] < final /\ ledger[NonceOf[id] + 1].tx = id
  <2>1. 1 .. final \subseteq 1 .. Len(ledger)
    BY <1>1
  <2> QED
    BY <1>1, <1>2, <2>1 DEF Settled
<1>5. Dead(id) <=> NonceOf[id] < Len(ledger) /\ ledger[NonceOf[id] + 1].tx # id
  BY <1>1 DEF Dead, NonceIsFree
<1> QED
  BY <1>1, <1>3, <1>4, <1>5

(* What is final stays; without a reorganisation everything stays. *)
LEMMA ChainStable ==
  ASSUME Typed, LedgerOrdered, [Next]_vars, NEW id \in Txs
  PROVE  /\ Settled(id) => Settled(id)'
         /\ ~Reorg => /\ Mined(id) => Mined(id)'
                      /\ Dead(id) => Dead(id)'
                      /\ NonceIsFree(id)' => NonceIsFree(id)
         /\ ~Mine(id) /\ Mined(id)' => Mined(id)
<1>1. Typed' /\ LedgerOrdered'
  BY NextTyped, LedgerOrderedStep
<1>2. /\ Mined(id)' <=> NonceOf[id] < Len(ledger') /\ ledger'[NonceOf[id] + 1].tx = id
      /\ Settled(id)' <=> NonceOf[id] < final' /\ ledger'[NonceOf[id] + 1].tx = id
      /\ Dead(id)' <=> NonceOf[id] < Len(ledger') /\ ledger'[NonceOf[id] + 1].tx # id
  <2>1. NonceOf[id] \in Nat /\ Len(ledger') \in Nat /\ final' \in 0 .. Len(ledger')
    BY <1>1, LedgerGrows, NonceAssumption DEF Typed, TypeOK
  <2>2. ASSUME NEW i \in 1 .. Len(ledger'), ledger'[i].tx = id PROVE NonceOf[id] = i - 1
    BY <1>1, <2>2 DEF LedgerOrdered
  <2>3. 1 .. final' \subseteq 1 .. Len(ledger')
    BY <2>1
  <2>4. Dead(id)' <=> NonceOf[id] < Len(ledger') /\ ledger'[NonceOf[id] + 1].tx # id
    BY <2>1 DEF Dead, NonceIsFree
  <2> QED
    BY <2>1, <2>2, <2>3, <2>4 DEF Mined, Settled
<1>3. NonceOf[id] \in Nat /\ Len(ledger) \in Nat /\ Len(ledger') \in Nat
  BY LedgerGrows, NonceAssumption
<1>4. Settled(id) => Settled(id)'
  BY <1>2, <1>3, MinedPlace, LedgerGrows
<1>5. ~Reorg => (Mined(id) => Mined(id)') /\ (Dead(id) => Dead(id)')
  BY <1>2, <1>3, MinedPlace, LedgerGrows
<1>6. ~Reorg => (NonceIsFree(id)' => NonceIsFree(id))
  BY <1>3, LedgerGrows DEF NonceIsFree
<1>7. ASSUME ~Mine(id), Mined(id)' PROVE Mined(id)
  <2>1. CASE \E i \in Txs \cup {None} : Mine(i)
    <3>1. PICK i \in Txs \cup {None} : Mine(i)
      BY <2>1
    <3>2. Len(ledger') = Len(ledger) + 1 /\ ledger'[Len(ledger) + 1].tx = i
      BY <3>1, MineEffect
    <3> QED
      BY <1>2, <1>3, <1>7, <3>1, <3>2, MinedPlace, LedgerGrows
  <2>2. CASE ~\E i \in Txs \cup {None} : Mine(i)
    BY <1>2, <1>3, <1>7, <2>2, MinedPlace, LedgerGrows
  <2> QED
    BY <2>1, <2>2
<1> QED
  BY <1>4, <1>5, <1>6, <1>7

(* Of transactions with one nonce, one at most is mined. *)
LEMMA MinedIsUnique ==
  ASSUME Typed, LedgerOrdered, NEW id \in Txs, NEW other \in Duplicates(id), Mined(other)
  PROVE  Dead(id) /\ ~Mined(id)
BY MinedPlace DEF Duplicates

LEMMA FinalIsSettled ==
  ASSUME NEW id, NEW rcpt, IsFinal(id, rcpt) PROVE Settled(id)
BY DEF IsFinal, Settled

LEMMA ConfirmedSettledStep ==
  ASSUME Typed, LedgerOrdered, ConfirmedSettled, [Next]_vars
  PROVE  ConfirmedSettled'
<1> SUFFICES ASSUME NEW id \in Txs, status'[id] = "confirmed" \/ disk'.status[id] = "confirmed"
             PROVE  Settled(id)'
  BY DEF ConfirmedSettled
<1>1. CASE status[id] = "confirmed" \/ disk.status[id] = "confirmed"
  BY <1>1, ChainStable DEF ConfirmedSettled
<1>2. CASE status[id] # "confirmed" /\ disk.status[id] # "confirmed"
  <2>1. status'[id] = "confirmed"
    BY <1>2, DiskSteps
  <2>2. ByRisk(id)
    BY <1>2, <2>1, StatusSteps DEF ByApproval, ByUpdate, ByCount, ByRestart
  <2>3. Settled(id)
    BY <2>1, <2>2, FinalIsSettled DEF ByRisk
  <2> QED
    BY <2>3, ChainStable
<1> QED
  BY <1>1, <1>2
-----------------------------------------------------------------------------
(***************************************************************************)
(* How many checks of a transaction can be under way.                      *)
(***************************************************************************)

ChecksOf(id) == {c \in checks : c.tx = id}

LEMMA ChecksOfCounted ==
  ASSUME Typed, ChecksCounted, NEW id \in Txs
  PROVE  /\ IsFiniteSet(ChecksOf(id)) /\ Cardinality(ChecksOf(id)) \in Nat
         /\ IsFiniteSet(Stale(id)) /\ Cardinality(Stale(id)) \in Nat
         /\ Cardinality(ChecksOf(id)) <= 1 + spent.errors
         /\ spent.errors \in Nat
<1>1. /\ IsFiniteSet(ChecksOf(id)) /\ Cardinality(ChecksOf(id)) \in Nat
      /\ IsFiniteSet(Stale(id)) /\ Cardinality(Stale(id)) \in Nat
  BY FS_Subset, FS_CardinalityType DEF ChecksCounted, ChecksOf, Stale
<1>2. Cardinality(Stale(id)) <= spent.errors /\ spent.errors \in Nat
  BY DEF ChecksCounted, Typed, Spending
<1>3. CASE \E c \in ChecksOf(id) : c.held
  <2>1. PICK c \in ChecksOf(id) : c.held
    BY <1>3
  <2>2. ChecksOf(id) = Stale(id) \cup {c}
    BY <2>1 DEF ChecksCounted, ChecksOf, Stale
  <2>3. Cardinality(ChecksOf(id)) <= Cardinality(Stale(id)) + 1
    BY <1>1, <2>2, FS_AddElement
  <2> QED
    BY <1>1, <1>2, <2>3
<1>4. CASE ~\E c \in ChecksOf(id) : c.held
  <2>1. ChecksOf(id) = Stale(id)
    BY <1>4 DEF ChecksOf, Stale
  <2> QED
    BY <1>1, <1>2, <2>1
<1> QED
  BY <1>3, <1>4

(* Letting go of checks adds none. *)
Released(S) == {[d EXCEPT !.held = FALSE] : d \in S}

LEMMA ReleasedCount ==
  ASSUME NEW S, IsFiniteSet(S)
  PROVE  IsFiniteSet(Released(S)) /\ Cardinality(Released(S)) <= Cardinality(S)
<1> DEFINE f == [d \in S |-> [d EXCEPT !.held = FALSE]]
<1>1. f \in Surjection(S, Released(S))
  BY DEF Surjection, Released
<1> QED
  BY <1>1, FS_Surjection

LEMMA ReplaceCount ==
  ASSUME NEW S, IsFiniteSet(S), NEW x \in S, NEW y
  PROVE  LET T == (S \ {x}) \cup {y}
         IN  /\ IsFiniteSet(T) /\ Cardinality(T) \in Nat
             /\ Cardinality(T) <= Cardinality(S)
<1> DEFINE R == S \ {x}
<1>1. IsFiniteSet(R) /\ Cardinality(R) = Cardinality(S) - 1
  BY FS_RemoveElement
<1>2. Cardinality(S) \in Nat /\ Cardinality(R) \in Nat
  BY <1>1, FS_CardinalityType
<1> HIDE DEF R
<1>3. IsFiniteSet(R \cup {y}) /\ Cardinality(R \cup {y}) <= Cardinality(R) + 1
  <2>1. /\ IsFiniteSet(R \cup {y})
        /\ Cardinality(R \cup {y}) = IF y \in R THEN Cardinality(R) ELSE Cardinality(R) + 1
    BY <1>1, FS_AddElement
  <2> QED
    BY <1>2, <2>1
<1>4. Cardinality(R \cup {y}) \in Nat
  BY <1>3, FS_CardinalityType
<1> QED
  BY <1>1, <1>2, <1>3, <1>4 DEF R

(* What an answer leaves of a check is a check of the same call.            *)
Answered(c, k) ==
  [c EXCEPT !.pc = "count", !.rcpt = ReceiptAt(c.tx, k), !.taken = NonceIsTaken(c.tx)]

LEMMA AnsweredFields ==
  ASSUME Typed, NEW c \in checks, NEW k
  PROVE  /\ Answered(c, k).tx = c.tx /\ Answered(c, k).held = c.held
         /\ Answered(c, k).pc = "count" /\ Answered(c, k).rcpt = ReceiptAt(c.tx, k)
         /\ Answered(c, k).taken = NonceIsTaken(c.tx)
BY CheckFields DEF Answered, Typed, Checks

LEMMA NewCheckFields ==
  ASSUME NEW id
  PROVE  /\ NewCheck(id).tx = id /\ NewCheck(id).held /\ ~NewCheck(id).taken
         /\ NewCheck(id).rcpt = receipt[id] /\ NewCheck(id).pc # "count"
         /\ NewCheck(id).pc = "receipt" => status[id] # "executed"
BY DEF NewCheck

(* What becomes of the checks in a step. *)
Starting(P) ==
  /\ P \subseteq Pending
  /\ \A id \in P : status[id] # "submitted" \/ status'[id] = "submitted"
  /\ lock = "free" /\ lock' # "free"
  /\ UNCHANGED <<spent, ledger, final, buffer, receipt, disk, sending>>
  /\ checks' = checks \cup {NewCheck(id) : id \in P}

LEMMA StartSteps ==
  ASSUME Typed, NEW kind \in Kinds, StartUpdate(kind)
  PROVE  \E P : Starting(P)
<1> DEFINE bugged == {i \in Pending \cap Hashless : status[i] = "submitted"}
<1>1. SetTxStatus([i \in bugged |-> "failed"]) /\ bugged \subseteq Txs
  BY DEF StartUpdate, Pending
<1>2. \A id \in Txs : status'[id] = IF up /\ id \in bugged THEN "failed" ELSE status[id]
  BY <1>1, SetTxStatusEffect DEF Statuses, Typed
<1>3. Starting(Pending \ bugged)
  BY <1>2 DEF StartUpdate, Starting, Pending, Kinds
<1> QED
  BY <1>3

LEMMA ChecksCountedStep ==
  ASSUME Typed, ChecksCounted, [Next]_vars
  PROVE  ChecksCounted'
<1>0. /\ checks \subseteq Checks /\ IsFiniteSet(checks) /\ spent.errors \in Nat
      /\ spent'.errors \in Nat /\ spent'.errors >= spent.errors
  BY SpentGrows DEF Typed, TypeOK, ChecksCounted, Spending
<1>1. ASSUME checks' \subseteq checks, lock' = lock \/ \A c \in checks' : ~c.held
      PROVE  ChecksCounted'
  <2>1. IsFiniteSet(checks')
    BY <1>0, <1>1, FS_Subset
  <2>2. ASSUME NEW id \in Txs PROVE Cardinality(Stale(id)') <= spent'.errors
    <3>1. Stale(id)' \subseteq Stale(id)
      BY <1>1 DEF Stale
    <3>2. Cardinality(Stale(id)') <= Cardinality(Stale(id)) /\ Cardinality(Stale(id)') \in Nat
      BY <3>1, ChecksOfCounted, FS_Subset, FS_CardinalityType
    <3>3. Cardinality(Stale(id)) <= spent.errors /\ Cardinality(Stale(id)) \in Nat
      BY ChecksOfCounted DEF ChecksCounted
    <3> QED
      BY <1>0, <3>2, <3>3
  <2> QED
    BY <1>1, <2>1, <2>2 DEF ChecksCounted
<1>2. ASSUME NEW P, Starting(P) PROVE ChecksCounted'
  <2> DEFINE N == {NewCheck(id) : id \in P}
  <2>1. IsFiniteSet(checks')
    <3> DEFINE f == [id \in P |-> NewCheck(id)]
    <3>1. f \in Surjection(P, N)
      BY DEF Surjection
    <3>2. IsFiniteSet(P)
      BY <1>2, FiniteAssumption, FS_Subset DEF Starting, Pending
    <3>3. IsFiniteSet(N)
      BY <3>1, <3>2, FS_Surjection
    <3> QED
      BY <1>0, <1>2, <3>3, FS_Union DEF Starting
  <2>2. \A c \in checks : ~c.held
    BY <1>2 DEF ChecksCounted, Starting
  <2>3. ASSUME NEW c \in checks', NEW d \in checks', c.held, d.held, c.tx = d.tx PROVE c = d
    <3>1. c \in N /\ d \in N
      BY <1>2, <2>2, <2>3 DEF Starting
    <3> QED
      BY <2>3, <3>1, NewCheckFields
  <2>4. ASSUME NEW id \in Txs PROVE Stale(id)' = Stale(id)
    BY <1>2, NewCheckFields DEF Stale, Starting
  <2> QED
    BY <1>2, <2>1, <2>3, <2>4 DEF ChecksCounted, Starting
<1>3. ASSUME NEW c \in checks, NEW k \in 0 .. Len(ledger), ReceiptAnswer(c, k) PROVE ChecksCounted'
  <2> DEFINE d == Answered(c, k)
  <2>1. checks' = (checks \ {c}) \cup {d} /\ lock' = lock
    BY <1>3 DEF ReceiptAnswer, Answered
  <2>2. d.tx = c.tx /\ d.held = c.held
    BY AnsweredFields
  <2> HIDE DEF d
  <2>3. IsFiniteSet(checks')
    BY <1>0, <2>1, FS_AddElement, FS_RemoveElement
  <2>4. ASSUME NEW id \in Txs PROVE Cardinality(Stale(id)') <= spent'.errors
    <3>1. Cardinality(Stale(id)) <= spent.errors /\ IsFiniteSet(Stale(id))
          /\ Cardinality(Stale(id)) \in Nat
      BY ChecksOfCounted DEF ChecksCounted
    <3>2. CASE c \in Stale(id)
      <4>1. Stale(id)' = (Stale(id) \ {c}) \cup {d}
        BY <2>1, <2>2, <3>2 DEF Stale
      <4>2. Cardinality(Stale(id)') <= Cardinality(Stale(id)) /\ Cardinality(Stale(id)') \in Nat
        BY <3>1, <3>2, <4>1, ReplaceCount
      <4> QED
        BY <1>0, <3>1, <4>2
    <3>3. CASE c \notin Stale(id)
      <4>1. Stale(id)' = Stale(id)
        BY <2>1, <2>2, <3>3 DEF Stale
      <4> QED
        BY <1>0, <3>1, <4>1
    <3> QED
      BY <3>2, <3>3
  <2>5. lock' = "free" => \A e \in checks' : ~e.held
    BY <2>1, <2>2 DEF ChecksCounted
  <2>6. \A e, g \in checks' : e.held /\ g.held /\ e.tx = g.tx => e = g
    BY <2>1, <2>2 DEF ChecksCounted
  <2> QED
    BY <2>3, <2>4, <2>5, <2>6 DEF ChecksCounted
<1>4. ASSUME NEW c \in checks, ReceiptError(c), c.held PROVE ChecksCounted'
  <2>1. checks' = Released(checks \ {c}) /\ spent'.errors = spent.errors + 1
    BY <1>4, SpendType DEF ReceiptError, Released, Typed
  <2>2. IsFiniteSet(checks')
    BY <1>0, <2>1, ReleasedCount, FS_RemoveElement
  <2>3. \A e \in checks' : ~e.held
    BY <1>0, <2>1 DEF Released, Checks
  <2>4. ASSUME NEW id \in Txs PROVE Cardinality(Stale(id)') <= spent'.errors
    <3>1. Stale(id)' \subseteq Released(ChecksOf(id))
      BY <1>0, <2>1 DEF Stale, Released, ChecksOf, Checks
    <3>2. /\ IsFiniteSet(Released(ChecksOf(id)))
          /\ Cardinality(Released(ChecksOf(id))) <= Cardinality(ChecksOf(id))
      BY ChecksOfCounted, ReleasedCount
    <3>3. Cardinality(ChecksOf(id)) <= 1 + spent.errors /\ Cardinality(ChecksOf(id)) \in Nat
      BY ChecksOfCounted
    <3>4. /\ Cardinality(Stale(id)') <= Cardinality(Released(ChecksOf(id)))
          /\ Cardinality(Stale(id)') \in Nat /\ Cardinality(Released(ChecksOf(id))) \in Nat
      BY <3>1, <3>2, FS_Subset, FS_CardinalityType
    <3> QED
      BY <1>0, <2>1, <3>2, <3>3, <3>4
  <2> QED
    BY <2>2, <2>3, <2>4 DEF ChecksCounted
<1> QED
  <2>1. ASSUME NEW c \in checks, Answer(c) \/ Failure(c) PROVE ChecksCounted'
    <3>1. CASE \E k \in 0 .. Len(ledger) : CountAnswer(c, k)
      BY <1>1, <3>1 DEF CountAnswer, CountWithLimit
    <3>2. CASE RiskAnswer(c) \/ CountError(c) \/ RiskError(c) \/ (ReceiptError(c) /\ ~c.held)
      BY <1>1, <3>2 DEF RiskAnswer, CountError, RiskError, ReceiptError
    <3>3. CASE ReceiptError(c) /\ c.held
      BY <1>4, <3>3
    <3>4. CASE \E k \in 0 .. Len(ledger) : ReceiptAnswer(c, k)
      BY <1>3, <3>4
    <3> QED
      BY <2>1, <3>1, <3>2, <3>3, <3>4 DEF Answer, Failure
  <2>2. CASE UNCHANGED <<checks, lock>>
    BY <1>1, <2>2
  <2>3. CASE EndUpdate \/ Restart
    BY <1>1, <2>3 DEF EndUpdate, Restart
  <2>4. CASE \E kind \in Kinds : StartUpdate(kind)
    BY <1>2, <2>4, StartSteps
  <2> QED
    BY <2>1, <2>2, <2>3, <2>4 DEF Next, Submit, SubmitFailed, Evict, ResubmitAnswer, ResubmitError,
       FireTimer, StoreChanges, LatestBlock, NetworkDown, NetworkUp, Mine, Finalize, Reorg,
       Persist, vars
(* Where a check of the next state comes from. *)
FromStart(d) == \E P : Starting(P) /\ \E id \in P : d = NewCheck(id)

FromAnswer(d) ==
  \E c \in checks, k \in 0 .. Len(ledger) : ReceiptAnswer(c, k) /\ d = Answered(c, k)

FromRelease(d) ==
  /\ \E c \in checks : d = [c EXCEPT !.held = FALSE]
  /\ spent'.errors > 0

LEMMA CheckSteps ==
  ASSUME Typed, [Next]_vars, NEW d \in checks', d \notin checks
  PROVE  FromStart(d) \/ FromAnswer(d) \/ FromRelease(d)
<1>1. ASSUME NEW c \in checks, Answer(c) \/ Failure(c)
      PROVE  FromAnswer(d) \/ FromRelease(d)
  <2>1. CASE \E k \in 0 .. Len(ledger) : ReceiptAnswer(c, k)
    BY <2>1 DEF ReceiptAnswer, FromAnswer, Answered
  <2>2. CASE (\E k \in 0 .. Len(ledger) : CountAnswer(c, k)) \/ RiskAnswer(c) \/ CountError(c) \/ RiskError(c)
    BY <2>2 DEF CountAnswer, CountWithLimit, RiskAnswer, CountError, RiskError
  <2>3. CASE ReceiptError(c)
    <3>1. spent'.errors > 0
      BY <2>3, SpendType DEF ReceiptError, Typed, Spending
    <3> QED
      BY <2>3, <3>1 DEF ReceiptError, FromRelease
  <2> QED
    BY <1>1, <2>1, <2>2, <2>3 DEF Answer, Failure
<1>2. CASE UNCHANGED checks \/ Restart
  BY <1>2 DEF Restart
<1>3. CASE \E kind \in Kinds : StartUpdate(kind)
  BY <1>3, StartSteps DEF FromStart, Starting
<1> QED
  BY <1>1, <1>2, <1>3 DEF Next, Submit, SubmitFailed, Evict, ResubmitAnswer, ResubmitError,
     FireTimer, StoreChanges, LatestBlock, NetworkDown, NetworkUp, EndUpdate, Mine, Finalize,
     Reorg, Persist, vars

LEMMA SendingShrinks == Typed /\ [Next]_vars => sending' \subseteq sending
<1> SUFFICES ASSUME Typed, [Next]_vars PROVE sending' \subseteq sending
  OBVIOUS
<1>1. CASE UNCHANGED sending \/ Restart \/ \E id \in Txs : Submit(id) \/ SubmitFailed(id)
  BY <1>1 DEF Restart, Submit, SubmitFailed
<1>2. CASE \E c \in checks : Answer(c) \/ Failure(c)
  BY <1>2 DEF Answer, Failure, ReceiptAnswer, CountAnswer, CountWithLimit, RiskAnswer,
     ReceiptError, CountError, RiskError
<1> QED
  BY <1>1, <1>2, QuietSteps DEF Quiet, Next, StartUpdate, Mine, Finalize, Reorg, Persist

(* A check that goes on is one of the same transaction. *)
LEMMA ChecksKeepTx ==
  ASSUME Typed, [Next]_vars, NEW d \in checks'
  PROVE  (\E c \in checks : c.tx = d.tx) \/ d.tx \in Pending
<1>1. CASE d \in checks
  BY <1>1
<1>2. CASE FromStart(d)
  BY <1>2, NewCheckFields DEF FromStart, Starting
<1>3. CASE FromAnswer(d)
  BY <1>3, AnsweredFields DEF FromAnswer
<1>4. CASE FromRelease(d)
  BY <1>4, CheckFields DEF FromRelease, Checks, Typed
<1> QED
  BY <1>1, <1>2, <1>3, <1>4, CheckSteps

LEMMA SendersUnknownStep ==
  ASSUME Typed, SendersUnknown, [Next]_vars
  PROVE  SendersUnknown'
<1> SUFFICES ASSUME NEW id \in sending'
             PROVE  /\ status'[id] \notin {"submitted", "executed", "confirmed"}
                    /\ \A d \in checks' : d.tx # id
  BY DEF SendersUnknown
<1>1. /\ id \in sending /\ id \in Txs
      /\ status[id] \notin {"submitted", "executed", "confirmed"}
      /\ \A c \in checks : c.tx # id
  BY SendingShrinks DEF SendersUnknown, Typed, TypeOK
<1>2. status'[id] \notin {"submitted", "executed", "confirmed"}
  <2>1. CASE status'[id] = status[id]
    BY <1>1, <2>1
  <2>2. CASE ByRisk(id)
    BY <1>1, <2>2 DEF ByRisk
  <2> QED
    BY <1>1, <2>1, <2>2, StatusSteps DEF ByApproval, ByUpdate, ByCount, ByRestart
<1>3. \A d \in checks' : d.tx # id
  BY <1>1, ChecksKeepTx DEF Pending
<1> QED
  BY <1>2, <1>3

(* While no query has failed, a transaction has one check. *)
LEMMA OneCheck ==
  ASSUME Typed, ChecksCounted, spent.errors = 0,
         NEW c \in checks, NEW d \in checks, c.tx = d.tx
  PROVE  c = d
<1>1. c.tx \in Txs
  BY CheckFields DEF Typed
<1>2. Stale(c.tx) = {}
  BY <1>1, ChecksOfCounted, FS_EmptySet DEF ChecksCounted
<1> QED
  BY <1>2 DEF Stale, ChecksCounted

LEMMA AskedUnconfirmedStep ==
  ASSUME Typed, ChecksCounted, AskedUnconfirmed, [Next]_vars
  PROVE  AskedUnconfirmed'
<1> SUFFICES ASSUME spent'.errors = 0, NEW d \in checks', d.pc \in {"receipt", "count"}
             PROVE  status'[d.tx] # "confirmed"
  BY DEF AskedUnconfirmed
<1>1. spent.errors = 0
  BY SpentGrows DEF Typed, Spending
<1>2. CASE d \in checks
  <2>1. status[d.tx] # "confirmed" /\ d.tx \in Txs
    BY <1>1, <1>2, CheckFields DEF AskedUnconfirmed, Typed
  <2>2. ~ByRestart(d.tx)
    BY DEF ByRestart
  <2>3. ASSUME ByRisk(d.tx) PROVE status'[d.tx] # "confirmed"
    BY <1>1, <1>2, <2>3, OneCheck DEF ByRisk
  <2> QED
    BY <2>1, <2>2, <2>3, StatusSteps DEF ByApproval, ByUpdate, ByCount
<1>3. CASE FromStart(d)
  <2>0. PICK P : Starting(P) /\ \E id \in P : d = NewCheck(id)
    BY <1>3 DEF FromStart
  <2>1. PICK id \in P : d = NewCheck(id)
    BY <2>0
  <2>2. id \in Pending /\ d.tx = id /\ status[id] # "executed"
    BY <2>0, <2>1, NewCheckFields DEF Starting, NewCheck
  <2>3. status[id] = "submitted"
    BY <2>2 DEF Pending
  <2> QED
    BY <2>0, <2>1, <2>2, <2>3 DEF Starting
<1>4. CASE FromAnswer(d)
  <2>1. PICK c \in checks, k \in 0 .. Len(ledger) : ReceiptAnswer(c, k) /\ d = Answered(c, k)
    BY <1>4 DEF FromAnswer
  <2>2. d.tx = c.tx /\ c.pc = "receipt" /\ UNCHANGED status
    BY <2>1, AnsweredFields DEF ReceiptAnswer
  <2> QED
    BY <1>1, <2>2 DEF AskedUnconfirmed
<1>5. ~FromRelease(d)
  BY DEF FromRelease
<1> QED
  BY <1>2, <1>3, <1>4, <1>5, CheckSteps
-----------------------------------------------------------------------------
(***************************************************************************)
(* Receipts.                                                               *)
(***************************************************************************)

LEMMA ReceiptSteps ==
  ASSUME Typed, [Next]_vars, NEW id \in Txs
  PROVE  \/ receipt'[id] \in {receipt[id], disk.receipt[id]}
         \/ \E c \in checks : c.tx = id /\ c.rcpt # None
<1>1. CASE \E c \in checks : Answer(c) \/ Failure(c)
  <2>1. PICK c \in checks : Answer(c) \/ Failure(c)
    BY <1>1
  <2>2. CASE \E dropped : Outcome(c, dropped)
    BY <2>2, OutcomeEffect DEF Typed
  <2>3. CASE UNCHANGED receipt
    BY <2>3
  <2> QED
    BY <2>1, <2>2, <2>3 DEF Answer, Failure, ReceiptAnswer, CountAnswer, CountWithLimit,
       RiskAnswer, ReceiptError, CountError, RiskError
<1>2. CASE UNCHANGED receipt \/ Restart
  BY <1>2 DEF Restart
<1> QED
  BY <1>1, <1>2, QuietSteps DEF Quiet, Next, Submit, SubmitFailed, StartUpdate, Mine, Finalize,
     Reorg, Persist

(* An answer names a block only if the transaction was mined in it. *)
LEMMA ReceiptIsMined ==
  ASSUME Typed, NEW id, NEW k \in 0 .. Len(ledger), ReceiptAt(id, k) # None
  PROVE  Mined(id)
<1>1. PICK i \in 1 .. k : ledger[i].tx = id
  BY ReceiptAtType DEF Typed
<1> QED
  BY <1>1, LedgerElement DEF Mined, Typed

LEMMA ReceiptsTrueStep ==
  ASSUME Typed, LedgerOrdered, ReceiptsTrue, [Next]_vars
  PROVE  ReceiptsTrue'
<1> SUFFICES ASSUME spent'.reorgs = 0
    PROVE  /\ \A id \in Txs : status'[id] \in Completed \/ disk'.status[id] \in Completed => Mined(id)'
           /\ \A id \in Txs : receipt'[id] # None \/ disk'.receipt[id] # None => Mined(id)'
           /\ \A d \in checks' : d.rcpt # None => Mined(d.tx)'
           /\ \A d \in checks' : d.taken => \E other \in Duplicates(d.tx) : Mined(other)'
  BY DEF ReceiptsTrue
<1>1. spent.reorgs = 0 /\ ~Reorg
  BY SpentGrows DEF Typed, Spending
<1>2. \A id \in Txs : Mined(id) => Mined(id)'
  BY <1>1, ChainStable
<1>3. /\ \A id \in Txs : status[id] \in Completed \/ disk.status[id] \in Completed => Mined(id)
      /\ \A id \in Txs : receipt[id] # None \/ disk.receipt[id] # None => Mined(id)
      /\ \A c \in checks : c.rcpt # None => Mined(c.tx)
      /\ \A c \in checks : c.taken => \E other \in Duplicates(c.tx) : Mined(other)
  BY <1>1 DEF ReceiptsTrue
<1>4. ASSUME NEW id \in Txs, status'[id] \in Completed \/ disk'.status[id] \in Completed
      PROVE  Mined(id)'
  <2>1. CASE status[id] \in Completed \/ disk.status[id] \in Completed
    BY <1>2, <1>3, <2>1
  <2>2. CASE ~(status[id] \in Completed \/ disk.status[id] \in Completed)
    <3>1. status'[id] \in Completed /\ status'[id] # status[id]
      BY <1>4, <2>2, DiskSteps
    <3>2. ByCount(id) \/ ByRisk(id)
      BY <2>2, <3>1, StatusSteps DEF ByApproval, ByUpdate, ByRestart, Completed
    <3>3. CASE ByCount(id)
      BY <1>2, <1>3, <3>1, <3>3 DEF ByCount, Completed
    <3>4. CASE ByRisk(id)
      BY <1>2, <2>2, <3>1, <3>4 DEF ByRisk, Completed
    <3> QED
      BY <3>2, <3>3, <3>4
  <2> QED
    BY <2>1, <2>2
<1>5. ASSUME NEW id \in Txs, receipt'[id] # None \/ disk'.receipt[id] # None
      PROVE  Mined(id)'
  <2>1. receipt[id] # None \/ disk.receipt[id] # None \/ \E c \in checks : c.tx = id /\ c.rcpt # None
    BY <1>5, ReceiptSteps, DiskSteps
  <2> QED
    BY <1>2, <1>3, <2>1
<1>6. ASSUME NEW d \in checks'
      PROVE  /\ d.rcpt # None => Mined(d.tx)'
             /\ d.taken => \E other \in Duplicates(d.tx) : Mined(other)'
  <2>1. CASE d \in checks
    BY <1>2, <1>3, <2>1, CheckFields DEF Duplicates, Typed
  <2>2. CASE FromStart(d)
    BY <1>2, <1>3, <2>2, NewCheckFields DEF FromStart, Starting, Pending
  <2>3. CASE FromAnswer(d)
    <3>1. PICK c \in checks, k \in 0 .. Len(ledger) : ReceiptAnswer(c, k) /\ d = Answered(c, k)
      BY <2>3 DEF FromAnswer
    <3>2. c.tx \in Txs /\ d.tx = c.tx /\ d.rcpt = ReceiptAt(c.tx, k) /\ d.taken = NonceIsTaken(c.tx)
      BY <3>1, AnsweredFields, CheckFields DEF Typed
    <3>3. d.rcpt # None => Mined(d.tx)
      BY <3>2, ReceiptIsMined
    <3>4. d.taken => \E other \in Duplicates(d.tx) : Mined(other)
      BY <1>3, <3>2 DEF NonceIsTaken, Duplicates
    <3> QED
      BY <1>2, <3>2, <3>3, <3>4 DEF Duplicates
  <2>4. CASE FromRelease(d)
    <3>1. PICK c \in checks : d = [c EXCEPT !.held = FALSE]
      BY <2>4 DEF FromRelease
    <3>2. d.tx = c.tx /\ d.rcpt = c.rcpt /\ d.taken = c.taken /\ c.tx \in Txs
      BY <3>1, CheckFields DEF Checks, Typed
    <3> QED
      BY <1>2, <1>3, <3>2 DEF Duplicates
  <2> QED
    BY <2>1, <2>2, <2>3, <2>4, CheckSteps
<1> QED
  BY <1>4, <1>5, <1>6

(* With the receipts true, only a dead transaction is dropped. *)
LEMMA DroppedDeadStep ==
  ASSUME Typed, LedgerOrdered, ConfirmedSettled, ChecksCounted, ReceiptsTrue, OvertakenCounted,
         DroppedDead, [Next]_vars
  PROVE  DroppedDead'
<1> SUFFICES ASSUME spent'.reorgs = 0, spent'.lags + spent'.errors <= 2, NEW id \in Txs,
                    status'[id] = "dropped" \/ disk'.status[id] = "dropped"
             PROVE  Dead(id)'
  BY DEF DroppedDead
<1>1. /\ spent.reorgs = 0 /\ ~Reorg /\ spent.lags + spent.errors <= 2
      /\ spent.lags \in Nat /\ spent.errors \in Nat
  BY SpentGrows DEF Typed, Spending
<1>2. Dead(id) => Dead(id)'
  BY <1>1, ChainStable
<1>3. ASSUME NEW c \in checks, c.tx = id, c.taken PROVE Dead(id)
  BY <1>1, <1>3, MinedIsUnique DEF ReceiptsTrue
<1>4. ASSUME NEW c \in checks, c.tx = id, GivesUp(c) PROVE Dead(id)
  <2>1. Cardinality(Overtaken(id)) >= 1 /\ Cardinality(Overtaken(id)) \in Nat
    <3>1. IsFiniteSet(Overtaken(id))
      BY FS_Subset DEF ChecksCounted, Overtaken
    <3>2. Overtaken(id) # {}
      BY <1>4 DEF GivesUp
    <3> QED
      BY <3>1, <3>2, FS_EmptySet, FS_CardinalityType
  <2>2. Seen(id) >= 3 /\ Seen(id) \in Nat
    BY <1>4 DEF GivesUp, Seen, Typed, TypeOK
  <2>3. ~Mined(id)
    BY <1>1, <2>1, <2>2 DEF OvertakenCounted
  <2> QED
    BY <1>4, <2>3, MinedPlace DEF GivesUp
<1>5. ASSUME ByRisk(id), status'[id] = "dropped" PROVE Dead(id)
  <2>1. PICK c \in checks : id \in Duplicates(c.tx) /\ IsFinal(c.tx, c.rcpt)
    BY <1>5 DEF ByRisk
  <2>2. c.tx \in Duplicates(id) /\ Mined(c.tx)
    BY <2>1, FinalIsSettled, MinedPlace, CheckFields DEF Duplicates, Typed
  <2> QED
    BY <2>2, MinedIsUnique
<1>6. CASE status[id] = "dropped" \/ disk.status[id] = "dropped"
  BY <1>1, <1>2, <1>6 DEF DroppedDead
<1>7. CASE ~(status[id] = "dropped" \/ disk.status[id] = "dropped")
  <2>1. status'[id] = "dropped" /\ status'[id] # status[id]
    BY <1>7, DiskSteps
  <2>2. ByCount(id) \/ ByRisk(id)
    BY <1>7, <2>1, StatusSteps DEF ByApproval, ByUpdate, ByRestart
  <2>3. CASE ByCount(id)
    BY <1>2, <1>3, <1>4, <2>1, <2>3 DEF ByCount
  <2> QED
    BY <1>2, <1>5, <2>1, <2>2, <2>3
<1> QED
  BY <1>6, <1>7
-----------------------------------------------------------------------------
(***************************************************************************)
(* The droppedBuffer.                                                      *)
(***************************************************************************)

LEMMA OvertakenFinite ==
  ASSUME Typed, ChecksCounted, NEW id \in Txs
  PROVE  /\ IsFiniteSet(Overtaken(id)) /\ Cardinality(Overtaken(id)) \in Nat
         /\ Cardinality(Overtaken(id)) <= 1 + spent.errors
         /\ Seen(id) \in Nat
<1>1. Overtaken(id) \subseteq ChecksOf(id) /\ Overtaken(id) \subseteq checks
  BY DEF Overtaken, ChecksOf
<1>2. IsFiniteSet(Overtaken(id)) /\ Cardinality(Overtaken(id)) <= Cardinality(ChecksOf(id))
  BY <1>1, ChecksOfCounted, FS_Subset
<1>3. Cardinality(Overtaken(id)) \in Nat
  BY <1>2, FS_CardinalityType
<1>4. Seen(id) \in Nat
  <2>1. buffer[id] \in 0 .. 3 \/ buffer[id] = None
    BY DEF Typed, TypeOK
  <2> QED
    BY <2>1 DEF Seen
<1>5. /\ Cardinality(ChecksOf(id)) <= 1 + spent.errors
      /\ Cardinality(ChecksOf(id)) \in Nat /\ spent.errors \in Nat
  BY ChecksOfCounted
<1> QED
  BY <1>2, <1>3, <1>4, <1>5

(* One answer of the count: the buffer counts it, or is left or emptied.    *)
LEMMA CountEffect ==
  ASSUME Typed, LedgerOrdered, ChecksCounted,
         NEW c \in checks, NEW k \in 0 .. Len(ledger), CountAnswer(c, k)
  PROVE  /\ \A id \in Txs \ {c.tx} : Seen(id)' = Seen(id)
         /\ Seen(c.tx)' \in Nat
         /\ NonceIsFree(c.tx) => Seen(c.tx)' <= Seen(c.tx)
         /\ c \notin Overtaken(c.tx) => Seen(c.tx)' <= Seen(c.tx)
         /\ Seen(c.tx)' <= Seen(c.tx) + 1
<1> DEFINE seen  == Seen(c.tx)
           ahead == c.rcpt = None /\ k > NonceOf[c.tx]
           value == CASE ~ahead               -> seen
                      [] ahead /\ seen < 3  -> seen + 1
                      [] ahead /\ seen >= 3 -> None
<1>1. /\ c.tx \in Txs /\ c.pc = "count" /\ buffer \in [Txs -> 0 .. 3 \cup {None}]
      /\ Len(ledger) \in Nat /\ NonceOf[c.tx] \in Nat
  BY CheckFields, LedgerElement, NonceAssumption
     DEF Typed, TypeOK, CountAnswer, CountWithLimit
<1>2. buffer' = [buffer EXCEPT ![c.tx] = value]
  BY DEF CountAnswer, CountWithLimit, Seen
<1>3. seen \in Nat
  BY <1>1 DEF Seen
<1>4. Seen(c.tx)' = IF value = None THEN 0 ELSE value
  BY <1>1, <1>2 DEF Seen
<1>5. \A id \in Txs \ {c.tx} : Seen(id)' = Seen(id)
  BY <1>1, <1>2 DEF Seen
<1>6. ~ahead => value = seen
  OBVIOUS
<1>7. value \in {seen, seen + 1, None}
  BY <1>3
<1>8. ahead => c \in Overtaken(c.tx) /\ ~NonceIsFree(c.tx)
  BY <1>1 DEF Overtaken, NonceIsFree
<1> HIDE DEF value, ahead, seen
<1>9. Seen(c.tx)' \in {0, seen, seen + 1} /\ (~ahead => Seen(c.tx)' \in {0, seen})
  BY <1>4, <1>6, <1>7
<1>10. seen = Seen(c.tx)
  BY DEF seen
<1> QED
  BY <1>3, <1>5, <1>8, <1>9, <1>10

(* Only the answer about a receipt adds to those that will see the nonce    *)
(* used; of a mined transaction only a node that is behind.                 *)
LEMMA OvertakenSteps ==
  ASSUME Typed, ChecksCounted, ~Reorg, [Next]_vars, NEW id \in Txs
  PROVE  /\ IsFiniteSet(Overtaken(id)') /\ Cardinality(Overtaken(id)') \in Nat
         /\ \/ Cardinality(Overtaken(id)') <= Cardinality(Overtaken(id))
            \/ /\ Cardinality(Overtaken(id)') <= Cardinality(Overtaken(id)) + 1
               /\ Mined(id) => spent'.lags = spent.lags + 1
               /\ UNCHANGED <<buffer, ledger>>
<1>0. /\ IsFiniteSet(Overtaken(id)) /\ Cardinality(Overtaken(id)) \in Nat
      /\ checks \subseteq Checks
  BY OvertakenFinite DEF Typed, TypeOK
<1> DEFINE Goal == /\ IsFiniteSet(Overtaken(id)') /\ Cardinality(Overtaken(id)') \in Nat
                   /\ Cardinality(Overtaken(id)') <= Cardinality(Overtaken(id))
<1>1. ASSUME Overtaken(id)' \subseteq Overtaken(id) PROVE Goal
  <2>1. /\ IsFiniteSet(Overtaken(id)')
        /\ Cardinality(Overtaken(id)') <= Cardinality(Overtaken(id))
    BY <1>0, <1>1, FS_Subset
  <2> QED
    BY <2>1, FS_CardinalityType
<1>2. ASSUME checks' \subseteq checks PROVE Goal
  <2>1. Overtaken(id)' \subseteq Overtaken(id)
    BY <1>2 DEF Overtaken
  <2> HIDE DEF Goal
  <2> QED
    BY <1>1, <2>1
<1>3. ASSUME NEW P, Starting(P) PROVE Goal
  <2>1. Overtaken(id)' \subseteq Overtaken(id)
    BY <1>3, NewCheckFields DEF Overtaken, Starting
  <2> HIDE DEF Goal
  <2> QED
    BY <1>1, <2>1
<1>4. ASSUME NEW c \in checks, ReceiptError(c), c.held PROVE Goal
  <2>1. checks' = Released(checks \ {c})
    BY <1>4 DEF ReceiptError, Released
  <2>2. Overtaken(id)' \subseteq Released(Overtaken(id))
    BY <1>0, <2>1 DEF Overtaken, Released, Checks
  <2>3. /\ IsFiniteSet(Released(Overtaken(id)))
        /\ Cardinality(Released(Overtaken(id))) <= Cardinality(Overtaken(id))
    BY <1>0, ReleasedCount
  <2>4. /\ IsFiniteSet(Overtaken(id)')
        /\ Cardinality(Overtaken(id)') <= Cardinality(Released(Overtaken(id)))
    BY <2>2, <2>3, FS_Subset
  <2>5. Cardinality(Overtaken(id)') \in Nat /\ Cardinality(Released(Overtaken(id))) \in Nat
    BY <2>3, <2>4, FS_CardinalityType
  <2> QED
    BY <1>0, <2>3, <2>4, <2>5
<1>5. ASSUME NEW c \in checks, NEW k \in 0 .. Len(ledger), ReceiptAnswer(c, k)
      PROVE  \/ Goal
             \/ /\ IsFiniteSet(Overtaken(id)') /\ Cardinality(Overtaken(id)') \in Nat
                /\ Cardinality(Overtaken(id)') <= Cardinality(Overtaken(id)) + 1
                /\ Mined(id) => spent'.lags = spent.lags + 1
                /\ UNCHANGED <<buffer, ledger>>
  <2> DEFINE d == Answered(c, k)
  <2>1. checks' = (checks \ {c}) \cup {d} /\ UNCHANGED <<buffer, ledger>> /\ View(k)
    BY <1>5 DEF ReceiptAnswer, Answered
  <2>2. d.tx = c.tx /\ d.rcpt = ReceiptAt(c.tx, k)
    BY AnsweredFields
  <2> HIDE DEF d
  <2>3. CASE d.tx = id /\ d.rcpt = None
    <3>1. Mined(id) => k # Len(ledger)
      BY <2>2, <2>3, ReceiptAtType DEF Mined, Typed
    <3>2. Mined(id) => spent'.lags = spent.lags + 1
      BY <2>1, <3>1, ViewEffect DEF Typed
    <3>3. Overtaken(id)' \subseteq Overtaken(id) \cup {d}
      BY <2>1 DEF Overtaken
    <3>4. /\ IsFiniteSet(Overtaken(id) \cup {d})
          /\ Cardinality(Overtaken(id) \cup {d}) =
               IF d \in Overtaken(id) THEN Cardinality(Overtaken(id)) ELSE Cardinality(Overtaken(id)) + 1
      BY <1>0, FS_AddElement
    <3>5. /\ IsFiniteSet(Overtaken(id)')
          /\ Cardinality(Overtaken(id)') <= Cardinality(Overtaken(id) \cup {d})
      BY <3>3, <3>4, FS_Subset
    <3>6. Cardinality(Overtaken(id)') \in Nat
      BY <3>5, FS_CardinalityType
    <3>7. Cardinality(Overtaken(id)') <= Cardinality(Overtaken(id)) + 1
      BY <1>0, <3>4, <3>5, <3>6
    <3> QED
      BY <2>1, <3>2, <3>5, <3>6, <3>7
  <2>4. CASE ~(d.tx = id /\ d.rcpt = None)
    <3>1. Overtaken(id)' \subseteq Overtaken(id)
      BY <2>1, <2>4 DEF Overtaken
    <3> HIDE DEF Goal
    <3> QED
      BY <1>1, <3>1
  <2> QED
    BY <2>3, <2>4
<1>6. ASSUME NEW c \in checks, Answer(c) \/ Failure(c), \A k \in 0 .. Len(ledger) : ~ReceiptAnswer(c, k)
      PROVE  Goal
  <2>1. CASE \E k \in 0 .. Len(ledger) : CountAnswer(c, k)
    BY <1>2, <2>1 DEF CountAnswer, CountWithLimit
  <2>2. CASE RiskAnswer(c) \/ CountError(c) \/ RiskError(c) \/ (ReceiptError(c) /\ ~c.held)
    BY <1>2, <2>2 DEF RiskAnswer, CountError, RiskError, ReceiptError
  <2>3. CASE ReceiptError(c) /\ c.held
    BY <1>4, <2>3
  <2> QED
    BY <1>6, <2>1, <2>2, <2>3 DEF Answer, Failure
<1>7. CASE UNCHANGED checks \/ Restart
  BY <1>2, <1>7 DEF Restart
<1>8. CASE \E kind \in Kinds : StartUpdate(kind)
  BY <1>3, <1>8, StartSteps
<1> QED
  BY <1>5, <1>6, <1>7, <1>8 DEF Next, Submit, SubmitFailed, Evict, ResubmitAnswer, ResubmitError,
     FireTimer, StoreChanges, LatestBlock, NetworkDown, NetworkUp, EndUpdate, Mine, Finalize,
     Persist, vars
LEMMA OvertakenCountedStep ==
  ASSUME Typed, LedgerOrdered, ChecksCounted, OvertakenCounted, [Next]_vars
  PROVE  OvertakenCounted'
<1> SUFFICES ASSUME spent'.reorgs = 0, NEW id \in Txs
             PROVE  /\ NonceIsFree(id)' => Seen(id)' = 0
                    /\ Mined(id)' => Seen(id)' + Cardinality(Overtaken(id)')
                                       <= 1 + spent'.errors + spent'.lags
  BY DEF OvertakenCounted
<1>1. /\ spent.reorgs = 0 /\ ~Reorg
      /\ spent.lags \in Nat /\ spent.errors \in Nat /\ spent'.lags \in Nat /\ spent'.errors \in Nat
      /\ spent'.lags >= spent.lags /\ spent'.errors >= spent.errors
  BY SpentGrows DEF Typed, Spending
<1>2. /\ NonceIsFree(id) => Seen(id) = 0
      /\ Mined(id) => Seen(id) + Cardinality(Overtaken(id)) <= 1 + spent.errors + spent.lags
  BY <1>1 DEF OvertakenCounted
<1>3. /\ Cardinality(Overtaken(id)) \in Nat /\ Cardinality(Overtaken(id)') \in Nat
      /\ Seen(id) \in Nat /\ Cardinality(Overtaken(id)) <= 1 + spent.errors
      /\ IsFiniteSet(Overtaken(id))
  BY <1>1, OvertakenFinite, OvertakenSteps
<1>4. NonceIsFree(id)' => NonceIsFree(id)
  BY <1>1, ChainStable
<1>5. ASSUME Seen(id)' \in {0, Seen(id)}
      PROVE  /\ NonceIsFree(id)' => Seen(id)' = 0
             /\ Mined(id)' => Seen(id)' + Cardinality(Overtaken(id)')
                                <= 1 + spent'.errors + spent'.lags
  <2>1. NonceIsFree(id)' => Seen(id)' = 0
    BY <1>2, <1>4, <1>5
  <2>2. CASE Mined(id)
    <3>1. \/ Cardinality(Overtaken(id)') <= Cardinality(Overtaken(id))
          \/ /\ Cardinality(Overtaken(id)') <= Cardinality(Overtaken(id)) + 1
             /\ spent'.lags = spent.lags + 1
      BY <1>1, <2>2, OvertakenSteps
    <3> QED
      BY <1>1, <1>2, <1>3, <1>5, <2>1, <2>2, <3>1
  <2>3. CASE ~Mined(id) /\ Mined(id)'
    <3>1. Mine(id)
      BY <2>3, ChainStable
    <3>2. NonceOf[id] = Len(ledger) /\ checks' = checks
      BY <3>1, MineEffect, NoneAssumption DEF Mine
    <3>3. Seen(id) = 0 /\ Overtaken(id)' = Overtaken(id)
      BY <1>2, <3>2, LedgerElement DEF NonceIsFree, Overtaken, Typed
    <3> QED
      BY <1>1, <1>3, <1>5, <2>1, <3>3
  <2> QED
    BY <2>1, <2>2, <2>3
<1>6. ASSUME NEW c \in checks, NEW k \in 0 .. Len(ledger), CountAnswer(c, k), c.tx = id
      PROVE  /\ NonceIsFree(id)' => Seen(id)' = 0
             /\ Mined(id)' => Seen(id)' + Cardinality(Overtaken(id)')
                                <= 1 + spent'.errors + spent'.lags
  <2>1. /\ Seen(id)' \in Nat /\ Seen(id)' <= Seen(id) + 1
        /\ NonceIsFree(id) => Seen(id)' <= Seen(id)
        /\ c \notin Overtaken(id) => Seen(id)' <= Seen(id)
    BY <1>6, CountEffect
  <2>2. checks' = checks \ {c} /\ UNCHANGED ledger
    BY <1>6 DEF CountAnswer, CountWithLimit
  <2>3. Seen(id)' + Cardinality(Overtaken(id)') <= Seen(id) + Cardinality(Overtaken(id))
    <3>1. Overtaken(id)' = Overtaken(id) \ {c}
      BY <2>2 DEF Overtaken
    <3>2. Cardinality(Overtaken(id)') =
            IF c \in Overtaken(id) THEN Cardinality(Overtaken(id)) - 1 ELSE Cardinality(Overtaken(id))
      BY <1>3, <3>1, FS_RemoveElement
    <3> QED
      BY <1>3, <2>1, <3>2
  <2>4. Mined(id)' => Mined(id)
    BY <2>2 DEF Mined
  <2>5. NonceIsFree(id)' => Seen(id)' = 0
    BY <1>2, <1>3, <1>4, <2>1
  <2> QED
    BY <1>1, <1>2, <1>3, <2>1, <2>3, <2>4, <2>5
<1>7. CASE UNCHANGED buffer
  BY <1>5, <1>7 DEF Seen
<1>8. CASE Restart
  BY <1>5, <1>8 DEF Restart, Seen
<1>9. CASE \E c \in checks : Answer(c) \/ Failure(c)
  <2>1. PICK c \in checks : Answer(c) \/ Failure(c)
    BY <1>9
  <2>2. CASE \E k \in 0 .. Len(ledger) : CountAnswer(c, k)
    <3>1. PICK k \in 0 .. Len(ledger) : CountAnswer(c, k)
      BY <2>2
    <3>2. CASE c.tx = id
      BY <1>6, <3>1, <3>2
    <3>3. CASE c.tx # id
      BY <1>5, <3>1, <3>3, CountEffect
    <3> QED
      BY <3>2, <3>3
  <2> QED
    BY <1>7, <2>1, <2>2 DEF Answer, Failure, ReceiptAnswer, RiskAnswer, ReceiptError, CountError, RiskError
<1> QED
  BY <1>1, <1>7, <1>8, <1>9, QuietSteps DEF Quiet, Next, Submit, SubmitFailed, StartUpdate, Mine,
     Finalize, Persist

-----------------------------------------------------------------------------
(***************************************************************************)
(* The theorems.                                                           *)
(***************************************************************************)

LEMMA InitPttInv == Init => PttInv
<1> SUFFICES ASSUME Init PROVE PttInv
  OBVIOUS
<1>1. Typed
  BY InitTyped
<1>2. Len(ledger) = 0 /\ final = 0 /\ checks = {} /\ \A id \in sending : status[id] = "signed"
  BY <1>1, EmptySeq DEF Init
<1>3. \A id \in Txs : ~Mined(id) /\ status[id] = "signed" /\ disk.status[id] = "signed"
                      /\ receipt[id] = None /\ disk.receipt[id] = None /\ Seen(id) = 0
  BY <1>2 DEF Init, Mined, Seen
<1>4. LedgerOrdered /\ ConfirmedSettled /\ SendersUnknown /\ AskedUnconfirmed
  BY <1>2, <1>3 DEF LedgerOrdered, ConfirmedSettled, SendersUnknown, AskedUnconfirmed
<1>5. ChecksCounted
  <2>1. \A id \in Txs : Stale(id) = {}
    BY <1>2 DEF Stale
  <2>2. spent.errors = 0
    BY DEF Init
  <2>3. \A id \in Txs : Cardinality(Stale(id)) <= spent.errors
    BY <2>1, <2>2, FS_EmptySet
  <2> QED
    BY <1>2, <2>3, FS_EmptySet DEF ChecksCounted
<1>6. DropInv
  BY <1>2, <1>3 DEF DropInv, ReceiptsTrue, OvertakenCounted, DroppedDead, Completed
<1> QED
  BY <1>1, <1>4, <1>5, <1>6 DEF PttInv, FinalInv

LEMMA NextPttInv == PttInv /\ [Next]_vars => PttInv'
BY NextTyped, LedgerOrderedStep, ConfirmedSettledStep, ChecksCountedStep, SendersUnknownStep,
   AskedUnconfirmedStep, ReceiptsTrueStep, OvertakenCountedStep, DroppedDeadStep
   DEF PttInv, FinalInv, DropInv

LEMMA PttInvariant == Spec => []PttInv
BY InitPttInv, NextPttInv, PTL DEF Spec

(* The bounds on failures are kept. *)
Bounded ==
  spent.reorgs <= MaxReorgs /\ spent.lags <= MaxLags /\ spent.errors <= MaxErrors

LEMMA SpendBounded ==
  ASSUME Typed, Bounded, NEW what \in {"reorgs", "evicted", "lags", "errors", "switches", "crashes"},
         NEW max \in Nat, Spend(what, max),
         what = "reorgs" => max = MaxReorgs, what = "lags" => max = MaxLags,
         what = "errors" => max = MaxErrors
  PROVE  Bounded'
<1>1. spent[what] < max /\ spent'[what] = spent[what] + 1 /\ spent[what] \in Nat
  BY SpendType DEF Spend, Typed, Spending
<1>2. \A w \in {"reorgs", "lags", "errors"} \ {what} : spent'[w] = spent[w]
  BY SpendType DEF Typed
<1>3. \A w \in {"reorgs", "lags", "errors"} :
        spent[w] \in Nat /\ (w = what => spent'[w] <= max)
  BY <1>1 DEF Typed, Spending
<1> QED
  BY <1>2, <1>3 DEF Bounded

LEMMA BoundedStep == Typed /\ Bounded /\ [Next]_vars => Bounded'
<1> SUFFICES ASSUME Typed, Bounded, [Next]_vars PROVE Bounded'
  OBVIOUS
<1> USE BoundsAssumption
<1>1. CASE UNCHANGED spent
  BY <1>1 DEF Bounded
<1>2. CASE \/ Spend("switches", MaxSwitches) \/ Spend("crashes", MaxCrashes)
           \/ Spend("evicted", MaxEvicted) \/ Spend("errors", MaxErrors)
           \/ Spend("lags", MaxLags) \/ Spend("reorgs", MaxReorgs)
  BY <1>2, SpendBounded
<1>3. CASE \E c \in checks : Answer(c) \/ Failure(c)
  BY <1>1, <1>2, <1>3 DEF Answer, Failure, ReceiptAnswer, CountAnswer, CountWithLimit, RiskAnswer,
     ReceiptError, CountError, RiskError, View
<1> QED
  BY <1>1, <1>2, <1>3 DEF Next, Submit, SubmitFailed, Evict, ResubmitAnswer, ResubmitError,
     FireTimer, StoreChanges, LatestBlock, NetworkDown, NetworkUp, StartUpdate, EndUpdate, Mine,
     Finalize, Reorg, Persist, Restart, vars

LEMMA BoundsKept == Spec => []Bounded
<1>1. Init => Bounded
  BY BoundsAssumption DEF Init, Bounded
<1>2. Spec => []Typed
  BY InitTyped, NextTyped, PTL DEF Spec
<1> QED
  BY <1>1, <1>2, BoundedStep, PTL DEF Spec

(***************************************************************************)
(* Every entry, check, answer and counter of the tracker stays in its type. *)
(***************************************************************************)
THEOREM TrackerTyped == Spec => []TypeOK
<1>1. PttInv => TypeOK
  BY DEF PttInv, Typed
<1> QED
  BY <1>1, PttInvariant, PTL

(* A step moves no confirmed transaction but by starting again. *)
LEMMA ConfirmedStays ==
  ASSUME PttInv, [Next]_vars, spent.errors = 0, NEW id \in Txs, status[id] = "confirmed"
  PROVE  status'[id] = "confirmed" \/ spent'.crashes # spent.crashes
<1>1. Settled(id) /\ id \in Txs
  BY DEF PttInv, FinalInv, ConfirmedSettled
<1>2. ~ByApproval(id) /\ ~ByUpdate(id)
  BY DEF ByApproval, ByUpdate, PttInv, FinalInv, SendersUnknown
<1>3. ~ByCount(id)
  BY DEF ByCount, PttInv, FinalInv, AskedUnconfirmed
<1>4. ASSUME ByRisk(id) PROVE FALSE
  <2>1. PICK c \in checks : /\ IsFinal(c.tx, c.rcpt) /\ status[c.tx] = "executed"
                            /\ id = c.tx \/ id \in Duplicates(c.tx)
    BY <1>4 DEF ByRisk
  <2>2. c.tx \in Duplicates(id) /\ Mined(c.tx) /\ Mined(id)
    BY <1>1, <2>1, FinalIsSettled, MinedPlace, CheckFields DEF Duplicates, PttInv, FinalInv, Typed
  <2> QED
    BY <2>2, MinedIsUnique DEF PttInv, FinalInv
<1> QED
  BY <1>2, <1>3, <1>4, StatusSteps DEF PttInv, ByRestart

(***************************************************************************)
(* "confirmed" is the end, whatever nodes lag and blocks are taken back, as *)
(* long as no query has failed: of a transaction all of whose checks are    *)
(* waited for, none that asks for a receipt outlives its confirmation, and  *)
(* of the transactions with one nonce only one is ever settled.             *)
(***************************************************************************)
THEOREM ConfirmedUntilError ==
  Spec => [][spent.errors = 0 =>
               \A id \in Txs : status[id] = "confirmed" =>
                 status'[id] = "confirmed" \/ spent'.crashes # spent.crashes]_vars
<1>1. PttInv /\ [Next]_vars =>
        [spent.errors = 0 =>
           \A id \in Txs : status[id] = "confirmed" =>
             status'[id] = "confirmed" \/ spent'.crashes # spent.crashes]_vars
  BY ConfirmedStays
<1> QED
  BY <1>1, PttInvariant, PTL DEF Spec

(* The same, where no query ever fails. *)
THEOREM ConfirmedForGood ==
  ASSUME MaxErrors = 0
  PROVE  Spec => ConfirmedIsFinal
<1>1. PttInv /\ Bounded => spent.errors = 0
  BY DEF Bounded, PttInv, Typed, Spending
<1>2. PttInv /\ Bounded /\ [Next]_vars =>
        [\A id \in Txs : status[id] = "confirmed" =>
           status'[id] = "confirmed" \/ spent'.crashes # spent.crashes]_vars
  BY <1>1, ConfirmedStays
<1> QED
  BY <1>2, PttInvariant, BoundsKept, PTL DEF Spec, ConfirmedIsFinal

(***************************************************************************)
(* On a chain that took nothing back, a transaction is not given up as long *)
(* as at most two answers were late or failed: the buffer of three absorbs  *)
(* them, however they are spread over nodes, calls and restarts.            *)
(***************************************************************************)
THEOREM DroppedWhileTwoFail ==
  Spec => [](spent.reorgs = 0 /\ spent.lags + spent.errors <= 2 => DroppedIsDead)
<1>1. PttInv => (spent.reorgs = 0 /\ spent.lags + spent.errors <= 2 => DroppedIsDead)
  BY DEF PttInv, DropInv, DroppedDead, DroppedIsDead, Dead
<1> QED
  BY <1>1, PttInvariant, PTL

(* The same, of a chain and nodes that behave so for ever. *)
THEOREM DroppedOnlyDead ==
  ASSUME MaxReorgs = 0, MaxLags + MaxErrors <= 2
  PROVE  Spec => []DroppedIsDead
<1>1. PttInv /\ Bounded => spent.reorgs = 0 /\ spent.lags + spent.errors <= 2
  BY BoundsAssumption DEF Bounded, PttInv, Typed, Spending
<1> QED
  BY <1>1, PttInvariant, BoundsKept, DroppedWhileTwoFail, PTL
=============================================================================
