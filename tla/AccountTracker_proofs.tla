------------------------ MODULE AccountTracker_proofs ------------------------
(***************************************************************************)
(* Proofs about AccountTracker, for every set of accounts, endpoints and   *)
(* chains, every number of windows and every order of events and answers.  *)
(***************************************************************************)
EXTENDS AccountTracker, TLAPS

USE ViewAssumption, BalancesAssumption DEF view

Balances == Chains \cup {Untracked, Empty}

CacheType == [Chains -> [Accounts -> Chains \cup {None}]]

ViewTyped ==
  /\ at \in Endpoints
  /\ network \in Chains \cup {Loading}
  /\ raced \in BOOLEAN

AcctTyped ==
  /\ keyring \subseteq Accounts
  /\ removing \subseteq Accounts
  /\ tracked \in [Accounts -> Balances]
  /\ queries \subseteq Queries
  /\ block \in BOOLEAN
  /\ blockSeen \in BOOLEAN
  /\ conns \in Nat
  /\ cached \in CacheType
  /\ events \in Nat

AcctInv == ViewTyped /\ AcctTyped /\ AccountsTracked

(* What every step does with the balances. *)
BalancesStep ==
  /\ tracked' \in [Accounts -> Balances]
  /\ cached' \in CacheType
  /\ queries' \subseteq Queries

-----------------------------------------------------------------------------
(* The operators. *)

LEMMA UpdateStoreType ==
  ASSUME ViewTyped, AcctTyped, NEW tr \in [Accounts -> Balances], UpdateStore(tr)
  PROVE  tracked' = tr /\ cached' \in CacheType
<1>1. tracked' = tr
  BY DEF UpdateStore
<1>2. CASE network = Loading
  BY <1>1, <1>2 DEF UpdateStore, CacheBalances, AcctTyped
<1>3. CASE network # Loading
  <2> DEFINE row == [a \in Accounts |-> IF tr[a] \in Chains THEN tr[a]
                                        ELSE cached[network][a]]
  <2>1. network \in Chains
    BY <1>3 DEF ViewTyped
  <2>2. row \in [Accounts -> Chains \cup {None}]
    BY <2>1 DEF AcctTyped, CacheType
  <2>3. cached' = [cached EXCEPT ![network] = row]
    BY <1>3 DEF UpdateStore, CacheBalances
  <2> QED
    BY <1>1, <2>1, <2>2, <2>3 DEF AcctTyped, CacheType
<1> QED
  BY <1>2, <1>3

LEMMA TrackedType == \A tr : Tracked(tr) \subseteq Accounts
BY DEF Tracked

LEMMA AskType ==
  ASSUME NEW qs \in SUBSET Queries, NEW e \in Endpoints, NEW addrs \in SUBSET Accounts
  PROVE  AskBalances(qs, e, addrs) \in SUBSET Queries
BY DEF AskBalances, Queries

LEMMA CountType == ASSUME AcctTyped, Count PROVE events' \in Nat
BY DEF AcctTyped, Count

(* syncWithAddresses tracks exactly the addresses it is given. *)
LEMMA SyncFacts ==
  ASSUME ViewTyped, AcctTyped, NEW addrs \in SUBSET Accounts,
         SyncWithAddresses(addrs)
  PROVE  /\ BalancesStep
         /\ Tracked(tracked') = addrs
<1> DEFINE tr == [a \in Accounts |->
                    IF a \notin addrs THEN Untracked
                    ELSE IF tracked[a] = Untracked THEN Empty ELSE tracked[a]]
<1>1. tr \in [Accounts -> Balances]
  BY DEF AcctTyped, Balances
<1>2. tracked' = tr /\ cached' \in CacheType
  BY <1>1, UpdateStoreType DEF SyncWithAddresses
<1>3. queries' \subseteq Queries
  BY AskType, TrackedType, Tracked(tracked) \cup addrs \in SUBSET Accounts
     DEF SyncWithAddresses, ViewTyped, AcctTyped
<1>4. Tracked(tr) = addrs
  BY DEF Tracked, Untracked, Empty
<1> QED
  BY <1>1, <1>2, <1>3, <1>4 DEF BalancesStep

(* An answer never makes an account untracked. *)
LEMMA AnswerFacts ==
  ASSUME ViewTyped, AcctTyped, NEW q \in Queries,
         UpdateStore([a \in Accounts |-> IF a \in q.addrs THEN ChainOf[q.at]
                                         ELSE tracked[a]])
  PROVE  /\ tracked' \in [Accounts -> Balances]
         /\ cached' \in CacheType
         /\ Tracked(tracked) \subseteq Tracked(tracked')
<1> DEFINE tr == [a \in Accounts |-> IF a \in q.addrs THEN ChainOf[q.at]
                                     ELSE tracked[a]]
<1>1. ChainOf[q.at] \in Chains
  BY DEF Queries
<1>2. tr \in [Accounts -> Balances]
  BY <1>1 DEF AcctTyped, Balances
<1>3. tracked' = tr /\ cached' \in CacheType
  BY <1>2, UpdateStoreType
<1>4. Tracked(tracked) \subseteq Tracked(tr)
  BY <1>1 DEF Tracked
<1> QED
  BY <1>2, <1>3, <1>4

-----------------------------------------------------------------------------
(* The invariant. *)

LEMMA AcctInitInv == Init => AcctInv
<1> SUFFICES ASSUME Init PROVE AcctInv
  OBVIOUS
<1>1. ViewTyped
  BY DEF Init, ViewInit, ViewTyped
<1>2. AcctTyped
  BY DEF Init, AcctTyped, CacheType, Balances
<1>3. AccountsTracked
  BY DEF Init, AccountsTracked, Tracked, Untracked, Empty
<1> QED
  BY <1>1, <1>2, <1>3 DEF AcctInv

LEMMA NetworkKeeps == ASSUME AcctInv, NetworkChanges PROVE AcctInv'
<1> USE DEF AcctInv
<1>1. ViewTyped'
  BY DEF NetworkChanges, Change, Found, ViewTyped
<1>2. queries' \subseteq Queries
  BY <1>1, AskType, TrackedType DEF NetworkChanges, AcctTyped, ViewTyped
<1>3. events' \in Nat
  BY CountType DEF NetworkChanges, AcctTyped
<1>4. /\ UNCHANGED <<keyring, removing, tracked, block, blockSeen, conns, cached>>
  BY DEF NetworkChanges
<1> QED
  BY <1>1, <1>2, <1>3, <1>4 DEF AcctTyped, AccountsTracked

LEMMA ConnectionKeeps ==
  ASSUME AcctInv, OpenConnection \/ CloseConnection PROVE AcctInv'
<1> USE DEF AcctInv
<1>1. queries' \subseteq Queries
  BY AskType, TrackedType DEF OpenConnection, CloseConnection, AcctTyped, ViewTyped
<1>2. conns' \in Nat
  BY DEF OpenConnection, CloseConnection, AcctTyped
<1>3. UNCHANGED <<view, keyring, removing, tracked, block, blockSeen, cached, events>>
  BY DEF OpenConnection, CloseConnection
<1> QED
  BY <1>1, <1>2, <1>3 DEF ViewTyped, AcctTyped, AccountsTracked

LEMMA BlockKeeps ==
  ASSUME AcctInv, Latest \/ BlockAnswer \/ BlockMissing PROVE AcctInv'
<1> USE DEF AcctInv
<1>1. CASE Latest
  <2>1. block' \in BOOLEAN /\ blockSeen' \in BOOLEAN
    BY <1>1 DEF Latest
  <2>2. UNCHANGED <<view, keyring, removing, tracked, queries, conns, cached, events>>
    BY <1>1 DEF Latest
  <2> QED
    BY <2>1, <2>2 DEF ViewTyped, AcctTyped, AccountsTracked
<1>2. CASE BlockAnswer
  <2>1. tracked' = tracked /\ cached' \in CacheType
    BY <1>2, UpdateStoreType DEF BlockAnswer, AcctTyped
  <2>2. queries' \subseteq Queries
    BY <1>2, AskType, TrackedType DEF BlockAnswer, AcctTyped, ViewTyped
  <2>3. /\ UNCHANGED <<view, keyring, removing, blockSeen, conns, events>>
        /\ block' = FALSE
    BY <1>2 DEF BlockAnswer
  <2> QED
    BY <2>1, <2>2, <2>3 DEF ViewTyped, AcctTyped, AccountsTracked
<1>3. CASE BlockMissing
  <2>1. events' \in Nat
    BY <1>3, CountType DEF BlockMissing
  <2>2. /\ block' = FALSE
        /\ UNCHANGED <<view, keyring, removing, tracked, queries, blockSeen, conns,
                       cached>>
    BY <1>3 DEF BlockMissing
  <2> QED
    BY <2>1, <2>2 DEF ViewTyped, AcctTyped, AccountsTracked
<1> QED
  BY <1>1, <1>2, <1>3

LEMMA QueryKeeps == ASSUME AcctInv, NEW q \in Queries, QueryEnds(q) PROVE AcctInv'
<1> USE DEF AcctInv
<1>1. CASE ContractAnswer(q)
  <2>1. /\ tracked' \in [Accounts -> Balances]
        /\ cached' \in CacheType
        /\ Tracked(tracked) \subseteq Tracked(tracked')
    BY <1>1, AnswerFacts DEF ContractAnswer
  <2>2. queries' \subseteq Queries
    BY <1>1 DEF ContractAnswer, AcctTyped
  <2>3. UNCHANGED <<view, keyring, removing, block, blockSeen, conns, events>>
    BY <1>1 DEF ContractAnswer
  <2> QED
    BY <2>1, <2>2, <2>3 DEF ViewTyped, AcctTyped, AccountsTracked
<1>2. CASE ContractFails(q)
  <2>1. queries' \subseteq Queries
    BY <1>2 DEF ContractFails, AcctTyped, ViewTyped, Queries
  <2>2. UNCHANGED <<view, keyring, removing, tracked, block, blockSeen, conns, cached,
                    events>>
    BY <1>2 DEF ContractFails
  <2> QED
    BY <2>1, <2>2 DEF ViewTyped, AcctTyped, AccountsTracked
<1>3. CASE NodeAnswer(q)
  <2>1. /\ tracked' \in [Accounts -> Balances]
        /\ cached' \in CacheType
        /\ Tracked(tracked) \subseteq Tracked(tracked')
    BY <1>3, AnswerFacts DEF NodeAnswer, AcctTyped
  <2>2. queries' \subseteq Queries
    BY <1>3 DEF NodeAnswer, AcctTyped
  <2>3. UNCHANGED <<view, keyring, removing, block, blockSeen, conns, events>>
    BY <1>3 DEF NodeAnswer
  <2> QED
    BY <2>1, <2>2, <2>3 DEF ViewTyped, AcctTyped, AccountsTracked
<1>4. CASE NodeFails(q)
  <2>1. events' \in Nat
    BY <1>4, CountType DEF NodeFails
  <2>2. /\ queries' \subseteq queries
        /\ UNCHANGED <<view, keyring, removing, tracked, block, blockSeen, conns,
                       cached>>
    BY <1>4 DEF NodeFails
  <2> QED
    BY <2>1, <2>2 DEF ViewTyped, AcctTyped, AccountsTracked
<1> QED
  BY <1>1, <1>2, <1>3, <1>4 DEF QueryEnds

(* The keyrings and the tracker change together, but for a removal. *)
LEMMA KeyringUpdateFacts ==
  ASSUME AcctInv, NEW accounts \in SUBSET Accounts, KeyringUpdate(accounts),
         events' \in Nat
  PROVE  AcctInv'
<1> USE DEF AcctInv
<1>1. BalancesStep /\ Tracked(tracked') = accounts
  BY SyncFacts DEF KeyringUpdate
<1>2. keyring' = accounts /\ removing' = {} /\ UNCHANGED <<view, block, blockSeen, conns>>
  BY DEF KeyringUpdate
<1> QED
  BY <1>1, <1>2 DEF BalancesStep, ViewTyped, AcctTyped, AccountsTracked

LEMMA AccountsKeep ==
  ASSUME AcctInv, NEW a \in Accounts,
         AddAccount(a) \/ RemoveAccount(a) \/ KeyringRemoves(a)
  PROVE  AcctInv'
<1> USE DEF AcctInv
<1>0. keyring \in SUBSET Accounts
  BY DEF AcctTyped
<1>1. CASE AddAccount(a)
  BY <1>0, <1>1, CountType, KeyringUpdateFacts, keyring \cup {a} \in SUBSET Accounts
     DEF AddAccount
<1>2. CASE KeyringRemoves(a)
  BY <1>0, <1>2, KeyringUpdateFacts, keyring \ {a} \in SUBSET Accounts
     DEF KeyringRemoves, AcctTyped
<1>3. CASE RemoveAccount(a)
  <2> DEFINE tr == [tracked EXCEPT ![a] = Untracked]
  <2>1. tr \in [Accounts -> Balances]
    BY DEF AcctTyped, Balances
  <2>2. tracked' = tr /\ cached' \in CacheType
    BY <1>3, <2>1, UpdateStoreType DEF RemoveAccount
  <2>3. Tracked(tracked) \ {a} \subseteq Tracked(tr)
    BY DEF Tracked, AcctTyped
  <2>4. /\ removing' = removing \cup {a} /\ events' \in Nat
        /\ UNCHANGED <<view, keyring, queries, block, blockSeen, conns>>
    BY <1>3, CountType DEF RemoveAccount
  <2> QED
    BY <2>1, <2>2, <2>3, <2>4 DEF ViewTyped, AcctTyped, AccountsTracked
<1> QED
  BY <1>1, <1>2, <1>3

LEMMA UnlockKeeps == ASSUME AcctInv, Unlock PROVE AcctInv'
<1>1. keyring \in SUBSET Accounts /\ AcctTyped
  BY DEF AcctInv, AcctTyped
<1> QED
  BY <1>1, CountType, KeyringUpdateFacts DEF Unlock

LEMMA HardwareKeeps ==
  ASSUME AcctInv, NEW listed \in SUBSET Accounts, ConnectHardware(listed)
  PROVE  AcctInv'
<1> USE DEF AcctInv
<1>1. keyring \cup listed \in SUBSET Accounts
  BY DEF AcctTyped
<1>2. BalancesStep /\ Tracked(tracked') = keyring \cup listed
  BY <1>1, SyncFacts DEF ConnectHardware
<1>3. /\ removing' = {} /\ events' \in Nat
      /\ UNCHANGED <<view, keyring, block, blockSeen, conns>>
  BY CountType DEF ConnectHardware
<1> QED
  BY <1>2, <1>3 DEF BalancesStep, ViewTyped, AcctTyped, AccountsTracked

LEMMA AcctInvariant == Spec => []AcctInv
<1>1. AcctInv /\ [Next]_vars => AcctInv'
  <2> SUFFICES ASSUME AcctInv, [Next]_vars PROVE AcctInv'
    OBVIOUS
  <2>1. CASE Next
    BY <2>1, NetworkKeeps, ConnectionKeeps, BlockKeeps, QueryKeeps, AccountsKeep,
       UnlockKeeps, HardwareKeeps DEF Next
  <2>2. CASE UNCHANGED vars
    BY <2>2 DEF vars, acctVars, AcctInv, ViewTyped, AcctTyped, AccountsTracked
  <2> QED
    BY <2>1, <2>2
<1> QED
  BY <1>1, AcctInitInv, PTL DEF Spec

-----------------------------------------------------------------------------

(***************************************************************************)
(* The state keeps its type; in particular the count of connections, which *)
(* decides whether blocks are followed, is that of windows open.           *)
(***************************************************************************)
THEOREM AccountTrackerTyped == Spec => []AcctTypeOK
<1>1. AcctInv => AcctTypeOK
  BY DEF AcctInv, ViewTyped, AcctTyped, Balances, CacheType, AcctTypeOK
<1> QED
  BY <1>1, AcctInvariant, PTL

(***************************************************************************)
(* Every account of the keyrings is tracked, whichever query is answered   *)
(* in between, except one whose removal is not reported yet.               *)
(***************************************************************************)
THEOREM KeyringIsTracked == Spec => []AccountsTracked
<1>1. AcctInv => AccountsTracked
  BY DEF AcctInv
<1> QED
  BY <1>1, AcctInvariant, PTL
=============================================================================
