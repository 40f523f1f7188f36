--------------------------- MODULE AccountTracker ---------------------------
(***************************************************************************)
(* The account tracker (app/scripts/lib/account-tracker.js) and the cache  *)
(* of balances (controllers/cached-balances.js), on top of NetworkView,    *)
(* what they see of the network controller: which accounts are tracked,    *)
(* the balance queries under way, the network each answer is filed under,  *)
(* and the events that start a query (a change of network, a block, a      *)
(* window, a change of the keyrings).                                      *)
(*                                                                         *)
(* A balance is abstracted to the chain it was read from.                  *)
(***************************************************************************)
EXTENDS NetworkView, Naturals, FiniteSets

CONSTANTS
  None,         \* undefined
  Accounts,     \* addresses the keyrings may hold, or a device may list
  FirstKeyring, \* what the keyrings hold at the start
  MaxConns,     \* bound: connections of windows of the wallet
  MaxWaiting,   \* bound: queries that wait while new blocks come
  MaxEvents     \* bound: changes of the provider and of the accounts, and
                \* queries that fail altogether

Untracked == "untracked"
Empty     == "empty"

ASSUME ViewAssumption ==
  Start \in Endpoints /\ Loading \notin Chains /\ ChainOf \in [Endpoints -> Chains]
ASSUME BalancesAssumption ==
  FirstKeyring \subseteq Accounts /\ {Untracked, Empty} \cap Chains = {}

VARIABLES
  keyring,    \* accounts of the keyrings
  removing,   \* removed by removeAccount, the keyrings have not reported since
  tracked,    \* store.accounts: untracked, {} or the balance's chain
  queries,    \* balance queries that wait, by kind
  block,      \* _updateForBlock waits for the block
  blockSeen,  \* _currentBlockNumber is known
  conns,      \* activeControllerConnections
  cached,     \* cachedBalances, by network and account
  events      \* counts changes and failures

acctVars == <<keyring, removing, tracked, queries, block, blockSeen, conns,
              cached, events>>
vars == <<view, acctVars>>

(* balances() of the checker contract, or one cfx_getBalance per account. *)
Queries == [via : {"contract", "node"}, at : Endpoints, addrs : SUBSET Accounts]

AcctTypeOK ==
  /\ at \in Endpoints
  /\ network \in Chains \cup {Loading}
  /\ raced \in BOOLEAN
  /\ keyring \subseteq Accounts
  /\ removing \subseteq Accounts
  /\ tracked \in [Accounts -> Chains \cup {Untracked, Empty}]
  /\ queries \subseteq Queries
  /\ block \in BOOLEAN
  /\ blockSeen \in BOOLEAN
  /\ conns \in Nat
  /\ cached \in [Chains -> [Accounts -> Chains \cup {None}]]
  /\ events \in Nat

Init ==
  /\ ViewInit
  /\ keyring = FirstKeyring
  /\ removing = {}
  /\ tracked = [a \in Accounts |-> IF a \in keyring THEN Empty ELSE Untracked]
  /\ queries = {}
  /\ block = FALSE
  /\ blockSeen = FALSE
  /\ conns = 0
  /\ cached = [n \in Chains |-> [a \in Accounts |-> None]]
  /\ events = 0

(* The bound on what disturbs the tracker. *)
Count == events < MaxEvents /\ events' = events + 1

Tracked(tr) == {a \in Accounts : tr[a] # Untracked}

-----------------------------------------------------------------------------

(***************************************************************************)
(* updateCachedBalances, on every update of the store: all known balances  *)
(* are filed under the network of the moment, unless it is loading.        *)
(***************************************************************************)
CacheBalances(tr) ==
  cached' = IF network = Loading THEN cached
            ELSE [cached EXCEPT ![network] =
                   [a \in Accounts |-> IF tr[a] \in Chains THEN tr[a] ELSE @[a]]]

UpdateStore(tr) == tracked' = tr /\ CacheBalances(tr)

(***************************************************************************)
(* _updateAccounts asks the node behind the provider about addrs.  Equal   *)
(* queries that wait at the same time count once.                          *)
(***************************************************************************)
AskBalances(qs, e, addrs) ==
  qs \cup {[via |-> "contract", at |-> e, addrs |-> addrs]}

(***************************************************************************)
(* networkDidChange, emitted when the user switches and again when the     *)
(* network is found: the client in use is asked for every balance.         *)
(***************************************************************************)
NetworkChanges ==
  /\ \/ \E e \in Endpoints : Change(e) /\ Count
     \/ \E n \in Chains : Found(n) /\ UNCHANGED events
  /\ queries' = AskBalances(queries, at', Tracked(tracked))
  /\ UNCHANGED <<keyring, removing, tracked, block, blockSeen, conns, cached>>

-----------------------------------------------------------------------------

(* A window of the wallet opens: start, with a listener for new blocks ... *)
OpenConnection ==
  /\ conns < MaxConns
  /\ conns' = conns + 1
  /\ queries' = AskBalances(queries, at, Tracked(tracked))
  /\ UNCHANGED <<view, keyring, removing, tracked, block, blockSeen, cached,
                 events>>

(* Mutant of CloseConnection: the end of a connection may be counted twice. *)
CloseTwice ==
  /\ conns' = conns - 1
  /\ queries' = IF conns > 1 THEN AskBalances(queries, at, Tracked(tracked))
                ELSE queries
  /\ UNCHANGED <<view, keyring, removing, tracked, block, blockSeen, cached,
                 events>>

(* ... and closes: start again if another one is open, else stop. *)
CloseConnection ==
  /\ conns > 0
  /\ conns' = conns - 1
  /\ queries' = IF conns > 1 THEN AskBalances(queries, at, Tracked(tracked))
                ELSE queries
  /\ UNCHANGED <<view, keyring, removing, tracked, block, blockSeen, cached,
                 events>>

(* 'latest' of the block tracker: _updateForBlock asks for the block. *)
Latest ==
  /\ ~block
  /\ Cardinality(queries) < MaxWaiting
  /\ blockSeen' = TRUE
  /\ block' = (conns > 0)
  /\ UNCHANGED <<view, keyring, removing, tracked, queries, conns, cached,
                 events>>

(* Mutant of BlockAnswer: only the gas limit is stored. *)
BlockAnswerUnasked ==
  /\ block
  /\ block' = FALSE
  /\ UpdateStore(tracked)
  /\ UNCHANGED <<view, keyring, removing, queries, blockSeen, conns, events>>

(* The block is there: the gas limit is stored, the balances are asked for. *)
BlockAnswer ==
  /\ block
  /\ block' = FALSE
  /\ UpdateStore(tracked)
  /\ queries' = AskBalances(queries, at, Tracked(tracked))
  /\ UNCHANGED <<view, keyring, removing, blockSeen, conns, events>>

BlockMissing ==
  /\ block
  /\ Count
  /\ block' = FALSE
  /\ UNCHANGED <<view, keyring, removing, tracked, queries, blockSeen, conns,
                 cached>>

(* Mutant of ContractAnswer: the accounts known when it was asked return. *)
AnswerReplacesAll(q) ==
  /\ q.via = "contract" /\ q \in queries
  /\ queries' = queries \ {q}
  /\ UpdateStore([a \in Accounts |-> IF a \in q.addrs THEN ChainOf[q.at]
                                     ELSE Untracked])
  /\ UNCHANGED <<view, keyring, removing, block, blockSeen, conns, events>>

(* All accounts asked about get their balance, those removed since too. *)
ContractAnswer(q) ==
  /\ q.via = "contract" /\ q \in queries
  /\ queries' = queries \ {q}
  /\ UpdateStore([a \in Accounts |-> IF a \in q.addrs THEN ChainOf[q.at]
                                     ELSE tracked[a]])
  /\ UNCHANGED <<view, keyring, removing, block, blockSeen, conns, events>>

(* No such contract, or an error: each account is asked for on its own. *)
ContractFails(q) ==
  /\ q.via = "contract" /\ q \in queries
  /\ queries' = (queries \ {q})
       \cup {[via |-> "node", at |-> at, addrs |-> {a}] : a \in q.addrs}
  /\ UNCHANGED <<view, keyring, removing, tracked, block, blockSeen, conns,
                 cached, events>>

(* _updateAccount: the balance of an account that is still tracked. *)
NodeAnswer(q) ==
  /\ q.via = "node" /\ q \in queries
  /\ queries' = queries \ {q}
  /\ IF q.addrs \subseteq Tracked(tracked)
     THEN UpdateStore([a \in Accounts |-> IF a \in q.addrs THEN ChainOf[q.at]
                                          ELSE tracked[a]])
     ELSE UNCHANGED <<tracked, cached>>
  /\ UNCHANGED <<view, keyring, removing, block, blockSeen, conns, events>>

NodeFails(q) ==
  /\ q.via = "node" /\ q \in queries
  /\ Count
  /\ queries' = queries \ {q}
  /\ UNCHANGED <<view, keyring, removing, tracked, block, blockSeen, conns,
                 cached>>

-----------------------------------------------------------------------------

(***************************************************************************)
(* syncWithAddresses: the new ones are added and, once a block is known,   *)
(* everyone's balance is asked for; then the others are removed.           *)
(***************************************************************************)
SyncWithAddresses(addrs) ==
  /\ UpdateStore([a \in Accounts |->
       IF a \notin addrs THEN Untracked
       ELSE IF tracked[a] = Untracked THEN Empty ELSE tracked[a]])
  /\ queries' = IF blockSeen
                THEN AskBalances(queries, at, Tracked(tracked) \cup addrs)
                ELSE queries

(* _onKeyringControllerUpdate: an account was added, removed, or unlocked. *)
KeyringUpdate(accounts) ==
  /\ accounts # {}
  /\ keyring' = accounts
  /\ removing' = {}
  /\ SyncWithAddresses(accounts)
  /\ UNCHANGED <<view, block, blockSeen, conns>>

AddAccount(a) == a \notin keyring /\ KeyringUpdate(keyring \cup {a}) /\ Count

Unlock == KeyringUpdate(keyring) /\ Count

(* removeAccount takes it out of the tracker, then asks the keyrings to. *)
RemoveAccount(a) ==
  /\ Count
  /\ a \in keyring
  /\ removing' = removing \cup {a}
  /\ UpdateStore([tracked EXCEPT ![a] = Untracked])
  /\ UNCHANGED <<view, keyring, queries, block, blockSeen, conns>>

KeyringRemoves(a) ==
  /\ a \in removing \cap keyring
  /\ KeyringUpdate(keyring \ {a})
  /\ UNCHANGED events

(* connectHardware lists accounts of a device and tracks them meanwhile. *)
ConnectHardware(listed) ==
  /\ Count
  /\ removing' = {}
  /\ SyncWithAddresses(keyring \cup listed)
  /\ UNCHANGED <<view, keyring, block, blockSeen, conns>>

-----------------------------------------------------------------------------

QueryEnds(q) ==
  ContractAnswer(q) \/ ContractFails(q) \/ NodeAnswer(q) \/ NodeFails(q)

Next ==
  \/ NetworkChanges
  \/ OpenConnection \/ CloseConnection
  \/ Latest \/ BlockAnswer \/ BlockMissing
  \/ \E q \in Queries : QueryEnds(q)
  \/ \E a \in Accounts : AddAccount(a) \/ RemoveAccount(a) \/ KeyringRemoves(a)
  \/ Unlock
  \/ \E listed \in SUBSET Accounts : ConnectHardware(listed)

Spec == Init /\ [][Next]_vars

(* Blocks keep coming, and every query ends. *)
FairSpec ==
  /\ Spec
  /\ WF_vars(Latest)
  /\ WF_vars(BlockAnswer \/ BlockMissing)
  /\ \A q \in Queries : WF_vars(QueryEnds(q))

-----------------------------------------------------------------------------
(***************************************************************************)
(* Properties.                                                             *)
(***************************************************************************)

(***************************************************************************)
(* Every account of the keyrings is tracked, whichever query is answered   *)
(* in between, except one whose removal began and which the keyrings have  *)
(* not reported about since.                                               *)
(***************************************************************************)
AccountsTracked == keyring \ removing \subseteq Tracked(tracked)

(***************************************************************************)
(* While a window is open and the network settled, the balances cached for *)
(* a network of the accounts the keyrings keep are in the end those of its *)
(* own chain, though balances of another chain may be filed under it for a *)
(* while after a switch.                                                   *)
(***************************************************************************)
CacheConverges ==
  <>[](conns > 0 /\ network # Loading /\ ~raced)
    => <>[](/\ network # Loading
            /\ \A a \in keyring \ removing : cached[network][a] = network)
=============================================================================
