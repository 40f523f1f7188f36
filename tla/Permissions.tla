----------------------------- MODULE Permissions -----------------------------
(***************************************************************************)
(* Which accounts the pages know: the permissions controller               *)
(* (app/scripts/controllers/permissions), the connections of pages that    *)
(* metamask-controller.js keeps by origin and notifies, and the requests   *)
(* of pages that wait for the user.                                        *)
(*                                                                         *)
(* rpc-cap keeps the permission of each origin, one caveat with the        *)
(* accounts it was given.  The keyrings answer within the turn of the      *)
(* event loop in which they are asked, so a call that only asks them is    *)
(* one step.  The order of the accounts of an origin is left out.          *)
(*                                                                         *)
(* An account is written in more than one way, and pages and history get   *)
(* what is written.  Notifications and wallet_requestPermissions write it  *)
(* in hex; cfx_accounts and cfx_requestAccounts in base32, which names the *)
(* network, or as an empty string as long as the network is not known.     *)
(***************************************************************************)
EXTENDS Naturals, FiniteSets

CONSTANTS
  Origins,
  Accounts,
  FirstAccounts, \* the accounts of the keyrings at the start
  Pages,         \* connections of pages
  OriginOf,      \* of each page
  Calls,         \* bound: ids of the calls that may ask the user
  PageOf,        \* the page that makes each of them
  Networks,      \* the ids the nodes give
  Blank,         \* '': what hexToBase32 makes of an account without a network
  MaxRestarts    \* bound: restarts of the background page

ASSUME OriginAssumption == OriginOf \in [Pages -> Origins]
ASSUME PageAssumption == PageOf \in [Calls -> Pages]
ASSUME AccountAssumption == FirstAccounts \subseteq Accounts

Forms == {"hex"} \cup Networks

ASSUME BlankAssumption == Blank \notin Accounts \X Forms

VARIABLES
  vault,     \* accounts of the keyrings
  unlocked,
  network,   \* networkController's id of the network, "loading" for none yet
  granted,   \* the exposedAccounts caveat of each origin, {} for none
  requests,  \* permissionsRequests of rpc-cap: what the user is shown
  pending,   \* pendingApprovals: who waits for the user's decision
  call,      \* what became of each call
  asks,      \* the calls of wallet_requestPermissions
  pages,     \* the pages that are open
  connected, \* those among this.connections
  view,      \* what each page was told to be its accounts
  seen,      \* permissionsHistory: accounts by origin, as they were written
  unfiled,   \* history: accounts given that were not filed by their names
  approved,  \* history: accounts approved since the last disconnect
  disk,      \* what was last saved; with approved as of then
  restarts   \* counts restarts

permVars == <<vault, unlocked, network, granted, requests, pending, call, asks,
              pages, connected, view, seen, unfiled, approved, disk, restarts>>

Store == [vault |-> vault, granted |-> granted, seen |-> seen,
          approved |-> approved]

Undecided == {"waiting", "orphan"}
(* "unavailable", of which methodMiddleware.js says "this should never
   happen", is not among them. *)
CallStates == {"none", "done", "dropped"} \cup Undecided

Written == (Accounts \X Forms) \cup {Blank}

Stores ==
  [vault : SUBSET Accounts, granted : [Origins -> SUBSET Accounts],
   seen : [Origins -> SUBSET Written], approved : [Origins -> SUBSET Accounts]]

PermTypeOK ==
  /\ vault \subseteq Accounts
  /\ unlocked \in BOOLEAN
  /\ network \in Networks \cup {"loading"}
  /\ granted \in [Origins -> SUBSET Accounts]
  /\ requests \subseteq Calls
  /\ pending \subseteq Calls
  /\ call \in [Calls -> CallStates]
  /\ asks \subseteq Calls
  /\ pages \subseteq Pages
  /\ connected \subseteq Pages
  /\ view \in [Pages -> SUBSET Written]
  /\ seen \in [Origins -> SUBSET Written]
  /\ unfiled \in [Origins -> SUBSET Accounts]
  /\ approved \in [Origins -> SUBSET Accounts]
  /\ disk \in Stores
  /\ restarts \in Nat

PermInit ==
  /\ vault = FirstAccounts
  /\ unlocked = TRUE
  /\ network = "loading"
  /\ granted = [o \in Origins |-> {}]
  /\ requests = {} /\ pending = {}
  /\ call = [c \in Calls |-> "none"]
  /\ asks = {}
  /\ pages = {} /\ connected = {}
  /\ view = [p \in Pages |-> {}]
  /\ seen = [o \in Origins |-> {}]
  /\ unfiled = [o \in Origins |-> {}]
  /\ approved = [o \in Origins |-> {}]
  /\ disk = Store
  /\ restarts = 0

-----------------------------------------------------------------------------

(* getKeyringAccounts: none while the wallet is locked. *)
KeyringAccounts == IF unlocked THEN vault ELSE {}

(* eth_accounts with the caveat of the origin: getAccounts. *)
Exposed(caveat) == caveat \cap KeyringAccounts

Hex(accs) == {<<a, "hex">> : a \in accs}

(* hexToBase32 for the current network. *)
Base32(accs) ==
  IF network = "loading" THEN {Blank : a \in accs}
  ELSE {<<a, network>> : a \in accs}

(* The accounts that can be told from what was written. *)
AccountsOf(written) == {a \in Accounts : \E f \in Forms : <<a, f>> \in written}

(* setupProviderConnection, addConnection. *)
OpenPage(p) ==
  /\ p \notin pages
  /\ pages' = pages \cup {p}
  /\ connected' = connected \cup {p}
  /\ view' = [view EXCEPT ![p] = {}]
  /\ UNCHANGED <<vault, unlocked, network, granted, requests, pending, call,
                 asks, seen, unfiled, approved, disk, restarts>>

(* removeConnection: all connections of the origin are forgotten. *)
RemoveConnection(p) ==
  connected' = {q \in connected : OriginOf[q] # OriginOf[p]}

(* A page closes.  What it asked for stays with the user. *)
ClosePage(p) ==
  /\ p \in pages
  /\ pages' = pages \ {p}
  /\ RemoveConnection(p)
  /\ view' = [view EXCEPT ![p] = {}]
  /\ call' = [c \in Calls |-> IF PageOf[c] = p /\ call[c] = "waiting"
                              THEN "orphan" ELSE call[c]]
  /\ UNCHANGED <<vault, unlocked, network, granted, requests, pending, asks,
                 seen, unfiled, approved, disk, restarts>>

(* notifyConnections: nothing is sent while the wallet is locked. *)
NotifyConnections(o, accs) ==
  view' = [p \in Pages |-> IF unlocked /\ p \in connected /\ OriginOf[p] = o
                           THEN Hex(accs) ELSE view[p]]

(* The entries of the permissions log are merged. *)
CommitNewHistory(o, written) == seen' = [seen EXCEPT ![o] = @ \cup written]

Unfiled(o, accs) ==
  unfiled' = [unfiled EXCEPT ![o] = @ \cup (accs \ AccountsOf(seen[o]))]

(* Of a notification ... *)
UpdateAccountsHistory(o, accs) ==
  CommitNewHistory(o, Hex(accs)) /\ UNCHANGED unfiled

(* ... of the answer to cfx_requestAccounts, as it was written for the page ... *)
LogAccounts(o, accs) ==
  /\ CommitNewHistory(o, Base32(accs))
  /\ IF network = "loading" THEN Unfiled(o, accs) ELSE UNCHANGED unfiled

(* ... and of the caveat in the answer to wallet_requestPermissions. *)
LogPermission(o, accs) == CommitNewHistory(o, Hex(accs)) /\ UNCHANGED unfiled

-----------------------------------------------------------------------------

(* cfx_accounts. *)
GetAccounts(p) ==
  /\ p \in pages
  /\ view' = [view EXCEPT ![p] = Base32(Exposed(granted[OriginOf[p]]))]
  /\ UNCHANGED <<vault, unlocked, network, granted, requests, pending, call,
                 asks, pages, connected, seen, unfiled, approved, disk,
                 restarts>>

(* requestUserApproval: the request is listed, and its promise kept. *)
AskUser(c) ==
  /\ requests' = requests \cup {c}
  /\ pending' = pending \cup {c}
  /\ call' = [call EXCEPT ![c] = "waiting"]

(* cfx_requestAccounts: the accounts if there are any, else the user is asked. *)
RequestAccounts(c) ==
  LET p == PageOf[c]  o == OriginOf[p] IN
  /\ call[c] = "none"
  /\ p \in pages
  /\ IF Exposed(granted[o]) # {}
     THEN /\ call' = [call EXCEPT ![c] = "done"]
          /\ view' = [view EXCEPT ![p] = Base32(Exposed(granted[o]))]
          /\ LogAccounts(o, Exposed(granted[o]))
          /\ UNCHANGED <<requests, pending>>
     ELSE AskUser(c) /\ UNCHANGED <<view, seen, unfiled>>
  /\ UNCHANGED <<vault, unlocked, network, granted, asks, pages, connected,
                 approved, disk, restarts>>

(* wallet_requestPermissions for eth_accounts. *)
RequestPermissions(c) ==
  /\ call[c] = "none"
  /\ PageOf[c] \in pages
  /\ AskUser(c)
  /\ asks' = asks \cup {c}
  /\ UNCHANGED <<vault, unlocked, network, granted, pages, connected, view,
                 seen, unfiled, approved, disk, restarts>>

(* Mutant of ValidatePermittedAccounts: any accounts will do. *)
ValidateNonempty(accs) == accs # {}

ValidatePermittedAccounts(accs) == accs # {} /\ accs \subseteq KeyringAccounts

Forget(c) == requests' = requests \ {c} /\ pending' = pending \ {c}

(* The user approves: rpc-cap grants the origin what was chosen ... *)
Grant(o, accs) ==
  /\ granted' = [granted EXCEPT ![o] = accs]
  /\ approved' = [approved EXCEPT ![o] = @ \cup accs]

(* ... and cfx_requestAccounts asks for the accounts again. *)
ApprovePermissionsRequest(c, accs) ==
  LET p == PageOf[c]  o == OriginOf[p] IN
  /\ c \in pending
  /\ ValidatePermittedAccounts(accs)
  /\ Forget(c)
  /\ Grant(o, accs)
  /\ call' = [call EXCEPT ![c] =
       IF c \notin asks /\ Exposed(accs) = {} THEN "unavailable" ELSE "done"]
  /\ view' = IF c \notin asks /\ call[c] = "waiting"
             THEN [view EXCEPT ![p] = Base32(Exposed(accs))] ELSE view
  /\ IF c \in asks THEN LogPermission(o, accs) ELSE LogAccounts(o, Exposed(accs))
  /\ UNCHANGED <<vault, unlocked, network, asks, pages, connected, disk,
                 restarts>>

(* An account is gone, or the wallet was locked: the request is rejected. *)
ApprovalFails(c, accs) ==
  /\ c \in pending
  /\ ~ValidatePermittedAccounts(accs)
  /\ Forget(c)
  /\ call' = [call EXCEPT ![c] = "done"]
  /\ UNCHANGED <<vault, unlocked, network, granted, asks, pages, connected,
                 view, seen, unfiled, approved, disk, restarts>>

RejectPermissionsRequest(c) ==
  /\ c \in pending
  /\ Forget(c)
  /\ call' = [call EXCEPT ![c] = "done"]
  /\ UNCHANGED <<vault, unlocked, network, granted, asks, pages, connected,
                 view, seen, unfiled, approved, disk, restarts>>

(* The list of connected sites gives a site an account; nobody is told. *)
LegacyExposeAccounts(o, a) ==
  /\ ValidatePermittedAccounts({a})
  /\ Grant(o, {a})
  /\ Unfiled(o, {a})
  /\ UNCHANGED <<vault, unlocked, network, requests, pending, call, asks,
                 pages, connected, view, seen, disk, restarts>>

(* The user disconnects a site, in a window of the unlocked wallet ... *)
RemovePermissionsFor(o) ==
  /\ unlocked
  /\ granted' = [granted EXCEPT ![o] = {}]
  /\ approved' = [approved EXCEPT ![o] = {}]
  /\ NotifyConnections(o, {})
  /\ UNCHANGED <<vault, unlocked, network, requests, pending, call, asks,
                 pages, connected, seen, unfiled, disk, restarts>>

(* ... or all of them. *)
ClearPermissions ==
  /\ unlocked
  /\ granted' = [o \in Origins |-> {}]
  /\ approved' = [o \in Origins |-> {}]
  /\ view' = [p \in Pages |-> IF p \in connected THEN {} ELSE view[p]]
  /\ UNCHANGED <<vault, unlocked, network, requests, pending, call, asks,
                 pages, connected, seen, unfiled, disk, restarts>>

(* Mutant of HandleNewAccountSelected: the account need not be permitted. *)
SelectAnyAccount(o, a) ==
  /\ a \in KeyringAccounts \ Exposed(granted[o])
  /\ granted' = [granted EXCEPT ![o] = {a} \cup Exposed(granted[o])]
  /\ NotifyConnections(o, granted'[o])
  /\ UpdateAccountsHistory(o, granted'[o])
  /\ UNCHANGED <<vault, unlocked, network, requests, pending, call, asks,
                 pages, connected, approved, disk, restarts>>

(***************************************************************************)
(* The user selects another account while the site is in front: permitted  *)
(* accounts are put in order, with those left out that are not exposed.    *)
(***************************************************************************)
HandleNewAccountSelected(o, a) ==
  LET permitted == Exposed(granted[o]) IN
  /\ a \in permitted
  /\ Cardinality(permitted) > 1
  /\ ValidatePermittedAccounts(permitted)
  /\ granted' = [granted EXCEPT ![o] = permitted]
  /\ NotifyConnections(o, permitted)
  /\ UpdateAccountsHistory(o, permitted)
  /\ UNCHANGED <<vault, unlocked, network, requests, pending, call, asks,
                 pages, connected, approved, disk, restarts>>

-----------------------------------------------------------------------------

(* The vault changes, without a word to the pages. *)
AddNewAccount(a) ==
  /\ unlocked
  /\ a \notin vault
  /\ vault' = vault \cup {a}
  /\ UNCHANGED <<unlocked, network, granted, requests, pending, call, asks,
                 pages, connected, view, seen, unfiled, approved, disk,
                 restarts>>

RemoveAccount(a) ==
  /\ unlocked
  /\ a \in vault
  /\ vault # {a}
  /\ vault' = vault \ {a}
  /\ UNCHANGED <<unlocked, network, granted, requests, pending, call, asks,
                 pages, connected, view, seen, unfiled, approved, disk,
                 restarts>>

SwitchLock ==
  /\ unlocked' = ~unlocked
  /\ UNCHANGED <<vault, network, granted, requests, pending, call, asks, pages,
                 connected, view, seen, unfiled, approved, disk, restarts>>

(* The network is changed or lost, and then a node answers: in short, what
   NetworkController.tla models. *)
LoseNetwork ==
  /\ network # "loading"
  /\ network' = "loading"
  /\ UNCHANGED <<vault, unlocked, granted, requests, pending, call, asks,
                 pages, connected, view, seen, unfiled, approved, disk,
                 restarts>>

FindNetwork(n) ==
  /\ network = "loading"
  /\ network' = n
  /\ UNCHANGED <<vault, unlocked, granted, requests, pending, call, asks,
                 pages, connected, view, seen, unfiled, approved, disk,
                 restarts>>

(* The store is saved when it was left alone for 10 ms. *)
Persist ==
  /\ restarts < MaxRestarts
  /\ disk' = Store
  /\ UNCHANGED <<vault, unlocked, network, granted, requests, pending, call,
                 asks, pages, connected, view, seen, unfiled, approved,
                 restarts>>

(* No request, connection or network outlives the page; the wallet is locked. *)
Unload ==
  /\ restarts < MaxRestarts
  /\ restarts' = restarts + 1
  /\ pending' = {}
  /\ call' = [c \in Calls |-> IF call[c] \in Undecided THEN "dropped" ELSE call[c]]
  /\ pages' = {} /\ connected' = {}
  /\ view' = [p \in Pages |-> {}]
  /\ unlocked' = FALSE
  /\ network' = "loading"
  /\ vault' = disk.vault
  /\ granted' = disk.granted
  /\ approved' = disk.approved
  /\ UNCHANGED <<asks, unfiled, disk>>

(* Mutant of Restart: the saved requests are restored. *)
RestoreRequests == Unload /\ seen' = disk.seen /\ UNCHANGED requests

(* Mutant of Restart: the history of accounts is not saved. *)
ForgetHistory == Unload /\ requests' = {} /\ seen' = [o \in Origins |-> {}]

(* A restart: what was saved last is restored, but for requests. *)
Restart == Unload /\ requests' = {} /\ seen' = disk.seen

-----------------------------------------------------------------------------

PermNext ==
  \/ \E p \in Pages : OpenPage(p) \/ ClosePage(p) \/ GetAccounts(p)
  \/ \E c \in Calls :
       \/ RequestAccounts(c) \/ RequestPermissions(c)
       \/ RejectPermissionsRequest(c)
       \/ \E accs \in SUBSET Accounts :
            ApprovePermissionsRequest(c, accs) \/ ApprovalFails(c, accs)
  \/ \E o \in Origins :
       \/ RemovePermissionsFor(o)
       \/ \E a \in Accounts :
            LegacyExposeAccounts(o, a) \/ HandleNewAccountSelected(o, a)
  \/ ClearPermissions
  \/ \E a \in Accounts : AddNewAccount(a) \/ RemoveAccount(a)
  \/ SwitchLock
  \/ LoseNetwork
  \/ \E n \in Networks : FindNetwork(n)
  \/ Persist
  \/ Restart

PermSpec == PermInit /\ [][PermNext]_permVars

-----------------------------------------------------------------------------
(***************************************************************************)
(* Properties.                                                             *)
(***************************************************************************)

(***************************************************************************)
(* An origin has permission for nothing the user did not give it since it  *)
(* was last disconnected, whatever is selected, removed or restarted; and  *)
(* a page whose connection is kept believes to have nothing else.  After a *)
(* restart what was approved and disconnected is what the saved state      *)
(* knows of: a disconnect of the last moments may be lost with it.         *)
(***************************************************************************)
GrantedIsApproved ==
  \A o \in Origins :
    /\ granted[o] \subseteq approved[o]
    /\ \A p \in connected :
         OriginOf[p] = o => AccountsOf(view[p]) \subseteq approved[o]

(***************************************************************************)
(* Every request the user is shown has a caller, or had one until its page *)
(* was closed, and an approval to settle; and no caller waits for          *)
(* a decision that nobody is asked for.                                    *)
(***************************************************************************)
RequestsAreDecidable ==
  requests = pending /\ pending = {c \in Calls : call[c] \in Undecided}

(***************************************************************************)
(* Of every account a page was told of, in whatever form, the history of   *)
(* its origin has an entry, in whatever form.  Two ways are excepted: the  *)
(* list of connected sites records nothing, and an account that was given  *)
(* while the network was not known was filed under the empty string.       *)
(***************************************************************************)
HistoryCoversViews ==
  \A p \in Pages :
    LET o == OriginOf[p] IN
    AccountsOf(view[p]) \subseteq AccountsOf(seen[o]) \cup unfiled[o]

(***************************************************************************)
(* removeConnection "Deletes a reference to a connection, by origin and    *)
(* id", so that every page still open is told when its site is             *)
(* disconnected.                                                           *)
(***************************************************************************)
OpenPagesAreTold ==
  \A p \in pages : AccountsOf(view[p]) \subseteq approved[OriginOf[p]]
=============================================================================
