------------------------- MODULE Permissions_proofs -------------------------
(***************************************************************************)
(* Proofs about Permissions, for every set of origins, pages, accounts and *)
(* calls and every number of restarts.                                     *)
(*                                                                         *)
(* What a page is told comes from the caveat of its origin, so that the    *)
(* invariant speaks of the caveat too: it holds nothing that is neither in *)
(* the history, in whatever form, nor among what was not filed by its      *)
(* name.  A restart restores what was saved, so the same is said of that.  *)
(***************************************************************************)
EXTENDS Permissions, TLAPS

GrantedIsSeen ==
  \A o \in Origins : granted[o] \subseteq AccountsOf(seen[o]) \cup unfiled[o]

SavedIsApproved == \A o \in Origins : disk.granted[o] \subseteq disk.approved[o]

SavedIsSeen ==
  \A o \in Origins :
    disk.granted[o] \subseteq AccountsOf(disk.seen[o]) \cup unfiled[o]

SavedInv == SavedIsApproved /\ SavedIsSeen

PermInv ==
  /\ PermTypeOK
  /\ GrantedIsApproved
  /\ RequestsAreDecidable
  /\ GrantedIsSeen
  /\ HistoryCoversViews
  /\ SavedInv

USE OriginAssumption, PageAssumption, AccountAssumption

LEMMA ExposedIsGranted ==
  ASSUME NEW caveat
  PROVE  Exposed(caveat) \subseteq caveat
BY DEF Exposed

(* What was written, and what can be told from it. *)
LEMMA HexWrites ==
  ASSUME NEW accs \in SUBSET Accounts
  PROVE  Hex(accs) \subseteq Written /\ AccountsOf(Hex(accs)) = accs
BY DEF Hex, AccountsOf, Written, Forms

LEMMA Base32Writes ==
  ASSUME NEW accs \in SUBSET Accounts, network \in Networks \cup {"loading"}
  PROVE  /\ Base32(accs) \subseteq Written
         /\ AccountsOf(Base32(accs)) = IF network = "loading" THEN {} ELSE accs
<1>1. \A a \in Accounts, f \in Forms : <<a, f>> # Blank
  BY BlankAssumption
<1>2. CASE network = "loading"
  BY <1>1, <1>2 DEF Base32, AccountsOf, Written
<1>3. CASE network # "loading"
  <2>1. network \in Forms
    BY <1>3 DEF Forms
  <2>2. Base32(accs) = {<<a, network>> : a \in accs}
    BY <1>3 DEF Base32
  <2> QED
    BY <1>3, <2>1, <2>2 DEF AccountsOf, Written
<1> QED
  BY <1>2, <1>3

LEMMA NothingWritten == AccountsOf({}) = {}
BY DEF AccountsOf

LEMMA MoreWritten ==
  ASSUME NEW old, NEW new
  PROVE  AccountsOf(old \cup new) = AccountsOf(old) \cup AccountsOf(new)
BY DEF AccountsOf

LEMMA PermInitInv == PermInit => PermInv
<1> SUFFICES ASSUME PermInit PROVE PermInv
  OBVIOUS
<1>1. PermTypeOK
  BY DEF PermInit, PermTypeOK, Store, Stores, CallStates, Undecided
<1>2. SavedInv
  BY DEF PermInit, Store, SavedInv, SavedIsApproved, SavedIsSeen
<1> QED
  BY <1>1, <1>2 DEF PermInit, PermInv, GrantedIsApproved, RequestsAreDecidable,
     GrantedIsSeen, HistoryCoversViews, AccountsOf, Undecided

(* A step that neither saves nor takes an account from the history. *)
LEMMA SavedKept ==
  ASSUME SavedInv, UNCHANGED disk,
         \A o \in Origins : unfiled[o] \subseteq unfiled'[o]
  PROVE  SavedInv'
BY DEF SavedInv, SavedIsApproved, SavedIsSeen, AccountsOf

(* A step that files accounts under some name, or as not filed. *)
LEMMA FiledOrNot ==
  ASSUME PermTypeOK, NEW o \in Origins, NEW accs \in SUBSET Accounts,
         \/ UpdateAccountsHistory(o, accs)
         \/ LogPermission(o, accs)
         \/ LogAccounts(o, accs)
  PROVE  /\ seen' \in [Origins -> SUBSET Written]
         /\ unfiled' \in [Origins -> SUBSET Accounts]
         /\ \A q \in Origins :
              /\ AccountsOf(seen[q]) \subseteq AccountsOf(seen'[q])
              /\ unfiled[q] \subseteq unfiled'[q]
         /\ accs \subseteq AccountsOf(seen'[o]) \cup unfiled'[o]
<1>1. PICK written \in SUBSET Written : seen' = [seen EXCEPT ![o] = @ \cup written]
  <2>1. CASE LogAccounts(o, accs)
    BY <2>1, Base32Writes DEF LogAccounts, CommitNewHistory, PermTypeOK
  <2>2. CASE UpdateAccountsHistory(o, accs) \/ LogPermission(o, accs)
    BY <2>2, HexWrites DEF UpdateAccountsHistory, LogPermission, CommitNewHistory
  <2> QED
    BY <2>1, <2>2
<1>2. \A q \in Origins : AccountsOf(seen[q]) \subseteq AccountsOf(seen'[q])
  BY <1>1, MoreWritten DEF PermTypeOK
<1>3. CASE LogAccounts(o, accs) /\ network = "loading"
  <2>1. unfiled' = [unfiled EXCEPT ![o] = @ \cup (accs \ AccountsOf(seen[o]))]
    BY <1>3 DEF LogAccounts, Unfiled
  <2>2. unfiled' \in [Origins -> SUBSET Accounts]
    BY <2>1 DEF PermTypeOK
  <2>3. seen' \in [Origins -> SUBSET Written]
    BY <1>1 DEF PermTypeOK
  <2>4. /\ \A q \in Origins : unfiled[q] \subseteq unfiled'[q]
        /\ accs \ AccountsOf(seen[o]) \subseteq unfiled'[o]
    BY <2>1 DEF PermTypeOK
  <2> QED
    BY <1>2, <2>2, <2>3, <2>4
<1>4. CASE ~ (LogAccounts(o, accs) /\ network = "loading")
  <2>1. UNCHANGED unfiled
    BY <1>4 DEF LogAccounts, UpdateAccountsHistory, LogPermission
  <2>2. \E w : AccountsOf(w) = accs /\ seen' = [seen EXCEPT ![o] = @ \cup w]
    <3>1. CASE LogAccounts(o, accs)
      BY <1>4, <3>1, Base32Writes DEF LogAccounts, CommitNewHistory, PermTypeOK
    <3>2. CASE UpdateAccountsHistory(o, accs) \/ LogPermission(o, accs)
      BY <3>2, HexWrites DEF UpdateAccountsHistory, LogPermission, CommitNewHistory
    <3> QED
      BY <3>1, <3>2
  <2>3. accs \subseteq AccountsOf(seen'[o])
    BY <2>2, MoreWritten DEF PermTypeOK
  <2> QED
    BY <1>1, <1>2, <2>1, <2>3 DEF PermTypeOK
<1> QED
  BY <1>3, <1>4

-----------------------------------------------------------------------------

(***************************************************************************)
(* Each lemma takes the steps that change one part of the state.           *)
(***************************************************************************)

(* Steps that change neither permissions nor requests: pages come and go,  *)
(* and one asks for its accounts.                                          *)
LEMMA OpenPageInv ==
  ASSUME PermInv, NEW p \in Pages, OpenPage(p)
  PROVE  PermInv'
<1>1. SavedInv'
  BY SavedKept DEF PermInv, OpenPage
<1>2. PermTypeOK'
  BY DEF PermInv, OpenPage, PermTypeOK
<1>3. GrantedIsApproved'
  BY NothingWritten DEF PermInv, OpenPage, PermTypeOK, GrantedIsApproved
<1>4. RequestsAreDecidable' /\ GrantedIsSeen' /\ HistoryCoversViews'
  BY NothingWritten
     DEF PermInv, OpenPage, PermTypeOK, RequestsAreDecidable, GrantedIsSeen,
         HistoryCoversViews
<1> QED
  BY <1>1, <1>2, <1>3, <1>4 DEF PermInv

LEMMA ClosePageInv ==
  ASSUME PermInv, NEW p \in Pages, ClosePage(p)
  PROVE  PermInv'
<1>1. PermTypeOK'
  BY DEF PermInv, ClosePage, RemoveConnection, PermTypeOK, CallStates, Undecided
<1>2. GrantedIsApproved'
  BY DEF PermInv, ClosePage, RemoveConnection, PermTypeOK, GrantedIsApproved
<1>3. RequestsAreDecidable'
  BY DEF PermInv, ClosePage, PermTypeOK, RequestsAreDecidable, Undecided
<1>4. GrantedIsSeen' /\ HistoryCoversViews'
  BY NothingWritten
     DEF PermInv, ClosePage, PermTypeOK, GrantedIsSeen, HistoryCoversViews
<1>5. SavedInv'
  BY SavedKept DEF PermInv, ClosePage
<1> QED
  BY <1>1, <1>2, <1>3, <1>4, <1>5 DEF PermInv

(* What a page is told in answer to its own call. *)
LEMMA ToldIsGranted ==
  ASSUME PermTypeOK, NEW o \in Origins
  PROVE  /\ Exposed(granted[o]) \in SUBSET Accounts
         /\ Base32(Exposed(granted[o])) \subseteq Written
         /\ AccountsOf(Base32(Exposed(granted[o]))) \subseteq granted[o]
<1>1. Exposed(granted[o]) \in SUBSET Accounts
  BY ExposedIsGranted DEF PermTypeOK
<1> QED
  BY <1>1, Base32Writes, ExposedIsGranted DEF PermTypeOK

LEMMA GetAccountsInv ==
  ASSUME PermInv, NEW p \in Pages, GetAccounts(p)
  PROVE  PermInv'
<1> DEFINE o == OriginOf[p]
<1> o \in Origins
  OBVIOUS
<1>1. PICK told \in SUBSET Written : /\ AccountsOf(told) \subseteq granted[o]
                                      /\ view' = [view EXCEPT ![p] = told]
  BY ToldIsGranted DEF PermInv, GetAccounts
<1>2. PermTypeOK'
  BY <1>1 DEF PermInv, GetAccounts, PermTypeOK
<1>3. GrantedIsApproved'
  BY <1>1 DEF PermInv, GetAccounts, PermTypeOK, GrantedIsApproved
<1>4. RequestsAreDecidable' /\ GrantedIsSeen'
  BY DEF PermInv, GetAccounts, RequestsAreDecidable, GrantedIsSeen
<1>5. HistoryCoversViews'
  BY <1>1 DEF PermInv, GetAccounts, PermTypeOK, GrantedIsSeen, HistoryCoversViews
<1>6. SavedInv'
  BY SavedKept DEF PermInv, GetAccounts
<1> QED
  BY <1>2, <1>3, <1>4, <1>5, <1>6 DEF PermInv

-----------------------------------------------------------------------------

(* The calls of pages that may ask the user. *)
LEMMA RequestAccountsInv ==
  ASSUME PermInv, NEW c \in Calls, RequestAccounts(c)
  PROVE  PermInv'
<1> DEFINE p == PageOf[c]
           o == OriginOf[p]
           accs == Exposed(granted[o])
<1> p \in Pages /\ o \in Origins
  OBVIOUS
<1>0. PermTypeOK /\ accs \in SUBSET Accounts
  BY ToldIsGranted DEF PermInv
<1>1. /\ seen' \in [Origins -> SUBSET Written]
      /\ unfiled' \in [Origins -> SUBSET Accounts]
      /\ \A q \in Origins : /\ AccountsOf(seen[q]) \subseteq AccountsOf(seen'[q])
                            /\ unfiled[q] \subseteq unfiled'[q]
  <2>1. CASE accs = {}
    BY <2>1 DEF RequestAccounts, PermInv, PermTypeOK
  <2>2. CASE accs # {}
    BY <1>0, <2>2, FiledOrNot DEF RequestAccounts
  <2> QED
    BY <2>1, <2>2
<1>2. PICK told \in SUBSET Written :
        AccountsOf(told) \subseteq granted[o] /\ view' \in {view, [view EXCEPT ![p] = told]}
  <2>1. CASE accs = {}
    BY <1>0, <2>1, ToldIsGranted DEF RequestAccounts
  <2>2. CASE accs # {}
    BY <1>0, <2>2, ToldIsGranted DEF RequestAccounts
  <2> QED
    BY <2>1, <2>2
<1>3. PermTypeOK'
  <2>1. view' \in [Pages -> SUBSET Written]
    BY <1>2 DEF PermInv, PermTypeOK
  <2>2. requests' \subseteq Calls /\ pending' \subseteq Calls
        /\ call' \in [Calls -> CallStates]
    BY DEF RequestAccounts, AskUser, PermInv, PermTypeOK, CallStates, Undecided
  <2> QED
    BY <1>1, <2>1, <2>2 DEF RequestAccounts, PermInv, PermTypeOK
<1>4. GrantedIsApproved'
  BY <1>2 DEF PermInv, RequestAccounts, PermTypeOK, GrantedIsApproved
<1>5. RequestsAreDecidable'
  BY DEF PermInv, RequestAccounts, AskUser, PermTypeOK, RequestsAreDecidable,
         Undecided
<1>6. GrantedIsSeen'
  BY <1>1 DEF PermInv, RequestAccounts, GrantedIsSeen
<1>7. HistoryCoversViews'
  BY <1>1, <1>2
     DEF PermInv, PermTypeOK, GrantedIsSeen, HistoryCoversViews
<1>8. SavedInv'
  BY <1>1, SavedKept DEF PermInv, RequestAccounts
<1> QED
  BY <1>3, <1>4, <1>5, <1>6, <1>7, <1>8 DEF PermInv

LEMMA RequestPermissionsInv ==
  ASSUME PermInv, NEW c \in Calls, RequestPermissions(c)
  PROVE  PermInv'
<1>1. PermTypeOK'
  BY DEF PermInv, RequestPermissions, AskUser, PermTypeOK, CallStates, Undecided
<1>2. RequestsAreDecidable'
  BY DEF PermInv, RequestPermissions, AskUser, PermTypeOK, RequestsAreDecidable,
         Undecided
<1>3. SavedInv'
  BY SavedKept DEF PermInv, RequestPermissions
<1> QED
  BY <1>1, <1>2, <1>3 DEF PermInv, RequestPermissions, GrantedIsApproved,
     GrantedIsSeen, HistoryCoversViews

-----------------------------------------------------------------------------

(* The decisions of the user. *)
LEMMA ApproveInv ==
  ASSUME PermInv, NEW c \in Calls, NEW accs \in SUBSET Accounts,
         ApprovePermissionsRequest(c, accs)
  PROVE  PermInv'
<1> DEFINE p == PageOf[c]
           o == OriginOf[p]
<1> p \in Pages /\ o \in Origins
  OBVIOUS
<1>0. PermTypeOK
  BY DEF PermInv
<1>1. Exposed(accs) = accs /\ accs # {}
  BY DEF ApprovePermissionsRequest, ValidatePermittedAccounts, Exposed
<1>2. call' = [call EXCEPT ![c] = "done"]
  BY <1>1 DEF ApprovePermissionsRequest
<1>3. LogPermission(o, accs) \/ LogAccounts(o, accs)
  BY <1>1 DEF ApprovePermissionsRequest
<1>4. /\ seen' \in [Origins -> SUBSET Written]
      /\ unfiled' \in [Origins -> SUBSET Accounts]
      /\ \A q \in Origins : /\ AccountsOf(seen[q]) \subseteq AccountsOf(seen'[q])
                            /\ unfiled[q] \subseteq unfiled'[q]
      /\ accs \subseteq AccountsOf(seen'[o]) \cup unfiled'[o]
  BY <1>0, <1>3, FiledOrNot
<1>5. PICK told \in SUBSET Written :
        AccountsOf(told) \subseteq accs /\ view' \in {view, [view EXCEPT ![p] = told]}
  BY <1>0, <1>1, Base32Writes DEF ApprovePermissionsRequest, PermTypeOK
<1>6. PermTypeOK'
  BY <1>2, <1>4, <1>5 DEF PermInv, ApprovePermissionsRequest, Forget, Grant,
     PermTypeOK, CallStates
<1>7. GrantedIsApproved'
  BY <1>5 DEF PermInv, ApprovePermissionsRequest, Grant, PermTypeOK,
     GrantedIsApproved
<1>8. RequestsAreDecidable'
  BY <1>2 DEF PermInv, ApprovePermissionsRequest, Forget, PermTypeOK,
     RequestsAreDecidable, Undecided
<1>9. GrantedIsSeen'
  BY <1>4 DEF PermInv, ApprovePermissionsRequest, Grant, PermTypeOK, GrantedIsSeen
<1>10. HistoryCoversViews'
  BY <1>4, <1>5 DEF PermInv, PermTypeOK, HistoryCoversViews
<1>11. SavedInv'
  BY <1>4, SavedKept DEF PermInv, ApprovePermissionsRequest
<1> QED
  BY <1>6, <1>7, <1>8, <1>9, <1>10, <1>11 DEF PermInv

LEMMA RefuseInv ==
  ASSUME PermInv, NEW c \in Calls, NEW accs \in SUBSET Accounts,
         ApprovalFails(c, accs) \/ RejectPermissionsRequest(c)
  PROVE  PermInv'
<1> USE DEF ApprovalFails, RejectPermissionsRequest
<1>1. PermTypeOK'
  BY DEF PermInv, Forget, PermTypeOK, CallStates
<1>2. RequestsAreDecidable'
  BY DEF PermInv, Forget, PermTypeOK, RequestsAreDecidable, Undecided
<1>3. SavedInv'
  BY SavedKept DEF PermInv
<1> QED
  BY <1>1, <1>2, <1>3 DEF PermInv, GrantedIsApproved, GrantedIsSeen,
     HistoryCoversViews

-----------------------------------------------------------------------------

(* Changes of the permissions by the user. *)
LEMMA LegacyInv ==
  ASSUME PermInv, NEW o \in Origins, NEW a \in Accounts, LegacyExposeAccounts(o, a)
  PROVE  PermInv'
<1> USE DEF PermInv, LegacyExposeAccounts, Grant, Unfiled, PermTypeOK
<1>1. PermTypeOK'
  OBVIOUS
<1>2. GrantedIsApproved'
  BY DEF GrantedIsApproved
<1>3. GrantedIsSeen' /\ HistoryCoversViews'
  BY DEF GrantedIsSeen, HistoryCoversViews
<1>4. SavedInv'
  BY SavedKept
<1> QED
  BY <1>1, <1>2, <1>3, <1>4 DEF RequestsAreDecidable

LEMMA RemoveInv ==
  ASSUME PermInv, NEW o \in Origins, RemovePermissionsFor(o)
  PROVE  PermInv'
<1> USE DEF PermInv, RemovePermissionsFor, NotifyConnections
<1>0. Hex({}) \subseteq Written /\ AccountsOf(Hex({})) = {}
  BY HexWrites
<1>1. PermTypeOK'
  BY <1>0 DEF PermTypeOK
<1>2. GrantedIsApproved'
  BY <1>0 DEF PermTypeOK, GrantedIsApproved
<1>3. GrantedIsSeen' /\ HistoryCoversViews'
  BY <1>0 DEF PermTypeOK, GrantedIsSeen, HistoryCoversViews
<1>4. SavedInv'
  BY SavedKept
<1> QED
  BY <1>1, <1>2, <1>3, <1>4 DEF RequestsAreDecidable

LEMMA ClearInv ==
  ASSUME PermInv, ClearPermissions
  PROVE  PermInv'
<1> USE DEF PermInv, ClearPermissions
<1>1. PermTypeOK'
  BY DEF PermTypeOK
<1>2. GrantedIsApproved'
  BY NothingWritten DEF PermTypeOK, GrantedIsApproved
<1>3. GrantedIsSeen' /\ HistoryCoversViews'
  BY NothingWritten DEF PermTypeOK, GrantedIsSeen, HistoryCoversViews
<1>4. SavedInv'
  BY SavedKept
<1> QED
  BY <1>1, <1>2, <1>3, <1>4 DEF RequestsAreDecidable

LEMMA SelectInv ==
  ASSUME PermInv, NEW o \in Origins, NEW a \in Accounts,
         HandleNewAccountSelected(o, a)
  PROVE  PermInv'
<1> DEFINE permitted == Exposed(granted[o])
<1>1. /\ permitted \subseteq granted[o]
      /\ permitted \in SUBSET Accounts
  BY ExposedIsGranted, ToldIsGranted DEF PermInv
<1>2. /\ granted' = [granted EXCEPT ![o] = permitted]
      /\ UpdateAccountsHistory(o, permitted)
      /\ NotifyConnections(o, permitted)
      /\ UNCHANGED <<vault, unlocked, network, requests, pending, call, asks,
                     pages, connected, approved, disk, restarts>>
  BY DEF HandleNewAccountSelected
<1> HIDE DEF permitted
<1>3. Hex(permitted) \subseteq Written /\ AccountsOf(Hex(permitted)) = permitted
  BY <1>1, HexWrites
<1>4. /\ seen' \in [Origins -> SUBSET Written]
      /\ unfiled' \in [Origins -> SUBSET Accounts]
      /\ \A q \in Origins : /\ AccountsOf(seen[q]) \subseteq AccountsOf(seen'[q])
                            /\ unfiled[q] \subseteq unfiled'[q]
      /\ permitted \subseteq AccountsOf(seen'[o]) \cup unfiled'[o]
  BY <1>1, <1>2, FiledOrNot DEF PermInv
<1> USE DEF PermInv, NotifyConnections
<1>5. PermTypeOK'
  BY <1>1, <1>2, <1>3, <1>4 DEF PermTypeOK
<1>6. GrantedIsApproved'
  BY <1>1, <1>2, <1>3 DEF PermTypeOK, GrantedIsApproved
<1>7. GrantedIsSeen' /\ HistoryCoversViews'
  BY <1>1, <1>2, <1>3, <1>4 DEF PermTypeOK, GrantedIsSeen, HistoryCoversViews
<1>8. SavedInv'
  BY <1>2, <1>4, SavedKept
<1> QED
  BY <1>2, <1>5, <1>6, <1>7, <1>8 DEF RequestsAreDecidable

-----------------------------------------------------------------------------

(* The vault and the network. *)
LEMMA VaultInv ==
  ASSUME PermInv,
         SwitchLock \/ \E a \in Accounts : AddNewAccount(a) \/ RemoveAccount(a)
  PROVE  PermInv'
<1>1. vault' \subseteq Accounts
  BY DEF PermInv, PermTypeOK, SwitchLock, AddNewAccount, RemoveAccount
<1>2. unlocked' \in BOOLEAN
  <2>1. CASE SwitchLock
    BY <2>1, SMT DEF SwitchLock, PermInv, PermTypeOK
  <2>2. CASE \E a \in Accounts : AddNewAccount(a) \/ RemoveAccount(a)
    <3>1. unlocked' = unlocked
      BY <2>2, SMT DEF AddNewAccount, RemoveAccount
    <3> QED
      BY <3>1 DEF PermInv, PermTypeOK
  <2> QED
    BY <2>1, <2>2
<1>3. UNCHANGED <<network, granted, requests, pending, call, asks, pages,
                  connected, view, seen, unfiled, approved, disk, restarts>>
  BY DEF SwitchLock, AddNewAccount, RemoveAccount
<1>4. SavedInv'
  BY <1>3, SavedKept DEF PermInv
<1> QED
  BY <1>1, <1>2, <1>3, <1>4 DEF PermInv, PermTypeOK, GrantedIsApproved,
     RequestsAreDecidable, GrantedIsSeen, HistoryCoversViews

LEMMA NetworkInv ==
  ASSUME PermInv, LoseNetwork \/ \E n \in Networks : FindNetwork(n)
  PROVE  PermInv'
<1>1. /\ network' \in Networks \cup {"loading"}
      /\ UNCHANGED <<vault, unlocked, granted, requests, pending, call, asks,
                     pages, connected, view, seen, unfiled, approved, disk,
                     restarts>>
  BY DEF LoseNetwork, FindNetwork
<1>2. SavedInv'
  BY <1>1, SavedKept DEF PermInv
<1> QED
  BY <1>1, <1>2 DEF PermInv, PermTypeOK, GrantedIsApproved, RequestsAreDecidable,
     GrantedIsSeen, HistoryCoversViews

(* What is saved, and restarts. *)
LEMMA PersistInv ==
  ASSUME PermInv, Persist
  PROVE  PermInv'
<1>1. disk' = Store
  BY DEF Persist
<1>2. UNCHANGED <<vault, unlocked, network, granted, requests, pending, call,
                  asks, pages, connected, view, seen, unfiled, approved, restarts>>
  BY DEF Persist
<1>3. SavedInv'
  BY <1>1, <1>2 DEF PermInv, Store, SavedInv, SavedIsApproved, SavedIsSeen,
     GrantedIsApproved, GrantedIsSeen
<1>4. disk' \in Stores
  BY <1>1 DEF PermInv, PermTypeOK, Store, Stores
<1> QED
  BY <1>2, <1>3, <1>4 DEF PermInv, PermTypeOK, GrantedIsApproved,
     RequestsAreDecidable, GrantedIsSeen, HistoryCoversViews

LEMMA RestartInv ==
  ASSUME PermInv, Restart
  PROVE  PermInv'
<1> USE DEF PermInv, Restart, Unload
<1>0. unlocked' \in BOOLEAN
  BY Zenon
<1>1. /\ vault' \subseteq Accounts
      /\ granted' \in [Origins -> SUBSET Accounts]
      /\ seen' \in [Origins -> SUBSET Written]
      /\ approved' \in [Origins -> SUBSET Accounts]
  BY DEF PermTypeOK, Stores
<1>2. /\ call' \in [Calls -> CallStates]
      /\ restarts' \in Nat
      /\ asks' \subseteq Calls
  BY DEF PermTypeOK, CallStates, Undecided
<1>3. PermTypeOK'
  BY <1>0, <1>1, <1>2, SMT DEF PermTypeOK
<1>4. RequestsAreDecidable'
  BY DEF PermTypeOK, RequestsAreDecidable, Undecided
<1>5. GrantedIsApproved'
  BY DEF GrantedIsApproved, SavedInv, SavedIsApproved
<1>6. GrantedIsSeen'
  BY DEF GrantedIsSeen, SavedInv, SavedIsSeen
<1>7. HistoryCoversViews'
  BY NothingWritten DEF HistoryCoversViews
<1>8. SavedInv'
  BY SavedKept
<1> QED
  BY <1>3, <1>4, <1>5, <1>6, <1>7, <1>8

LEMMA PermNextInv == PermInv /\ [PermNext]_permVars => PermInv'
<1> SUFFICES ASSUME PermInv, [PermNext]_permVars PROVE PermInv'
  OBVIOUS
<1>1. CASE \E p \in Pages : OpenPage(p) \/ ClosePage(p) \/ GetAccounts(p)
  BY <1>1, OpenPageInv, ClosePageInv, GetAccountsInv
<1>2. CASE \E c \in Calls : RequestAccounts(c) \/ RequestPermissions(c)
  BY <1>2, RequestAccountsInv, RequestPermissionsInv
<1>3. CASE \E c \in Calls : RejectPermissionsRequest(c)
  BY <1>3, RefuseInv
<1>4. CASE \E c \in Calls : \E accs \in SUBSET Accounts :
             ApprovePermissionsRequest(c, accs) \/ ApprovalFails(c, accs)
  BY <1>4, ApproveInv, RefuseInv
<1>5. CASE \E o \in Origins : RemovePermissionsFor(o)
  BY <1>5, RemoveInv
<1>6. CASE \E o \in Origins : \E a \in Accounts :
             LegacyExposeAccounts(o, a) \/ HandleNewAccountSelected(o, a)
  BY <1>6, LegacyInv, SelectInv
<1>7. CASE ClearPermissions
  BY <1>7, ClearInv
<1>8. CASE SwitchLock \/ \E a \in Accounts : AddNewAccount(a) \/ RemoveAccount(a)
  BY <1>8, VaultInv
<1>9. CASE LoseNetwork \/ \E n \in Networks : FindNetwork(n)
  BY <1>9, NetworkInv
<1>10. CASE Persist \/ Restart
  BY <1>10, PersistInv, RestartInv
<1>11. CASE UNCHANGED permVars
  BY <1>11 DEF permVars, PermInv, PermTypeOK, GrantedIsApproved,
     RequestsAreDecidable, GrantedIsSeen, HistoryCoversViews, SavedInv,
     SavedIsApproved, SavedIsSeen
<1> QED
  BY <1>1, <1>2, <1>3, <1>4, <1>5, <1>6, <1>7, <1>8, <1>9, <1>10, <1>11
     DEF PermNext

LEMMA PermInvariant == PermSpec => []PermInv
BY PermInitInv, PermNextInv, PTL DEF PermSpec

-----------------------------------------------------------------------------

(***************************************************************************)
(* The state keeps its type; in particular no call of a page ends in the   *)
(* state methodMiddleware.js says should never happen, approved and yet    *)
(* without an account.                                                     *)
(***************************************************************************)
THEOREM PermissionsTyped == PermSpec => []PermTypeOK
<1>1. PermInv => PermTypeOK
  BY DEF PermInv
<1> QED
  BY <1>1, PermInvariant, PTL

(***************************************************************************)
(* Neither an origin nor a page of it that is connected has an account the *)
(* user did not give that origin since it was last disconnected, as far as *)
(* the saved state knows of it when the background page starts anew.       *)
(***************************************************************************)
THEOREM OnlyApproved == PermSpec => []GrantedIsApproved
<1>1. PermInv => GrantedIsApproved
  BY DEF PermInv
<1> QED
  BY <1>1, PermInvariant, PTL

(***************************************************************************)
(* What the user is asked, the approvals that can be settled and the calls *)
(* that wait for one are the same at any time.                             *)
(***************************************************************************)
THEOREM Decidable == PermSpec => []RequestsAreDecidable
<1>1. PermInv => RequestsAreDecidable
  BY DEF PermInv
<1> QED
  BY <1>1, PermInvariant, PTL

(***************************************************************************)
(* The history has an entry, in hex or in base32 of some network, of every *)
(* account a page was told of in any form, save those given through the    *)
(* list of connected sites or while the network was not known.             *)
(***************************************************************************)
THEOREM HistoryComplete == PermSpec => []HistoryCoversViews
<1>1. PermInv => HistoryCoversViews
  BY DEF PermInv
<1> QED
  BY <1>1, PermInvariant, PTL
=============================================================================
