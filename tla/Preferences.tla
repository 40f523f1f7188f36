----------------------------- MODULE Preferences -----------------------------
(***************************************************************************)
(* The accounts of the wallet as the preferences controller keeps them     *)
(* beside the keyrings, the tokens filed under each account, the search    *)
(* for tokens, and the timer that locks the wallet.                        *)
(*                                                                         *)
(* Operations of metamask-controller.js change the keyrings first and the  *)
(* preferences after an await, or the other way round; the user may start  *)
(* one in the popup and another in a tab.  The names of accounts are left  *)
(* out, and which of several accounts comes first is left open.            *)
(***************************************************************************)
EXTENDS Naturals, FiniteSets

CONSTANTS
  Accounts,
  Derived,     \* accounts of the seed phrase; the others are imported
  NoAccount,
  Types,       \* types of network
  Searchable,  \* main and test network, where tokens are searched for
  FirstType,
  Tokens,
  Holdings,    \* what each account holds on each type of network
  Limits,      \* minutes of idleness, 0 for no limit
  FirstLimit,
  MaxGiven     \* bound: tokens added, by account and type of network

ASSUME AccountsAssumption == Derived \subseteq Accounts /\ NoAccount \notin Accounts
ASSUME TypesAssumption == FirstType \in Types /\ Searchable \subseteq Types
ASSUME HoldingsAssumption == Holdings \in [Accounts -> [Types -> SUBSET Tokens]]
ASSUME LimitsAssumption == FirstLimit \in Limits /\ Limits \subseteq Nat

VARIABLES
  vault,        \* accounts of the stored keyrings
  unlocked,
  identities,   \* accounts the preferences know
  selected,     \* selectedAddress
  files,        \* accountTokens; an absent entry is the empty set
  shown,        \* tokens
  providerType, \* providerStore of the network controller
  limit,        \* preferences.autoLockTimeLimit
  timer,        \* minutes the running timer was started with, 0 for none
  restore,      \* phase of createNewVaultAndRestore
  adding,       \* what an addNewAccount under way is about to write
  removing,     \* account of a removeAccount under way
  search,       \* detectNewTokens waiting for balances
  disturbed,    \* history: operations overlapped, or one failed part-way
  torn,         \* history: a restore dropped the account that is selected
  given         \* history: tokens added while an account was selected

accountVars == <<vault, unlocked, identities>>
tokenVars == <<selected, files, shown, providerType>>
opVars == <<restore, adding, removing, disturbed>>
prefVars == <<accountVars, tokenVars, limit, timer, opVars, search, torn, given>>

NoAdding == [accounts |-> {}, account |-> NoAccount]

NoSearch == [account |-> NoAccount, type |-> FirstType, asked |-> {}]

PrefTypeOK ==
  /\ vault \subseteq Accounts
  /\ unlocked \in BOOLEAN
  /\ identities \subseteq Accounts
  /\ selected \in Accounts \cup {NoAccount}
  /\ files \in [Accounts -> [Types -> SUBSET Tokens]]
  /\ shown \subseteq Tokens
  /\ providerType \in Types
  /\ limit \in Limits
  /\ timer \in Limits \cup {0}
  /\ restore \in {"idle", "cleared", "derived"}
  /\ adding \in [accounts : SUBSET Accounts, account : Accounts \cup {NoAccount}]
  /\ removing \in Accounts \cup {NoAccount}
  /\ search \in [account : Accounts \cup {NoAccount}, type : Types,
                 asked : SUBSET Tokens]
  /\ disturbed \in BOOLEAN
  /\ torn \in BOOLEAN
  /\ given \subseteq Accounts \X Types \X Tokens

NoFiles == [a \in Accounts |-> [t \in Types |-> {}]]

(* A fresh installation; the timer runs from the start. *)
PrefInit ==
  /\ vault = {} /\ unlocked = FALSE
  /\ identities = {} /\ selected = NoAccount
  /\ files = NoFiles /\ shown = {}
  /\ providerType = FirstType
  /\ limit = FirstLimit /\ timer = FirstLimit
  /\ restore = "idle" /\ adding = NoAdding /\ removing = NoAccount
  /\ search = NoSearch
  /\ disturbed = FALSE /\ torn = FALSE /\ given = {}

-----------------------------------------------------------------------------

Busy == restore # "idle" \/ adding # NoAdding \/ removing # NoAccount

(* An operation on accounts begins, perhaps beside another. *)
Disturb == disturbed' = (disturbed \/ Busy)

(* Mutant of ResetTimer: only a running timer is started again. *)
ProlongTimer(minutes) == timer' = IF timer = 0 THEN 0 ELSE minutes

(* Mutant of ResetTimer: milliseconds are taken for seconds. *)
ResetTimerInSeconds(minutes) == timer' = 60 * minutes

(* _resetTimer. *)
ResetTimer(minutes) == timer' = minutes

(* The subscription of the app state: each write of the preferences starts
   the timer again. *)
PreferencesWritten == ResetTimer(limit) /\ UNCHANGED limit

(* Mutant of CarryTokens: the entries of all accounts start empty. *)
CarryNoTokens(accounts) == NoFiles

(* setAddresses: the entries of the accounts it is given, and no others. *)
CarryTokens(accounts) ==
  [a \in Accounts |-> IF a \in accounts THEN files[a] ELSE NoFiles[a]]

SetAddresses(accounts) ==
  /\ identities' = accounts
  /\ files' = CarryTokens(accounts)

(* _updateTokens, _getTokenRelatedStates. *)
UpdateTokens(account, type) ==
  /\ shown' = files'[account][type]
  /\ torn' = (account \notin identities')

SetSelectedAddress(account) ==
  /\ selected' = account
  /\ UpdateTokens(account, providerType)

(* addAddresses: an account not yet known starts with no tokens. *)
AddAddresses(accounts) ==
  /\ identities' = identities \cup accounts
  /\ files' = [a \in Accounts |->
                 IF a \in accounts \ identities THEN NoFiles[a] ELSE files[a]]

KeepSelection == UNCHANGED <<selected, shown, torn>>

(* _onKeyringControllerUpdate: the store of the keyrings tells its accounts;
   while it is locked, the account selected must be one of them. *)
OnKeyringControllerUpdate(accounts, isUnlocked) ==
  /\ AddAddresses(accounts)
  /\ \/ (isUnlocked \/ selected \in accounts) /\ KeepSelection
     \/ /\ ~isUnlocked /\ selected \notin accounts
        /\ \E a \in accounts : SetSelectedAddress(a)

(* createNewVaultAndKeychain, in a wallet that has no accounts. *)
CreateNewVaultAndKeychain(a) ==
  /\ vault = {} /\ restore = "idle" /\ a \in Derived
  /\ vault' = {a} /\ unlocked' = TRUE
  /\ SetAddresses({a})
  /\ SetSelectedAddress(a)
  /\ PreferencesWritten
  /\ UNCHANGED <<providerType, opVars, search, given>>

(* ... and in one that has: the keyrings only send an update, as when a
   device is connected. *)
KeepVault ==
  /\ vault # {} /\ unlocked /\ restore = "idle"
  /\ OnKeyringControllerUpdate(vault, TRUE)
  /\ Disturb
  /\ PreferencesWritten
  /\ UNCHANGED <<vault, unlocked, providerType, restore, adding, removing, search,
                 given>>

(* createNewVaultAndRestore clears the identities first ... *)
BeginRestore ==
  /\ restore = "idle"
  /\ restore' = "cleared"
  /\ SetAddresses({})
  /\ torn' = TRUE
  /\ Disturb
  /\ PreferencesWritten
  /\ UNCHANGED <<vault, unlocked, selected, shown, providerType, adding,
                 removing, search, given>>

(* ... then the keyrings take the new phrase; if the update they send says
   they are locked, an account is selected at once ... *)
KeyringRestored(a) ==
  /\ restore = "cleared" /\ a \in Derived
  /\ restore' = "derived"
  /\ vault' = {a} /\ unlocked' = TRUE
  /\ \E isUnlocked \in {unlocked, TRUE} : OnKeyringControllerUpdate({a}, isUnlocked)
  /\ PreferencesWritten
  /\ UNCHANGED <<providerType, adding, removing, disturbed, search, given>>

(* ... more accounts follow as long as the last has a balance ... *)
RestoreAnother(a) ==
  /\ restore = "derived" /\ a \in Derived \ vault
  /\ vault' = vault \cup {a}
  /\ OnKeyringControllerUpdate(vault', TRUE)
  /\ PreferencesWritten
  /\ UNCHANGED <<unlocked, providerType, opVars, search, given>>

(* ... and the first of them is selected. *)
EndRestore ==
  /\ restore = "derived"
  /\ restore' = "idle"
  /\ SetAddresses(vault)
  /\ \E a \in vault : SetSelectedAddress(a)
  /\ disturbed' = (adding # NoAdding \/ removing # NoAccount)
  /\ PreferencesWritten
  /\ UNCHANGED <<vault, unlocked, providerType, adding, removing, search, given>>

(* A phrase the keyrings refuse, or a balance the node does not tell. *)
RestoreFails ==
  /\ restore # "idle"
  /\ restore' = "idle"
  /\ disturbed' = TRUE
  /\ UNCHANGED <<accountVars, tokenVars, limit, timer, adding, removing, search,
                 torn, given>>

(* addNewAccount: the keyring has the account and sends an update; then the
   seed phrase is verified. *)
BeginAddAccount(a) ==
  /\ unlocked /\ adding = NoAdding /\ a \in Derived \ vault
  /\ vault' = vault \cup {a}
  /\ OnKeyringControllerUpdate(vault', TRUE)
  /\ adding' = [accounts |-> vault', account |-> a]
  /\ Disturb
  /\ PreferencesWritten
  /\ UNCHANGED <<unlocked, providerType, restore, removing, search, given>>

EndAddAccount ==
  /\ adding # NoAdding
  /\ SetAddresses(adding.accounts)
  /\ SetSelectedAddress(adding.account)
  /\ adding' = NoAdding
  /\ PreferencesWritten
  /\ UNCHANGED <<vault, unlocked, providerType, restore, removing, disturbed,
                 search, given>>

(* verifySeedPhrase throws: the account stays. *)
VerifyFails ==
  /\ adding # NoAdding
  /\ adding' = NoAdding
  /\ UNCHANGED <<accountVars, tokenVars, limit, timer, restore, removing,
                 disturbed, search, torn, given>>

(* importAccountWithStrategy, unlockHardwareWalletAccount. *)
ImportAccount(a) ==
  /\ unlocked /\ a \in Accounts \ (Derived \cup vault)
  /\ vault' = vault \cup {a}
  /\ SetAddresses(vault')
  /\ SetSelectedAddress(a)
  /\ Disturb
  /\ PreferencesWritten
  /\ UNCHANGED <<unlocked, providerType, restore, adding, removing, search, given>>

(* Mutant of RemoveAddress: the account removed stays selected. *)
RemoveAddressOnly(a) ==
  /\ a \in identities
  /\ identities' = identities \ {a}
  /\ files' = [files EXCEPT ![a] = NoFiles[a]]
  /\ KeepSelection

RemoveAddress(a) ==
  /\ a \in identities
  /\ identities' = identities \ {a}
  /\ files' = [files EXCEPT ![a] = NoFiles[a]]
  /\ \/ a # selected /\ KeepSelection
     \/ a = selected /\ \E b \in identities' : SetSelectedAddress(b)

(* removeAccount, of accounts that were imported: first the preferences ... *)
BeginRemoveAccount(a) ==
  /\ unlocked /\ removing = NoAccount /\ a \notin Derived
  /\ RemoveAddress(a)
  /\ removing' = a
  /\ Disturb
  /\ PreferencesWritten
  /\ UNCHANGED <<vault, unlocked, providerType, restore, adding, search, given>>

(* ... then the keyrings. *)
EndRemoveAccount ==
  /\ unlocked /\ removing \in vault
  /\ vault' = vault \ {removing}
  /\ OnKeyringControllerUpdate(vault', TRUE)
  /\ removing' = NoAccount
  /\ PreferencesWritten
  /\ UNCHANGED <<unlocked, providerType, restore, adding, disturbed, search, given>>

RemoveFails ==
  /\ removing # NoAccount
  /\ removing' = NoAccount
  /\ disturbed' = TRUE
  /\ UNCHANGED <<accountVars, tokenVars, limit, timer, restore, adding, search,
                 torn, given>>

(* syncAddresses: the accounts it is given and no others; the tokens of those
   it drops stay filed. *)
SyncAddresses(accounts) ==
  /\ identities' = accounts
  /\ files' = [a \in Accounts |->
                 IF a \in accounts \ identities THEN NoFiles[a] ELSE files[a]]

(* submitPassword: the keyrings tell their accounts, some of them perhaps
   before the store says unlocked, and the others are dropped. *)
SubmitPassword ==
  /\ ~unlocked /\ vault # {}
  /\ unlocked' = TRUE
  /\ SyncAddresses(vault)
  /\ \/ selected \in vault /\ KeepSelection
     \/ \E a \in vault : SetSelectedAddress(a)
  /\ disturbed' = Busy
  /\ PreferencesWritten
  /\ UNCHANGED <<vault, providerType, restore, adding, removing, search, given>>

(* The store of the keyrings says locked, once more with the accounts or
   when it has none to tell. *)
Lock(minutes) ==
  /\ unlocked' = FALSE
  /\ UNCHANGED limit
  /\ \/ /\ unlocked
        /\ OnKeyringControllerUpdate(vault, FALSE)
        /\ ResetTimer(limit)
     \/ /\ UNCHANGED <<identities, files>> /\ KeepSelection
        /\ timer' = minutes
  /\ UNCHANGED <<vault, providerType, opVars, search, given>>

SetLocked == unlocked /\ Lock(timer)

(* onInactiveTimeout. *)
TimerFires ==
  /\ timer # 0
  /\ Lock(0)

SetLastActiveTime ==
  /\ unlocked
  /\ ResetTimer(limit)
  /\ UNCHANGED <<accountVars, tokenVars, limit, opVars, search, torn, given>>

(* setPreference of autoLockTimeLimit. *)
SetAutoLockTimeLimit(minutes) ==
  /\ limit' = minutes
  /\ ResetTimer(minutes)
  /\ UNCHANGED <<accountVars, tokenVars, opVars, search, torn, given>>

(* The user selects another account. *)
SelectAccount(a) ==
  /\ unlocked /\ a \in identities
  /\ UNCHANGED <<accountVars, files>>
  /\ SetSelectedAddress(a)
  /\ PreferencesWritten
  /\ UNCHANGED <<providerType, opVars, search, given>>

(* _subscribeProviderType: another network is chosen. *)
SwitchProvider(type) ==
  /\ selected # NoAccount
  /\ providerType' = type
  /\ UNCHANGED <<accountVars, selected, files>>
  /\ UpdateTokens(selected, type)
  /\ PreferencesWritten
  /\ UNCHANGED <<opVars, search, given>>

(* Mutant of UpdateAccountTokens: only the list that is shown changes. *)
UpdateShownTokens(tokens) ==
  /\ shown' = tokens
  /\ UNCHANGED files

(* _updateAccountTokens: filed under what is selected now. *)
UpdateAccountTokens(tokens) ==
  /\ files' = [files EXCEPT ![selected][providerType] = tokens]
  /\ shown' = tokens

AddTokens(tokens) ==
  /\ UpdateAccountTokens(shown \cup tokens)
  /\ given' = given \cup {<<selected, providerType, k>> : k \in tokens}
  /\ Cardinality(given') <= MaxGiven
  /\ PreferencesWritten
  /\ UNCHANGED <<accountVars, selected, providerType, opVars, torn>>

(* addToken, by the user. *)
AddToken(token) ==
  /\ unlocked /\ selected # NoAccount
  /\ AddTokens({token})
  /\ UNCHANGED search

RemoveToken(token) ==
  /\ unlocked /\ selected # NoAccount /\ token \in shown
  /\ UpdateAccountTokens(shown \ {token})
  /\ PreferencesWritten
  /\ UNCHANGED <<accountVars, selected, providerType, opVars, search, torn, given>>

(* detectNewTokens asks for the balances of tokens not yet shown ... *)
DetectNewTokens ==
  /\ unlocked /\ selected # NoAccount /\ search = NoSearch
  /\ providerType \in Searchable
  /\ shown # Tokens
  /\ search' = [account |-> selected, type |-> providerType,
                asked |-> Tokens \ shown]
  /\ UNCHANGED <<accountVars, tokenVars, limit, timer, opVars, torn, given>>

(* ... and adds those the account has, wherever addToken files them. *)
BalancesArrive ==
  /\ search # NoSearch
  /\ search' = NoSearch
  /\ LET found == search.asked \cap Holdings[search.account][search.type] IN
     \/ found # {} /\ AddTokens(found)
     \/ found = {} /\ UNCHANGED <<accountVars, tokenVars, limit, timer, opVars,
                                  torn, given>>

SearchFails ==
  /\ search # NoSearch
  /\ search' = NoSearch
  /\ UNCHANGED <<accountVars, tokenVars, limit, timer, opVars, torn, given>>

(* The background page starts again, locked, with what was stored.  It may
   have been stored a little earlier; but as nothing else outlives the page,
   that is a restart at the earlier moment. *)
Restart ==
  /\ unlocked' = FALSE
  /\ restore' = "idle" /\ adding' = NoAdding /\ removing' = NoAccount
  /\ search' = NoSearch
  /\ ResetTimer(limit)
  /\ Disturb
  /\ UNCHANGED <<vault, identities, tokenVars, limit, torn, given>>

AccountStep ==
  \/ \E a \in Accounts :
       \/ CreateNewVaultAndKeychain(a) \/ KeyringRestored(a) \/ RestoreAnother(a)
       \/ BeginAddAccount(a) \/ ImportAccount(a) \/ BeginRemoveAccount(a)
       \/ SelectAccount(a)
  \/ KeepVault \/ BeginRestore \/ EndRestore \/ RestoreFails
  \/ EndAddAccount \/ VerifyFails \/ EndRemoveAccount \/ RemoveFails

TokenStep ==
  \/ \E token \in Tokens : AddToken(token) \/ RemoveToken(token)
  \/ \E type \in Types : SwitchProvider(type)
  \/ DetectNewTokens \/ BalancesArrive \/ SearchFails

LockStep ==
  \/ SubmitPassword \/ SetLocked \/ TimerFires \/ SetLastActiveTime
  \/ \E minutes \in Limits : SetAutoLockTimeLimit(minutes)
  \/ Restart

PrefNext == AccountStep \/ TokenStep \/ LockStep

PrefSpec == PrefInit /\ [][PrefNext]_prefVars

-----------------------------------------------------------------------------

(* An unlocked wallet with a limit has a timer running for that limit: it is
   the write of the preferences at each unlock that starts it (app-state.js:24;
   nothing else does after it has fired). *)
AutoLockArmed == unlocked /\ limit # 0 => timer = limit

(* When no operation on the accounts is under way, the preferences know
   exactly the accounts of the keyrings and one of them is selected, unless
   since the last unlock two operations overlapped or one failed part-way
   (preferences.js:243-351, metamask-controller.js:771-1219). *)
IdentitiesMatchVault ==
  ~Busy /\ ~disturbed =>
    /\ identities = vault
    /\ vault # {} => selected \in vault

(* The tokens shown are those filed under the account and the type of network
   selected, as long as the preferences know that account: a restore drops it
   and leaves it selected.  None is filed under an account and a type that
   were not selected when it was added: no change of account, network or vault
   carries tokens over (preferences.js:454-489, 724-779). *)
TokensAreOwn ==
  /\ selected # NoAccount /\ ~torn => shown = files[selected][providerType]
  /\ \A a \in Accounts, t \in Types :
       \A k \in files[a][t] : <<a, t, k>> \in given

(* The tokens of an account of the wallet go only when the user removes them
   or the account, or restores a vault (preferences.js:243-258). *)
TokensAreKept ==
  [][\A a \in vault \cap identities, t \in Types :
       \/ files[a][t] \subseteq files'[a][t]
       \/ a = selected /\ t = providerType /\ \E k \in Tokens : RemoveToken(k)
       \/ removing' = a
       \/ restore' = "cleared"
       \/ disturbed']_prefVars
=============================================================================
