------------------------- MODULE Preferences_proofs -------------------------
(***************************************************************************)
(* Proofs about Preferences, for every set of accounts, tokens, types of   *)
(* network and limits, and any number of tokens added.                     *)
(*                                                                         *)
(* Three invariants, over the same steps: of the tokens, of the timer, and *)
(* of the accounts while an operation on them is under way.                *)
(***************************************************************************)
EXTENDS Preferences, TLAPS

USE AccountsAssumption, TypesAssumption, HoldingsAssumption, LimitsAssumption

-----------------------------------------------------------------------------
(* The tokens. *)

TokensTyped ==
  /\ identities \subseteq Accounts
  /\ selected \in Accounts \cup {NoAccount}
  /\ files \in [Accounts -> [Types -> SUBSET Tokens]]
  /\ shown \subseteq Tokens
  /\ providerType \in Types
  /\ torn \in BOOLEAN
  /\ given \subseteq Accounts \X Types \X Tokens

SelectedIsKnown == selected # NoAccount /\ ~torn => selected \in identities

(* Needed for the steps that file what is shown. *)
ShownAreGiven ==
  selected # NoAccount => \A k \in shown : <<selected, providerType, k>> \in given

FiledAreGiven ==
  \A a \in Accounts, t \in Types : \A k \in files[a][t] : <<a, t, k>> \in given

ShownAreFiled ==
  selected # NoAccount /\ ~torn => shown = files[selected][providerType]

TokenInv ==
  /\ TokensTyped
  /\ SelectedIsKnown
  /\ ShownAreFiled
  /\ FiledAreGiven
  /\ ShownAreGiven

LEMMA TokenInvImplies == TokenInv => TokensAreOwn
BY DEF TokenInv, ShownAreFiled, FiledAreGiven, TokensAreOwn

(* Whatever account is selected, its tokens are read again. *)
LEMMA SelectingKeeps ==
  ASSUME TokenInv, NEW a \in Accounts, SetSelectedAddress(a),
         UNCHANGED <<providerType, given>>,
         identities' \subseteq Accounts,
         files' \in [Accounts -> [Types -> SUBSET Tokens]],
         FiledAreGiven'
  PROVE  TokenInv'
<1>1. /\ selected' = a
      /\ shown' = files'[a][providerType]
      /\ torn' = (a \notin identities')
  BY DEF SetSelectedAddress, UpdateTokens
<1>2. torn' \in BOOLEAN
  BY <1>1
<1>3. shown' \subseteq Tokens
  BY <1>1 DEF TokenInv, TokensTyped
<1>4. TokensTyped'
  BY <1>1, <1>2, <1>3 DEF TokenInv, TokensTyped
<1>5. SelectedIsKnown'
  BY <1>1 DEF SelectedIsKnown
<1>6. ShownAreFiled' /\ ShownAreGiven'
  BY <1>1, <1>3, <1>4 DEF ShownAreFiled, ShownAreGiven, FiledAreGiven, TokensTyped
<1> QED
  BY <1>4, <1>5, <1>6 DEF TokenInv

(* A selection that is kept, when the files of the account are. *)
LEMMA KeepingKeeps ==
  ASSUME TokenInv, KeepSelection, UNCHANGED <<providerType, given>>,
         identities' \subseteq Accounts,
         files' \in [Accounts -> [Types -> SUBSET Tokens]],
         FiledAreGiven',
         selected # NoAccount /\ ~torn =>
           selected \in identities' /\ files'[selected] = files[selected]
  PROVE  TokenInv'
<1> USE DEF TokenInv, KeepSelection
<1>1. TokensTyped'
  BY DEF TokensTyped
<1>2. SelectedIsKnown' /\ ShownAreFiled' /\ ShownAreGiven'
  BY DEF SelectedIsKnown, ShownAreFiled, ShownAreGiven
<1> QED
  BY <1>1, <1>2

LEMMA NoFilesType == NoFiles \in [Accounts -> [Types -> SUBSET Tokens]]
BY DEF NoFiles

(* The ways the preferences change their list of accounts drop files, but  *)
(* never move one.                                                         *)
LEMMA SetAddressesFacts ==
  ASSUME TokenInv, NEW S \in SUBSET Accounts, SetAddresses(S), UNCHANGED given
  PROVE  /\ identities' = S
         /\ files' \in [Accounts -> [Types -> SUBSET Tokens]]
         /\ FiledAreGiven'
<1>1. /\ identities' = S
      /\ files' = [a \in Accounts |-> IF a \in S THEN files[a] ELSE NoFiles[a]]
  BY DEF SetAddresses, CarryTokens
<1> QED
  BY <1>1, NoFilesType DEF TokenInv, TokensTyped, FiledAreGiven, NoFiles

LEMMA AddressesAddedFacts ==
  ASSUME TokenInv, NEW S \in SUBSET Accounts, UNCHANGED given,
         files' = [a \in Accounts |->
                     IF a \in S \ identities THEN NoFiles[a] ELSE files[a]]
  PROVE  /\ files' \in [Accounts -> [Types -> SUBSET Tokens]]
         /\ FiledAreGiven'
         /\ selected # NoAccount /\ ~torn => files'[selected] = files[selected]
BY NoFilesType DEF TokenInv, TokensTyped, SelectedIsKnown, FiledAreGiven, NoFiles

LEMMA KeyringUpdateKeeps ==
  ASSUME TokenInv, NEW S \in SUBSET Accounts, NEW u,
         OnKeyringControllerUpdate(S, u), UNCHANGED <<providerType, given>>
  PROVE  /\ TokenInv'
         /\ identities' = identities \cup S
         /\ selected' = selected \/ (selected \notin S /\ selected' \in S)
<1>1. /\ identities' = identities \cup S
      /\ files' = [a \in Accounts |->
                     IF a \in S \ identities THEN NoFiles[a] ELSE files[a]]
  BY DEF OnKeyringControllerUpdate, AddAddresses
<1>2. /\ files' \in [Accounts -> [Types -> SUBSET Tokens]]
      /\ FiledAreGiven'
      /\ selected # NoAccount /\ ~torn => files'[selected] = files[selected]
  BY <1>1, AddressesAddedFacts
<1>3. identities' \subseteq Accounts
  BY <1>1 DEF TokenInv, TokensTyped
<1>4. CASE KeepSelection
  <2>1. selected # NoAccount /\ ~torn => selected \in identities'
    BY <1>1 DEF TokenInv, SelectedIsKnown
  <2> QED
    BY <1>1, <1>2, <1>3, <1>4, <2>1, KeepingKeeps DEF KeepSelection
<1>5. CASE selected \notin S /\ \E a \in S : SetSelectedAddress(a)
  <2>1. PICK a \in S : SetSelectedAddress(a)
    BY <1>5
  <2>2. TokenInv'
    BY <1>2, <1>3, <2>1, SelectingKeeps
  <2> QED
    BY <1>1, <1>5, <2>1, <2>2 DEF SetSelectedAddress
<1> QED
  BY <1>4, <1>5 DEF OnKeyringControllerUpdate

LEMMA SetAndSelectKeeps ==
  ASSUME TokenInv, NEW S \in SUBSET Accounts, NEW a \in Accounts,
         SetAddresses(S), SetSelectedAddress(a), UNCHANGED <<providerType, given>>
  PROVE  TokenInv' /\ identities' = S /\ selected' = a
BY SetAddressesFacts, SelectingKeeps DEF SetSelectedAddress

LEMMA RemoveAddressKeeps ==
  ASSUME TokenInv, NEW a \in Accounts, RemoveAddress(a),
         UNCHANGED <<providerType, given>>
  PROVE  /\ TokenInv'
         /\ a \in identities /\ identities' = identities \ {a}
         /\ \/ selected' = selected /\ selected # a
            \/ selected' \in identities'
<1>1. /\ a \in identities /\ identities' = identities \ {a}
      /\ files' = [files EXCEPT ![a] = NoFiles[a]]
  BY DEF RemoveAddress
<1>2. /\ files' \in [Accounts -> [Types -> SUBSET Tokens]]
      /\ FiledAreGiven'
      /\ identities' \subseteq Accounts
  BY <1>1, NoFilesType DEF TokenInv, TokensTyped, FiledAreGiven, NoFiles
<1>3. CASE a # selected /\ KeepSelection
  <2>1. selected # NoAccount /\ ~torn =>
          selected \in identities' /\ files'[selected] = files[selected]
    BY <1>1, <1>3 DEF TokenInv, TokensTyped, SelectedIsKnown
  <2> QED
    BY <1>1, <1>2, <1>3, <2>1, KeepingKeeps DEF KeepSelection
<1>4. CASE \E b \in identities' : SetSelectedAddress(b)
  <2>1. PICK b \in identities' : SetSelectedAddress(b)
    BY <1>4
  <2>2. TokenInv'
    BY <1>2, <2>1, SelectingKeeps
  <2> QED
    BY <1>1, <2>1, <2>2 DEF SetSelectedAddress
<1> QED
  BY <1>3, <1>4 DEF RemoveAddress

(* Files change in one more way: what is shown is filed. *)
LEMMA FilingKeeps ==
  ASSUME TokenInv, selected # NoAccount, NEW tokens \in SUBSET Tokens,
         UpdateAccountTokens(tokens),
         UNCHANGED <<identities, selected, providerType, torn>>,
         given \subseteq given', given' \subseteq Accounts \X Types \X Tokens,
         \A k \in tokens : <<selected, providerType, k>> \in given'
  PROVE  TokenInv'
<1> USE DEF TokenInv
<1>1. /\ files' = [files EXCEPT ![selected][providerType] = tokens]
      /\ shown' = tokens
  BY DEF UpdateAccountTokens
<1>2. selected \in Accounts /\ providerType \in Types
  BY DEF TokensTyped
<1>3. TokensTyped'
  BY <1>1 DEF TokensTyped
<1>4. /\ files'[selected][providerType] = tokens
      /\ \A a \in Accounts, t \in Types :
           a # selected \/ t # providerType => files'[a][t] = files[a][t]
  BY <1>1, <1>2 DEF TokensTyped
<1>5. FiledAreGiven'
  BY <1>4 DEF FiledAreGiven
<1>6. SelectedIsKnown' /\ ShownAreFiled' /\ ShownAreGiven'
  BY <1>1, <1>2, <1>4 DEF SelectedIsKnown, ShownAreFiled, ShownAreGiven
<1> QED
  BY <1>3, <1>5, <1>6

LEMMA AddTokensKeeps ==
  ASSUME TokenInv, selected # NoAccount, NEW tokens \in SUBSET Tokens,
         AddTokens(tokens)
  PROVE  TokenInv' /\ UNCHANGED <<accountVars, selected>>
<1>1. /\ UpdateAccountTokens(shown \cup tokens)
      /\ given' = given \cup {<<selected, providerType, k>> : k \in tokens}
      /\ UNCHANGED <<accountVars, selected, providerType, torn>>
  BY DEF AddTokens
<1>2. selected \in Accounts /\ providerType \in Types
  BY DEF TokenInv, TokensTyped
<1>3. shown \cup tokens \in SUBSET Tokens
  BY DEF TokenInv, TokensTyped
<1>4. given' \subseteq Accounts \X Types \X Tokens
  BY <1>1, <1>2 DEF TokenInv, TokensTyped
<1>5. \A k \in shown \cup tokens : <<selected, providerType, k>> \in given'
  BY <1>1 DEF TokenInv, ShownAreGiven
<1>6. identities' = identities
  BY <1>1 DEF accountVars
<1> QED
  BY <1>1, <1>3, <1>4, <1>5, <1>6, FilingKeeps

(* Steps that change none of it. *)
LEMMA TokensKept ==
  ASSUME TokenInv, UNCHANGED <<identities, tokenVars, torn, given>>
  PROVE  TokenInv'
BY DEF tokenVars, TokenInv, TokensTyped, SelectedIsKnown, ShownAreFiled,
   FiledAreGiven, ShownAreGiven

-----------------------------------------------------------------------------
(* The operations on the accounts. *)

OpsTyped ==
  /\ vault \subseteq Accounts
  /\ limit \in Limits
  /\ timer \in Limits \cup {0}
  /\ restore \in {"idle", "cleared", "derived"}
  /\ adding \in [accounts : SUBSET Accounts, account : Accounts \cup {NoAccount}]
  /\ removing \in Accounts \cup {NoAccount}
  /\ search \in [account : Accounts \cup {NoAccount}, type : Types,
                 asked : SUBSET Tokens]
  /\ adding # NoAdding => adding.account \in Accounts
  /\ search # NoSearch => selected # NoAccount

(* The parts that only a single operation under way keeps. *)
OneAtATime ==
  /\ restore # "idle" => adding = NoAdding /\ removing = NoAccount
  /\ adding # NoAdding => removing = NoAccount

AddingMatches ==
  adding # NoAdding =>
    /\ adding.accounts = vault /\ adding.account \in vault
    /\ identities = vault /\ selected \in vault

RemovingMatches ==
  removing # NoAccount =>
    /\ removing \in vault
    /\ unlocked => identities = vault \ {removing} /\ selected \in identities

IdleMatches ==
  ~Busy => identities = vault /\ (vault # {} => selected \in vault)

UnlockedHasAccounts == unlocked /\ restore = "idle" => vault # {}

OpsInv ==
  ~disturbed =>
    /\ OneAtATime
    /\ AddingMatches
    /\ RemovingMatches
    /\ IdleMatches
    /\ UnlockedHasAccounts

PrefInv ==
  /\ TokenInv
  /\ OpsTyped
  /\ OpsInv

USE DEF accountVars, tokenVars, opVars, PreferencesWritten, ResetTimer

LEMMA OpsInvImplies == OpsInv => IdentitiesMatchVault
BY DEF OpsInv, IdleMatches, IdentitiesMatchVault

LEMMA NoAddingType ==
  NoAdding \in [accounts : SUBSET Accounts, account : Accounts \cup {NoAccount}]
BY DEF NoAdding

LEMMA NoSearchType ==
  NoSearch \in [account : Accounts \cup {NoAccount}, type : Types,
                asked : SUBSET Tokens]
BY DEF NoSearch

LEMMA PrefInitInv == PrefInit => PrefInv
<1> SUFFICES ASSUME PrefInit PROVE PrefInv
  OBVIOUS
<1>1. TokenInv
  BY NoFilesType DEF PrefInit, TokenInv, TokensTyped, SelectedIsKnown,
     ShownAreFiled, FiledAreGiven, ShownAreGiven, NoFiles
<1>2. OpsTyped
  BY NoAddingType, NoSearchType DEF PrefInit, OpsTyped
<1>3. OpsInv
  BY DEF PrefInit, OpsInv, OneAtATime, AddingMatches, RemovingMatches, IdleMatches,
     UnlockedHasAccounts
<1> QED
  BY <1>1, <1>2, <1>3 DEF PrefInv

LEMMA CreateNewVaultKeeps ==
  ASSUME PrefInv, NEW a \in Accounts, CreateNewVaultAndKeychain(a)
  PROVE  PrefInv'
<1> USE DEF PrefInv
<1>1. TokenInv' /\ identities' = {a} /\ selected' = a
  BY SetAndSelectKeeps DEF CreateNewVaultAndKeychain
<1>2. OpsTyped'
  BY <1>1 DEF CreateNewVaultAndKeychain, OpsTyped
<1>3. OpsInv'
  BY <1>1 DEF CreateNewVaultAndKeychain, OpsTyped, OpsInv, OneAtATime, AddingMatches,
     RemovingMatches, IdleMatches, UnlockedHasAccounts, Busy
<1> QED
  BY <1>1, <1>2, <1>3

LEMMA KeepVaultKeeps ==
  ASSUME PrefInv, KeepVault
  PROVE  PrefInv'
<1> USE DEF PrefInv
<1>1. vault \in SUBSET Accounts
  BY DEF OpsTyped
<1>2. /\ TokenInv'
      /\ identities' = identities \cup vault
      /\ selected' = selected \/ (selected \notin vault /\ selected' \in vault)
  BY <1>1, KeyringUpdateKeeps DEF KeepVault
<1>3. OpsTyped'
  BY <1>2 DEF KeepVault, OpsTyped
<1>4. OpsInv'
  BY <1>2 DEF KeepVault, Disturb, OpsInv, OneAtATime, AddingMatches,
     RemovingMatches, IdleMatches, UnlockedHasAccounts, Busy
<1> QED
  BY <1>2, <1>3, <1>4

LEMMA BeginRestoreKeeps ==
  ASSUME PrefInv, BeginRestore
  PROVE  PrefInv'
<1> USE DEF PrefInv
<1>1. /\ identities' = {}
      /\ files' \in [Accounts -> [Types -> SUBSET Tokens]]
      /\ FiledAreGiven'
  BY SetAddressesFacts, {} \in SUBSET Accounts DEF BeginRestore
<1>2. TokenInv'
  BY <1>1 DEF BeginRestore, TokenInv, TokensTyped, SelectedIsKnown, ShownAreFiled,
     ShownAreGiven
<1>3. OpsTyped'
  BY DEF BeginRestore, OpsTyped
<1>4. OpsInv'
  BY DEF BeginRestore, Disturb, OpsInv, OneAtATime, AddingMatches,
     RemovingMatches, IdleMatches, UnlockedHasAccounts, Busy
<1> QED
  BY <1>2, <1>3, <1>4

LEMMA KeyringRestoredKeeps ==
  ASSUME PrefInv, NEW a \in Accounts, KeyringRestored(a)
  PROVE  PrefInv'
<1> USE DEF PrefInv
<1>1. PICK u \in {unlocked, TRUE} : OnKeyringControllerUpdate({a}, u)
  BY DEF KeyringRestored
<1>2. /\ TokenInv'
      /\ selected' = selected \/ (selected \notin {a} /\ selected' \in {a})
  BY <1>1, KeyringUpdateKeeps, {a} \in SUBSET Accounts DEF KeyringRestored
<1>3. OpsTyped'
  BY <1>2 DEF KeyringRestored, OpsTyped
<1>4. OpsInv'
  BY DEF KeyringRestored, OpsInv, OneAtATime, AddingMatches,
     RemovingMatches, IdleMatches, UnlockedHasAccounts, Busy
<1> QED
  BY <1>2, <1>3, <1>4

LEMMA RestoreAnotherKeeps ==
  ASSUME PrefInv, NEW a \in Accounts, RestoreAnother(a)
  PROVE  PrefInv'
<1> USE DEF PrefInv
<1>1. vault' \in SUBSET Accounts
  BY DEF RestoreAnother, OpsTyped
<1>2. /\ TokenInv'
      /\ selected' = selected \/ (selected \notin vault' /\ selected' \in vault')
  BY <1>1, KeyringUpdateKeeps DEF RestoreAnother
<1>3. OpsTyped'
  BY <1>1, <1>2 DEF RestoreAnother, OpsTyped
<1>4. OpsInv'
  BY DEF RestoreAnother, OpsInv, OneAtATime, AddingMatches,
     RemovingMatches, IdleMatches, UnlockedHasAccounts, Busy
<1> QED
  BY <1>2, <1>3, <1>4

LEMMA EndRestoreKeeps ==
  ASSUME PrefInv, EndRestore
  PROVE  PrefInv'
<1> USE DEF PrefInv
<1>1. PICK a \in vault : SetSelectedAddress(a)
  BY DEF EndRestore
<1>2. vault \in SUBSET Accounts /\ a \in Accounts
  BY <1>1 DEF OpsTyped
<1>3. TokenInv' /\ identities' = vault /\ selected' = a
  BY <1>1, <1>2, SetAndSelectKeeps DEF EndRestore
<1>4. OpsTyped'
  BY <1>2, <1>3 DEF EndRestore, OpsTyped
<1>5. OpsInv'
  BY <1>1, <1>3 DEF EndRestore, OpsInv, OneAtATime, AddingMatches,
     RemovingMatches, IdleMatches, UnlockedHasAccounts, Busy
<1> QED
  BY <1>3, <1>4, <1>5

(* An operation that fails leaves the accounts; it counts as a disturbance,
   except the verification of the seed phrase, which leaves nothing to do. *)
LEMMA FailureKeeps ==
  ASSUME PrefInv, RestoreFails \/ VerifyFails \/ RemoveFails
  PROVE  PrefInv'
<1> USE DEF PrefInv
<1>1. TokenInv'
  BY TokensKept DEF RestoreFails, VerifyFails, RemoveFails
<1>2. OpsTyped'
  BY NoAddingType DEF RestoreFails, VerifyFails, RemoveFails, OpsTyped
<1>3. CASE RestoreFails \/ RemoveFails
  BY <1>1, <1>2, <1>3 DEF RestoreFails, RemoveFails, OpsInv
<1>4. CASE VerifyFails
  <2>1. OpsInv'
    BY <1>4 DEF VerifyFails, OpsInv, OneAtATime, AddingMatches, RemovingMatches,
       IdleMatches, UnlockedHasAccounts, Busy
  <2> QED
    BY <1>1, <1>2, <2>1
<1> QED
  BY <1>3, <1>4

LEMMA BeginAddAccountKeeps ==
  ASSUME PrefInv, NEW a \in Accounts, BeginAddAccount(a)
  PROVE  PrefInv'
<1> USE DEF PrefInv
<1>1. vault' \in SUBSET Accounts /\ vault' = vault \cup {a}
  BY DEF BeginAddAccount, OpsTyped
<1>2. /\ TokenInv'
      /\ identities' = identities \cup vault'
      /\ selected' = selected \/ (selected \notin vault' /\ selected' \in vault')
  BY <1>1, KeyringUpdateKeeps DEF BeginAddAccount
<1>3. /\ adding' = [accounts |-> vault', account |-> a]
      /\ adding'.account = a /\ adding'.accounts = vault'
  BY DEF BeginAddAccount
<1>4. OpsTyped'
  BY <1>1, <1>2, <1>3 DEF BeginAddAccount, OpsTyped
<1>5. OpsInv'
  <2>1. SUFFICES ASSUME ~disturbed' PROVE OpsInv'
    BY DEF OpsInv
  <2>2. ~disturbed /\ ~Busy
    BY <2>1 DEF BeginAddAccount, Disturb
  <2>3. identities = vault /\ selected \in vault
    BY <2>2 DEF BeginAddAccount, OpsInv, IdleMatches, UnlockedHasAccounts, Busy
  <2>4. identities' = vault' /\ selected' \in vault'
    BY <1>1, <1>2, <2>3
  <2>5. restore' = "idle" /\ removing' = NoAccount
    BY <2>2 DEF BeginAddAccount, Busy
  <2>6. Busy' \/ adding' = NoAdding
    BY DEF Busy
  <2> QED
    BY <1>1, <1>3, <2>4, <2>5, <2>6 DEF BeginAddAccount, OpsInv, OneAtATime,
       AddingMatches, RemovingMatches, IdleMatches, UnlockedHasAccounts, Busy
<1> QED
  BY <1>2, <1>4, <1>5

LEMMA EndAddAccountKeeps ==
  ASSUME PrefInv, EndAddAccount
  PROVE  PrefInv'
<1> USE DEF PrefInv
<1>1. adding.accounts \in SUBSET Accounts /\ adding.account \in Accounts
  BY DEF EndAddAccount, OpsTyped
<1>2. TokenInv' /\ identities' = adding.accounts /\ selected' = adding.account
  BY <1>1, SetAndSelectKeeps DEF EndAddAccount
<1>3. OpsTyped'
  BY <1>1, <1>2, NoAddingType DEF EndAddAccount, OpsTyped
<1>4. OpsInv'
  BY <1>2 DEF EndAddAccount, OpsInv, OneAtATime, AddingMatches,
     RemovingMatches, IdleMatches, UnlockedHasAccounts, Busy
<1> QED
  BY <1>2, <1>3, <1>4

LEMMA ImportAccountKeeps ==
  ASSUME PrefInv, NEW a \in Accounts, ImportAccount(a)
  PROVE  PrefInv'
<1> USE DEF PrefInv
<1>1. vault' \in SUBSET Accounts /\ vault' = vault \cup {a}
  BY DEF ImportAccount, OpsTyped
<1>2. TokenInv' /\ identities' = vault' /\ selected' = a
  BY <1>1, SetAndSelectKeeps DEF ImportAccount
<1>3. OpsTyped'
  BY <1>1, <1>2 DEF ImportAccount, OpsTyped
<1>4. OpsInv'
  BY <1>1, <1>2 DEF ImportAccount, Disturb, OpsInv, OneAtATime, AddingMatches,
     RemovingMatches, IdleMatches, UnlockedHasAccounts, Busy
<1> QED
  BY <1>2, <1>3, <1>4

LEMMA BeginRemoveAccountKeeps ==
  ASSUME PrefInv, NEW a \in Accounts, BeginRemoveAccount(a)
  PROVE  PrefInv'
<1> USE DEF PrefInv
<1>1. /\ TokenInv'
      /\ a \in identities /\ identities' = identities \ {a}
      /\ \/ selected' = selected /\ selected # a
         \/ selected' \in identities'
  BY RemoveAddressKeeps DEF BeginRemoveAccount
<1>2. identities \subseteq Accounts /\ a # NoAccount
  BY DEF TokenInv, TokensTyped
<1>3. OpsTyped'
  BY <1>1, <1>2 DEF BeginRemoveAccount, OpsTyped
<1>4. OpsInv'
  <2>1. SUFFICES ASSUME ~disturbed' PROVE OpsInv'
    BY DEF OpsInv
  <2>2. ~disturbed /\ ~Busy
    BY <2>1 DEF BeginRemoveAccount, Disturb
  <2>3. identities = vault /\ selected \in vault
    BY <2>2 DEF BeginRemoveAccount, OpsInv, IdleMatches, UnlockedHasAccounts, Busy
  <2> QED
    BY <1>1, <1>2, <2>2, <2>3 DEF BeginRemoveAccount, OpsInv, OneAtATime, AddingMatches,
     RemovingMatches, IdleMatches, UnlockedHasAccounts, Busy
<1> QED
  BY <1>1, <1>3, <1>4

LEMMA EndRemoveAccountKeeps ==
  ASSUME PrefInv, EndRemoveAccount
  PROVE  PrefInv'
<1> USE DEF PrefInv
<1>1. vault' \in SUBSET Accounts /\ vault' = vault \ {removing} /\ removing # NoAccount
  BY DEF EndRemoveAccount, OpsTyped
<1>2. /\ TokenInv'
      /\ identities' = identities \cup vault'
      /\ selected' = selected \/ (selected \notin vault' /\ selected' \in vault')
  BY <1>1, KeyringUpdateKeeps DEF EndRemoveAccount
<1>3. OpsTyped'
  BY <1>1, <1>2 DEF EndRemoveAccount, OpsTyped
<1>4. OpsInv'
  BY <1>1, <1>2 DEF EndRemoveAccount, OpsInv, OneAtATime, AddingMatches,
     RemovingMatches, IdleMatches, UnlockedHasAccounts, Busy
<1> QED
  BY <1>2, <1>3, <1>4

LEMMA SelectAccountKeeps ==
  ASSUME PrefInv, NEW a \in Accounts, SelectAccount(a)
  PROVE  PrefInv'
<1> USE DEF PrefInv
<1>1. /\ selected' = a
      /\ UNCHANGED <<vault, unlocked, identities, files, providerType, given>>
  BY DEF SelectAccount, SetSelectedAddress
<1>2. FiledAreGiven' /\ files' \in [Accounts -> [Types -> SUBSET Tokens]]
  BY <1>1 DEF TokenInv, TokensTyped, FiledAreGiven
<1>3. identities' \subseteq Accounts
  BY <1>1 DEF TokenInv, TokensTyped
<1>4. TokenInv'
  BY <1>1, <1>2, <1>3, SelectingKeeps DEF SelectAccount
<1>5. OpsTyped'
  BY <1>1 DEF SelectAccount, OpsTyped
<1>6. OpsInv'
  BY <1>1 DEF SelectAccount, OpsInv, OneAtATime, AddingMatches,
     RemovingMatches, IdleMatches, UnlockedHasAccounts, Busy
<1> QED
  BY <1>4, <1>5, <1>6

-----------------------------------------------------------------------------
(* Networks and tokens. *)

LEMMA SwitchProviderKeeps ==
  ASSUME PrefInv, NEW type \in Types, SwitchProvider(type)
  PROVE  PrefInv'
<1> USE DEF PrefInv
<1>1. /\ selected \in Accounts /\ providerType' = type
      /\ UNCHANGED <<vault, unlocked, identities, selected, files, given>>
      /\ shown' = files[selected][type]
      /\ torn' = (selected \notin identities)
  BY DEF SwitchProvider, UpdateTokens, TokenInv, TokensTyped
<1>2. torn' \in BOOLEAN
  BY <1>1
<1>3. shown' \subseteq Tokens
  BY <1>1 DEF TokenInv, TokensTyped
<1>4. TokensTyped'
  BY <1>1, <1>2, <1>3 DEF TokenInv, TokensTyped
<1>5. SelectedIsKnown' /\ ShownAreFiled' /\ FiledAreGiven' /\ ShownAreGiven'
  BY <1>1, <1>3 DEF TokenInv, TokensTyped, SelectedIsKnown, ShownAreFiled,
     FiledAreGiven, ShownAreGiven
<1>6. OpsTyped'
  BY <1>1 DEF SwitchProvider, OpsTyped
<1>7. OpsInv'
  BY <1>1 DEF SwitchProvider, OpsInv, OneAtATime, AddingMatches,
     RemovingMatches, IdleMatches, UnlockedHasAccounts, Busy
<1> QED
  BY <1>4, <1>5, <1>6, <1>7 DEF TokenInv

(* What a step that leaves the accounts and the operations alone keeps. *)
LEMMA OpsKept ==
  ASSUME OpsInv, UNCHANGED <<accountVars, selected, opVars>>
  PROVE  OpsInv'
BY DEF OpsInv, OneAtATime, AddingMatches,
     RemovingMatches, IdleMatches, UnlockedHasAccounts, Busy

LEMMA AddTokenKeeps ==
  ASSUME PrefInv, NEW token \in Tokens, AddToken(token)
  PROVE  PrefInv'
<1> USE DEF PrefInv
<1>1. TokenInv' /\ UNCHANGED <<accountVars, selected>>
  BY AddTokensKeeps, {token} \in SUBSET Tokens DEF AddToken
<1>2. UNCHANGED <<opVars, limit, search>> /\ timer' = limit
  BY DEF AddToken, AddTokens
<1> QED
  BY <1>1, <1>2, OpsKept DEF OpsTyped

LEMMA RemoveTokenKeeps ==
  ASSUME PrefInv, NEW token \in Tokens, RemoveToken(token)
  PROVE  PrefInv'
<1> USE DEF PrefInv
<1>1. /\ shown \ {token} \in SUBSET Tokens
      /\ given \subseteq Accounts \X Types \X Tokens
      /\ \A k \in shown \ {token} : selected # NoAccount =>
           <<selected, providerType, k>> \in given
  BY DEF TokenInv, TokensTyped, ShownAreGiven
<1>2. TokenInv'
  BY <1>1, FilingKeeps DEF RemoveToken
<1>3. UNCHANGED <<accountVars, selected, opVars, limit, search>> /\ timer' = limit
  BY DEF RemoveToken
<1> QED
  BY <1>2, <1>3, OpsKept DEF OpsTyped

LEMMA SearchKeeps ==
  ASSUME PrefInv, DetectNewTokens \/ BalancesArrive \/ SearchFails
  PROVE  PrefInv'
<1> USE DEF PrefInv
<1>1. CASE DetectNewTokens
  <2>1. search' \in [account : Accounts \cup {NoAccount}, type : Types,
                     asked : SUBSET Tokens]
    BY <1>1 DEF DetectNewTokens, TokenInv, TokensTyped
  <2>2. /\ selected # NoAccount
        /\ UNCHANGED <<accountVars, tokenVars, limit, timer, opVars, torn, given>>
    BY <1>1 DEF DetectNewTokens
  <2> QED
    BY <2>1, <2>2, TokensKept, OpsKept DEF OpsTyped
<1>2. CASE \/ SearchFails
           \/ /\ search' = NoSearch
              /\ UNCHANGED <<accountVars, tokenVars, limit, timer, opVars, torn,
                             given>>
  <2>1. /\ search' = NoSearch
        /\ UNCHANGED <<accountVars, tokenVars, limit, timer, opVars, torn, given>>
    BY <1>2 DEF SearchFails
  <2> QED
    BY <2>1, TokensKept, OpsKept, NoSearchType DEF OpsTyped
<1>3. ASSUME BalancesArrive,
             AddTokens(search.asked \cap Holdings[search.account][search.type])
      PROVE  PrefInv'
  <2>1. selected # NoAccount /\ search.asked \in SUBSET Tokens
    BY <1>3 DEF BalancesArrive, OpsTyped
  <2>2. search.asked \cap Holdings[search.account][search.type] \in SUBSET Tokens
    BY <2>1
  <2>3. TokenInv' /\ UNCHANGED <<accountVars, selected>>
    BY <1>3, <2>1, <2>2, AddTokensKeeps
  <2>4. UNCHANGED <<opVars, limit>> /\ timer' = limit /\ search' = NoSearch
    BY <1>3 DEF BalancesArrive, AddTokens
  <2> QED
    BY <2>3, <2>4, OpsKept, NoSearchType DEF OpsTyped
<1> QED
  BY <1>1, <1>2, <1>3 DEF BalancesArrive

-----------------------------------------------------------------------------
(* The lock. *)

LEMMA SubmitPasswordKeeps ==
  ASSUME PrefInv, SubmitPassword
  PROVE  PrefInv'
<1> USE DEF PrefInv
<1>1. vault \in SUBSET Accounts
  BY DEF OpsTyped
<1>2. /\ identities' = vault
      /\ files' = [a \in Accounts |->
                     IF a \in vault \ identities THEN NoFiles[a] ELSE files[a]]
  BY DEF SubmitPassword, SyncAddresses
<1>3. /\ files' \in [Accounts -> [Types -> SUBSET Tokens]]
      /\ FiledAreGiven'
      /\ selected # NoAccount /\ ~torn => files'[selected] = files[selected]
  BY <1>1, <1>2, AddressesAddedFacts DEF SubmitPassword
<1>4. TokenInv' /\ selected' \in vault
  <2>1. CASE selected \in vault /\ KeepSelection
    <3>1. TokenInv'
      BY <1>1, <1>2, <1>3, <2>1, KeepingKeeps DEF SubmitPassword
    <3> QED
      BY <2>1, <3>1 DEF KeepSelection
  <2>2. CASE \E a \in vault : SetSelectedAddress(a)
    <3>1. PICK a \in vault : SetSelectedAddress(a)
      BY <2>2
    <3>2. TokenInv'
      BY <1>1, <1>2, <1>3, <3>1, SelectingKeeps DEF SubmitPassword
    <3> QED
      BY <3>1, <3>2 DEF SetSelectedAddress
  <2> QED
    BY <2>1, <2>2 DEF SubmitPassword
<1>5. OpsTyped'
  BY <1>1, <1>4 DEF SubmitPassword, OpsTyped
<1>6. OpsInv'
  BY <1>2, <1>4 DEF SubmitPassword, OpsInv, OneAtATime, AddingMatches,
     RemovingMatches, IdleMatches, UnlockedHasAccounts, Busy
<1> QED
  BY <1>4, <1>5, <1>6

LEMMA LockKeeps ==
  ASSUME PrefInv, NEW minutes \in Limits \cup {0}, Lock(minutes)
  PROVE  PrefInv'
<1> USE DEF PrefInv
<1>1. vault \in SUBSET Accounts
  BY DEF OpsTyped
<1>2. CASE OnKeyringControllerUpdate(vault, FALSE) /\ timer' = limit
  <2>1. /\ TokenInv'
        /\ identities' = identities \cup vault
        /\ selected' = selected \/ (selected \notin vault /\ selected' \in vault)
    BY <1>1, <1>2, KeyringUpdateKeeps DEF Lock
  <2>2. OpsTyped'
    BY <1>1, <1>2, <2>1 DEF Lock, OpsTyped
  <2>3. OpsInv'
    BY <2>1 DEF Lock, OpsInv, OneAtATime, AddingMatches,
     RemovingMatches, IdleMatches, UnlockedHasAccounts, Busy
  <2> QED
    BY <2>1, <2>2, <2>3
<1>3. CASE UNCHANGED <<identities, files>> /\ KeepSelection /\ timer' = minutes
  <2>1. /\ UNCHANGED <<identities, tokenVars, torn, given, vault, opVars, limit, search>>
        /\ unlocked' = FALSE
    BY <1>3 DEF Lock, KeepSelection
  <2>2. TokenInv'
    BY <2>1, TokensKept
  <2>3. OpsTyped'
    BY <1>3, <2>1 DEF OpsTyped
  <2>4. OpsInv'
    BY <2>1 DEF OpsInv, OneAtATime, AddingMatches,
     RemovingMatches, IdleMatches, UnlockedHasAccounts, Busy
  <2> QED
    BY <2>2, <2>3, <2>4
<1> QED
  BY <1>2, <1>3 DEF Lock

LEMMA TimerKeeps ==
  ASSUME PrefInv, SetLastActiveTime \/ \E minutes \in Limits : SetAutoLockTimeLimit(minutes)
  PROVE  PrefInv'
<1> USE DEF PrefInv
<1>1. /\ UNCHANGED <<accountVars, tokenVars, opVars, search, torn, given>>
      /\ limit' \in Limits /\ timer' = limit'
  BY DEF SetLastActiveTime, SetAutoLockTimeLimit, OpsTyped
<1> QED
  BY <1>1, TokensKept, OpsKept DEF OpsTyped

LEMMA RestartKeeps ==
  ASSUME PrefInv, Restart
  PROVE  PrefInv'
<1> USE DEF PrefInv
<1>1. TokenInv'
  BY TokensKept DEF Restart
<1>2. OpsTyped'
  BY NoAddingType, NoSearchType DEF Restart, OpsTyped
<1>3. OpsInv'
  BY DEF Restart, Disturb, OpsInv, OneAtATime, AddingMatches,
     RemovingMatches, IdleMatches, UnlockedHasAccounts, Busy
<1> QED
  BY <1>1, <1>2, <1>3

LEMMA PrefNextInv == PrefInv /\ [PrefNext]_prefVars => PrefInv'
<1> SUFFICES ASSUME PrefInv, [PrefNext]_prefVars PROVE PrefInv'
  OBVIOUS
<1>1. ASSUME AccountStep PROVE PrefInv'
  BY <1>1, CreateNewVaultKeeps, KeyringRestoredKeeps, RestoreAnotherKeeps,
     BeginAddAccountKeeps, ImportAccountKeeps, BeginRemoveAccountKeeps,
     SelectAccountKeeps, KeepVaultKeeps, BeginRestoreKeeps, EndRestoreKeeps,
     FailureKeeps, EndAddAccountKeeps, EndRemoveAccountKeeps DEF AccountStep
<1>2. ASSUME TokenStep PROVE PrefInv'
  BY <1>2, AddTokenKeeps, RemoveTokenKeeps, SwitchProviderKeeps, SearchKeeps
     DEF TokenStep
<1>3. ASSUME LockStep PROVE PrefInv'
  <2>1. timer \in Limits \cup {0}
    BY DEF PrefInv, OpsTyped
  <2> QED
    BY <1>3, <2>1, SubmitPasswordKeeps, LockKeeps, TimerKeeps, RestartKeeps
       DEF LockStep, SetLocked, TimerFires
<1>4. CASE UNCHANGED prefVars
  BY <1>4, TokensKept, OpsKept DEF prefVars, PrefInv, OpsTyped
<1> QED
  BY <1>1, <1>2, <1>3, <1>4 DEF PrefNext

LEMMA PrefInvariant == PrefSpec => []PrefInv
BY PrefInitInv, PrefNextInv, PTL DEF PrefSpec

-----------------------------------------------------------------------------
(* The flags, and the timer, need nothing else. *)

Flags == unlocked \in BOOLEAN /\ disturbed \in BOOLEAN

LEMMA FlagsInvariant == PrefSpec => []Flags
<1>1. PrefInit => Flags
  BY DEF PrefInit, Flags
<1>2. Flags /\ [PrefNext]_prefVars => Flags'
  <2> SUFFICES ASSUME Flags, [PrefNext]_prefVars PROVE Flags'
    OBVIOUS
  <2>1. unlocked' = unlocked \/ unlocked' = TRUE \/ unlocked' = FALSE
    BY Zenon DEF PrefNext, AccountStep, TokenStep, LockStep, prefVars,
       CreateNewVaultAndKeychain, KeepVault, BeginRestore, KeyringRestored,
       RestoreAnother, EndRestore, RestoreFails, BeginAddAccount, EndAddAccount,
       VerifyFails, ImportAccount, BeginRemoveAccount, EndRemoveAccount,
       RemoveFails, SelectAccount, AddToken, AddTokens, RemoveToken,
       SwitchProvider, DetectNewTokens, BalancesArrive, SearchFails,
       SubmitPassword, SetLocked, TimerFires, Lock, SetLastActiveTime,
       SetAutoLockTimeLimit, Restart
  <2>2. \/ disturbed' = disturbed \/ disturbed' = TRUE
        \/ disturbed' = (disturbed \/ Busy) \/ disturbed' = Busy
        \/ disturbed' = (adding # NoAdding \/ removing # NoAccount)
    BY Zenon DEF PrefNext, AccountStep, TokenStep, LockStep, prefVars, Disturb,
       CreateNewVaultAndKeychain, KeepVault, BeginRestore, KeyringRestored,
       RestoreAnother, EndRestore, RestoreFails, BeginAddAccount, EndAddAccount,
       VerifyFails, ImportAccount, BeginRemoveAccount, EndRemoveAccount,
       RemoveFails, SelectAccount, AddToken, AddTokens, RemoveToken,
       SwitchProvider, DetectNewTokens, BalancesArrive, SearchFails,
       SubmitPassword, SetLocked, TimerFires, Lock, SetLastActiveTime,
       SetAutoLockTimeLimit, Restart
  <2>3. unlocked' \in BOOLEAN
    BY <2>1, Zenon DEF Flags
  <2>4. disturbed' \in BOOLEAN
    BY <2>2, Zenon DEF Flags, Busy
  <2> QED
    BY <2>3, <2>4 DEF Flags
<1> QED
  BY <1>1, <1>2, PTL DEF PrefSpec

LEMMA TimerInvariant == PrefSpec => []AutoLockArmed
<1>1. PrefInit => AutoLockArmed
  BY DEF PrefInit, AutoLockArmed
<1>2. AutoLockArmed /\ [PrefNext]_prefVars => AutoLockArmed'
  <2> SUFFICES ASSUME AutoLockArmed, [PrefNext]_prefVars PROVE AutoLockArmed'
    OBVIOUS
  <2>1. \/ timer' = limit'
        \/ unlocked' = FALSE
        \/ UNCHANGED <<unlocked, limit, timer>>
    BY DEF PrefNext, AccountStep, TokenStep, LockStep, prefVars,
       CreateNewVaultAndKeychain, KeepVault, BeginRestore, KeyringRestored,
       RestoreAnother, EndRestore, RestoreFails, BeginAddAccount, EndAddAccount,
       VerifyFails, ImportAccount, BeginRemoveAccount, EndRemoveAccount,
       RemoveFails, SelectAccount, AddToken, AddTokens, RemoveToken,
       SwitchProvider, DetectNewTokens, BalancesArrive, SearchFails,
       SubmitPassword, SetLocked, TimerFires, Lock, SetLastActiveTime,
       SetAutoLockTimeLimit, Restart
  <2> QED
    BY <2>1 DEF AutoLockArmed
<1> QED
  BY <1>1, <1>2, PTL DEF PrefSpec

-----------------------------------------------------------------------------

(***************************************************************************)
(* The state keeps its type: what is written after an await is still an    *)
(* account, and no search ends when none is selected.                      *)
(***************************************************************************)
THEOREM PreferencesTyped == PrefSpec => []PrefTypeOK
<1>1. PrefInv /\ Flags => PrefTypeOK
  BY DEF PrefInv, TokenInv, TokensTyped, OpsTyped, Flags, PrefTypeOK
<1> QED
  BY <1>1, PrefInvariant, FlagsInvariant, PTL

(***************************************************************************)
(* An unlocked wallet with a limit has a timer running for that limit.     *)
(***************************************************************************)
THEOREM WalletLocksItself == PrefSpec => []AutoLockArmed
BY TimerInvariant

(***************************************************************************)
(* The preferences know the accounts of the keyrings, and no others, when  *)
(* no operation is under way and none overlapped or failed since the last  *)
(* unlock.                                                                 *)
(***************************************************************************)
THEOREM AccountsAgree == PrefSpec => []IdentitiesMatchVault
<1>1. PrefInv => IdentitiesMatchVault
  BY OpsInvImplies DEF PrefInv
<1> QED
  BY <1>1, PrefInvariant, PTL

(***************************************************************************)
(* The tokens shown are those filed under the account and network that are *)
(* selected, and none is filed under others than it was added for.         *)
(***************************************************************************)
THEOREM TokensStayWithTheirAccount == PrefSpec => []TokensAreOwn
<1>1. PrefInv => TokensAreOwn
  BY TokenInvImplies DEF PrefInv
<1> QED
  BY <1>1, PrefInvariant, PTL
-----------------------------------------------------------------------------
(***************************************************************************)
(* What is filed under an account of the wallet goes in three ways only.   *)
(*                                                                         *)
(* What is added is filed with all that is shown, so no token filed under  *)
(* the selection may be missing there; after a restore the list shown may  *)
(* be longer, as the account it is of came back without its tokens.        *)
(***************************************************************************)
FiledAreShown ==
  selected \in identities => files[selected][providerType] \subseteq shown

FiledKept(a) == \A t \in Types : files[a][t] \subseteq files'[a][t]

LEMMA AddedKept ==
  ASSUME TokensTyped, FiledAreShown, NEW S \in SUBSET Accounts,
         files' = [a \in Accounts |->
                     IF a \in S \ identities THEN NoFiles[a] ELSE files[a]],
         providerType' = providerType
  PROVE  /\ \A a \in identities : FiledKept(a)
         /\ KeepSelection /\ identities' \in {S, identities \cup S} => FiledAreShown'
<1>1. \A a \in identities : FiledKept(a)
  BY DEF TokensTyped, FiledKept
<1>2. ASSUME KeepSelection, identities' \in {S, identities \cup S} PROVE FiledAreShown'
  <2> SUFFICES ASSUME selected \in identities'
               PROVE  files'[selected][providerType] \subseteq shown
    BY <1>2 DEF FiledAreShown, KeepSelection
  <2> QED BY <1>2 DEF FiledAreShown, NoFiles, TokensTyped
<1> QED BY <1>1, <1>2

LEMMA SelectedShown ==
  ASSUME NEW a, SetSelectedAddress(a), providerType' = providerType
  PROVE  FiledAreShown'
BY DEF SetSelectedAddress, UpdateTokens, FiledAreShown

LEMMA KeyringUpdateFiles ==
  ASSUME TokensTyped, FiledAreShown, NEW S \in SUBSET Accounts, NEW u,
         OnKeyringControllerUpdate(S, u), providerType' = providerType
  PROVE  FiledAreShown' /\ \A a \in identities : FiledKept(a)
BY AddedKept, SelectedShown DEF OnKeyringControllerUpdate, AddAddresses

LEMMA SetAddressesFiles ==
  ASSUME TokensTyped, NEW S \in SUBSET Accounts, SetAddresses(S)
  PROVE  \A a \in S : FiledKept(a)
BY DEF SetAddresses, CarryTokens, TokensTyped, FiledKept

LEMMA UntouchedFiles ==
  ASSUME FiledAreShown, UNCHANGED <<identities, tokenVars>>
  PROVE  FiledAreShown' /\ \A a \in Accounts : FiledKept(a)
BY DEF FiledAreShown, FiledKept

LEMMA AddTokensFiles ==
  ASSUME TokensTyped, FiledAreShown, selected \in Accounts,
         NEW tokens \in SUBSET Tokens, AddTokens(tokens)
  PROVE  FiledAreShown' /\ \A a \in identities : FiledKept(a)
<1>1. /\ files' = [files EXCEPT ![selected][providerType] = shown \cup tokens]
      /\ shown' = shown \cup tokens
      /\ UNCHANGED <<identities, selected, providerType>>
  BY DEF AddTokens, UpdateAccountTokens
<1>2. \A a \in Accounts, t \in Types :
        files'[a][t] = IF a = selected /\ t = providerType THEN shown \cup tokens
                       ELSE files[a][t]
  BY <1>1 DEF TokensTyped
<1>3. FiledAreShown'
  BY <1>1, <1>2 DEF FiledAreShown, TokensTyped
<1>4. \A a \in identities : FiledKept(a)
  BY <1>2 DEF FiledAreShown, FiledKept, TokensTyped
<1> QED BY <1>3, <1>4

(* The exceptions of the property. *)
MayGo(a, t) ==
  \/ a = selected /\ t = providerType /\ \E k \in Tokens : RemoveToken(k)
  \/ removing' = a
  \/ restore' = "cleared"
  \/ disturbed'

FiledStep ==
  /\ FiledAreShown'
  /\ \A a \in vault \cap identities, t \in Types :
       files[a][t] \subseteq files'[a][t] \/ MayGo(a, t)

LEMMA AccountsFiled ==
  ASSUME PrefInv, FiledAreShown, AccountStep PROVE FiledStep
<1> USE DEF PrefInv
<1>0. TokensTyped /\ vault \subseteq Accounts /\ identities \subseteq Accounts
  BY DEF TokenInv, TokensTyped, OpsTyped
<1>1. ASSUME NEW a \in Accounts, CreateNewVaultAndKeychain(a) PROVE FiledStep
  BY <1>1, SelectedShown DEF CreateNewVaultAndKeychain, FiledStep
<1>2. ASSUME NEW a \in Accounts,
             KeyringRestored(a) \/ RestoreAnother(a) \/ BeginAddAccount(a)
      PROVE  FiledStep
  <2>1. \E S \in SUBSET Accounts, u \in {TRUE, unlocked} :
          OnKeyringControllerUpdate(S, u) /\ providerType' = providerType
    <3>1. vault \cup {a} \in SUBSET Accounts /\ {a} \in SUBSET Accounts
      BY <1>0
    <3> QED BY <1>2, <3>1 DEF KeyringRestored, RestoreAnother, BeginAddAccount
  <2> QED BY <1>0, <2>1, KeyringUpdateFiles DEF FiledStep, FiledKept
<1>3. ASSUME NEW a \in Accounts, ImportAccount(a) PROVE FiledStep
  <2>1. vault' \in SUBSET Accounts /\ vault \subseteq vault' /\ SetAddresses(vault')
    BY <1>0, <1>3 DEF ImportAccount
  <2> QED BY <1>0, <1>3, <2>1, SetAddressesFiles, SelectedShown
          DEF ImportAccount, FiledStep, FiledKept
<1>4. ASSUME NEW a \in Accounts, BeginRemoveAccount(a) PROVE FiledStep
  <2>1. /\ files' = [files EXCEPT ![a] = NoFiles[a]] /\ identities' = identities \ {a}
        /\ providerType' = providerType /\ removing' = a
        /\ \/ a # selected /\ KeepSelection
           \/ \E b \in identities' : SetSelectedAddress(b)
    BY <1>4 DEF BeginRemoveAccount, RemoveAddress
  <2>2. \A b \in Accounts : b # a => files'[b] = files[b]
    BY <2>1 DEF TokensTyped
  <2>3. FiledAreShown'
    <3>1. CASE a # selected /\ KeepSelection
      BY <1>0, <2>1, <2>2, <3>1 DEF FiledAreShown, KeepSelection
    <3> QED BY <2>1, <3>1, SelectedShown
  <2> QED BY <1>0, <2>1, <2>2, <2>3 DEF FiledStep, MayGo
<1>5. ASSUME NEW a \in Accounts, SelectAccount(a) PROVE FiledStep
  BY <1>5, SelectedShown DEF SelectAccount, FiledStep
<1>6. CASE KeepVault
  BY <1>0, <1>6, KeyringUpdateFiles DEF KeepVault, FiledStep, FiledKept
<1>7. CASE BeginRestore
  BY <1>7 DEF BeginRestore, SetAddresses, FiledStep, FiledAreShown, MayGo
<1>8. CASE EndRestore
  <2>1. PICK a \in vault : SetSelectedAddress(a)
    BY <1>8 DEF EndRestore
  <2> QED BY <1>0, <1>8, <2>1, SetAddressesFiles, SelectedShown
          DEF EndRestore, FiledStep, FiledKept
<1>9. CASE RestoreFails \/ VerifyFails \/ RemoveFails
  BY <1>0, <1>9, UntouchedFiles DEF RestoreFails, VerifyFails, RemoveFails, FiledStep, FiledKept
<1>10. CASE EndAddAccount
  <2>1. adding.accounts \in SUBSET Accounts /\ (~disturbed => adding.accounts = vault)
    BY <1>10 DEF EndAddAccount, OpsTyped, OpsInv, AddingMatches
  <2>2. disturbed' = disturbed /\ FiledAreShown' /\ \A a \in adding.accounts : FiledKept(a)
    BY <1>0, <1>10, <2>1, SetAddressesFiles, SelectedShown DEF EndAddAccount
  <2> QED BY <2>1, <2>2 DEF FiledStep, FiledKept, MayGo
<1>11. CASE EndRemoveAccount
  <2>1. vault' \in SUBSET Accounts
    BY <1>0, <1>11 DEF EndRemoveAccount
  <2> QED BY <1>0, <1>11, <2>1, KeyringUpdateFiles DEF EndRemoveAccount, FiledStep, FiledKept
<1> QED BY <1>1, <1>2, <1>3, <1>4, <1>5, <1>6, <1>7, <1>8, <1>9, <1>10, <1>11 DEF AccountStep

LEMMA TokensFiled ==
  ASSUME PrefInv, FiledAreShown, TokenStep PROVE FiledStep
<1> USE DEF PrefInv
<1>0. TokensTyped /\ identities \subseteq Accounts
  BY DEF TokenInv, TokensTyped
<1>1. ASSUME NEW token \in Tokens, AddToken(token) PROVE FiledStep
  <2>1. selected \in Accounts /\ {token} \in SUBSET Tokens /\ AddTokens({token})
    BY <1>0, <1>1 DEF AddToken, TokensTyped
  <2> QED BY <1>0, <2>1, AddTokensFiles DEF FiledStep, FiledKept
<1>2. ASSUME NEW token \in Tokens, RemoveToken(token) PROVE FiledStep
  <2>1. /\ files' = [files EXCEPT ![selected][providerType] = shown \ {token}]
        /\ shown' = shown \ {token} /\ selected \in Accounts
        /\ UNCHANGED <<identities, selected, providerType>>
    BY <1>0, <1>2 DEF RemoveToken, UpdateAccountTokens, TokensTyped
  <2>2. \A a \in Accounts, t \in Types :
          files'[a][t] = IF a = selected /\ t = providerType THEN shown \ {token}
                         ELSE files[a][t]
    BY <1>0, <2>1 DEF TokensTyped
  <2>3. FiledAreShown'
    BY <1>0, <2>1, <2>2 DEF FiledAreShown, TokensTyped
  <2> QED BY <1>0, <1>2, <2>2, <2>3 DEF FiledStep, MayGo
<1>3. ASSUME NEW type \in Types, SwitchProvider(type) PROVE FiledStep
  BY <1>3 DEF SwitchProvider, UpdateTokens, FiledStep, FiledAreShown
<1>4. CASE DetectNewTokens \/ SearchFails
  BY <1>0, <1>4, UntouchedFiles DEF DetectNewTokens, SearchFails, FiledStep, FiledKept
<1>5. CASE BalancesArrive
  <2> DEFINE found == search.asked \cap Holdings[search.account][search.type]
  <2>1. CASE UNCHANGED <<identities, tokenVars>>
    BY <1>0, <2>1, UntouchedFiles DEF FiledStep, FiledKept
  <2>2. CASE AddTokens(found)
    <3>1. found \in SUBSET Tokens /\ selected \in Accounts
      BY <1>0, <1>5 DEF BalancesArrive, OpsTyped, TokensTyped
    <3> HIDE DEF found
    <3> QED BY <1>0, <2>2, <3>1, AddTokensFiles DEF FiledStep, FiledKept
  <2> QED BY <1>5, <2>1, <2>2 DEF BalancesArrive
<1> QED BY <1>1, <1>2, <1>3, <1>4, <1>5 DEF TokenStep

LEMMA LocksFiled ==
  ASSUME PrefInv, FiledAreShown, LockStep PROVE FiledStep
<1> USE DEF PrefInv
<1>0. TokensTyped /\ vault \subseteq Accounts /\ identities \subseteq Accounts
  BY DEF TokenInv, TokensTyped, OpsTyped
<1>1. CASE SubmitPassword
  <2>1. /\ identities' = vault /\ providerType' = providerType
        /\ files' = [a \in Accounts |->
                       IF a \in vault \ identities THEN NoFiles[a] ELSE files[a]]
        /\ KeepSelection \/ \E a \in vault : SetSelectedAddress(a)
    BY <1>1 DEF SubmitPassword, SyncAddresses
  <2> QED BY <1>0, <2>1, AddedKept, SelectedShown DEF FiledStep, FiledKept
<1>2. ASSUME NEW minutes, Lock(minutes) PROVE FiledStep
  <2>1. CASE OnKeyringControllerUpdate(vault, FALSE)
    BY <1>0, <1>2, <2>1, KeyringUpdateFiles DEF Lock, FiledStep, FiledKept
  <2>2. CASE UNCHANGED <<identities, files>> /\ KeepSelection
    BY <1>0, <1>2, <2>2, UntouchedFiles DEF Lock, KeepSelection, FiledStep, FiledKept
  <2> QED BY <1>2, <2>1, <2>2 DEF Lock
<1>3. CASE SetLastActiveTime \/ Restart \/ \E m \in Limits : SetAutoLockTimeLimit(m)
  BY <1>0, <1>3, UntouchedFiles
     DEF SetLastActiveTime, Restart, SetAutoLockTimeLimit, FiledStep, FiledKept
<1> QED BY <1>1, <1>2, <1>3 DEF LockStep, SetLocked, TimerFires

LEMMA NextFiled == PrefInv /\ FiledAreShown /\ [PrefNext]_prefVars => FiledStep
<1> SUFFICES ASSUME PrefInv, FiledAreShown, UNCHANGED prefVars PROVE FiledStep
  BY AccountsFiled, TokensFiled, LocksFiled DEF PrefNext
<1>1. identities \subseteq Accounts
  BY DEF PrefInv, TokenInv, TokensTyped
<1> QED BY <1>1, UntouchedFiles DEF prefVars, FiledStep, FiledKept

(***************************************************************************)
(* The tokens of an account of the wallet go only when the user removes    *)
(* them or the account, or restores a vault, as long as the operations on  *)
(* the accounts did not overlap or fail (preferences.js:243-258).          *)
(***************************************************************************)
THEOREM TokensAreNotLost == PrefSpec => TokensAreKept
<1>1. PrefInit => FiledAreShown
  BY DEF PrefInit, FiledAreShown
<1>2. PrefInv /\ FiledAreShown /\ [PrefNext]_prefVars => FiledAreShown'
  BY NextFiled DEF FiledStep
<1>3. PrefSpec => []FiledAreShown
  BY <1>1, <1>2, PrefInvariant, PTL DEF PrefSpec
<1>4. PrefInv /\ FiledAreShown /\ [PrefNext]_prefVars
      => [\A a \in vault \cap identities, t \in Types :
            \/ files[a][t] \subseteq files'[a][t]
            \/ a = selected /\ t = providerType /\ \E k \in Tokens : RemoveToken(k)
            \/ removing' = a
            \/ restore' = "cleared"
            \/ disturbed']_prefVars
  BY NextFiled DEF FiledStep, MayGo
<1> QED BY <1>3, <1>4, PrefInvariant, PTL DEF PrefSpec, TokensAreKept
=============================================================================
