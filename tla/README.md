# Conflux Portal: a verification project

Conflux Portal is a browser-extension wallet. Its background page keeps the
accounts, the transactions and the permissions, and talks to full nodes of a
Conflux network; dapps in web pages send it requests; windows of its own user
interface show those requests and send the user's decisions back.

This directory holds TLA+ modules of the background page's controllers and of
the windows that work on them, the TLC
configurations that check them on small instances, and theorems about them
with proofs checked by TLAPS. `PROJECT.json` lists the components, the runs,
the mutants that show each property can be broken, the source lines each
definition stands for, the findings, the hazards and the theorems.

Paths below are relative to the repository; `transactions/` abbreviates
`app/scripts/controllers/transactions/`.

Contents: [1 The system](#1-the-system) - [2 The modules](#2-the-modules) -
[3 The runs](#3-the-runs) - [4 Fairness](#4-fairness) -
[5 Findings](#5-findings) - [6 The proofs](#6-the-proofs) -
[7 What is not modelled](#7-what-is-not-modelled) - [8 The plan](#8-the-plan)

## 1 The system

### 1.1 Components

Everything runs on one JavaScript event loop, so a piece of code between two
awaits is atomic; every hard behaviour comes from what happens at the awaits,
in the timers, in the event listeners, and when the page stops.

| Component | State | Operations | What makes it correct |
|---|---|---|---|
| Transaction state manager, `transactions/tx-state-manager.js` | the list of `txMeta` objects, persisted; deferred status updates | `addTx`, `updateTx`, `setTxStatus*`, `getTx` and the filters, `_removeTx`, `wipeTransactions` | a removed transaction stays removed; no older copy is written over a newer entry; final states are final |
| Transaction controller, `transactions/index.js` | `inProcessOfSigning`; per call, the locals of `approveTransaction` | add, edit, reject, approve, cancel / speed up / retry, boot clean-up | one approval per transaction; nonces distinct and without gaps; one hash per transaction, on its own network; each dapp answered once and truthfully |
| Nonce tracker (library `nonce-tracker`) | a mutex per account, one global mutex | `getNonceLock`, `getGlobalLock` | mutexes are released on every path |
| Pending transaction tracker, `transactions/pending-tx-tracker.js` | `droppedBuffersByHash`; `txReceipt`, `retryCount` in the entries | `updatePendingTxs`, `resubmitPendingTxs` | what is dropped is dead; every submitted transaction gets an outcome and is broadcast until then; a late answer changes nothing settled |
| Network controller, `controllers/network/network.js` | provider configuration, client behind the proxy, `networkStore` (an id or `loading`), `networkConfig` | `setProviderType`, `setRpcTarget`, `resetConnection`, `lookupNetwork` | the network shown is the one requests go to, in each place that keeps it; it does not stay `loading` |
| Account tracker and cached balances, `lib/account-tracker.js`, `controllers/cached-balances.js` | tracked accounts, balances by network | follow blocks, windows, keyrings and the network | every account is tracked; a balance ends up under the network it is of |
| Message managers, `lib/*-manager.js` (five), the calls in `metamask-controller.js`, the pages that show a request | messages with their status, listeners of the pages' promises | add, approve, reject, sign, decrypt inline | a page is told what the user decided, once, and is told in the end |
| Permissions controller, `controllers/permissions/` | permitted accounts per origin (rpc-cap), pending approvals, a history | request, approve, reject, expose, add and remove accounts | no account is exposed without approval; every request can be decided; the history is complete |
| Preferences, `controllers/preferences.js`, with the account operations of `metamask-controller.js` | identities, selected address, tokens by account and network | create, restore, add, import, remove accounts; add and remove tokens | identities and keyrings agree; tokens stay with their account |
| Token detection, `controllers/detect-tokens.js` | - | ask for balances, add the tokens found | a token is filed where it was added |
| App state and auto-lock, `controllers/app-state.js` | the inactivity timer | start again, fire | an idle wallet locks |
| Connections and windows, `background.js`, `lib/notification-manager.js` | flags and ports of open windows, a count of connections, the id of the notification | connect, disconnect, show a window for a request | polling runs while a window is open; one notification; a request is seen |
| MetaMask controller, `metamask-controller.js` | wires the others together | see the components above | what one operation changes in several controllers agrees |
| Migrator, gas estimation, transaction history, onboarding, 3Box, phishing list, ENS, middleware, content script, user interface, rates and incoming transactions | see `PROJECT.json` | | |

### 1.2 How they interact

A dapp's `cfx_sendTransaction` reaches `newUnapprovedTransaction`. It builds a
`txMeta`, which names the network in `networkStore` at that moment, checks the
origin's permission, puts the object into the list (now the UI shows it) and
awaits the gas defaults. Only then does it save the object again and register
the listener that will answer the dapp.

The confirmation window works on a JSON *copy* of the entry. Its buttons call
`updateTransaction`, `updateAndApproveTransaction` or `cancelTransaction`, and
`updateTx` puts the copy itself into the list: from then on the entry is
another object than the one the request still holds.

`approveTransaction` marks the transaction, then awaits in turn the latest
block, the account's nonce mutex, the network's transaction count, the keyring
and the node. After each await it looks the transaction up again, through
`getTx`, which sees only entries of the network that `networkStore` names
*now*; and it fails the transaction when one of them throws.

A status update sets the status at once and defers saving it and telling the
listeners with `setTimeout`. The listeners are the dapp's promise
(`<id>:finished`) and the subscription that switches the tracker's block
listener on and off. The tracker is called on every block while that listener
is on, and on every change of the transaction store or the preferences; it
holds the global mutex while it asks nodes about every pending transaction, and
its events come back to handlers in `index.js` that write the entries.

A change of network sets `networkStore` to `loading`, replaces the provider
behind a proxy everybody shares and, when the lookup answers, names the new
network; each change of the store runs `_onBootCleanUp`, makes the account
tracker ask for balances and selects another list of transactions, tokens and
balances.

A request of a page to sign becomes a message of a manager and a listener for
`<id>:finished`; the windows show what is in the managers' lists, and call
back with the user's decision. A request for accounts waits in rpc-cap and in
`pendingApprovals`. `triggerUi` shows a window for any of them, unless the
flags that follow the ports of the windows say one is there.

Operations on accounts change the keyrings and the preferences one after the
other, with awaits between; each change of the keyrings comes back through
`_onKeyringControllerUpdate`, which changes the preferences and the account
tracker again.

The state of all controllers is saved 10 ms after the
last change, and is all that a restarted page finds; between a change and its
save the page may stop.

### 1.3 What is hard

* **Many holders of one entry.** The request, each window, each deferred update,
  the boot clean-up and each approval hold an object of the transaction, maybe
  not the same one, and any of them may put its own into the list.
* **Everything moves at an await**: other approvals, a change of network, an
  account reset, a rejection in a second window.
* **Nodes behind one endpoint disagree**: the count of one may be past a nonce
  whose receipt another does not know.
* **Partial failure**: any await can throw, with the mutex held; an answer may
  be lost after the node took the transaction.
* **Restarts**: between saves, between steps of an approval.
* **Two copies of one fact**: identities and keyrings, permissions and what
  pages believe, flags and windows, five places that remember the network.
* **Several windows** decide the same request, or close while it is decided.
* **Listeners that are off, or not yet on, when the event comes.**

`PROJECT.json` lists each hazard at its line with the properties that cover it.

## 2 The modules

| Module | Models |
|---|---|
| `TxStateManager` | the transaction store as operators over one value |
| `TxController` (extends it) | the transaction controller with UI windows, nonce tracker, network changes, persistence, restart |
| `TxLifecycle` | the abstract life of a request, which `TxController` implements |
| `PendingTxTracker` | the tracker, the event handlers of `index.js`, block listener, a chain with lagging nodes |
| `NetworkController` | provider configurations, clients, lookups in any order, the places that remember the network |
| `NetworkView` | what others see of it; `NetworkController` implements it |
| `AccountTracker` (extends `NetworkView`) | tracked accounts, balance queries, the cache of balances |
| `MessageManagers` | five managers, the keyring calls, two windows |
| `Permissions` | permissions of origins, requests for them, connections of pages |
| `Preferences` | accounts, tokens, token search, lock, auto-lock timer |
| `Windows` | ports of the interface, polling, showing a window for a request |
| `MC...` | instances for TLC |
| `..._proofs` (eight) | theorems |

Operators whose comment starts with "Mutant of" are deliberate mistakes. No
specification uses them; each shows that a property notices such a mistake.

### 2.1 TxStateManager

`d.obj` is the heap of `txMeta` objects and `d.list` says which *object* is the
entry of an id, because the code shares objects by reference. Object `<<id, 0>>`
is the one the controller created, `<<id, k>>` the k-th copy a window sent back.
`UpdateTx(d, r)` makes `r` the entry, unless the id has none;
`SetTxStatus` writes the status into the entry found through `GetTx` and appends
a deferred update that captured that object; `RunTimer` runs the oldest one.
Handlers nest these operators in the order of the code's calls.

A `txMeta` is reduced to status, network, `loadingDefaults`, nonce, whether it
replaces another (`lastGasPrice`), the user's nonce, chain id, raw transaction
and hash. A signature is known by the nonce and chain it covers, a hash by its
raw transaction. Recipient, value, data, gas and the debug history are left out.

### 2.2 TxController

Each concurrent call of `approveTransaction` is a process whose `pc` names the
await it is suspended at:

| `pc` | `index.js` | left by |
|---|---|---|
| `block` | 500-503, latest epoch | `BlockAnswer` |
| `lock` | 504, the account's mutex | `TakeNonceLock` |
| `count` | 504-508, the network's count | `CountAnswer` (the nonce is written, 509-521) |
| `sign` | 566, the keyring | `SignAnswer` (587-597) |
| `send` | 598, before the node took it | `NodeAccepts` |
| `reply` | 598, after | `SendAnswer` (600-613, 676-682) |

`CallFailed` is the catch at 530: any of them throws (at `reply`, the answer was
lost). `FailApproval` fails the transaction if `getTx` finds it and releases the
mutex. `asked` is the network whose provider was asked; a provider asked while
the network was loading may be that of any network.

`adding` is the progress of `addUnapprovedTransaction`; `redo` counts what
`_onBootCleanUp` has under way, the gas computations (730) and the sponsorship
queries after them (732): in between, the entry shows its defaults and can be
confirmed, and `RedoReady` saves the old object afterwards (735). `ui` is what each window does, `dapp`
what the dapp's promise became, `disk` what was saved last. `sent` records what
each network's nodes accepted, `changed` that the user changed the network since
the page started; only properties read them.

`Restart` empties everything but `disk`; the clean-up of the constructor runs
while the network is loading and sees nothing, so the one that matters is that
of the next `NetworkUp`.

Assumed: `networkStore` and provider agree, apart from `asked`
(`NetworkController` says when they do); the wallet's transactions are of type
cfx_sendTransaction; the keyring signs what it is given; a node takes a
transaction signed for its chain whose nonce is not used.

### 2.3 TxLifecycle

The abstract specification: absent, unapproved, approved, signed, submitted or
failed, rejected is absent again, no way back; and the dapp is answered at most
once with what the status is. `ImplementsLifecycle` maps an id's `st` to the
status of its entry and `answer` to the promise.

### 2.4 PendingTxTracker

The transactions are of one account and network and were signed; those with one
nonce compete. `checks` are the `_checkPendingTx` calls suspended at the receipt,
the count or the risk query, each with what it read before. `ledger` says which
transaction used each nonce and in which block; `final` is the part no
reorganisation can take back. A query may be answered by a node that knows only
a prefix of the ledger (`View`, bounded by `MaxLags`).

| Action | Code |
|---|---|
| `Submit`, `SubmitFailed` | end of an approval, `index.js` 530-551, 593-613 |
| `StartUpdate`, `EndUpdate` | `updatePendingTxs`, `pending-tx-tracker.js` 38-66 |
| `ReceiptAnswer`, `CountAnswer`, `RiskAnswer` and the errors | `_checkPendingTx`, `_checkExecutedTransactions`, 166-284, with the handlers `index.js` 620-660, 872-892 |
| `ResubmitAnswer`, `ResubmitError` | `_resubmitTx`, 66-156 |
| `FireTimer` | a deferred status update and `updateSubscription`, `index.js` 894-913 |
| `LatestBlock`, `StoreChanges` | what calls the tracker, `index.js` 117-127, 709-713, 915-940 |
| `NetworkDown`, `NetworkUp`, `Persist`, `Restart` | as in TxController |
| `Mine`, `Finalize`, `Reorg`, `Evict` | the chain |

Simplified: calls of one kind that wait for the lock are one call, as they find
the same entries; so are rebroadcasts of one transaction; a change of any store
and the unlocking of the wallet are `StoreChanges`; blocks that pass while a
transaction is being sent are not counted in its age; a restart of the tracker
when the provider changes is a `StoreChanges`. `Hashless`, the transactions
whose entry lost its hash, is empty in all runs: that branch of `StartUpdate`
is modelled but not exercised. Every submitted transaction is taken to have an
`epochHeight`, without which `_resubmitTx` does nothing; section 5 says when
one is lost.

### 2.5 NetworkController and NetworkView

An endpoint is a type of provider with its URL. `provider`, `client`,
`networkConfig`, `rpcChain` and `network` are the five places that remember an
id. `lookups` counts the calls of `lookupNetwork` that wait, by the endpoint and
type they asked and the state they started from, because that is all their
continuation uses: an answer counts if `networkStore` is still what it was
(`LookupAccepted`), also when that is `loading` both times (`network.js:160`).
`SetProviderType`, `SetRpcTarget`, `ResetConnection` and `CustomRpcAnswer` (the
continuation of `updateAndSetCustomRpc`) are switches; `LookupAnswer` configures
the provider once more, which starts another lookup. `raced` remembers that the
last switch left lookups of other endpoints, `lost` that a lookup failed since.

`NetworkView` is the promise: the network is `loading` after each change, and
what is found is the chain of the endpoint, unless a lookup raced.

### 2.6 AccountTracker

A balance is the chain it was read from; a query is the endpoint and the
accounts it was asked for. `ContractAnswer` writes all of them back, those
removed since too; `ContractFails` goes on with one query per account, to the
endpoint of that moment; `CacheBalances` files everything known under the
network of the moment. `removing` holds accounts whose `removeAccount` began and
about which the keyrings have not reported since. `MaxEvents` bounds changes of
network and of accounts and failures together.

### 2.7 MessageManagers

`kind` tells the managers apart; `Decide` confirms or cancels in a window, which
may show a message that was already decided in another (no manager checks the
status). `calls` are keyring calls in flight, `CallReturns` their results,
`inline` the decryption for display. `armed` are the `beforeunload` listeners
that `SignatureRequest` adds and never removes. Messages are kept in memory
only, and so are the pages' promises: a restart ends both.

### 2.8 Permissions

`granted` is the caveat rpc-cap keeps, `requests` what the user is shown,
`pending` the promises of `pendingApprovals`, `call` what became of each call of
a page. `connected` is `this.connections`, from which `ClosePage` removes all
pages of the origin, as the code does. `view` is what a page was told last,
`seen` the permissions history, `approved` what the user gave the origin since
it was last disconnected.

Pages and history hold *written* addresses. `Hex` is how notifications and
`wallet_requestPermissions` write them, `Base32` how `cfx_accounts` and
`cfx_requestAccounts` do (`methodMiddleware.js:29, 39, 56`): with the network of
the moment, or, while it is "loading", as the empty string `Blank`
(`cip37.js:19`). `LogAccounts` files the answer to `cfx_requestAccounts` as it
was written (`permissionsLog.js:222`); `cfx_accounts` is not logged. `network` is
changed by `LoseNetwork` and `FindNetwork`, which stand for what
`NetworkController` does. `AccountsOf` reads a written address back, and
`unfiled` remembers the accounts an origin got that no entry of its history
names. `disk` is the state of the last `Persist`, and what `Restart` restores:
the two may be a disconnect or an approval apart.

### 2.9 Preferences

Each operation of `metamask-controller.js` that awaits between the keyrings and
the preferences is split there (`Begin...`, `End...`, and its failure); others
may overlap it. `OnKeyringControllerUpdate` is part of each action that changes
the keyrings. `disturbed` says that since the last unlock two operations
overlapped or one failed part-way; `torn` that a restore dropped the selected
account. `given` records tokens with the selection they were added under. The
timer is the number of minutes it was started with: an inactivity timer that
runs may fire at any time.

`Restart` keeps the state of the moment, where the code finds the one saved some
10 ms earlier. Nothing of these components outlives the page but what was saved,
so a restart from an older state is the same as a restart at that moment, which
the model takes as well. `TokensAreKept` compares the state before a step with
the one after it, and says nothing of what such a crash takes back.

### 2.10 Windows

Each window goes through closed, loading, open (its port is connected) and
ending (closed, the end of its stream not yet told). `TriggerUi` asks for the
active tabs, `ShowPopup` for the windows, `Create` opens one, and `Created`
stores its id: between any two, windows come and go. `request` is the phase of
each call; "missed" means it ended with no window in sight.

## 3 The runs

Twelve runs; the passing ones fire every action. Distinct states in brackets.
No run constrains the states other than by the guards the constants bound.

**txc_interference** (2.8 million). One transaction in two windows at a time
(`MultiWindow`, two copies), two concurrent confirmations, two networks and two
changes of network or account resets.
`NonceLockHeld`, `OneApprovalPerTx`, `AnswersAreTrue` (a dapp gets a hash only
of what a node took and "rejected" only of what is gone), `SentOnOwnNetwork`,
`RemovedNeverReturns`. Two windows and two confirmations are the least that can
race; two changes are the least that leave a network and return. `MaxNonce = 0`:
nonces do not matter to these properties.

**txc_restart** (5.4 million). One request on one network at a time, of two: a
restart from a possibly old saved list at any point of it, a change of network
before the restart, two windows with a copy each, and the clean-up with its late
saves. `NoOrphanApproved`: once the deferred updates ran, "approved" means an
approval runs, until the network is changed. The restart sets that condition
back, so that the run goes through entries an earlier change of network left
behind; section 5.2 shows what a change does after the clean-up began.

**txc_nonces** (191 thousand, fair). Two transactions of one account, the second
possibly a replacement of the first, two approvals at a time whose calls may
fail at any await, one network, blocks executed by this or another wallet.
`OneHashPerTx`, `NoncesAreConsecutive` (nonces are distinct and leave no gap),
the refinement `ImplementsLifecycle`, and `ConfirmedIsAnswered`: the requester
of a confirmed transaction is answered. The properties relate two transactions.
One network and one window per transaction are preconditions: section 5 shows
what fails otherwise.

**ptt_safety** (2.8 million). Two transactions with one nonce, two answers of
nodes that are behind, the network hidden once, one restart. `DroppedIsDead`:
what was reported dropped has lost its nonce to something else.
`ConfirmedIsFinal`: no late answer moves a confirmed transaction.
The dropped buffer holds three counts ahead of the receipt: it makes up for
exactly two lagging receipt answers and one execution between the two queries
of a check, so `MaxLags = 2` is the largest bound under which `DroppedIsDead`
holds; with three the transaction is dropped although it was executed. There is
no reorganisation and no failed query in this run, on purpose: a transaction
is dropped because a competitor is *executed*, which a reorganisation undoes,
and a failed query breaks the lock (section 5).

**ptt_liveness** (210 thousand, fair). One transaction the nodes forget once,
one failed query, one block taken back. `EvictedIsResent`: it is broadcast
again. `SubmittedSettles`: it gets an outcome, and an executed transaction is
confirmed or its block is gone. `MaxAge = 7` is beyond the
longest wait for a rebroadcast that one eviction leads to, `2^1 + 4` blocks.
Neither a restart nor a hidden network: after them the listener may stay off
(section 5).

**network** (55 thousand, fair). Mainnet, a custom endpoint and a local node on
three chains, two switches, lookups answered late and in any order, one restart.
`NetworkIsOfProvider`: a known network is that of the node requests go to, in
all five places, unless the last switch left a lookup of another endpoint.
`NetworkSettles`: it does not stay `loading` unless a lookup failed.
`ImplementsView`: the refinement `AccountTracker` relies on. Two switches are
the least after which an answer of the first endpoint meets the third; the three
types differ in which of the five places they touch.

**balances** (339 thousand, fair). One account at the start and one more, two
chains, two windows, two changes of network or of accounts or failures, one
query outstanding when a block comes. `AccountsTracked`, whichever query is
answered in between; `CacheConverges`: while a window is open and the network
settled, the cached balances end up those of their own chain. Two events are the
least in which an account goes, or comes, during a change of network.

**messages** (318 thousand, fair). Two requests, the first of any of the six
kinds and the second of typed data, a tab and the notification.
`AnswersAreTrue`, `DecisionsStand` (a page is told what the user decided last,
typed data excepted), `DecidedIsSettled` (and told in the end, except on an
error of the kinds whose manager does not say). A second request is needed for
the listeners one request leaves to the next, a second window for decisions that
cross.

**permissions** (2.9 million up to the symmetry of the accounts). A site with two
pages, two accounts, one request for permission, a network that is found and
lost again, a restart from what was last saved. `GrantedIsApproved`: no site,
and no page still connected, has an account the user did not give it since it
was last disconnected. `RequestsAreDecidable`: what the user is shown, what can
be settled and what waits is the same. `HistoryCoversViews`: the history has an
entry of every account a page was told of, whatever form either was written in,
unless the account was given through the list of connected sites or while the
network was not known. One network is enough for the three forms of an address
(hex, base32, empty). A second site would make the run too long; what one site
is given is kept from another is proved for any number (`OnlyApproved`). Its
type invariant also says that no call ends in the state the middleware "should
never" reach, approved and yet without an account.

**pages_told** (expects a violation). The same with a page of a second site; see
section 5.

**preferences** (2.2 million up to the symmetry of the derived accounts). Two
accounts of the seed phrase and one imported, one token, two types of network,
operations on accounts in two windows at a time, failures, lock and restart.
`IdentitiesMatchVault`, `TokensAreOwn`, `TokensAreKept`, `AutoLockArmed`. Three
accounts are the least with which one is selected, one removed and one added;
`MaxGiven = 2` lets tokens be filed under two different selections.

**windows** (850 thousand). A popup, two notifications, a tab that can be loaded
again, two requests that are shown at a time. `PollingIsWanted` (the counter,
the polling and the flags agree with the ports that are connected, unless two of
one kind overlapped), `OneNotification` (unless two requests raced),
`MissedIsLeft` (a request ends with no window in sight only if the user left one
during the call).

### 3.1 Symmetry and deadlock

Approval processes are interchangeable, and so are the tracker's transactions
with one nonce and the accounts of the seed phrase; symmetry is used in safety
runs only. The two requests of a `TxController` run are not interchangeable: one
is the wallet's own. Deadlock is checked in preferences and windows, where the
user can always do something. It is not in the other runs: the chain, the user
and the network owe nothing, so a state in which all requests are settled and
the bounds are used up has no next step.

## 4 Fairness

`TxController!FairSpec` has weak fairness for what the event loop and the
libraries guarantee: timers fire, an awaited call is answered or fails (the HTTP
requests time out, the keyring is local), gas defaults arrive or fail, a lookup
of the network ends. `TakeNonceLock` is strongly fair because `await-semaphore`
hands the mutex to waiters in turn: a waiter finds it free again and again, not
continuously. The user, the dapps, restarts and the chain owe nothing.

`PendingTxTracker!FairSpec` adds that blocks keep coming (the block tracker
polls), that the chain executes a transaction its nodes know, or another one
with its nonce, and that execution becomes final. `StartUpdate` is strongly fair
for the same reason as above. Failures are bounded by `MaxErrors`, so an
unbroken series of failures is excluded by the bound, not by fairness.

`NetworkController!NetFairness`: each lookup ends, with an answer or an error.
A failed lookup is not repeated by the code (`verifyNetwork` is never called),
which is why `NetworkSettles` excepts it. `AccountTracker!FairSpec`: blocks keep
coming while the tracker listens, and queries end. `MsgFairness`: the keyrings
return, the window's reply arrives and its view is refreshed; the user owes no
decision, so liveness starts from one. `Permissions`, `Preferences` and
`Windows` state no fairness: what they wait for is the user.

## 5 Findings

### 5.1 Checked by a run

**Open pages are not told** (`pages_told`, `metamask-controller.js:1958`).
`removeConnection` "Deletes a reference to a connection, by origin and id", but
its test `Object.keys(connections.length === 0)` is an array, hence true, and
the first page of a site to close makes the wallet forget the others. When the
site is disconnected, these get no `accountsChanged` and go on with the accounts
they had; `OpenPagesAreTold` is violated.

### 5.2 Other disagreements met while modelling

These are part of the models (each is a step some property had to except, or a
bound of a run), but no run is spent on them.

Transactions:

* The boot clean-up runs on every change of network, not just at boot, and fails
  whatever is "approved" while its approval still runs; `approveTransaction`
  checks no status, and goes on to sign and submit it (`index.js:753`).
* The clean-up starts a second gas computation next to the request's own. The
  later of the two saves its original object over the copy the user approved;
  the transaction is unapproved again, offered again, and broadcast again
  (`index.js:738`).
* Since each change of network runs the clean-up, its saves can hide an approved
  transaction from the next one. `_onBootCleanUp` sets `loadingDefaults` in place
  (`index.js:731`) and saves the object only after another await (735). In
  between a window shows the transaction, and the user confirms a copy. Then the
  network is changed and the approval fails, without marking a transaction it
  no longer finds; the late save puts the old object, unapproved, over the copy;
  the clean-up, once the network is found again, sees nothing approved; and the deferred
  update of the approval writes the copy back, approved, with nobody at work. So
  `NoOrphanApproved` is claimed until the first change of network.
* Any transaction of a group with the same nonce can be replaced, failed ones
  included: `createCancelTransaction` and its kin check no status (`index.js:403`).
* The clean-up looks at "approved" only, so a restart between signing and
  submission leaves a signed entry nobody tracks or fails (`index.js:750`).
* The listener that answers the dapp is registered after the gas defaults are
  there; a rejection before that is told to nobody (`index.js:182`).
* After a restart the block listener is decided when nothing counts as pending,
  because the network is loading, and again only when a status changes
  (`index.js:901`).
* `Promise.all` rejects on the first failed receipt query and frees the global
  lock while the other checks go on (`pending-tx-tracker.js:47`).
* `txMeta.txParams.epochHeight = await ...` fixes the old `txParams` first. When
  the block has to be waited for, the deferred "approved" update replaces
  `txParams` meanwhile and the epoch is lost; `_resubmitTx` never broadcasts
  such a transaction again (`index.js:500`, `pending-tx-tracker.js:116`).

Network:

* `lookupNetwork` compares "loading" with "loading": the answer of an endpoint
  that was left while it was loading is taken for the new one's
  (`network.js:160`). `localhost` keeps the settings of the network before
  (`network.js:298`). `verifyNetwork` is called by nothing (`network.js:103`).

Messages:

* `signMessage` and `signPersonalMessage` have no catch and the manager of public
  keys emits nothing for "errored": the page waits for ever
  (`metamask-controller.js:1284`, `encryption-public-key-manager.js:268`).
* `SignatureRequest` adds an anonymous `beforeunload` listener and can never
  remove it: closing the notification during the signing refuses a request that
  was confirmed (`signature-request.component.js:36`).
* The pages for decryption and public keys cancel without the message when
  closed, which throws: closing them cancels nothing
  (`confirm-decrypt-message.component.js:61`,
  `confirm-encryption-public-key.component.js:58`).

Accounts, tokens, windows:

* `addNewAccount` writes the list of accounts it read before verifying the seed
  phrase (`metamask-controller.js:1121`); `removeAccount` changes the preferences
  before the keyrings (1187); `createNewVaultAndRestore` empties the identities
  first (784). Overlap or failure leaves preferences and keyrings apart until
  the next unlock.
* Tokens found for one account are filed under whichever is selected when the
  answer comes (`detect-tokens.js:162`).
* A write of the preferences by anyone postpones the lock (`app-state.js:24`).
* Two requests at once create two notifications, the earlier of which is not
  known to the wallet any more (`notification-manager.js:19`).
* `legacyExposeAccounts` records no history (`permissions/index.js:213`).
* The history of permissions mixes three ways to write an account. The answer to
  `cfx_requestAccounts` is filed as the page got it (`permissionsLog.js:222`), in
  base32 of the network of the moment; notifications and
  `wallet_requestPermissions` file hex. The interface looks accounts up in hex
  only (`ui/app/selectors/selectors.js:643`), and finds none of the former. While
  the network is loading the page gets `['']` and the history the key `''`
  (`cip37.js:19`), so that the account a later `cfx_accounts` names was never
  recorded. `HistoryCoversViews` therefore speaks of accounts, not of strings,
  and excepts what was given while the network was not known.

## 6 The proofs

Every module of a component has its theorems in a module of its own
(`..._proofs`). They hold for every set of transactions, accounts, endpoints,
pages, messages and tokens, and any number of copies, concurrent approvals,
windows, queries, switches and restarts; the bounds of the runs play no part
except where a theorem's hypothesis names one. They assume
what the modules name: for `TxController` that transactions are finitely many
(`FiniteAssumption`, for the order in which the clean-up fails them), there is a
network, `None` is none of the values it is told from (`NoneAssumption`,
`ProcAssumption`), `loading` is no network, every transaction has a sender and
typed nonces are numbers; for `PendingTxTracker` that transactions are finitely
many, bounds are numbers (`BoundsAssumption`) and `None` is no transaction and
no block; for `Windows` that the windows are finitely many, since they are
counted, and of one kind each; for the other modules the types of their
constants, that marks such as `loading` are no chains, and that the public nodes
are on the chain their type stands for (`StandardAssumption`).

| Theorem | Property | Argument |
|---|---|---|
| `TypeCorrect` | `TypeOK` | `Typed` is inductive |
| `NonceLockSafe` | `NonceLockHeld` | `Typed /\ Exclusive` is inductive |
| `ApprovalsExclusive` | `OneApprovalPerTx` | the same |
| `RemovedStaysRemoved` | `RemovedNeverReturns` | every step from a `Typed` state |
| `NeverOnAnotherNetwork` | `SentOnOwnNetwork` | `Typed /\ OwnNetwork` is inductive |
| `DappsAreToldTheTruth` | `AnswersAreTrue` | `Typed /\ Truthful` is inductive |
| `NoneLeftApproved` | `NoOrphanApproved` | `Settling` is inductive, beside `Typed`, `Exclusive` and `OwnNetwork` |
| `BroadcastOnce` | `OneHashPerTx`, while undisturbed | `Undisturbed => Calm` |
| `LifecycleImplemented` | `ImplementsLifecycle`, undisturbed | every step from a `Calm` state is one of `TxLifecycle` or stutters |
| `NoncesInSequence` | `NoncesAreConsecutive`, while undisturbed | `Undisturbed => NoncesKept` |
| `TrackerTyped` | `PendingTxTracker!TypeOK` | `PttInv` is inductive |
| `ConfirmedUntilError`, `ConfirmedForGood` | `ConfirmedIsFinal` | every step from a `PttInv` state |
| `DroppedWhileTwoFail`, `DroppedOnlyDead` | `DroppedIsDead` | `PttInv` |
| `NetworkTyped`, `NetworkAgrees` | `NetTypeOK`, `NetworkIsOfProvider` | with what waiting lookups may still answer |
| `LoadingLookedUp` | - | the safety part of `NetworkSettles` |
| `KnownNetworkStable` | - | only a switch or a restart changes a known network |
| `ViewImplemented` | `ImplementsView` | each step is a step of `NetworkView` or stutters |
| `AccountTrackerTyped`, `KeyringIsTracked` | `AcctTypeOK`, `AccountsTracked` | `AcctInv` is inductive |
| `MessagesTyped`, `PagesAreToldTheTruth` | `MsgTypeOK`, `AnswersAreTrue` | `MsgInv` is inductive |
| `DecisionsAreKept` | `DecisionsStand` | every step from a `MsgInv` state |
| `PermissionsTyped`, `OnlyApproved`, `Decidable`, `HistoryComplete` | `PermTypeOK`, `GrantedIsApproved`, `RequestsAreDecidable`, `HistoryCoversViews` | `PermInv` is inductive |
| `PreferencesTyped`, `AccountsAgree`, `TokensStayWithTheirAccount` | `PrefTypeOK`, `IdentitiesMatchVault`, `TokensAreOwn` | `PrefInv` is inductive |
| `TokensAreNotLost` | `TokensAreKept` | every step from `PrefInv /\ FiledAreShown` |
| `WalletLocksItself` | `AutoLockArmed` | inductive by itself |
| `WindowsTyped`, `PollingFollowsPorts`, `NotificationIsSingle`, `MissedOnlyIfLeft` | `WinTypeOK`, `PollingIsWanted`, `OneNotification`, `MissedIsLeft` | `WinInv` is inductive |

### 6.1 Transactions

**Typed** is `TypeOK /\ ProcOK /\ AddOK`. `TypeOK` alone is not inductive: an
approval reads its id and object, which are `None` when it is idle, and a
request stores a transaction of the network it read earlier. `ProcOK` says that
a running approval has both, of the same id, and a nonce once it signs; `AddOK`
that a request under way has its network.

**Exclusive** is `NonceLockHeld /\ OneApprovalPerTx`; each needs the other. If an
id had two approvals, the first to end would take it out of `inProcess`; if the
mutex could be held by an approval that is not in its critical part, releasing
"all mutexes p holds" would not free the right one.

**RemovedStaysRemoved** needs no more than types: the store's lemma `AbsentKept`
says which of its operations keep an absent entry absent (all but `AddTx` of that
id), and the proof shows each handler is made of those. A restart is excepted in
the property, since the saved list may be older than the removal.

**OwnNetwork.** `getTx` sees only entries whose network is the
current one, so the object an approval finds just before it sends names the
network it sends to. What has to be shown is that this is still the network of
the request. Entries are replaced by other objects all the time, so the
invariant speaks of every object that may yet become an entry: those the list or
a deferred update holds, those a window, a gas computation, the request or an
approval works on (`Live`), and the saved list; before its request no such
object exists (`Fresh`), which is what lets `CreateReplacement` choose a network.
`Follows(d, e, R)` abstracts what the store's operations do to all this: keep
the network of every object, and hold nothing new but objects of `R`. Each
operation has one lemma about `Follows`, it composes, and a step is covered by
`OwnMoved`, `OwnKept` or `OwnAdded`. TLC found no violation of `OwnNetwork` on the
instances of txc_interference and txc_restart.

**Truthful** is what makes a late answer true. A deferred update answers the
dapp with what it captured, so the invariant speaks of every object, in the
list or not: one that says submitted is of a transaction a node took
(`SubmittedWasSent`, which also covers the saved list and the approvals that
wait for the node's reply), and one that says rejected is of a transaction that
is gone (`RejectedIsGone`, until a restart). `Marks(d, e, sub, rej)` says of the
store's operations which ids they may make submitted or rejected.

**Settling** is why no transaction stays approved with nobody at work. An
approved *copy* may be the entry, or captured by a deferred update that will
make it the entry again; meanwhile the clean-up may have saved another object.
So the invariant looks at what the entry *will be*: the object the last deferred
update of the id saves, or the entry if there is none (`EndsAs`). A transaction
is settled (`Settled`) when that object is not approved; `AllSettled` says that
every transaction of the network is, but for those being approved. Only the
start of an approval makes an object approved, and it is then in `inProcess`;
`Still(d, e, S)` says of the store's operations that they keep what is settled
settled and make nothing approved, and they compose. What a window, the request
or the clean-up will still save is not approved (`Unconfirmed`), and an approval
settles its transaction when it ends, because it finds it: its network is the
one in use (`OnOneNetwork`, with `OwnNetwork`). While the network is looked up
for the first time nothing works at all (`Paused`), and the clean-up that
follows settles whatever the disk held. The property, and the invariant, speak
of the time until the network is first changed in the life of the page
(`changed`); a restart sets that back. There is no hypothesis on windows,
approvals, replacements, failures or restarts. Section 5.2 tells what happens
after a change.

**Calm** is the life of a transaction that nothing disturbs, and the largest of
the invariants. Three properties follow from it, under its hypotheses:

* one window shows a transaction at a time (`~MultiWindow`): a second one sends
  back a copy made before the approval and makes the transaction unapproved
  again;
* until the network is changed (`switches = 0`): the clean-up that follows fails
  what is being approved and saves originals over copies (section 5.2);
* until the page restarts (`crashes = 0`): the saved list may be older than
  what was sent, and the clean-up of the start saves originals late.

On the instance of txc_nonces, TLC violates `OneHashPerTx` with two windows and
with a restart, `NoncesAreConsecutive` with a change of network, and
`ImplementsLifecycle` with any of the three.

Calm says that one object at a time is the entry: before the request is through,
nothing works on it (`RequestCalm`); an entry is of the network in use and
untouched until it is approved (`EntryCalm`); a copy is no entry before it is
sent back, and is sent back while the transaction is unapproved (`WindowCalm`);
an approval holds the entry to its end, at the status it gave it
(`ApprovalCalm`); a deferred update is of the entry, so saving it again changes
nothing, or of a rejected one (`TimerCalm`); what was broadcast is submitted or
failed, or its approval waits for the reply (`SentCalm`).

Each part speaks of one transaction. A step is of one transaction, too, and
`Apart` and `Others` say once why it leaves all the others calm. The properties
are about the time before the first change or restart, and the theorems say
`Undisturbed => ...` of any behaviour; a refinement speaks of whole behaviours,
so `LifecycleImplemented` has the bounds of both at zero instead.

**NoncesKept** adds the nonces to Calm, when none are typed in
(`CustomNonces = {}`: what a user types need not be in sequence). A nonce is
*taken* once a transaction with it is submitted, and *backed* when all below are
executed or were broadcast. The nonce of every object is backed; a replacement
has that of its original, which need not be taken, as the original may have
failed. An approval has a backed nonce that is not taken, unless it is of a
replacement, and keeps it so until it ends because it holds the mutex of its
account. That is where `NonceLockSafe` comes in: two approvals that both have a
nonce of one account would be two holders.

### 6.2 The pending transaction tracker

**PttInv** is `Typed /\ FinalInv /\ DropInv`.

`FinalInv`: what is confirmed is mined where the chain cannot change
(`ConfirmedSettled`); `lock` keeps the checks of one call apart from those of
the next (`ChecksCounted`), with one stale check for every failed query at most;
and as long as no query failed, a check that has yet to hear of the receipt is
of a transaction that is not confirmed (`AskedUnconfirmed`). Hence
`ConfirmedUntilError`, which covers every step before the first failed query.
`ConfirmedIsFinal` itself does not hold without that hypothesis. A failed
receipt query rejects `Promise.all` and frees the lock while the other checks of
the call go on; a second call confirms the transaction; then a check of the
first is answered by a node that sees it executed only, and `confirmTransaction`
moves it back from confirmed to executed (`index.js:626`). TLC finds this with
two transactions and `MaxErrors = 1`. `MaxErrors = 0` in `ConfirmedForGood` is
the bound of ptt_safety, and says "no query fails".

`DropInv`: receipts are of mined transactions (`ReceiptsTrue`), and of a
transaction that *is* mined, the counts in its buffer and the checks that will
add to it are no more than one, plus one for each answer that was late or failed
(`OvertakenCounted`). The buffer holds three, so two such answers are survived
and the third may drop a transaction that was executed. Hence the hypotheses of
`DroppedOnlyDead`: TLC finds violations with three late answers, with two and
one failed query, and with one reorganisation and nothing else. (Without a
late answer to go with them, failed queries do less: on two transactions, with
no restart, three of them, or two and one late answer, drop none that was
executed.) ptt_safety checks it with two late answers; the theorem adds failed queries and any number of
transactions, restarts and hidden networks.

### 6.3 Network, accounts, messages, permissions

**Network.** `NetworkIsOfProvider` is not inductive: an answer that counts
configures the provider with what the *lookup* asked. The invariant adds that
without a race every waiting lookup that may still count asked the endpoint
behind the proxy, and ties the five places together for each type. With it each
step is shown to be one of `NetworkView`: the refinement mapping is
`at <- client.at`. `NetTypeOK` is a consequence, as the bag of lookups is typed
by the same invariant.

**AcctInv** is the types with `AccountsTracked`; what matters is that an answer,
old as it may be, only adds to the tracked accounts (`AnswerFacts`), and that a
report of the keyrings tracks exactly its accounts (`SyncFacts`).

**MsgInv** adds to `AnswersAreTrue` that what the windows list is unapproved and
has its listener, that every keyring call is of a confirmed message, and that a
cancelled message has no listener left, which is why no later result reaches
the page. `ArmedIsTyped` bounds the exception of `DecisionsStand`: listeners are
left behind by typed data only.

**PermInv** adds that what is granted is in the history or was not filed by its
name (`GrantedIsSeen`): a page may be told later, and in another form, of what
was granted earlier. `SavedInv` says the same of what is on the disk, which a
restart may make the truth again. The lemmas `HexWrites` and `Base32Writes` say
which accounts can be told from what is written, `FiledOrNot` that each way of
filing names every account or, while the network is not known, counts it as not
filed.

### 6.4 Preferences

**PrefInv** is `TokenInv /\ OpsTyped /\ OpsInv`. `TokensAreOwn` needs that the
tokens *shown* were given to the selection (`ShownAreGiven`), for they are filed
whole with each token added, and that the selection is a known account unless
torn. `OpsInv` says, while nothing is disturbed, what each operation has done
half-way: an account being added is in the keyrings and the list about to be
written is theirs (`AddingMatches`); an account being removed is the only one
the preferences lack (`RemovingMatches`), unless the wallet was locked
meanwhile, which puts it back and forces a disturbance.

`TokensAreKept` is the other direction: since a token is added by filing the
whole list shown, one that is filed and not shown would be lost.
`FiledAreShown` excludes that for the selected account. The list shown may be
longer than the file, after a restore brought the account back without it.

### 6.5 Windows

**WinInv**: `connections` is the number of ports, and polling runs while there
is one (`PortsCounted`); a flag that is set has a port, and each port has its
flag unless two shared one (`FlagsTell`); unless two requests raced, one of them
shows a window at a time, and a notification on screen is the one whose id is
kept, the one the call was told of or the one it has just created (`OneShown`);
and until the user leaves a window, what a call was told still holds
(`AnswersHold`). `MissedIsLeft` needs the last for the answers of the browser
that are used after another await.

### 6.6 Only model-checked

* Liveness (`ConfirmedIsAnswered`, `EvictedIsResent`, `SubmittedSettles`,
  `NetworkSettles`, `CacheConverges`, `DecidedIsSettled`): fairness and
  `ENABLED` are beyond the prover.
* `NoncesAreConsecutive` and `OneHashPerTx` are claimed of an undisturbed page
  only, and `NoOrphanApproved` until the network is changed: what follows is in
  section 5.2.

## 7 What is not modelled

* Within the modelled components: the history limit and ordering of `addTx`,
  validation of `txParams`, gas prices and their bumps, `epochHeight`, the debug
  history; the log of permission requests, the metadata of sites, permissions
  other than `eth_accounts`; names of accounts, suggested tokens and single-value
  settings; hardware paging. None of these feeds back into the control that is
  modelled, except `epochHeight` (section 5.2) and the history limit, which may
  remove an entry in a final state.
* Token rates and incoming transactions: both are switched off in the code.
* The migrator is a loop over some fifty pure functions that runs before any
  controller exists. Phishing list, 3Box, ENS, onboarding: one HTTP call each,
  or independent of the core.
* Middleware and content scripts keep no state.
* Most of the repository is the React user interface, styles, translations and
  build scripts. Of it, what may call the background and when is modelled: the
  confirmation page in `TxController`, the pages for messages in
  `MessageManagers`, the windows as such in `Windows`. What the rest does is a
  view of the background's state.
* Keyrings, rpc-cap, the browser, the nodes and the nonce tracker are external
  and modelled by how the code uses them.

## 8 The plan

Done: the modules of section 2, every one with a run and with theorems; every
safety invariant, action property and refinement of a run is stated by a
theorem, each under the hypotheses section 6 explains.

Next:

1. The history limit in `TxStateManager`, with the removal of final entries in
   `TxLifecycle`; `epochHeight` as a field, to say which transactions can be
   broadcast again.
2. Gas price bumps with rounding, against the ten per cent nodes ask for.
3. Composition: `TxController` on `NetworkView` in place of its own network
   changes.
