# Safeory in TLA+

TLA+ modules that model the parts of Safeory in which order, failure and concurrency
decide what is correct, TLC configurations that model-check them on small instances, and
theorems about them that TLAPS proves for every instance. Paths below are relative to
`src/`.

- [1 The system](#1-the-system)
- [2 The modules](#2-the-modules)
- [3 What the runs check](#3-what-the-runs-check)
- [4 What is proved](#4-what-is-proved)
- [5 Where code and documents disagree](#5-where-code-and-documents-disagree)
- [6 What is not modelled](#6-what-is-not-modelled)
- [7 What could come next](#7-what-could-come-next)

To check a run: `tlc -config <cfg> <module>` with the pairs of section 3. To check the
proofs: `tlapm <module>` for the modules whose names end in `Proofs`.

## 1 The system

Safeory is a family vault. Clients (a native core over SQLite, a web application and a
browser extension over WebAssembly and IndexedDB) keep an encrypted vault locally, and
synchronise its ciphertext through a server that sees ids, revisions, sizes and hashes
only. Trusted people and their devices are kept on an emergency card inside the vault.

| Component | State | Operations | What makes it hard | What makes it correct |
|---|---|---|---|---|
| Ciphertext object store (`apps/api/src/sync.rs`, `store.rs`, `model.rs`) | object rows, operation log and change cursor in PostgreSQL; ciphertext in a blob store | `put_object`, `list_objects`, `get_object` | two stores without a common transaction, lost commit acknowledgements, client retries, concurrent PUTs | no row without its body, no lost update, a retry is replayed, the feed skips nothing, all of it looks atomic |
| Device registry and enrollment (same files, migration 0006) | accounts, devices, enrollments, audit events | create, prepare, activate, cancel, revoke | row and advisory locks, `now()` of a transaction that waits, retries, revocation while an activation runs | a limit on devices, never none, a revocation reaches what the device approved |
| Household topology and space keys (`crates/vault-sync`, `store.rs`) | one topology per household; key generations | put topology, authorize a scope, prepare and open a space key | transactions that lock households, accounts and devices in crossing orders | the topologies form one line, each written by who could manage the one before; every transaction ends |
| Client sync engine (`packages/contracts/src/sync-*.ts`) | per item a baseline, a conflict and a stamp; an outbox; a pull cursor | `runCycle`: pull, accept, harvest, flush | an `await` between every read and write of four stores without a common transaction, tabs, user edits, crashes | no edit is overwritten, no change is skipped, uploads happen |
| Browser vault (`session.ts`, `persistence.ts`, `crates/vault-wasm`) | the vault in a tab's memory; snapshot, manifests and chunks in IndexedDB; a resume credential | mutations, attachment transfers, save, lock, resume, backup, restore, reset | several tabs save whole snapshots; `lock` does not wait for the queue; closed tabs | a stale tab never overwrites, nor is one that could save resumed with a stale credential; no reference without its chunks |
| Native vault (`crates/vault-core`, `vault-storage`) | encrypted items, history, attachments and wraps in SQLite; sessions that hold a root key | item lifecycle, attachments, passphrase and recovery kit, backup, restore | windows that read, decide and write in separate steps; plans that outlive a session; a database replaced under a session | what is stored can always be read, and within two limits backed up and restored; no lost update; history keeps what an edit replaced |
| Emergency card and pairing (`crates/vault-core`, `vault-models`, `vault-sharing`) | the card with its people, devices and retired identities; pending pairings | replace the card, challenge, answer, complete | stale screens, answers that come late or twice, reinstalled apps, lifetime budgets | a key on the card was proved; nobody who left comes back; people can always be removed |
| Emergency release (`crates/vault-emergency`, policies in `vault-models`) | policy of an item, release requests; shares of the recovery secret | evaluate, begin, approve, deny, revoke, release; split, recover | times, approvals and policy edits in any order | access is earned, edits and denials fence it |

The components meet in these places. A sync cycle calls `put_object`, `list_objects` and
`get_object`; `VaultSync` therefore runs over `VersionedObjects`, the atomic
specification that `ObjectStore` implements. `revoke_device` and
`put_household_topology` change what the object store authorises while PUTs are under
way: they are actions of `ObjectStore`, and `HouseholdTopology` has the same three
transactions with every lock. The calls of the registry meet each other in the locks of
`DeviceRegistry`. An item saved by vault-core carries the policy by which a release
request is judged: `SaveItem` of `ReleaseRequest`. A tab of `BrowserVault` is a vault of
`WasmVault` over the database of `BrowserStorage`; the sync engine writes into it through
`ApplyRemoteEncryptedItem`. A session of `NativeVault` works on a `VaultDatabase`. The
envelopes of `Sharing` carry pairing challenges (`EmergencyCard`), space keys
(`SpaceKeys`), recovery shares (`RecoveryShares`) and enrollment grants.

`PROJECT.json` lists every component with its status, and under `hazards` each place
where the code could go wrong in a way a test would hardly reach, with the properties
that watch it.

## 2 The modules

```
VersionedObjects <-implements- ObjectStore          <- MCObjectStore        ObjectStoreProofs
      ^------------INSTANCE--- VaultSync            <- MCVaultSync          VaultSyncProofs
                               DeviceRegistry       <- MCDeviceRegistry     DeviceRegistryProofs
HouseholdContract <- HouseholdTopology              <- MCHouseholdTopology  HouseholdProofs
VaultDatabase     <- NativeVault                    <- MCNativeVault        NativeVaultProofs
WasmVault <- BrowserStorage <- BrowserVault         <- MCBrowserVault       BrowserVaultProofs
Sharing <- EmergencyCard                            <- MCEmergencyCard      EmergencyCardProofs
Sharing <- SpaceKeys, RecoveryShares                <- MCEmergencyCard
                               ReleaseRequest       <- MCReleaseRequest     ReleaseRequestProofs
```

An arrow without a word is EXTENDS. Where a component is mostly data (a database, a vault in
memory, a topology, an envelope), its data and pure operations are a module of their own,
with operators that take a value to the next one; the module above it has the variables and
the interleaving.

Definitions whose comment begins with "Mutant:" are what a plausible bug would make of
the definition they precede. No specification uses them; they show that a property
fails when the code is wrong.

### VersionedObjects

The store as a client may think of it: a conditional write takes effect at one instant
and at most once per operation id; a success names the write recorded under the
operation id; a refusal is true of the instant at which it is decided; an answer may be
lost. An `unavailable` or `forbidden` says nothing about the write.

### ObjectStore

One account's objects. `put_object` is one action per await: `Receive` (authentication),
`Authorize` (scope), `Lookup` (replay of a known operation), `Precheck` (write policy on
a row read without a lock), `Upload`, `Commit` (the transaction under the account row
lock, with every check repeated), `Retire` (deletion of the replaced body), and on the
failing paths `Discard` (deletion of the candidate) and `Reconcile` (after a commit
whose acknowledgement was lost). `CommitOutcomeUnknown` puts the transaction in
`indoubt`, where it keeps its locks until `ResolveCommitted` or `ResolveAborted`.
`Crash` is a dropped handler or a stopped server, at any step. `Revoke`, `PutTopology`
and `ListObjects` are the other calls; a reader pages through the feed with its cursor.

Choices: a ciphertext is a value that stands for its bytes, hash and size. A storage key
is fresh by construction (a UUID), and the number of keys bounds the uploads of a run.
`list_objects` reads rows and topology in two queries, merged into one step.
`PutTopology` says what a topology lets this account do; how it comes to be stored is
`HouseholdTopology`. An account that is removed from a topology is one with no listed
device.

### VaultSync

The devices of one account. A device has a vault (`local`), per item the sync state
(`baseline`, `conflict`, and the `stamp` that compare-and-swap updates check), an
`outbox` and a `cursor`. A cycle is a record of its program counter and local variables;
`CycleStep` has one action per await of pull (`ListPage`, `GetObject`), acceptance
(`LoadState`, `Decide`, `ApplyRemote`, `CommitState`, `Advance`), harvest
(`StartHarvest`, `LoadItem`, `Enqueue`) and flush (`StartFlush`, `Push`, `PushRefused`,
`Acknowledge`, `Finish`). `Edit` and `Create` come between any two of them. `PushLost`
is an upload whose answer is lost, `Abort` a crash, a closed tab or a failed request.

Choices: a version is a number that stands for its ciphertext, digest and header. `made`
remembers for each version the versions it was written on (`line`), which is history:
the code never reads it, and the properties about lost edits need it. An operation id is
derived from its content, so it is the pair of version and baseline. What the code does in
a loop over the queued uploads of an item, to find the baseline they lead to, is the end of
the one chain that consumes them all (`AdvanceQueued`); an acknowledgement removes the one
entry with its id (`RemoveFirst`). Some neighbouring
reads are one step (cursor and list; queue and list of pending items; item state and
enqueue). Two cycles of one device may overlap: two tabs share the stores, and
the web application's `stopSync` drops its references to a running cycle without
aborting it, so that a session locked and unlocked starts the next beside it.

### DeviceRegistry

Accounts, devices, enrollments and their audit events. A call arrives (`Receive...`,
where its device is authenticated), begins its transaction (`Begin`, which fixes
`now()`), takes its locks one at a time in the order of the code (`Acquire`: account
row, request id, device id), decides on what it reads (`Decide`, with one `Judge...`
operator per call), and writes and commits (`Write`). `Abort` rolls back. Retries are
calls like any other.

Choices: the keys and the bearer token of an enrollment are one `secret`; tokens the
server makes are fresh. Answers are not stored, since a client that lost one repeats its
call. `due` (the call had been done when it arrived) and `late` (the approver had been
revoked when the row was made) are history variables. Request and device ids are chosen by
clients and locked under one hash (`store.rs:227` and `231`), so they are one space of
locks: the request id of one call may be the device id of another, and a prepare may take
its own lock twice. That two different ids have one 64-bit hash is left out. PostgreSQL's
deadlock detector, which ends a circle of waiting transactions, is one of the reasons for
which `Abort` is taken.

### HouseholdContract and HouseholdTopology

`HouseholdContract` is the topology contract of `crates/vault-sync/src/lib.rs` as
operators: when a topology is valid (its memberships, spaces, members and limits), which
action a role and an access allow in which scope (`AuthorizesDeviceScope`), which first
topology a device may store (`Bootstraps`), and the migration of a single owner.

`HouseholdTopology` has the three transactions that lock a household: a PUT of its
topology (`LockHousehold`, `LockAccounts`, `LockDevices`, `WriteTopology`, each taking
one row lock after the other), a PUT of an object in one of its scopes (`LockAccount`,
`LockScope`, `WriteObject`) and the revocation of a device. Locks are shared or
exclusive; a transaction that would conflict waits. PostgreSQL is external:
`DetectDeadlock` aborts a transaction that waits in a circle, `Disconnect` any.

Choices: what an object PUT and a revocation write besides is modelled in `ObjectStore`
and `DeviceRegistry`. A topology is stored whole, as the code does; the client library
for space keys (`SpaceKeys`) has no caller in the repository, so that nothing here says
who rotates a key.

### NativeVault over VaultDatabase

`VaultDatabase` is the SQLite file as a value and every transaction of vault-storage as a
guard and a next value (`CanUpdateItem`/`UpdateItem` and so on), with `ArchiveCurrentItem`,
`UpdateCurrentItem` and `PruneItemHistory` as the parts they share; the reads of history and
attachments; and what a backup and a restore check (`Validates`: the bounds of
`WithinBounds`, and the storage limit, the number of items and the contents of
`ContentsValid`). `NativeVault` has the sessions. An operation is two steps: one that reads
rows, decrypts and judges them and seals new ones into a `call`, and `CommitCall`, one
transaction that compares the revision again. An attachment import is a `plan` that is
prepared, encrypted and committed by separate calls. A restore is validated
(`PrepareRestore`), fingerprinted (`FingerprintSource`), perhaps rewrapped, and installed by
a transaction that compares the fingerprint.

Choices: a record is authenticated with its id and revision, so a ciphertext is its
plaintext with its root key. Item bodies are numbers. Chunks of an attachment are all
there or not: they are written and deleted in one transaction. `stray` is a history
variable: a write or an install took place that the code does not fence (a session with
the root key of a database since replaced, or a write prepared before a restore set
revisions back, or a candidate file exchanged between validation and fingerprint). The
properties say what holds until then; section 5 says what does not.

### EmergencyCard over Sharing

`Sharing` has the envelopes of `crates/vault-sharing` symbolically: what a key pair seals
and signs is the record of its inputs, and opens or verifies under equal ones. The random
source is a parameter. `EmergencyCard` has sessions that replace the card from what a screen
shows (`SetEmergencyCard` prepares, `Write` stores: any card stored so far may be on a
screen), and pairing: a challenge sealed to a device's encryption key, answered by an
installation of the app under its signing key, completed by the session that still waits for
it. The network delays, duplicates and misdelivers, and forges nothing.

`SpaceKeys` (preparing and opening a generation of a space key) and `RecoveryShares`
(splitting the recovery secret, sealing its shares to trusted devices, recovering the root
key) are pure; `MCEmergencyCard` checks facts about them as assumptions.

### BrowserVault over BrowserStorage and WasmVault

`WasmVault` is the vault inside WebAssembly: ciphertext in memory and, while unlocked, a
root key. `BrowserStorage` has the transactions of `persistence.ts`, each comparing the
version of the snapshot and writing snapshot, manifests and chunks together or not at all.
`BrowserVault` has the tabs. A mutation changes the copy in memory and starts a save
(`MutateAndPersist`); the transaction runs (`CommitTransaction`) and returns
(`SaveReturns`), or fails and poisons the tab (`PoisonAfterDurabilityFailure`). Imports and
exports move one chunk per step. A resume awaits the stored snapshot (`ReadLatest`) and then
judges the credential by what it has read (`Resume`, `ResumeThrows`): another tab may save
between the two. `SessionLock` and the unlock calls do not wait for the
queue and fall between these steps; `Close` ends a tab at any step.
`ApplyRemoteEncryptedItem` is what the sync engine writes.

Choices: a sealing draws a nonce, a number never drawn before, so that two sealings of one
record differ and a root key is named by the nonce it was made with. Passphrases are not
modelled: a wrap's nonce identifies what opens it. A call with an old expected revision is
refused without effect and is no step. `outside` is a history variable: another device has
changed the attachments of an item through the sync engine, which does not touch manifests
and chunks. The emergency card is a record of its own (`EmergencyCard`). One backup is
exported per behaviour.

### ReleaseRequest

One item, its policy and the release requests on it. `SaveItem` writes a policy and
advances the item's revision, `Begin` is `begin_release_request`, and `Approve`, `Deny`,
`Revoke` and `Release` are the methods of the same names, with the caller's `now` any
number up to `MaxTime`, the largest 64-bit one. `Evaluate` and `Status` are the two
copies of the policy rules the crate contains. `edited` is history.

Choices: callers present the policy and revision the item has. Calls that return an
error or that the code declares idempotent change nothing and are no steps. Permissions,
the limits on the number of grants and approvers and the time stored with a denial or a
revocation are left out.

## 3 What the runs check

| Run | Module, configuration | Instance |
|---|---|---|
| store_race | MCObjectStore, ObjectStoreRace | 2 handlers, 1 object, 5 mutations under 4 operation ids, 3 storage keys |
| store_shared | MCObjectStore, ObjectStoreShared | 2 handlers, 2 devices, 2 objects (one of the account, one of the household), 3 topologies, a reader with pages of one row |
| sync_two | MCVaultSync, VaultSyncTwo | 2 devices with a cycle each, 1 item, 4 versions, 1 failure |
| sync_overlap | MCVaultSync, VaultSyncOverlap | 2 devices, of which one has two overlapping cycles, 2 versions, pages and batches of one, 1 failure |
| registry | MCDeviceRegistry, DeviceRegistryCalls | 2 handlers, 2 accounts, 3 devices, 2 enrollments whose ids are those of devices, limit 2 |
| release | MCReleaseRequest, ReleaseRequestCalls | 5 grants (one invalid), 3 people, times 0 to 4, 3 revisions |
| native | MCNativeVault, NativeVault | 2 sessions, 2 items of which 1 is listed, up to 4 revisions, 3 attachments in room for 1, histories of 2 and 3 rows; a restore of the own backup or another vault's |
| topology | MCHouseholdTopology, HouseholdTopology | 3 transactions of 10 calls, 2 accounts with 2 devices each, 1 space, from no topology or either of two |
| identity | MCEmergencyCard, EmergencyCard | 2 sessions, 1 person, 2 devices, 2 installations that share a signing key, 2 challenges, retirement budgets of 1 and 2 |
| browser | MCBrowserVault, BrowserVault | 2 tabs, 1 item and the resume marker, an attachment of up to one chunk, 3 saves; from an empty browser, a used vault with a backup, or one with its item in the trash |
| sync_alone, sync_full | see section 5 | one violated property each |

**store_race.** `NoDanglingMetadata`: no clean-up deletes a body that a row refers to or
a commit in doubt may still make current. `NoOrphanWithoutFault`: without failures no
body stays behind. `NoLostUpdate`: in commit order every write was made against what its
predecessor left. `RetryOfCommittedIsReplayed`: a retry of a committed operation is not
refused as stale. `ImplementsVersionedObjects`: the refinement. `RequestsEnd`: every PUT
ends. `StoreInv` is the inductive invariant of the proofs.

**store_shared.** `FeedComplete`: a reader whose cursor passed a change has been shown
it. `StoreIsLog`: the rows are the newest entries of the log, whose numbers are
distinct. `HouseholdWritesAuthorized`: a household write takes effect only under a
topology that allows it, however long ago it was authorised.

**sync_two.** `LocalFastForwards` and `ServerFastForwards`: no version is ever replaced,
on a device or on the server, by one that was not written on top of it.
`CursorComplete`: the cursor passes a change only when the device has it or keeps it as
a conflict. `SyncInv` is the inductive invariant: versions descend in lines, a baseline is
an ancestor of the device's version and of the server's, and what the outbox and the cycles
hold still fits both. `AcknowledgedTookEffect`: no upload is forgotten.

**sync_overlap.** `BaselineAdvances`: baselines move to descendants only, with two cycles
over the same stores. `CursorComplete` is not claimed there: the slower of two overlapping
cycles may commit an older body over the conflict the faster one recorded, whose change
the cursor has passed. `CreatedReachesAll`: a created item reaches every device; it is
stated for items that are not edited, since a refused upload stays at the head of the
outbox (`hazards`).

**registry.** `NeverLockedOut`: an account keeps an active device. `EnrollmentsSound`: a
pending enrollment shares its device id and secret with nobody, and the audit events tell
what became of every enrollment. `RevocationCancels`: no enrollment survives its approver,
except one whose approver was revoked between authentication and commit. `RetriesReplayed`:
a call repeated after it was done does not conflict with itself. `NoLockCycle`: transactions
wait for each other in a circle only over two prepares of different accounts, of which one
waits for the id that the other has locked as its request (section 5); no other mix of
calls does, whichever ids they share. `RegistryInv` is the inductive invariant; it
includes the limit on active devices.

**release.** `AccessEarned`: access implies the waiting period, a quorum without the
trustee, and an unchanged item. `EditFences`: an edit ends every older request, also when
the old policy is written again. `AgreesWithEvaluate`: the two copies of the rules agree on
a pending request. `ReleaseInv` is the inductive invariant.

**native.** `VaultInv`: every database that only fenced writes have touched is consistent
(references and attachments agree, history belongs to a living item and is older than it,
everything opens with one root key) and within the bounds of its rows, so that a backup is
refused for two reasons only: more items than are listed, or imports that raced past the
storage limit, neither of which a write checks for sure; a session that has seen every
install holds that root key and can list and open the history of every active item and
export each attachment; and what was looked at, sealed, planned or staged still fits the
rows it would replace. It is inductive. `BudgetOvershoot`: the storage limit, measured
before the transaction, is passed by at most one import of each other session.
`NoLostUpdate`: a write replaces exactly the row its user looked at. `HistoryKeepsNewest`:
history gains exactly the row an edit replaces and loses rows only to a purge or to enough
younger ones. `InstallsWhatWasValidated`: an install puts in place what was validated,
whatever happened to the candidate after its fingerprint was taken.

**topology.** `HouseholdLine`: topologies form one line of revisions, each stored by a
request whose own account and device could manage the one before when it is replaced,
listing devices that were active and registered as it says. `TransactionsEnd`: every
transaction ends although the lock orders cross. `TopologyInv` is the inductive invariant:
what a transaction has judged still holds when it writes.

**identity.** `CardInv`: the stored card passes its own validation, carries signing keys
only where an installation that holds both keys proved them, and no write under way can
take that away. `CardContinues`: nobody who was removed comes back, no retired key is
forgotten, no paired device changes owner or keys. Checked as assumptions besides:
creating a card refuses exactly what continuity from an empty one refuses; removing people
and devices is accepted from every valid card; an enrollment grant opens for its request
only; a weak key is refused; a generation of a space key reaches its recipients only;
envelopes of one purpose do not open for another; of three people with shares any two
recover the root key and fewer cannot, also with shares of earlier splits.

**browser.** `BrowserInv`: a tab at the database's version has the database's content, or
its own unsaved mutation on top; a poisoned tab is locked; what is stored is sealed under one
root key, and a purged item names no attachment; every attachment an item names is stored
whole under that key and no chunk is stored that no item names; what is exported can be
restored (with the exception of section 5). `SavesBuildOnStored`: a save that commits is one
operation on what was stored, so no tab overwrites what another was told is saved.
`ResumeIsNewest`: a tab is resumed only with a credential bound to the snapshot that its
resume read, so not with one that another tab had made stale by then; one that is made stale
between the read and the unlock opens the tab, but not a tab that can save: a tab at the
database's version was resumed with a credential bound to what is stored.

### Bounds, and why they are enough

The races of the store are between two PUTs: a third handler would repeat the role of
one. Three storage keys allow three uploads in a run, that is a creation, its competitor
and the update that retires one of them. The hazards of the sync engine are between one
item's states on two devices; four versions are two edits of each on top of each other's.
One failure cuts off one cycle at any await, and what follows recovers from it; a second
failure would cut off the recovery at a point at which the first could have. Pages,
batches and outboxes of one or two entries make their limits count. In the registry two
calls at a time can meet in every pair of kinds; the limit of two devices is reached and
passed, and the clock advances far enough for an enrollment to expire once. Release
requests on one item do not touch each other, so that one is enough; four instants hold
a waiting period, a duration and an overflow of either.

In the registry two of the three device ids are also the request ids, so that calls share
ids in every way, the crossed prepares among them.

In `native`, two sessions are two windows; a third only adds one to the overshoot. Two items
are needed where sessions meet over both: two imports that measure the same room must go
into different items, since of two into one item the second is refused as stale; and with
`MaxItems = 1` the second item is one more than a backup lists. The constraint `Bounded` of
`MCNativeVault` follows a behaviour up to its first unfenced write, in one of three classes:
one item with attachments and all revisions (a third attachment only while at most one body
has been put, which the overshoot needs no more of); two items with two attachments between
them and up to two revisions each; or one item without attachments, up to its second
revision, with backups, restores and changed secrets. The classes do not meet but in what a
restore copies whole, and in the pruning of a history of two items: that both of its limits
hold and the last edit stays is checked for two items as the assumption
`PruningDropsTheOldest`, and proved. Three transactions in `topology` are the least that can
wait in a circle beside a fourth party's revocation; the ten calls hold first topologies of
competitors, a handover, an expulsion, a demotion, a misplaced device, object writes and
revocations. In `identity` two installations with one signing key are a reinstalled app;
budgets of one and two are reached. In `browser`, `MaxDraws` leaves two more operations that
seal something after the used vault's four, in two tabs: each pair of operations meets, with
every step of their saves apart.

Symmetry is used only in runs without liveness properties (handlers and storage keys;
handlers and accounts; sessions; sessions, devices and keys; tabs). `CHECK_DEADLOCK FALSE`
is set where the system may really stop: a sync engine with all versions made and its
failures spent, a release request denied for good, a native vault at its bounds, three
transactions that have ended. The store, the registry, the cards and the browser are
checked for deadlock.

### Fairness

`ObjectStore!FairSpec` assumes strong fairness of each handler's returning steps: every
await returns, and PostgreSQL grants a row lock first come, first served, so a handler
that waits for a lock that is freed again and again gets it. Weak fairness would not
express that, since the lock is taken by others in between. It assumes weak fairness of
`Resolve`: the database settles a transaction whose connection is gone. Nothing is
assumed of clients, failures or crashes.

`VaultSync!FairSpec` assumes, for each device, weak fairness of the steps of its cycles
together: a timer starts a cycle every 30 seconds (one minute in the extension) and every
await returns or throws. Which of two overlapping cycles moves is left open. Failures and
edits are not fair; a run has finitely many because of its bounds.

`HouseholdTopology!FairSpec` assumes weak fairness of each handler's steps and of the
deadlock detector. Each handler serves one call, so that a lock it waits for is not taken
again for ever; whether an exclusive lock can be starved by ever new shared lockers is not
claimed.

`DeviceRegistry` has no fairness: `NoLockCycle` is the safety property behind "every call
ends", with crossed prepares left to the deadlock detector. The vaults, cards and release
requests have none: nobody has to call them.

## 4 What is proved

The theorems hold for every value of the constants under the named assumptions of the
modules (`ObjectStoreAssumption`, `RegistryAssumption`, `ReleaseAssumption`,
`ContractAssumption`, `CallsAssumption`, `CardConstants`, `WasmVaultAssumption`,
`BrowserVaultAssumption`, `StartsAssumption`, `VaultSyncAssumption`, `DatabaseAssumption`,
`NativeVaultAssumption`, and the assumptions about `None`). These
say that the constants have their types, that ids and people are finite sets, that a limit
or a page is not zero, and that `None` is none of the values it stands in for.
`StartsAssumption` says of the databases and backups a browser may start with that the same
code left them: sealed under one root key, with their attachments whole.
`NativeVaultAssumption` says of the backup file (`Foreign`) that it is a vault whose recovery
kit, if it has one, wraps its own root key, and that there is a session.

| Theorem | States |
|---|---|
| ObjectStoreProofs!TypeCorrect | `[]TypeOK` |
| ObjectStoreProofs!StoreInvariant, NoDangling | `[]StoreInv`, and from it `[]NoDanglingMetadata` |
| ObjectStoreProofs!RevisionsOnlyAdvance | `RevisionsAdvance`: no commit, however late, lowers a revision |
| ObjectStoreProofs!HouseholdWrites | `HouseholdWritesAuthorized` |
| ObjectStoreProofs!TheStoreIsLog, NoUpdateIsLost | `[]StoreIsLog`, `[]NoLostUpdate` |
| ObjectStoreProofs!NothingIsOrphaned | `[]NoOrphanWithoutFault` |
| ObjectStoreProofs!RetriesReplayed | `[]RetryOfCommittedIsReplayed` |
| ObjectStoreProofs!FeedIsComplete | `[]FeedComplete` |
| ObjectStoreProofs!StoreImplementsVersionedObjects | `ImplementsVersionedObjects` |
| DeviceRegistryProofs!RegistryInvariant | `[]RegistryInv` |
| DeviceRegistryProofs!LimitHolds, LastDeviceStays | `[]ActiveLimit`, `[]NeverLockedOut` |
| DeviceRegistryProofs!RowInvariant | `[]RowInv`, from which the next four follow |
| DeviceRegistryProofs!EnrollmentsAreSound, RevocationsAreFinal | `[]EnrollmentsSound`, `[]RevocationCancels` |
| DeviceRegistryProofs!RetriesAreReplayed, NoDeadlock | `[]RetriesReplayed`, `[]NoLockCycle` |
| ReleaseRequestProofs!ReleaseInvariant | `[]ReleaseInv` |
| ReleaseRequestProofs!AccessIsEarned, EditsFence, StampsFence | `[]AccessEarned`, `[]EditFences`, and that every change of a request carries the next `state_revision` |
| ReleaseRequestProofs!StatusAgrees | `[]AgreesWithEvaluate` |
| HouseholdProofs!TopologyInvariant, TopologiesInLine | `[]TopologyInv`, `HouseholdLine` |
| HouseholdProofs!SomeoneManages | a valid topology lists a device that may manage it (that the writer was one is `TopologiesInLine`) |
| HouseholdProofs!ActionsNest, PrivateToOneAccount | who may manage a scope may write it, who may write may read; a private space is read by one account |
| HouseholdProofs!MigrationStarts | the topology of a single owner starts a household, and its migration is valid exactly when the objects are within the limit, distinct and none that the topology names |
| EmergencyCardProofs!CardInvariant, CardsContinue | `[]CardInv`, `CardContinues` |
| EmergencyCardProofs!AlwaysRevocable | from every valid card any people and devices can be removed, whatever the budgets have left |
| BrowserVaultProofs!MemoryInvariant, MemoryMatches | `[]MemoryInv`, and from it that a tab at the database's version has its content and a poisoned tab is locked |
| BrowserVaultProofs!SavesBuild, ResumesAreNewest | `SavesBuildOnStored`, `ResumeIsNewest` |
| BrowserVaultProofs!BrowserInvariant | `[]BrowserInv` |
| VaultSyncProofs!SyncInvariant | `[]SyncInv` |
| VaultSyncProofs!LocalOnlyFastForwards, ServerOnlyFastForwards | `LocalFastForwards`, `ServerFastForwards`: no edit is overwritten |
| VaultSyncProofs!BaselineOnlyAdvances | `BaselineAdvances`, with any number of overlapping cycles |
| VaultSyncProofs!AcknowledgedEntriesTookEffect | `AcknowledgedTookEffect` |
| VaultSyncProofs!CursorNeverPassesUnseen | `[]CursorComplete`, where no two cycles share a device |
| NativeVaultProofs!VaultInvariant | `[]VaultInv` |
| NativeVaultProofs!NothingIsOverwritten | `NoLostUpdate` |
| NativeVaultProofs!EditsAreKept | `HistoryKeepsNewest`, for any limits of the history |
| NativeVaultProofs!OnlyValidatedIsInstalled | `InstallsWhatWasValidated` |
| NativeVaultProofs!BudgetIsHeld | `[]BudgetOvershoot`, for any number of sessions |

*ObjectStore.* That no row is left without its body is not inductive: a state in which a
handler is about to delete a key that some row uses satisfies it and has a bad
successor. `StoreInv` says who may refer to a key: a candidate belongs to one handler
and to no row until its commit is sent (`CandidatesOwned`), a key to be retired was
written once and is current nowhere (`RetiredReplaced`), all keys in sight were handed
out (`KeysUsed`), rows repeat the operation that wrote them (`RowsRecorded`), and a
commit in doubt still finds what it checked (`InDoubtApplicable`). The last is where the
locks count: while a commit is in doubt no other transaction of the account commits.
`NoLostUpdate` and `StoreIsLog` need in addition that the log is ordered as the rows
are, which is the invariant of the second half of the proofs. Of the last three: a body
outlives its use only if a handler still has to delete it or a fault is recorded; a retry
finds its operation in `Lookup` or, at the latest, under the account lock, since the log
never forgets; and a page ends at the last change it looked at, so that no change below a
cursor can appear later than the row lock orders it.

*Its refinement.* The mapping takes the operation log, the rows and the answers as
they are and forgets handlers, blobs and locks. A commit, or the late settling of one in
doubt, is the one step that takes effect; a refusal is a step that must be true of the
state in which it is decided, which for the checks under the account lock is the state
they read. A handler that only moves on stutters. Besides `StoreInv` the proof needs
that a handler at work has not answered and works on a mutation bound to its upload
(`AnswerOpen`).

*DeviceRegistry.* The limit is checked when a transaction reads and could be exceeded
when it writes. `RegistryInv` adds that one transaction of an account at a time is past
its account lock (`AccountSerialised`), so that what was decided still holds
(`DecisionsStand`), and that an account being created is known to nobody else
(`AccountsKnown`), since `create_account` takes no account lock.

Enrollments of different accounts meet in request and device ids, for
which the account lock does not help. `RowInv` says that no lock has two holders and a
transaction that writes holds all of its own (`LockInv`), that therefore the rows it judged
are as it read them, and that a call which had been done when it arrived still finds it
done (`HandlerSound`), that approvers belong to the account (`ApproversKnown`), and the two
properties themselves. For `NoLockCycle` every waiting transaction gets a rank by the lock it
waits for: the account, a prepare's request id, a device id, and above them a
prepare that waits for rows. Unless it is crossed with the one that waits for it, whoever is
waited for ranks higher (`WaitsUpwards`), and of a finite set of ranks one is the highest.

*ReleaseRequest.* A request is judged again at each query, from what it stored.
`ReleaseInv` says that it holds a valid grant of its own trustee and only approvals the
grant asks for, that a release was made after its waiting period with its quorum, and
that its revision is older than the item's once the item was saved. `StatusAgrees` needs
the opposite case: while the item was not saved, the policy is the one the request began
under and still holds its grant (`BegunUnder`), so that both copies of the rules judge the
same grant.

*HouseholdTopology.* That topologies form a line is not inductive: it matters what a
transaction has read when it writes. `TopologyInv` adds that conflicting locks are not
held together (`LocksExclude`), that a locked device is active (`DevicesHeld`), and that
every decision stands (`DecisionStands`): from its first lock on, what a PUT has judged is
the stored topology, and what an object PUT was allowed it still is.

*EmergencyCard.* That the stored card is good is not inductive either: a session may be
about to store another. `CardInv` says of each prepared write that, if it can still
succeed, its card is good and continues the stored one (`PreparedContinues`); a proof in
the network answers a challenge under the key it names.

*BrowserVault.* That memory and database agree at equal versions says nothing of a save that
is about to commit. `MemoryInv` adds that no tab is ahead of the database, that what a job
will write is one operation on what its tab loaded, that a root key is held only beside a
root wrap, and that a poisoned tab has no job and no key. `FilesInv` does the same for
attachments: it says of each tab that, if it is still at the database's version, its
pending transaction leaves the files whole (`TabFiles`), since an attachment under import
has an id drawn for it that no item names, and the manifests read for a deletion are those
stored. Of a resume it says that what it has read is no newer than the database, was
sealed under one root key, and is the tab's own memory if it has the tab's version. After a
commit every other tab is behind, so its transaction no longer commits, and
nothing has to be known of it. That a backup can be restored follows from what is stored:
one root key, manifests with one owner each, and no chunk that no item names.

*VaultSync.* A baseline that both sides descend from is not inductive: a cycle holds a page,
a loaded state and a batch while edits, uploads and other cycles go on. `SyncInv` says of
each of these copies what stays true of it. The versions an edit was made on form a line
(`LineageSound`), so of two ancestors of one version one descends from the other. A row on a
page was taken by the server, and the server has it or a descendant ever since (`Taken`); a
version in an upload is one that its vault has or has built on (`Holds`, `UploadSound`); a
baseline about to be committed descends from the stored one unless the stamp has moved, and
then the compare-and-swap refuses it (`Advances`). One lemma (`StepSound`) says that all
this survives every step that moves vaults, server and baselines to descendants (`Forward`),
and then each action has to show only that it is such a step and that what it newly writes
is sound. The case in which reconciliation calls the remote version a fast-forward rests on
`PulledGrewFromBaseline`: of two versions the server has taken, the one with the larger
revision descends from the other. `LocalFastForwards`, `ServerFastForwards` and
`BaselineAdvances` are the parts of `Forward`.

For `CursorComplete`, `CursorInv` adds that a page is a gapless window of the feed (`PageFits`):
each row after the cursor is on the page, or behind its end, or has been replaced and is
numbered behind its end; and that the row at its head, once dealt with, is in the vault or
recorded as a conflict (`Dealt`). The theorem has the hypothesis `OneCyclePerDevice` because
it is false without it: of two overlapping cycles of one device the slower can replace the
conflict that the faster has recorded by an older one, while the cursor has passed the newer
(`MCVaultSync` with `VaultSyncOverlap.cfg` has such cycles). Everything else about the engine
is proved for overlapping cycles.

*NativeVault.* `VaultInv` is inductive, since it was made to say two more things. Revisions
only grow between installs, so a row that was looked at and still has its revision is the
same row (`Seen`), and a write sealed on it continues it (`Continues`, `WriteFits`), which is
what a transaction's comparison of revisions is worth. And a candidate that has a print is the
database that was validated (`RestoreSound`). The proofs use a form of it (`VaultCore`) in which
the reads of history and exports, with their nested sets, are replaced by what they amount to
row by row (`Clean`, `KeptRow`): `CleanIsValid` and `CleanValidates` show that a backup's
validation accepts exactly those of these databases that are within the two limits no write
enforces, `CleanReads` that a session reads all of them. `CommittedClean`, the
heart of the proof, shows for each kind of write that it leaves a clean database clean:
references and attachments change together (`CommittedItems`, `CommittedFiles`), and what is
archived is younger than all rows and older than the item. That pruning keeps both limits
(`PrunedShort`), keeps the row just archived (`NewestKept`) and drops one row at most, which
has as many younger ones as a limit allows (`DropsOldest`), are facts about ranks in finite sets
(`TopFew`, `OnlyTheLowest`). All of it is said while no unfenced step has been taken (`~stray`);
`NoLostUpdate` alone needs only that the write was prepared since the last install.
`BudgetOvershoot` is strengthened by the imports that were measured and have yet to commit:
stored attachments and these together pass the limit by at most the number of sessions less one
(`BudgetHeld`).

Every safety property that a passing run checks is proved. Only model-checked is liveness
(`RequestsEnd`, `CreatedReachesAll`, `TransactionsEnd`), which is out of the prover's reach, as
are statements about ENABLED, induction over data and modules with RECURSIVE operators (the
modules here declare none). The assumptions that `MCEmergencyCard` and `MCNativeVault` check
about sharing, recovery shares and pruning are evaluated for their instances only; the one
about pruning has its general form in `PrunedShort`, `NewestKept` and `DropsOldest`.

## 5 Where code and documents disagree

Two runs check a statement the repository makes and find the code to do otherwise; their
counterexamples are short and can be replayed with a debugger.

- **sync_alone, `ConflictIsConcurrent`.** The flush acknowledges an upload
  (`packages/contracts/src/sync-queue.ts:111`) without advancing the item's baseline, which
  is left to a later pull. An item that is edited again before that pull is found to differ
  from its baseline and from the server, and is recorded as a conflict with its own
  ancestor, on an account with one device. Harvest then leaves the item alone.
  `sync-vault-item.ts:217` calls the baseline the evidence that distinguishes a
  fast-forward from concurrent edits.
- **sync_full, `CreatedIsUploaded`.** When more items wait than the outbox holds, harvest
  throws (`sync-harvest.ts:137`), the cycle ends before its flush, and so does every later
  one. `sync-runtime.ts:43` says that each cycle reconstructs missing outbox entries and
  then flushes.

The following were met while modelling. The models have this behaviour, or a property says
where it excludes it; no run is spent on it.

*Server.* A PUT or an enrollment that was authenticated before its device was revoked still
commits (`late` in `DeviceRegistry`). A PUT between `get_object`'s read of a row and of its
blob removes the blob. When a commit whose acknowledgement was lost is reconciled as done,
the replaced body is not retired (`apps/api/src/sync.rs:464`). `create_device` and
`create_account` refuse a device id for which any enrollment exists, cancelled and expired
ones included. Two devices that store the first topology of a household at once end in a
unique violation, answered as an internal error. A household whose listed managers are all
revoked can never change its topology again. The server does not ask that key generations
grow or rotate when somebody is removed, nor that the objects named as key envelopes exist.
Prepares of different accounts, of which each names the next one's request id as its own
device id, wait for each other until PostgreSQL aborts one (`apps/api/src/store.rs:227`).

*Sync engine.* The head of the outbox, once refused with 412, blocks every later entry. A
device that stops between applying a remote item and committing its baseline finds, if the
item has changed again, a conflict in which it has no part. The outbox is ordered by the
wall clock. Harvest reads the tombstone bit after the item.

*Browser vault.* A restore checks attachments with the list of active items
(`session.ts:168`), while an export writes all chunks: a backup made while an item with a
non-empty attachment is in the trash is refused as having orphaned ciphertext
(`TrashHoldsChunks` excludes it from `BackupRestores`). An item that another device changed
comes without manifests and chunks, so that it can neither be purged nor backed up, or
leaves chunks behind that nothing names (`outside`). `lock` during a resume or a restore
is undone when that call finishes. A tab that has not seen another tab's new passphrase
still opens with the old one; its saves fail. So does a resume whose snapshot was read just
before another tab rotated the credential or changed the passphrase: `session.ts:591` awaits
the snapshot before the unlock, and the comment above it (583-587) says that reading it again
prevents the replay. A restored backup revives the resume
credential that was bound to it. A poisoned tab has to be reloaded.

*Native vault.* `insert_item` does not check the number of items that a backup's validation
allows (`vault-storage/src/lib.rs:336` and `620`), so that one item too many makes every
later backup fail; tombstones count among the attachments it allows, and the storage of
attachments is measured before the transaction that fills it (`vault-core/src/lib.rs:660`
and `1541`). `PersistedStateValid` names these limits as the two reasons for which a backup
of an otherwise fenced database is refused. A session that outlives the install of another
vault can still write rows, wraps and recovery kits under its own root key; an import
planned, or a write prepared, before a restore to an equal revision passes the comparison
after it; and the file that is installed is fingerprinted after it was validated (`stray`
marks all three). A backup is written before it is validated and stays where it is when it
is refused.

*Cards and releases.* `set_emergency_card` of a stale screen retires a device that another
window has just added: there is no expected revision. Retiring remembers signing keys but
not encryption keys. Restoring a backup, or applying a card from another device, is not
compared with the card it replaces, so that retirements are forgotten. A pairing whose
write is stale has used its challenge up. A request whose release has expired is live again
for a caller whose clock steps back.

## 6 What is not modelled

- *Object store*: HTTP and header parsing, blob signing, `get_object` and
  `get_object_metadata` (they only read). *Registry*: `list_devices`, rate limits.
  *Topology*: `get_household_topology`, deletion of objects that envelopes name.
- *Sync engine*: the tombstone bit, household scopes, the bootstrap objects of an account,
  the outbox's limit in bytes, the card's fixed id and a clock that steps back.
  Versions with these would multiply a state space of
  several hundred thousand states without adding a race between other steps.
- *Account bootstrap and device enrollment client*: what a client stores between its calls
  of the registry. A crash between activation and the saving of credentials
  (`sync-device-enrollment.ts:313`) is therefore not covered.
- *Browser extension*: its background page runs one `BrowserVault` tab; its popup and content
  scripts are user interface. *Web application*: user interface over the same session.
- *Native vault*: the password generator, file modes and pragmas, functions that only tests
  call. *Browser vault*: passphrases; attachments of more than one chunk, whose chunks are
  written in the same transaction.
- *Cryptography*: primitives, encodings and formats. Keys and envelopes are symbolic, and
  what they do not open for is an assumption about the primitives.
- *vault-models* besides policies, cards and validation: item types, reminders, text limits.
  *vault-platform*, scripts, product documents: no state that outlives a call.
- *Client transport*: parsing, compatibility checks and credentials; lost and late answers
  are in `VaultSync` and `ObjectStore`.

## 7 What could come next

The enrollment client with its crashes, over `DeviceRegistry`; tombstones in `VaultSync`; and
the feed as a device sees it whose access to a scope is granted late. Of the proofs, a
refinement would say more than invariants where a whole component is meant to look atomic:
the devices of `VaultSync` as replicas of one line of versions with recorded conflicts, and a
fenced `NativeVault` as a map of items with compare-and-set.
