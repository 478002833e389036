-------------------------- MODULE BrowserVaultProofs --------------------------
(***************************************************************************)
(* Proofs about BrowserVault, for any number of tabs, items and draws: what *)
(* a tab has in memory is what the database of its version holds, so a save *)
(* that commits is one operation on what was stored, and a tab is resumed   *)
(* only with a credential for the snapshot it read, or cannot save; and what *)
(* is stored is sealed under one root key, has its attachments whole, and   *)
(* can be restored from a backup.  The first invariant, MemoryInv, says     *)
(* what tabs and database have in common; the second, FilesInv, which needs *)
(* the first, what a job will leave of the attachments.                     *)
(***************************************************************************)
EXTENDS BrowserVault, FiniteSetTheorems, TLAPS

(* A key is held only of a vault that has a root wrap, and no vault without *)
(* one is stored.                                                           *)
Rooted(v) == v.key # None => v.store.root # None
Stored(snapshot) == snapshot # None => snapshot.root # None

(* What the steps of a job rely on.                                         *)
JobSound(o, d) ==
  /\ o.job.at = "saving" => /\ o.job.tx.snapshot # None
                            /\ OneOperation(o.job.before, o.job.tx.snapshot)
  /\ o.job.at = "replacing" => /\ o.job.tx.expected = o.version
                               /\ o.job.vault.store = StoreOf(o.job.tx.snapshot)
                               /\ o.job.tx.snapshot # None => o.vault.store.root = None
  /\ o.job.at \in {"saving", "replacing"} => Stored(o.job.tx.snapshot)
  /\ o.job.at \in {"saved", "replaced"} => o.job.tx.expected < d.version
  /\ o.job.at \in {"replacing", "replaced"} => Rooted(o.job.vault)
  /\ o.job.at = "importing" =>
       LET old == o.vault.store.items[o.job.item] IN old # None /\ o.job.row.revision > old.revision
  /\ o.job.at = "reading" => o.job.purge \/ o.job.left # {} \/ Present(o.job.got) # {}
  /\ o.job.at = "latest" =>
       /\ o.job.version <= d.version /\ Stored(o.job.snapshot)
       /\ o.job.version = o.version => o.vault.store = StoreOf(o.job.snapshot)

TabSound(o, d) ==
  /\ o.version <= d.version
  /\ IF o.poisoned THEN o.job = Idle /\ o.vault.key = None ELSE InMemory(o, d)
  /\ Rooted(o.vault)
  /\ JobSound(o, d)

(* The inductive invariant.                                                 *)
MemoryInv ==
  /\ TypeOK
  /\ \A t \in Tabs : tab[t] # None => TabSound(tab[t], db)
  /\ Stored(db.snapshot)
  /\ backup # None => Stored(backup.snapshot)

USE WasmVaultAssumption, BrowserVaultAssumption, NoneIsNoRecord, NoneIsNoTab

-----------------------------------------------------------------------------
(* What the operations of a vault leave.                                    *)

LEMMA SnapshotLoads ==
  ASSUME NEW snapshot \in Snapshot, Stored(snapshot)
  PROVE  /\ FromSnapshot(snapshot) \in Vault /\ FromSnapshot(snapshot).key = None
         /\ FromSnapshot(snapshot).store = StoreOf(snapshot)
         /\ Rooted(FromSnapshot(snapshot))
         /\ snapshot # None => StoreOf(snapshot) = snapshot
         /\ snapshot = None => StoreOf(snapshot).root = None
<1>1. NewStore \in MemStore
  BY DEF NewStore, MemStore
<1>. QED  BY <1>1 DEF FromSnapshot, Vault, StoreOf, Rooted, Snapshot, NewStore

(* A record is written where there was none, or an earlier one.             *)
LEMMA WriteSound ==
  ASSUME NEW v \in Vault, NEW id \in Ids, NEW row \in Row,
         v.store.items[id] # None => row.revision > v.store.items[id].revision
  PROVE  LET w == Write(v, id, row) IN
         /\ w \in Vault /\ w.key = v.key /\ w.store.root = v.store.root
         /\ w.store.items[id] = row
         /\ OneOperation(v.store, w.store)
<1> DEFINE w == Write(v, id, row)
<1>1. /\ w \in Vault /\ w.key = v.key /\ w.store.root = v.store.root /\ w.store.kit = v.store.kit
      /\ w.store.items = [v.store.items EXCEPT ![id] = row]
      /\ v.store.items \in [Ids -> Row \cup {None}]
  BY DEF Write, Vault, MemStore
<1>2. /\ w.store.items[id] = row /\ row # None
      /\ \A x \in Ids \ {id} : w.store.items[x] = v.store.items[x]
  BY <1>1
<1> HIDE DEF w
<1>3. OneOperation(v.store, w.store)
  BY <1>1, <1>2 DEF OneOperation, ChangesOnly
<1>. QED  BY <1>1, <1>2, <1>3 DEF w

LEMMA RevisedSound ==
  ASSUME NEW v \in Vault, NEW id \in Ids, v.store.items[id] # None, v.key # None,
         NEW at \in {"active", "trashed", "tombstone"}, NEW files \in SUBSET Nonces, NEW n \in Nonces
  PROVE  /\ Revised(v, id, at, files, n) \in Row
         /\ Revised(v, id, at, files, n).revision > v.store.items[id].revision
<1>1. v.store.items[id] \in Row /\ v.key \in Nonces
  BY DEF Vault, MemStore
<1>2. v.store.items[id].revision \in Nat
  BY <1>1 DEF Row
<1>3. PICK k \in Nat : k = v.store.items[id].revision
  BY <1>2
<1>4. PICK key \in Nonces : key = v.key
  BY <1>1
<1>5. Revised(v, id, at, files, n) =
        [key |-> key, revision |-> k + 1, at |-> at, files |-> files, nonce |-> n]
  BY <1>3, <1>4 DEF Revised, EncryptItemState
<1>6. [key |-> key, revision |-> k + 1, at |-> at, files |-> files, nonce |-> n] \in Row
  BY DEF Row
<1>. QED  BY <1>3, <1>5, <1>6

(* Making, rewrapping or receiving a root key.                              *)
LEMMA RootSound ==
  ASSUME NEW v \in Vault, NEW key \in Nonces, NEW n \in Nonces, NEW imports \in SUBSET Nonces,
         v.store.root = None \/ v.store.root.key = key
  PROVE  LET w == [v EXCEPT !.store.root = WrapRootKey(key, n), !.imports = imports, !.key = key] IN
         /\ w \in Vault /\ w.store.root # None
         /\ OneOperation(v.store, w.store)
<1> DEFINE w == [v EXCEPT !.store.root = WrapRootKey(key, n), !.imports = imports, !.key = key]
<1>1. WrapRootKey(key, n) \in Wrap /\ WrapRootKey(key, n).key = key
  BY DEF WrapRootKey, Wrap
<1>2. /\ w \in Vault /\ w.store.root = WrapRootKey(key, n)
      /\ w.store.kit = v.store.kit /\ w.store.items = v.store.items
  BY <1>1 DEF Vault, MemStore
<1> HIDE DEF w
<1>. QED  BY <1>1, <1>2 DEF OneOperation, ChangesOnly, w

LEMMA KitSound ==
  ASSUME NEW v \in Vault, v.key # None, Rooted(v), NEW n \in Nonces
  PROVE  LET w == InstallRecoveryKit(v, n) IN
         /\ w \in Vault /\ w.store.root # None
         /\ OneOperation(v.store, w.store)
<1> DEFINE w == InstallRecoveryKit(v, n)
<1>1. /\ w \in Vault /\ w.store.root = v.store.root /\ w.store.items = v.store.items
  BY DEF InstallRecoveryKit, WrapWithRecoverySecret, Wrap, Vault, MemStore
<1> HIDE DEF w
<1>. QED  BY <1>1 DEF OneOperation, ChangesOnly, w, Rooted

-----------------------------------------------------------------------------
(* A step of one tab.                                                       *)

With(o, v, job) == [o EXCEPT !.vault = v, !.job = job]

(* The jobs in which a tab's memory is not ahead of what it loaded.          *)
Steady(job) == job.at \notin {"saving", "saved", "replaced"}

Moves(t) == \E o \in OpenTab : TabSound(o, db) /\ tab' = [tab EXCEPT ![t] = o]

LEMMA WithFields ==
  ASSUME NEW o \in OpenTab, NEW v \in Vault, NEW job \in Job
  PROVE  /\ With(o, v, job) \in OpenTab
         /\ With(o, v, job).vault = v /\ With(o, v, job).job = job
         /\ With(o, v, job).version = o.version /\ With(o, v, job).poisoned = o.poisoned
BY DEF With, OpenTab

LEMMA TabMoves ==
  ASSUME MemoryInv, NEW t \in Tabs, Moves(t) \/ tab' = [tab EXCEPT ![t] = None],
         db' = db, credentials' \subseteq Credential,
         backup' \in Backup \cup {None}, backup' # None => Stored(backup'.snapshot),
         account' \in RemoteWrap \cup {None}, draws' \in Nat, outside' \in BOOLEAN
  PROVE  MemoryInv'
<1>1. tab' \in [Tabs -> OpenTab \cup {None}]
  BY DEF Moves, MemoryInv, TypeOK
<1>2. ASSUME NEW u \in Tabs, tab'[u] # None PROVE TabSound(tab'[u], db')
  <2>1. TabSound(tab'[u], db)
    BY <1>2 DEF Moves, MemoryInv, TypeOK
  <2>. QED  BY <2>1
<1>. QED  BY <1>1, <1>2 DEF MemoryInv, TypeOK, Stored

(* The tab keeps its store.                                                 *)
LEMMA StoreKept ==
  ASSUME NEW o \in OpenTab, TabSound(o, db), NEW v \in Vault, NEW job \in Job,
         v.store = o.vault.store, Rooted(v), o.poisoned => job = Idle /\ v.key = None,
         \/ job = o.job
         \/ /\ Steady(o.job) /\ job.at \in {"idle", "resuming", "reading", "importing"}
            /\ job.at = "importing" =>
                 LET old == v.store.items[job.item] IN old # None /\ job.row.revision > old.revision
            /\ job.at = "reading" => job.purge \/ job.left # {} \/ Present(job.got) # {}
  PROVE  With(o, v, job) \in OpenTab /\ TabSound(With(o, v, job), db)
<1> DEFINE n == With(o, v, job)
<1>1. n \in OpenTab /\ n.vault = v /\ n.job = job /\ n.version = o.version /\ n.poisoned = o.poisoned
  BY WithFields
<1> HIDE DEF n
<1>2. ~n.poisoned => InMemory(n, db)
  <2>1. CASE job = o.job
    BY <1>1, <2>1 DEF TabSound, InMemory
  <2>2. CASE job # o.job
    BY <1>1, <2>2 DEF TabSound, InMemory, Steady
  <2>. QED  BY <2>1, <2>2
<1>3. JobSound(n, db)
  <2>1. CASE job = o.job
    BY <1>1, <2>1 DEF TabSound, JobSound
  <2>2. CASE job # o.job
    BY <1>1, <2>2 DEF TabSound, JobSound
  <2>. QED  BY <2>1, <2>2
<1>4. n.version <= db.version /\ Rooted(n.vault) /\ (n.poisoned => n.job = Idle /\ n.vault.key = None)
  BY <1>1 DEF TabSound
<1>. QED  BY <1>1, <1>2, <1>3, <1>4 DEF TabSound, n

(* The tab begins to save one operation on its store.                       *)
LEMMA SaveBegins ==
  ASSUME MemoryInv, NEW t \in Tabs, Healthy(t), Steady(tab[t].job),
         NEW v \in Vault, v.store.root # None, OneOperation(V(t).store, v.store),
         NEW tx \in Tx, tx.expected = tab[t].version, tx.snapshot = v.store,
         NEW c \in Credential \cup {None}, Saves(t, v, tx, c)
  PROVE  Moves(t)
<1> DEFINE o == tab[t]
           job == Saving(tx, o.vault.store, c)
           n == With(o, v, job)
<1>1. o \in OpenTab /\ ~o.poisoned /\ TabSound(o, db)
  BY DEF Healthy, MemoryInv, TypeOK
<1>2. job \in Job
  BY <1>1 DEF Saving, Job, OpenTab, Vault
<1>3. /\ job.at = "saving" /\ job.tx = tx /\ job.before = o.vault.store
  BY DEF Saving
<1>4. tab' = [tab EXCEPT ![t] = n]
  BY <1>1 DEF Saves, Becomes, With, V, MemoryInv, TypeOK
<1>5. tx.snapshot # None
  BY DEF Vault
<1> HIDE DEF job
<1>6. n \in OpenTab /\ n.vault = v /\ n.job = job /\ n.version = o.version /\ n.poisoned = o.poisoned
  BY <1>1, <1>2, WithFields
<1> HIDE DEF n
<1>7. InMemory(n, db)
  BY <1>1, <1>3, <1>6 DEF TabSound, InMemory, Steady
<1>8. JobSound(n, db)
  BY <1>3, <1>5, <1>6 DEF JobSound, Stored, V
<1>9. TabSound(n, db)
  BY <1>1, <1>6, <1>7, <1>8 DEF TabSound, Rooted
<1>. QED  BY <1>4, <1>6, <1>9 DEF Moves

-----------------------------------------------------------------------------
(* Transactions.                                                            *)

Tells(tx, e, snapshot) == tx \in Tx /\ tx.expected = e /\ tx.snapshot = snapshot

LEMMA TransactionTyped ==
  ASSUME NEW e \in Nat, NEW snapshot \in Snapshot, NEW wipe \in BOOLEAN, NEW puts \in Manifests,
         NEW adds \in SUBSET (Nonces \X Nat), NEW drops \in SUBSET (Nonces \X Nat)
  PROVE  Tells(Transaction(e, snapshot, wipe, puts, adds, drops), e, snapshot)
BY DEF Transaction, Tx, Tells

LEMMA ChunksTyped ==
  ASSUME NEW f \in Nonces, NEW count \in Nat
  PROVE  ChunksOf(f, count) \subseteq Nonces \X Nat
BY DEF ChunksOf

LEMMA SavesTyped ==
  ASSUME NEW e \in Nat, NEW store \in MemStore
  PROVE  /\ Tells(SaveSnapshot(e, store), e, store)
         /\ \A f \in Nonces, m \in Manifest : Tells(SaveAttachmentImport(e, store, f, m), e, store)
         /\ \A manifests \in Manifests : Tells(SaveItemPurge(e, store, manifests), e, store)
<1>1. NoManifests \in Manifests /\ store \in Snapshot
  BY DEF NoManifests, Manifests, Snapshot
<1>2. Tells(SaveSnapshot(e, store), e, store)
  BY <1>1, TransactionTyped DEF SaveSnapshot
<1>3. ASSUME NEW f \in Nonces, NEW m \in Manifest
      PROVE  Tells(SaveAttachmentImport(e, store, f, m), e, store)
  <2>1. [NoManifests EXCEPT ![f] = m] \in Manifests
    BY <1>1 DEF Manifests
  <2>2. ChunksOf(f, m.chunks) \subseteq Nonces \X Nat
    BY ChunksTyped DEF Manifest
  <2>. QED  BY <1>1, <2>1, <2>2, TransactionTyped DEF SaveAttachmentImport
<1>4. ASSUME NEW manifests \in Manifests
      PROVE  Tells(SaveItemPurge(e, store, manifests), e, store)
  <2> DEFINE puts == [f \in Nonces |-> IF manifests[f] = None THEN None ELSE Tombstone(manifests[f])]
             drops == UNION {ChunksOf(f, manifests[f].chunks) : f \in Present(manifests)}
  <2>1. \A m \in Manifest : Tombstone(m) \in Manifest
    BY DEF Tombstone, SealManifest, Manifest
  <2>2. puts \in Manifests
    BY <2>1 DEF Manifests
  <2>3. \A f \in Present(manifests) : ChunksOf(f, manifests[f].chunks) \subseteq Nonces \X Nat
    BY ChunksTyped DEF Present, Manifests, Manifest
  <2>4. drops \in SUBSET (Nonces \X Nat)
    BY <2>3
  <2> HIDE DEF puts, drops
  <2>5. SaveItemPurge(e, store, manifests) = Transaction(e, store, FALSE, puts, {}, drops)
    BY DEF SaveItemPurge, puts, drops
  <2>6. Tells(Transaction(e, store, FALSE, puts, {}, drops), e, store)
    BY <1>1, <2>2, <2>4, TransactionTyped
  <2>. QED  BY <2>5, <2>6
<1>. QED  BY <1>2, <1>3, <1>4

-----------------------------------------------------------------------------
(* Mutations.                                                               *)

LEMMA FreeTab ==
  ASSUME MemoryInv, NEW t \in Tabs, tab[t] # None
  PROVE  /\ tab[t] \in OpenTab /\ TabSound(tab[t], db)
         /\ V(t) \in Vault /\ V(t).store \in MemStore /\ Rooted(V(t)) /\ tab[t].version \in Nat
         /\ \A i \in Ids : V(t).store.items[i] \in Row \cup {None}
         /\ Free(t) => Healthy(t) /\ Steady(tab[t].job)
BY DEF MemoryInv, TypeOK, OpenTab, V, Vault, MemStore, TabSound, Free, Healthy, Steady, Idle

LEMMA PersistMoves ==
  ASSUME MemoryInv, NEW t \in Tabs, Free(t),
         NEW v \in Vault, v.store.root # None, OneOperation(V(t).store, v.store),
         NEW c \in Credential \cup {None}, Saves(t, v, SaveSnapshot(tab[t].version, v.store), c)
  PROVE  Moves(t)
<1>1. tab[t] # None
  BY DEF Free, Healthy
<1>2. v.store \in MemStore
  BY DEF Vault
<1>. QED  BY <1>1, <1>2, FreeTab, SavesTyped, SaveBegins DEF Tells

LEMMA Drawn ==
  ASSUME MemoryInv, Draw
  PROVE  draws' \in Nonces /\ draws' \in Nat
BY DEF Draw, MemoryInv, TypeOK

(* The calls about root key and kit.                                        *)
LEMMA KeyCallsMove ==
  ASSUME MemoryInv, NEW t \in Tabs,
         \/ SessionCreate(t) \/ InitializeFromRemote(t)
         \/ SessionChangePassphrase(t) \/ SessionInstallRecoveryKit(t)
  PROVE  Moves(t)
<1>1. Free(t) /\ tab[t] # None /\ draws' \in Nonces
  BY Drawn DEF SessionCreate, InitializeFromRemote, SessionChangePassphrase,
               SessionInstallRecoveryKit, Free, Healthy
<1>2. V(t) \in Vault /\ Rooted(V(t)) /\ V(t).imports \in SUBSET Nonces
  BY <1>1, FreeTab DEF Vault
<1>3. ASSUME NEW v \in Vault, v.store.root # None, OneOperation(V(t).store, v.store),
             MutateAndPersist(t, v)
      PROVE  Moves(t)
  BY <1>1, <1>3, PersistMoves DEF MutateAndPersist
<1>4. ASSUME NEW key \in Nonces, V(t).store.root = None, ~IsInitialized(V(t)),
             MutateAndPersist(t, InitializeRootWrap(V(t), key, draws'))
      PROVE  Moves(t)
  <2> DEFINE n == draws'
             w == [V(t) EXCEPT !.store.root = WrapRootKey(key, n),
                               !.imports = V(t).imports, !.key = key]
  <2>1. w \in Vault /\ w.store.root # None /\ OneOperation(V(t).store, w.store)
    BY <1>1, <1>2, <1>4, RootSound
  <2>2. InitializeRootWrap(V(t), key, draws') = w
    BY <1>2 DEF InitializeRootWrap, Vault
  <2>. QED  BY <1>3, <1>4, <2>1, <2>2
<1>5. CASE SessionCreate(t)
  BY <1>1, <1>4, <1>5 DEF SessionCreate, Create, IsInitialized
<1>6. CASE InitializeFromRemote(t)
  <2>1. account.key \in Nonces
    BY <1>6 DEF InitializeFromRemote, MemoryInv, TypeOK, RemoteWrap
  <2>. QED  BY <1>4, <1>6, <2>1
       DEF InitializeFromRemote, InitializeFromRemoteWrap, UnwrapForRemoteAccount, IsInitialized
<1>7. CASE SessionChangePassphrase(t)
  <2> DEFINE key == UnwrapRootKey(V(t).store.root)
             n == draws'
             w == [V(t) EXCEPT !.store.root = WrapRootKey(key, n), !.imports = {}, !.key = key]
  <2>1. V(t).store.root = None \/ V(t).store.root.key = key
    BY DEF UnwrapRootKey
  <2>2. key \in Nonces
    BY <1>2, <1>7 DEF SessionChangePassphrase, Reauthenticates, IsInitialized, UnwrapRootKey,
                      Vault, MemStore, Wrap
  <2>3. w \in Vault /\ w.store.root # None /\ OneOperation(V(t).store, w.store)
    BY <1>1, <1>2, <2>1, <2>2, RootSound
  <2>. QED  BY <1>3, <1>7, <2>3 DEF SessionChangePassphrase, ChangePassphrase
<1>8. CASE SessionInstallRecoveryKit(t)
  <2>1. V(t).key # None
    BY <1>8 DEF SessionInstallRecoveryKit, IsUnlocked
  <2>. QED  BY <1>1, <1>2, <1>3, <1>8, <2>1, KitSound DEF SessionInstallRecoveryKit
<1>. QED  BY <1>5, <1>6, <1>7, <1>8
     DEF SessionCreate, InitializeFromRemote, SessionChangePassphrase, SessionInstallRecoveryKit

(* The calls about one record.                                              *)
LEMMA RecordMoves ==
  ASSUME MemoryInv, NEW t \in Tabs, Free(t), V(t).key # None,
         NEW id \in Ids, NEW row \in Row,
         V(t).store.items[id] # None => row.revision > V(t).store.items[id].revision,
         MutateAndPersist(t, Write(V(t), id, row))
  PROVE  Moves(t)
<1> DEFINE w == Write(V(t), id, row)
<1>1. V(t) \in Vault /\ Rooted(V(t))
  BY FreeTab DEF Free, Healthy
<1>2. w \in Vault /\ w.store.root # None /\ OneOperation(V(t).store, w.store)
  BY <1>1, WriteSound DEF Rooted
<1> HIDE DEF w
<1>. QED  BY <1>2, PersistMoves DEF MutateAndPersist, w

LEMMA RevisedMoves ==
  ASSUME MemoryInv, NEW t \in Tabs, Free(t), NEW i \in Items, Draw,
         NEW from, Is(V(t), i, from), NEW at \in {"active", "trashed", "tombstone"},
         MutateAndPersist(t, Write(V(t), i, Revised(V(t), i, at, V(t).store.items[i].files, draws')))
  PROVE  Moves(t)
<1> DEFINE files == V(t).store.items[i].files
<1>1. V(t) \in Vault /\ V(t).key # None /\ V(t).store.items[i] \in Row /\ V(t).store.items[i] # None
  BY FreeTab DEF Free, Healthy, Is, IsUnlocked, Ids
<1>2. files \in SUBSET Nonces
  BY <1>1 DEF Row
<1> HIDE DEF files
<1>3. i \in Ids /\ draws' \in Nonces
  BY Drawn DEF Ids
<1>4. /\ Revised(V(t), i, at, files, draws') \in Row
      /\ Revised(V(t), i, at, files, draws').revision > V(t).store.items[i].revision
  BY <1>1, <1>2, <1>3, RevisedSound
<1>. QED  BY <1>1, <1>3, <1>4, RecordMoves DEF files

LEMMA ItemCallsMove ==
  ASSUME MemoryInv, NEW t \in Tabs, NEW i \in Items,
         \/ SessionPutItem(t, i) \/ SessionUpdateItem(t, i)
         \/ SessionTrashItem(t, i) \/ SessionRestoreItem(t, i)
         \/ \E revision \in 0..MaxRevision, at \in {"active", "trashed", "tombstone"} :
              Healthy(t) /\ \E files \in {{}, FilesOf(t, i), {draws + 1}} :
                ApplyRemoteEncryptedItem(t, i, revision, at, files)
  PROVE  Moves(t)
<1>1. Free(t) /\ tab[t] # None /\ draws' \in Nonces /\ Draw /\ i \in Ids
  BY Drawn DEF SessionPutItem, SessionUpdateItem, SessionTrashItem, SessionRestoreItem,
               ApplyRemoteEncryptedItem, Free, Healthy, Ids
<1>2. V(t) \in Vault /\ V(t).store.items[i] \in Row \cup {None}
  BY <1>1, FreeTab
<1>3. CASE SessionPutItem(t, i)
  <2> DEFINE row == EncryptItemState(V(t).key, 0, "active", {}, draws')
  <2>1. V(t).key # None /\ V(t).store.items[i] = None
    BY <1>3 DEF SessionPutItem, CanPut, CanInsert, IsUnlocked
  <2>2. V(t).key \in Nonces
    BY <1>2, <2>1 DEF Vault
  <2>3. row \in Row
    BY <1>1, <2>2 DEF EncryptItemState, Row
  <2> HIDE DEF row
  <2>4. MutateAndPersist(t, Write(V(t), i, row))
    BY <1>3 DEF SessionPutItem, PutItem, row
  <2>. QED  BY <1>1, <2>1, <2>3, <2>4, RecordMoves
<1>4. CASE SessionUpdateItem(t, i)
  BY <1>1, <1>4, RevisedMoves DEF SessionUpdateItem, UpdateItem
<1>5. CASE SessionTrashItem(t, i)
  BY <1>1, <1>5, RevisedMoves DEF SessionTrashItem, TrashItem
<1>6. CASE SessionRestoreItem(t, i)
  BY <1>1, <1>6, RevisedMoves DEF SessionRestoreItem, RestoreItem
<1>7. ASSUME NEW revision \in 0..MaxRevision, NEW at \in {"active", "trashed", "tombstone"},
             NEW files \in {{}, FilesOf(t, i), {draws + 1}},
             ApplyRemoteEncryptedItem(t, i, revision, at, files)
      PROVE  Moves(t)
  <2> DEFINE held == IF at = "tombstone" THEN {} ELSE files
             row == EncryptItemState(V(t).key, revision, at, held, draws')
  <2>1. CanApply(V(t), i, row) /\ MutateAndPersist(t, Write(V(t), i, row))
    BY <1>7 DEF ApplyRemoteEncryptedItem, ApplyEncryptedItem
  <2>2. FilesOf(t, i) \in SUBSET Nonces
    BY <1>2 DEF FilesOf, Row
  <2>3. draws' = draws + 1
    BY <1>1 DEF Draw
  <2>4. held \in SUBSET Nonces
    BY <1>1, <2>2, <2>3
  <2> HIDE DEF held
  <2>5. V(t).key # None /\ (V(t).store.items[i] # None => row.revision > V(t).store.items[i].revision)
    BY <2>1 DEF CanApply, CanInsert, CanUpdate, IsUnlocked
  <2>6. V(t).key \in Nonces /\ revision \in Nat
    BY <1>2, <2>5 DEF Vault
  <2>7. row \in Row
    BY <1>1, <2>4, <2>6 DEF EncryptItemState, Row
  <2> HIDE DEF row
  <2>. QED  BY <1>1, <2>1, <2>5, <2>7, RecordMoves
<1>. QED  BY <1>3, <1>4, <1>5, <1>6, <1>7

(* The marker's next ciphertext, and the credential that is bound to it.     *)
LEMMA ResumeCallMoves ==
  ASSUME MemoryInv, NEW t \in Tabs, SessionCreateResume(t)
  PROVE  Moves(t)
<1>1. /\ Free(t) /\ draws' \in Nonces /\ Marker \in Ids
      /\ V(t).key # None /\ V(t).store.root # None
  BY Drawn DEF SessionCreateResume, CanCreateSessionResume, IsUnlocked, IsInitialized, Ids
<1>2. V(t) \in Vault /\ V(t).key \in Nonces /\ V(t).store.root \in Wrap
  BY <1>1, FreeTab DEF Free, Healthy, Vault, MemStore
<1> DEFINE row == NextMarker(V(t), draws')
           w == Write(V(t), Marker, row)
<1>3. row \in Row /\ (V(t).store.items[Marker] # None => row.revision > V(t).store.items[Marker].revision)
  <2>1. CASE V(t).store.items[Marker] = None
    BY <1>1, <1>2, <2>1 DEF NextMarker, EncryptItemState, Row
  <2>2. CASE V(t).store.items[Marker] # None
    BY <1>1, <1>2, <2>2, RevisedSound DEF NextMarker
  <2>. QED  BY <2>1, <2>2
<1> HIDE DEF row
<1>4. /\ w \in Vault /\ w.key = V(t).key /\ w.store.root = V(t).store.root
      /\ w.store.items[Marker] = row /\ OneOperation(V(t).store, w.store)
  BY <1>1, <1>2, <1>3, WriteSound
<1> HIDE DEF w
<1>5. SessionResumeCredential(w) \in Credential
  <2>1. SessionResumeCredential(w) =
          [key |-> V(t).key, binding |-> [root |-> V(t).store.root, marker |-> row]]
    BY <1>4 DEF SessionResumeCredential, WrapWithSessionResume, Binding
  <2>. QED  BY <1>2, <1>3, <2>1 DEF Credential
<1>6. Saves(t, w, SaveSnapshot(tab[t].version, w.store), SessionResumeCredential(w))
  BY DEF SessionCreateResume, CreateSessionResume, w, row
<1>. QED  BY <1>1, <1>4, <1>5, <1>6, PersistMoves

-----------------------------------------------------------------------------
(* Attachments.                                                             *)

(* A step that leaves the store, and takes the tab to another job.           *)
LEMMA JobMoves ==
  ASSUME MemoryInv, NEW t \in Tabs, Healthy(t), Steady(tab[t].job),
         NEW v \in Vault, v.store = V(t).store, Rooted(v), NEW job \in Job,
         job.at \in {"idle", "resuming", "reading", "importing"},
         job.at = "importing" =>
           LET old == v.store.items[job.item] IN old # None /\ job.row.revision > old.revision,
         job.at = "reading" => job.purge \/ job.left # {} \/ Present(job.got) # {},
         Becomes(t, v, job)
  PROVE  Moves(t)
<1> DEFINE o == tab[t]
<1>1. o \in OpenTab /\ TabSound(o, db) /\ ~o.poisoned /\ v.store = o.vault.store
  BY FreeTab DEF Healthy, V
<1>2. With(o, v, job) \in OpenTab /\ TabSound(With(o, v, job), db)
  BY <1>1, StoreKept
<1>3. tab' = [tab EXCEPT ![t] = With(o, v, job)]
  BY DEF Becomes, With, MemoryInv, TypeOK
<1>. QED  BY <1>2, <1>3 DEF Moves

(* An import is written over the record that it was begun on.               *)
LEMMA ImportCommits ==
  ASSUME MemoryInv, NEW t \in Tabs, Healthy(t), Steady(tab[t].job), V(t).key # None,
         NEW job, job.item \in Items, job.file \in Nonces, job.row \in Row, job.manifest \in Manifest,
         job.row.revision > V(t).store.items[job.item].revision,
         CommitsImport(t, job)
  PROVE  Moves(t)
<1> DEFINE u == CancelAttachmentImport(V(t), job.file)
           w == Write(u, job.item, job.row)
           tx == SaveAttachmentImport(tab[t].version, w.store, job.file, job.manifest)
<1>1. V(t) \in Vault /\ Rooted(V(t)) /\ tab[t].version \in Nat
  BY FreeTab DEF Healthy
<1>2. u \in Vault /\ u.store = V(t).store /\ u.key = V(t).key
  BY <1>1 DEF CancelAttachmentImport, Vault
<1> HIDE DEF u
<1>3. w \in Vault /\ w.store.root # None /\ OneOperation(V(t).store, w.store)
  BY <1>1, <1>2, WriteSound DEF Rooted, Ids
<1>4. w.store \in MemStore
  BY <1>3 DEF Vault
<1>5. CommitsImport(t, job) = Saves(t, w, tx, None)
  BY DEF CommitsImport, CommitAttachmentImport, w, u
<1> HIDE DEF w
<1>6. Tells(tx, tab[t].version, w.store)
  BY <1>1, <1>4, SavesTyped
<1> HIDE DEF tx
<1>. QED  BY <1>3, <1>5, <1>6, SaveBegins DEF Tells

LEMMA AddMoves ==
  ASSUME MemoryInv, NEW t \in Tabs, NEW i \in Items, NEW chunks \in 0..MaxChunks,
         AddAttachment(t, i, chunks)
  PROVE  Moves(t)
<1> DEFINE f == draws'
           held == V(t).store.items[i].files \cup {f}
           row == Revised(V(t), i, "active", held, f)
           manifest == SealManifest(V(t).key, 1, "active", i, chunks)
           job == Importing(i, f, row, manifest, 0)
<1>1. /\ Free(t) /\ Healthy(t) /\ Steady(tab[t].job) /\ f \in Nonces /\ i \in Ids
      /\ V(t).key # None /\ V(t).store.items[i] # None /\ chunks \in Nat
  BY Drawn DEF AddAttachment, CanBeginImport, Is, IsUnlocked, Ids, Free, Steady, Idle
<1>2. V(t) \in Vault /\ Rooted(V(t)) /\ V(t).key \in Nonces /\ V(t).store.items[i] \in Row
  BY <1>1, FreeTab DEF Healthy, Vault
<1>3. held \in SUBSET Nonces
  BY <1>1, <1>2 DEF Row
<1>4. IF chunks = 0 THEN CommitsImport(t, job) ELSE Becomes(t, BeginAttachmentImport(V(t), f), job)
  BY DEF AddAttachment
<1> HIDE DEF held
<1>5. row \in Row /\ row.revision > V(t).store.items[i].revision
  BY <1>1, <1>2, <1>3, RevisedSound
<1>6. manifest \in Manifest
  BY <1>1, <1>2 DEF SealManifest, Manifest
<1> HIDE DEF row, manifest
<1>7. /\ job \in Job /\ job.at = "importing"
      /\ job.item = i /\ job.file = f /\ job.row = row /\ job.manifest = manifest
  BY <1>1, <1>5, <1>6 DEF Importing, Job
<1>8. /\ BeginAttachmentImport(V(t), f) \in Vault
      /\ BeginAttachmentImport(V(t), f).store = V(t).store
      /\ Rooted(BeginAttachmentImport(V(t), f))
  BY <1>1, <1>2 DEF BeginAttachmentImport, Vault, Rooted
<1> HIDE DEF job
<1>9. CASE chunks = 0
  BY <1>1, <1>4, <1>5, <1>6, <1>7, <1>9, ImportCommits
<1>10. CASE chunks # 0
  BY <1>1, <1>4, <1>5, <1>7, <1>8, <1>10, JobMoves
<1>. QED  BY <1>9, <1>10

(* An import stays one when its next chunk is encrypted.                    *)
LEMMA NextChunk ==
  ASSUME NEW j \in Job, j.at = "importing"
  PROVE  LET next == [j EXCEPT !.done = @ + 1]
         IN  /\ next \in Job /\ next.at = "importing" /\ next.file = j.file /\ next.item = j.item
             /\ next.row = j.row /\ next.manifest = j.manifest
<1> DEFINE J == [at : {"importing"}, item : Items, file : Nonces, row : Row, manifest : Manifest, done : Nat]
           next == [j EXCEPT !.done = @ + 1]
<1>1. j \in J
  BY DEF Job, Idle, Resuming
<1>2. next \in J
  BY <1>1
<1>3. /\ next.at = "importing" /\ next.file = j.file /\ next.item = j.item
      /\ next.row = j.row /\ next.manifest = j.manifest
  BY <1>1
<1>4. \A k \in J : k \in Job
  BY DEF Job
<1>. QED  BY <1>2, <1>3, <1>4

LEMMA ImportMoves ==
  ASSUME MemoryInv, NEW t \in Tabs, EncryptChunk(t) \/ CancelImport(t)
  PROVE  Moves(t)
<1> DEFINE o == tab[t]
<1>1. Healthy(t) /\ o.job.at = "importing" /\ Steady(o.job) /\ o \in OpenTab /\ TabSound(o, db)
  BY FreeTab DEF EncryptChunk, CancelImport, At, Steady, Healthy
<1>2. /\ o.job \in Job /\ o.job.file \in Nonces /\ o.job.item \in Items /\ o.job.row \in Row
      /\ o.job.manifest \in Manifest /\ o.job.done \in Nat
  BY <1>1 DEF OpenTab, Job, Idle, Resuming
<1>3. V(t) \in Vault /\ Rooted(V(t)) /\ V(t) = o.vault
  BY <1>1, FreeTab DEF Healthy, V
<1>4. V(t).store.items[o.job.item] # None /\ o.job.row.revision > V(t).store.items[o.job.item].revision
  BY <1>1, <1>3 DEF TabSound, JobSound
<1>5. CASE EncryptChunk(t)
  <2> DEFINE job == [o.job EXCEPT !.done = @ + 1]
  <2>1. /\ job \in Job /\ job.at = "importing" /\ job.file = o.job.file /\ job.item = o.job.item
        /\ job.row = o.job.row /\ job.manifest = o.job.manifest
    BY <1>1, <1>2, NextChunk
  <2>2. V(t).key # None
    BY <1>5 DEF EncryptChunk, CanEncryptChunk, IsUnlocked
  <2>3. CommitsImport(t, job) \/ Becomes(t, V(t), job)
    BY <1>5 DEF EncryptChunk
  <2> HIDE DEF job
  <2>4. CASE CommitsImport(t, job)
    BY <1>1, <1>2, <1>4, <2>1, <2>2, <2>4, ImportCommits
  <2>5. CASE Becomes(t, V(t), job)
    BY <1>1, <1>3, <1>4, <2>1, <2>5, JobMoves
  <2>. QED  BY <2>3, <2>4, <2>5
<1>6. CASE CancelImport(t)
  <2> DEFINE u == CancelAttachmentImport(V(t), o.job.file)
  <2>1. u \in Vault /\ u.store = V(t).store /\ Rooted(u)
    BY <1>3 DEF CancelAttachmentImport, Vault, Rooted
  <2>2. Becomes(t, u, Idle)
    BY <1>6 DEF CancelImport
  <2> HIDE DEF u
  <2>. QED  BY <1>1, <2>1, <2>2, JobMoves DEF Job, Idle
<1>. QED  BY <1>5, <1>6

LEMMA ReadingMoves ==
  ASSUME MemoryInv, NEW t \in Tabs,
         \/ \E i \in Items : StartPurge(t, i) \/ \E f \in Nonces : StartDeleteAttachment(t, i, f)
         \/ DeletionThrows(t) \/ \E f \in Nonces : ReadManifest(t, f)
  PROVE  Moves(t)
<1> DEFINE o == tab[t]
<1>1. Healthy(t) /\ Steady(o.job) /\ o \in OpenTab /\ TabSound(o, db) /\ o.job \in Job
  BY FreeTab DEF StartPurge, StartDeleteAttachment, ReadManifest, DeletionThrows,
                 Free, At, Steady, Healthy, Idle, OpenTab
<1>2. V(t) \in Vault /\ Rooted(V(t)) /\ V(t) = o.vault
      /\ \A i \in Items : V(t).store.items[i] \in Row \cup {None}
      /\ NoManifests \in Manifests
  BY <1>1, FreeTab DEF Healthy, V, NoManifests, Manifests, Ids
<1>3. ASSUME NEW job \in Job, job.at \in {"idle", "reading"}, Becomes(t, V(t), job),
             job.at = "reading" => job.purge \/ job.left # {} \/ Present(job.got) # {}
      PROVE  Moves(t)
  BY <1>1, <1>2, <1>3, JobMoves
<1>4. ASSUME NEW i \in Items, StartPurge(t, i) PROVE Moves(t)
  <2> DEFINE job == Reading(i, TRUE, TrashedAttachmentIds(V(t), i), NoManifests)
  <2>1. TrashedAttachmentIds(V(t), i) \in SUBSET Nonces
    BY <1>2, <1>4 DEF StartPurge, TrashedAttachmentIds, Is, Row
  <2>2. job \in Job /\ job.at = "reading" /\ job.purge
    BY <1>2, <2>1 DEF Reading, Job
  <2>. QED  BY <1>3, <1>4, <2>2 DEF StartPurge
<1>5. ASSUME NEW i \in Items, NEW f \in Nonces, StartDeleteAttachment(t, i, f) PROVE Moves(t)
  <2> DEFINE job == Reading(i, FALSE, {f}, NoManifests)
  <2>1. job \in Job /\ job.at = "reading" /\ job.left # {}
    BY <1>2 DEF Reading, Job
  <2>. QED  BY <1>3, <1>5, <2>1 DEF StartDeleteAttachment
<1>6. ASSUME NEW f \in Nonces, ReadManifest(t, f) PROVE Moves(t)
  <2> DEFINE job == [o.job EXCEPT !.left = @ \ {f}, !.got[f] = db.manifests[f]]
  <2>0. o.job.at = "reading"
    BY <1>6 DEF ReadManifest, At
  <2>1. o.job \in [at : {"reading"}, item : Items, purge : BOOLEAN, left : SUBSET Nonces, got : Manifests]
    BY <1>1, <2>0 DEF Job, Idle, Resuming
  <2>2. db.manifests[f] \in Manifest /\ db.manifests[f] # None
    BY <1>6 DEF ReadManifest, MemoryInv, TypeOK, Database, Manifests
  <2>3. [o.job.got EXCEPT ![f] = db.manifests[f]] \in Manifests
    BY <2>1, <2>2 DEF Manifests
  <2>4. /\ job \in [at : {"reading"}, item : Items, purge : BOOLEAN, left : SUBSET Nonces, got : Manifests]
        /\ job.got = [o.job.got EXCEPT ![f] = db.manifests[f]]
    BY <2>1, <2>3
  <2>5. job \in Job /\ job.at = "reading"
    BY <2>4 DEF Job
  <2>6. f \in Present(job.got)
    BY <2>1, <2>2, <2>4 DEF Present, Manifests
  <2>7. Becomes(t, V(t), job)
    BY <1>6 DEF ReadManifest
  <2> HIDE DEF job
  <2>. QED  BY <1>3, <2>5, <2>6, <2>7
<1>7. CASE DeletionThrows(t)
  BY <1>3, <1>7 DEF DeletionThrows, Idle, Job
<1>. QED  BY <1>4, <1>5, <1>6, <1>7

LEMMA DeletionMoves ==
  ASSUME MemoryInv, NEW t \in Tabs, CommitDeletion(t)
  PROVE  Moves(t)
<1> DEFINE job == tab[t].job
           i == job.item
<1>1. Healthy(t) /\ job.at = "reading" /\ Steady(job) /\ tab[t] \in OpenTab /\ TabSound(tab[t], db)
  BY FreeTab DEF CommitDeletion, At, Steady, Healthy
<1>2. job \in [at : {"reading"}, item : Items, purge : BOOLEAN, left : SUBSET Nonces, got : Manifests]
  BY <1>1 DEF OpenTab, Job, Idle, Resuming
<1>3. /\ V(t) \in Vault /\ Rooted(V(t)) /\ i \in Ids /\ draws' \in Nonces /\ tab[t].version \in Nat
      /\ V(t).store.items[i] \in Row \cup {None}
  BY <1>1, <1>2, FreeTab, Drawn DEF CommitDeletion, Healthy, Ids
<1>4. job.purge \/ Present(job.got) # {}
  BY <1>1 DEF CommitDeletion, TabSound, JobSound
<1>5. V(t).key # None /\ V(t).store.items[i] # None
  BY <1>4 DEF CommitDeletion, CanCommitDeletion, CanPurge, CanDeleteAttachment, Is, IsUnlocked
<1>6. ASSUME NEW row \in Row, row.revision > V(t).store.items[i].revision,
             LET w == Write(V(t), i, row)
             IN  Saves(t, w, SaveItemPurge(tab[t].version, w.store, job.got), None)
      PROVE  Moves(t)
  <2> DEFINE w == Write(V(t), i, row)
             tx == SaveItemPurge(tab[t].version, w.store, job.got)
  <2>1. w \in Vault /\ w.store.root # None /\ OneOperation(V(t).store, w.store)
    BY <1>3, <1>5, <1>6, WriteSound DEF Rooted
  <2>2. w.store \in MemStore /\ Saves(t, w, tx, None)
    BY <1>6, <2>1 DEF Vault
  <2> HIDE DEF w
  <2>3. Tells(tx, tab[t].version, w.store)
    BY <1>2, <1>3, <2>2, SavesTyped
  <2> HIDE DEF tx
  <2>. QED  BY <1>1, <2>1, <2>2, <2>3, SaveBegins DEF Tells
<1>7. CASE job.purge
  <2> DEFINE row == Revised(V(t), i, "tombstone", {}, draws')
  <2>1. row \in Row /\ row.revision > V(t).store.items[i].revision
    BY <1>3, <1>5, RevisedSound
  <2> HIDE DEF row
  <2>. QED  BY <1>6, <1>7, <2>1 DEF CommitDeletion, CommitsDeletion, PurgeItem, row
<1>8. CASE ~job.purge
  <2> DEFINE f == CHOOSE f \in Present(job.got) : TRUE
             left == V(t).store.items[i].files \ {f}
             row == Revised(V(t), i, "active", left, draws')
  <2>1. left \in SUBSET Nonces
    BY <1>3, <1>5 DEF Row
  <2> HIDE DEF left
  <2>2. row \in Row /\ row.revision > V(t).store.items[i].revision
    BY <1>3, <1>5, <2>1, RevisedSound
  <2> HIDE DEF row
  <2>. QED  BY <1>6, <1>8, <2>2 DEF CommitDeletion, CommitsDeletion, DeleteAttachment, row, left
<1>. QED  BY <1>7, <1>8

-----------------------------------------------------------------------------
(* Opening, locking, resuming, and how a job ends.                          *)

LEMMA TabFresh ==
  ASSUME NEW v \in Vault, Rooted(v), NEW version \in Nat, version <= db.version,
         version = db.version => v.store = StoreOf(db.snapshot)
  PROVE  Tab(v, version, Idle) \in OpenTab /\ TabSound(Tab(v, version, Idle), db)
<1> DEFINE o == Tab(v, version, Idle)
<1>1. /\ o \in OpenTab /\ o.vault = v /\ o.version = version /\ o.job = Idle /\ ~o.poisoned
      /\ Idle.at = "idle"
  BY DEF Tab, OpenTab, Job, Idle
<1> HIDE DEF o
<1>. QED  BY <1>1 DEF TabSound, InMemory, JobSound, o

LEMMA UnlockSound ==
  ASSUME NEW v \in Vault, v.store.root # None
  PROVE  /\ Unlock(v) \in Vault /\ Unlock(v).store = v.store /\ Rooted(Unlock(v))
         /\ v.store.kit # None =>
              LET u == UnlockWithRecoveryKit(v) IN u \in Vault /\ u.store = v.store /\ Rooted(u)
         /\ \A c \in Credential :
              LET u == UnlockWithSessionResume(v, c)
              IN  u \in Vault /\ u.store = v.store /\ u.key = c.key /\ u.key # None /\ Rooted(u)
<1>1. v.store.root.key \in Nonces /\ (v.store.kit # None => v.store.kit.key \in Nonces)
  BY DEF Vault, MemStore, Wrap
<1>2. \A key \in Nonces : [v EXCEPT !.key = key] \in Vault
  BY DEF Vault
<1>3. \A key \in Nonces : [v EXCEPT !.key = key].store = v.store /\ [v EXCEPT !.key = key].key = key
  BY DEF Vault
<1>4. \A c \in Credential : c.key \in Nonces
  BY DEF Credential
<1>. QED  BY <1>1, <1>2, <1>3, <1>4
     DEF Unlock, UnlockWithRecoveryKit, UnlockWithSessionResume, UnwrapRootKey,
         UnwrapWithRecoverySecret, Rooted

LEMMA LockingMoves ==
  ASSUME MemoryInv, NEW t \in Tabs, SessionUnlock(t) \/ SessionLock(t)
  PROVE  Moves(t)
<1> DEFINE o == tab[t]
<1>1. o \in OpenTab /\ TabSound(o, db) /\ o.vault = V(t) /\ V(t) \in Vault /\ o.job \in Job
  BY FreeTab DEF SessionUnlock, SessionLock, Healthy, V, OpenTab
<1>2. ASSUME NEW v \in Vault, v.store = V(t).store, Rooted(v), o.poisoned => v.key = None,
             Becomes(t, v, o.job)
      PROVE  Moves(t)
  <2>1. With(o, v, o.job) \in OpenTab /\ TabSound(With(o, v, o.job), db)
    BY <1>1, <1>2, StoreKept DEF TabSound
  <2>2. tab' = [tab EXCEPT ![t] = With(o, v, o.job)]
    BY <1>2 DEF Becomes, With, MemoryInv, TypeOK
  <2>. QED  BY <2>1, <2>2 DEF Moves
<1>3. CASE SessionUnlock(t)
  <2>1. ~o.poisoned /\ V(t).store.root # None
    BY <1>3 DEF SessionUnlock, Healthy, IsInitialized
  <2>. QED  BY <1>1, <1>2, <1>3, <2>1, UnlockSound DEF SessionUnlock
<1>4. CASE SessionLock(t)
  <2>1. Lock(V(t)) \in Vault /\ Lock(V(t)).store = V(t).store /\ Lock(V(t)).key = None
    BY <1>1 DEF Lock, Vault
  <2>. QED  BY <1>2, <1>4, <2>1 DEF SessionLock, Rooted
<1>. QED  BY <1>3, <1>4

LEMMA LatestRead ==
  ASSUME MemoryInv, NEW t \in Tabs, At(t, "latest")
  PROVE  /\ tab[t] \in OpenTab /\ TabSound(tab[t], db) /\ ~tab[t].poisoned
         /\ tab[t].job.at = "latest" /\ Steady(tab[t].job)
         /\ tab[t].job.version \in Nat /\ tab[t].job.snapshot \in Snapshot
<1>1. tab[t] \in OpenTab /\ TabSound(tab[t], db) /\ ~tab[t].poisoned /\ tab[t].job.at = "latest"
  BY FreeTab DEF At, Healthy
<1>. QED  BY <1>1 DEF Steady, OpenTab, Job, Idle, Resuming

(* What a resume opens: the tab as it was, or what it has read, locked.      *)
LEMMA RefreshedSound ==
  ASSUME MemoryInv, NEW t \in Tabs, At(t, "latest")
  PROVE  /\ Refreshed(t) \in OpenTab /\ TabSound(Refreshed(t), db) /\ ~Refreshed(t).poisoned
         /\ Steady(Refreshed(t).job)
         /\ Refreshed(t).vault.store = StoreOf(tab[t].job.snapshot)
         /\ Refreshed(t).version = db.version => Refreshed(t).vault.store = StoreOf(db.snapshot)
         /\ ~IsUnlocked(V(t)) => Refreshed(t).vault.key = None
<1> DEFINE job == tab[t].job
<1>1. /\ tab[t] \in OpenTab /\ TabSound(tab[t], db) /\ ~tab[t].poisoned
      /\ job.at = "latest" /\ Steady(job) /\ job.version \in Nat /\ job.snapshot \in Snapshot
  BY LatestRead
<1>2. /\ job.version <= db.version /\ Stored(job.snapshot)
      /\ job.version = tab[t].version => tab[t].vault.store = StoreOf(job.snapshot)
      /\ tab[t].version = db.version => tab[t].vault.store = StoreOf(db.snapshot)
      /\ job.version = db.version => job.snapshot = db.snapshot
  BY <1>1 DEF TabSound, JobSound, InMemory
<1>3. CASE job.version = tab[t].version
  BY <1>1, <1>2, <1>3 DEF Refreshed, IsUnlocked, V
<1>4. CASE job.version # tab[t].version
  <2> DEFINE v == FromSnapshot(job.snapshot)
  <2>1. v \in Vault /\ Rooted(v) /\ v.store = StoreOf(job.snapshot) /\ v.key = None
    BY <1>1, <1>2, SnapshotLoads
  <2>2. Refreshed(t) = Tab(v, job.version, Idle)
    BY <1>4 DEF Refreshed
  <2> HIDE DEF v
  <2>3. job.version = db.version => v.store = StoreOf(db.snapshot)
    BY <1>2, <2>1
  <2>4. Refreshed(t) \in OpenTab /\ TabSound(Refreshed(t), db)
    BY <1>1, <1>2, <2>1, <2>2, <2>3, TabFresh
  <2>. QED  BY <2>1, <2>2, <2>3, <2>4 DEF Tab, Steady, Idle
<1>. QED  BY <1>3, <1>4

LEMMA SessionMoves ==
  ASSUME MemoryInv, NEW t \in Tabs,
         \/ Load(t) \/ StartResume(t) \/ ReadLatest(t) \/ ReadThrows(t) \/ ResumeThrows(t)
         \/ \E c \in credentials : Resume(t, c)
  PROVE  Moves(t)
<1>1. CASE Load(t)
  <2>1. db.version \in Nat /\ db.snapshot \in Snapshot /\ Stored(db.snapshot)
    BY DEF MemoryInv, TypeOK, Database
  <2>2. /\ Tab(FromSnapshot(db.snapshot), db.version, Idle) \in OpenTab
        /\ TabSound(Tab(FromSnapshot(db.snapshot), db.version, Idle), db)
    BY <2>1, SnapshotLoads, TabFresh
  <2>. QED  BY <1>1, <2>2 DEF Load, Moves
<1>2. CASE StartResume(t)
  <2>1. Healthy(t) /\ Steady(tab[t].job) /\ V(t) \in Vault /\ Rooted(V(t))
    BY <1>2, FreeTab DEF StartResume, Free, Healthy, Steady, Idle
  <2>. QED  BY <1>2, <2>1, JobMoves DEF StartResume, Resuming, Job
<1>3. CASE ResumeThrows(t)
  <2>1. PICK o : o = Refreshed(t) /\ tab' = [tab EXCEPT ![t] = [o EXCEPT !.job = Idle]]
    BY <1>3 DEF ResumeThrows
  <2>3. o \in OpenTab /\ TabSound(o, db) /\ ~o.poisoned /\ Steady(o.job)
    BY <1>3, <2>1, RefreshedSound DEF ResumeThrows
  <2>4. o.vault \in Vault /\ Rooted(o.vault) /\ [o EXCEPT !.job = Idle] = With(o, o.vault, Idle)
    BY <2>3 DEF OpenTab, With, TabSound
  <2>5. With(o, o.vault, Idle) \in OpenTab /\ TabSound(With(o, o.vault, Idle), db)
    BY <2>3, <2>4, StoreKept DEF Idle, Job
  <2>. QED  BY <2>1, <2>4, <2>5 DEF Moves
<1>4. ASSUME NEW c \in credentials, Resume(t, c) PROVE Moves(t)
  <2> DEFINE o == Refreshed(t)
             v == UnlockWithSessionResume(o.vault, c)
  <2>1. o \in OpenTab /\ TabSound(o, db) /\ ~o.poisoned /\ Steady(o.job)
    BY <1>4, RefreshedSound DEF Resume
  <2>2. o.vault.store.root # None /\ c \in Credential /\ o.vault \in Vault
    BY <1>4, <2>1 DEF Resume, CanResume, IsInitialized, MemoryInv, TypeOK, OpenTab
  <2>3. v \in Vault /\ v.store = o.vault.store /\ Rooted(v)
    BY <2>2, UnlockSound
  <2>4. tab' = [tab EXCEPT ![t] = With(o, v, Idle)]
    BY <1>4, <2>1 DEF Resume, With, OpenTab
  <2> HIDE DEF v, o
  <2>5. With(o, v, Idle) \in OpenTab /\ TabSound(With(o, v, Idle), db)
    BY <2>1, <2>3, StoreKept DEF Idle, Job
  <2>. QED  BY <2>4, <2>5 DEF Moves
<1>5. CASE ReadThrows(t)
  <2>1. Healthy(t) /\ Steady(tab[t].job) /\ V(t) \in Vault /\ Rooted(V(t))
    BY <1>5, FreeTab DEF ReadThrows, At, Healthy, Steady
  <2>. QED  BY <1>5, <2>1, JobMoves DEF ReadThrows, Idle, Job
<1>6. CASE ReadLatest(t)
  <2> DEFINE o == tab[t]
             job == Latest(db.version, db.snapshot)
             n == With(o, o.vault, job)
  <2>1. /\ o \in OpenTab /\ TabSound(o, db) /\ ~o.poisoned /\ o.vault = V(t) /\ o.vault \in Vault
        /\ o.job.at = "resuming"
    BY <1>6, FreeTab DEF ReadLatest, At, Healthy, V
  <2>2. db.version \in Nat /\ db.snapshot \in Snapshot /\ Stored(db.snapshot)
    BY DEF MemoryInv, TypeOK, Database
  <2>3. /\ job \in Job /\ job.at = "latest" /\ job.version = db.version
        /\ job.snapshot = db.snapshot
    BY <2>2 DEF Latest, Job
  <2>4. tab' = [tab EXCEPT ![t] = n]
    BY <1>6, <2>1 DEF ReadLatest, Becomes, With, MemoryInv, TypeOK
  <2> HIDE DEF job
  <2>5. n \in OpenTab /\ n.vault = o.vault /\ n.job = job /\ n.version = o.version /\ n.poisoned = o.poisoned
    BY <2>1, <2>3, WithFields
  <2> HIDE DEF n
  <2>6. o.version = db.version => o.vault.store = StoreOf(db.snapshot)
    BY <2>1 DEF TabSound, InMemory
  <2>7. InMemory(n, db)
    BY <2>3, <2>5, <2>6 DEF InMemory
  <2>8. JobSound(n, db)
    BY <2>2, <2>3, <2>5, <2>6 DEF JobSound
  <2>9. TabSound(n, db)
    BY <2>1, <2>5, <2>7, <2>8 DEF TabSound
  <2>. QED  BY <2>4, <2>5, <2>9 DEF Moves
<1>. QED  BY <1>1, <1>2, <1>3, <1>4, <1>5, <1>6

(* A restore or a reset is under way; a restore finds no vault.              *)
LEMMA ReplaceBegins ==
  ASSUME MemoryInv, NEW t \in Tabs, Free(t), NEW tx \in Tx, tx.expected = tab[t].version,
         NEW v \in Vault, Rooted(v), v.store = StoreOf(tx.snapshot), Stored(tx.snapshot),
         tx.snapshot # None => V(t).store.root = None,
         Becomes(t, V(t), Replacing(tx, v))
  PROVE  Moves(t)
<1> DEFINE o == tab[t]
           job == Replacing(tx, v)
           n == With(o, o.vault, job)
<1>1. /\ o \in OpenTab /\ TabSound(o, db) /\ ~o.poisoned /\ o.vault = V(t) /\ o.vault \in Vault
      /\ Steady(o.job)
  BY FreeTab DEF Free, Healthy, V
<1>2. job \in Job /\ job.at = "replacing" /\ job.tx = tx /\ job.vault = v
  BY DEF Replacing, Job
<1>3. tab' = [tab EXCEPT ![t] = n]
  BY <1>1 DEF Becomes, With, MemoryInv, TypeOK
<1> HIDE DEF job
<1>4. n \in OpenTab /\ n.vault = o.vault /\ n.job = job /\ n.version = o.version /\ n.poisoned = o.poisoned
  BY <1>1, <1>2, WithFields
<1> HIDE DEF n
<1>5. InMemory(n, db)
  BY <1>1, <1>2, <1>4 DEF TabSound, InMemory, Steady
<1>6. JobSound(n, db)
  BY <1>1, <1>2, <1>4 DEF JobSound
<1>7. TabSound(n, db)
  BY <1>1, <1>4, <1>5, <1>6 DEF TabSound
<1>. QED  BY <1>3, <1>4, <1>7 DEF Moves

LEMMA WholeMoves ==
  ASSUME MemoryInv, NEW t \in Tabs, ImportEncryptedSnapshot(t) \/ Reset(t)
  PROVE  Moves(t)
<1>1. Free(t) /\ tab[t].version \in Nat
  BY FreeTab DEF ImportEncryptedSnapshot, Reset, Free, Healthy
<1>2. CASE ImportEncryptedSnapshot(t)
  <2> DEFINE tx == ReplaceVaultFromBackup(tab[t].version, backup)
             u == FromSnapshot(backup.snapshot)
  <2>1. /\ backup \in Backup /\ backup.snapshot \in Snapshot /\ Stored(backup.snapshot)
        /\ backup.snapshot # None /\ V(t).store.root = None
    BY <1>2 DEF ImportEncryptedSnapshot, IsInitialized, MemoryInv, TypeOK, Backup, Snapshot
  <2>2. Tells(tx, tab[t].version, backup.snapshot)
    BY <1>1, <2>1, TransactionTyped DEF ReplaceVaultFromBackup, Backup
  <2>3. u \in Vault /\ u.store = backup.snapshot /\ StoreOf(backup.snapshot) = u.store
    BY <2>1, SnapshotLoads
  <2>4. Becomes(t, V(t), Replacing(tx, Unlock(u)))
    BY <1>2 DEF ImportEncryptedSnapshot
  <2> HIDE DEF tx, u
  <2>5. Unlock(u) \in Vault /\ Unlock(u).store = u.store /\ Rooted(Unlock(u))
    BY <2>1, <2>3, UnlockSound DEF Stored
  <2>. QED  BY <1>1, <2>1, <2>2, <2>3, <2>4, <2>5, ReplaceBegins DEF Tells
<1>3. CASE Reset(t)
  <2> DEFINE tx == ClearSnapshot(tab[t].version)
             u == FromSnapshot(None)
  <2>1. NoManifests \in Manifests /\ None \in Snapshot /\ Stored(None)
    BY DEF NoManifests, Manifests, Snapshot, Stored
  <2>2. Tells(tx, tab[t].version, None)
    BY <1>1, <2>1, TransactionTyped DEF ClearSnapshot
  <2>3. u \in Vault /\ u.store = StoreOf(None) /\ Rooted(u)
    BY <2>1, SnapshotLoads
  <2>4. Becomes(t, V(t), Replacing(tx, u))
    BY <1>3 DEF Reset
  <2> HIDE DEF tx, u
  <2>. QED  BY <1>1, <2>1, <2>2, <2>3, <2>4, ReplaceBegins DEF Tells
<1>. QED  BY <1>2, <1>3

LEMMA SettleMoves ==
  ASSUME MemoryInv, NEW t \in Tabs,
         SaveReturns(t) \/ PoisonAfterDurabilityFailure(t) \/ ReplaceReturns(t) \/ ReplaceThrows(t)
  PROVE  Moves(t)
<1> DEFINE o == tab[t]
<1>1. /\ o \in OpenTab /\ TabSound(o, db) /\ ~o.poisoned /\ o.vault = V(t) /\ o.vault \in Vault
      /\ o.job \in Job /\ Rooted(o.vault)
      /\ o.job.at \in {"saved", "saving", "replaced", "replacing"} => o.job.tx \in Tx
      /\ o.job.at \in {"replaced", "replacing"} => o.job.vault \in Vault
      /\ o.job.at = "saving" => o.job.before \in MemStore
  BY FreeTab DEF SaveReturns, PoisonAfterDurabilityFailure, ReplaceReturns, ReplaceThrows,
                 At, Healthy, V, OpenTab, Job, Idle, Resuming
<1>2. db.version \in Nat
  BY DEF MemoryInv, TypeOK, Database
<1>3. CASE SaveReturns(t)
  <2>1. o.job.at = "saved" /\ o.job.tx.expected \in Nat /\ o.job.tx.expected < db.version
    BY <1>1, <1>3 DEF SaveReturns, At, TabSound, JobSound, Tx
  <2>2. o.job.tx.expected + 1 = db.version => o.vault.store = StoreOf(db.snapshot)
    BY <1>1, <2>1 DEF TabSound, InMemory
  <2>3. PersistenceVersion(t) \in Nat /\ PersistenceVersion(t) <= db.version
    BY <1>2, <2>1 DEF PersistenceVersion
  <2>4. /\ Tab(V(t), PersistenceVersion(t), Idle) \in OpenTab
        /\ TabSound(Tab(V(t), PersistenceVersion(t), Idle), db)
    BY <1>1, <2>2, <2>3, TabFresh DEF PersistenceVersion
  <2>. QED  BY <1>3, <2>4 DEF SaveReturns, Moves
<1>4. CASE PoisonAfterDurabilityFailure(t)
  <2> DEFINE u == FromSnapshot(o.job.before)
             n == [o EXCEPT !.vault = u, !.job = Idle, !.poisoned = TRUE]
  <2>1. o.job.before \in MemStore
    BY <1>1, <1>4 DEF PoisonAfterDurabilityFailure, At
  <2>2. u \in Vault /\ u.key = None
    BY <2>1 DEF FromSnapshot, Vault
  <2> HIDE DEF u
  <2>3. /\ n \in OpenTab /\ n.vault = u /\ n.job = Idle /\ n.poisoned /\ n.version = o.version
    BY <1>1, <2>2 DEF OpenTab, Job
  <2>4. tab' = [tab EXCEPT ![t] = n]
    BY <1>4 DEF PoisonAfterDurabilityFailure, u, MemoryInv, TypeOK
  <2> HIDE DEF n
  <2>5. TabSound(n, db)
    BY <1>1, <2>2, <2>3 DEF TabSound, JobSound, Rooted, Idle
  <2>. QED  BY <2>3, <2>4, <2>5 DEF Moves
<1>5. CASE ReplaceReturns(t)
  <2>1. /\ o.job.at = "replaced" /\ o.job.tx.expected \in Nat /\ o.job.tx.expected < db.version
        /\ Rooted(o.job.vault) /\ o.job.vault \in Vault
    BY <1>1, <1>5 DEF ReplaceReturns, At, TabSound, JobSound, Tx
  <2>2. o.job.tx.expected + 1 = db.version => o.job.vault.store = StoreOf(db.snapshot)
    BY <1>1, <2>1 DEF TabSound, InMemory
  <2>3. PersistenceVersion(t) \in Nat /\ PersistenceVersion(t) <= db.version
    BY <1>2, <2>1 DEF PersistenceVersion
  <2>4. /\ Tab(o.job.vault, PersistenceVersion(t), Idle) \in OpenTab
        /\ TabSound(Tab(o.job.vault, PersistenceVersion(t), Idle), db)
    BY <2>1, <2>2, <2>3, TabFresh DEF PersistenceVersion
  <2>. QED  BY <1>5, <2>4 DEF ReplaceReturns, Moves
<1>6. CASE ReplaceThrows(t)
  BY <1>1, <1>6, JobMoves DEF ReplaceThrows, At, Steady, Idle, Job
<1>. QED  BY <1>3, <1>4, <1>5, <1>6

-----------------------------------------------------------------------------
(* All steps.                                                               *)

(* What the steps other than a commit leave to the database and the rest.    *)
Framed ==
  /\ db' = db /\ credentials' \subseteq Credential
  /\ backup' \in Backup \cup {None} /\ (backup' # None => Stored(backup'.snapshot))
  /\ account' \in RemoteWrap \cup {None} /\ draws' \in Nat /\ outside' \in BOOLEAN

LEMMA QuietFramed ==
  ASSUME MemoryInv, Quiet, UNCHANGED draws \/ Draw, outside' \in BOOLEAN
  PROVE  Framed
BY Drawn DEF Framed, Quiet, MemoryInv, TypeOK

LEMMA MutationSound ==
  ASSUME MemoryInv, NEW t \in Tabs, Mutation(t)
  PROVE  Moves(t) /\ Framed
<1>0. outside \in BOOLEAN
  BY DEF MemoryInv, TypeOK
<1>1. ASSUME SessionCreate(t) \/ InitializeFromRemote(t)
             \/ SessionChangePassphrase(t) \/ SessionInstallRecoveryKit(t)
      PROVE  Moves(t) /\ Framed
  <2>1. Quiet /\ Draw /\ outside' = outside
    BY <1>1 DEF SessionCreate, InitializeFromRemote, SessionChangePassphrase, SessionInstallRecoveryKit
  <2>. QED  BY <1>0, <1>1, <2>1, KeyCallsMove, QuietFramed
<1>2. ASSUME SessionCreateResume(t) PROVE Moves(t) /\ Framed
  <2>1. Quiet /\ Draw /\ outside' = outside
    BY <1>2 DEF SessionCreateResume
  <2>. QED  BY <1>0, <1>2, <2>1, ResumeCallMoves, QuietFramed
<1>3. ASSUME NEW i \in Items,
             SessionPutItem(t, i) \/ SessionUpdateItem(t, i)
             \/ SessionTrashItem(t, i) \/ SessionRestoreItem(t, i)
      PROVE  Moves(t) /\ Framed
  <2>1. Quiet /\ Draw /\ outside' = outside
    BY <1>3 DEF SessionPutItem, SessionUpdateItem, SessionTrashItem, SessionRestoreItem
  <2>. QED  BY <1>0, <1>3, <2>1, ItemCallsMove, QuietFramed
<1>4. ASSUME NEW i \in Items,
             \E revision \in 0..MaxRevision, at \in {"active", "trashed", "tombstone"} :
               Healthy(t) /\ \E files \in {{}, FilesOf(t, i), {draws + 1}} :
                 ApplyRemoteEncryptedItem(t, i, revision, at, files)
      PROVE  Moves(t) /\ Framed
  <2>1. Quiet /\ Draw /\ outside' \in BOOLEAN
    BY <1>4 DEF ApplyRemoteEncryptedItem
  <2>2. Framed
    BY <2>1, QuietFramed
  <2>. QED  BY <1>4, <2>2, ItemCallsMove
<1>. QED  BY <1>1, <1>2, <1>3, <1>4 DEF Mutation

LEMMA AttachmentSound ==
  ASSUME MemoryInv, NEW t \in Tabs, AttachmentStep(t)
  PROVE  Moves(t) /\ Framed
<1>0. outside \in BOOLEAN
  BY DEF MemoryInv, TypeOK
<1>1. ASSUME EncryptChunk(t) \/ CancelImport(t) PROVE Moves(t) /\ Framed
  <2>1. Quiet /\ UNCHANGED <<draws, outside>>
    BY <1>1 DEF EncryptChunk, CancelImport
  <2>. QED  BY <1>0, <1>1, <2>1, ImportMoves, QuietFramed
<1>2. ASSUME CommitDeletion(t) PROVE Moves(t) /\ Framed
  <2>1. Quiet /\ Draw /\ outside' = outside
    BY <1>2 DEF CommitDeletion
  <2>. QED  BY <1>0, <1>2, <2>1, DeletionMoves, QuietFramed
<1>3. ASSUME \/ \E i \in Items : StartPurge(t, i) \/ \E f \in Nonces : StartDeleteAttachment(t, i, f)
             \/ DeletionThrows(t) \/ \E f \in Nonces : ReadManifest(t, f)
      PROVE  Moves(t) /\ Framed
  <2>1. Quiet /\ UNCHANGED <<draws, outside>>
    BY <1>3 DEF StartPurge, StartDeleteAttachment, ReadManifest, DeletionThrows
  <2>. QED  BY <1>0, <1>3, <2>1, ReadingMoves, QuietFramed
<1>4. ASSUME NEW i \in Items, NEW chunks \in 0..MaxChunks, AddAttachment(t, i, chunks)
      PROVE  Moves(t) /\ Framed
  <2>1. Quiet /\ Draw /\ outside' = outside
    BY <1>4 DEF AddAttachment
  <2>. QED  BY <1>0, <1>4, <2>1, AddMoves, QuietFramed
<1>. QED  BY <1>1, <1>2, <1>3, <1>4 DEF AttachmentStep

LEMMA SessionSound ==
  ASSUME MemoryInv, NEW t \in Tabs, Session(t)
  PROVE  (Moves(t) \/ tab' = [tab EXCEPT ![t] = None]) /\ Framed
<1>1. UNCHANGED <<db, credentials, backup, account, draws, outside>>
  BY DEF Session, Load, Close, SessionUnlock, SessionLock, StartResume,
              ReadLatest, ReadThrows, ResumeThrows, Resume, Quiet
<1>2. Framed
  BY <1>1 DEF Framed, MemoryInv, TypeOK
<1>. QED  BY <1>2, SessionMoves, LockingMoves DEF Session, Close

LEMMA SettleSound ==
  ASSUME MemoryInv, NEW t \in Tabs, Settle(t), ~CommitTransaction(t)
  PROVE  Moves(t) /\ Framed
<1>1. CASE SaveReturns(t)
  <2> DEFINE credential == tab[t].job.credential
  <2>1. credential \in Credential \cup {None}
    BY <1>1, FreeTab DEF SaveReturns, At, Healthy, OpenTab, Job, Idle, Resuming
  <2>2. /\ UNCHANGED <<db, backup, account, draws, outside>>
        /\ credentials' = credentials \cup ({credential} \ {None})
    BY <1>1 DEF SaveReturns
  <2> HIDE DEF credential
  <2>3. Framed
    BY <2>1, <2>2 DEF Framed, MemoryInv, TypeOK
  <2>. QED  BY <1>1, <2>3, SettleMoves
<1>2. CASE PoisonAfterDurabilityFailure(t) \/ ReplaceReturns(t) \/ ReplaceThrows(t)
  <2>1. UNCHANGED <<db, credentials, backup, account, draws, outside>>
    BY <1>2 DEF PoisonAfterDurabilityFailure, ReplaceReturns, ReplaceThrows, Quiet
  <2>2. Framed
    BY <2>1 DEF Framed, MemoryInv, TypeOK
  <2>. QED  BY <1>2, <2>2, SettleMoves
<1>. QED  BY <1>1, <1>2 DEF Settle

LEMMA WholeSound ==
  ASSUME MemoryInv, NEW t \in Tabs, Whole(t)
  PROVE  Moves(t) /\ Framed
<1>1. ASSUME tab' = tab, tab[t] # None PROVE Moves(t)
  <2>1. tab[t] \in OpenTab /\ TabSound(tab[t], db)
    BY <1>1, FreeTab
  <2>2. tab' = [tab EXCEPT ![t] = tab[t]]
    BY <1>1 DEF MemoryInv, TypeOK
  <2>. QED  BY <2>1, <2>2 DEF Moves
<1>2. CASE ExportEncryptedSnapshot(t)
  <2>1. /\ UNCHANGED <<db, tab, credentials, account, draws, outside>> /\ tab[t] # None
        /\ backup' = BackupState(db) /\ db.snapshot # None
    BY <1>2 DEF ExportEncryptedSnapshot, Healthy
  <2>2. BackupState(db) \in Backup /\ BackupState(db).snapshot = db.snapshot
    BY <2>1 DEF BackupState, Backup, MemoryInv, TypeOK, Database, Snapshot
  <2>3. Framed
    BY <2>1, <2>2 DEF Framed, MemoryInv, TypeOK
  <2>. QED  BY <1>1, <2>1, <2>3
<1>3. CASE ExportRemoteAccountRootWrap(t)
  <2>1. /\ UNCHANGED <<db, tab, credentials, backup, draws, outside>> /\ tab[t] # None
        /\ account' = WrapForRemoteAccount(V(t)) /\ V(t).store.root # None
    BY <1>3 DEF ExportRemoteAccountRootWrap, Healthy, Reauthenticates, IsInitialized
  <2>2. V(t).store.root \in Wrap
    BY <2>1, FreeTab DEF Vault, MemStore
  <2>3. account' \in RemoteWrap
    BY <2>1, <2>2 DEF WrapForRemoteAccount, UnwrapRootKey, RemoteWrap, Wrap
  <2>4. Framed
    BY <2>1, <2>3 DEF Framed, MemoryInv, TypeOK
  <2>. QED  BY <1>1, <2>1, <2>4
<1>4. CASE ImportEncryptedSnapshot(t) \/ Reset(t)
  <2>1. UNCHANGED <<db, credentials, backup, account, draws, outside>>
    BY <1>4 DEF ImportEncryptedSnapshot, Reset, Quiet
  <2>2. Framed
    BY <2>1 DEF Framed, MemoryInv, TypeOK
  <2>. QED  BY <1>4, <2>2, WholeMoves
<1>. QED  BY <1>2, <1>3, <1>4 DEF Whole

-----------------------------------------------------------------------------
(* A transaction commits.                                                   *)

LEMMA CommitWrites ==
  ASSUME MemoryInv, NEW t \in Tabs, CommitTransaction(t)
  PROVE  LET o == tab[t] IN
         /\ o \in OpenTab /\ TabSound(o, db) /\ ~o.poisoned /\ InMemory(o, db)
         /\ o.job.at \in {"saving", "replacing"} /\ o.job.tx \in Tx
         /\ o.job.tx.expected = db.version /\ o.version = db.version
         /\ db' \in Database /\ db'.version = db.version + 1 /\ db'.snapshot = o.job.tx.snapshot
         /\ db.version \in Nat
<1> DEFINE o == tab[t]
           tx == o.job.tx
<1>1. o # None /\ o.job.at \in {"saving", "replacing"} /\ Fenced(db, tx) /\ db' = Applied(db, tx)
  BY DEF CommitTransaction
<1>2. o \in OpenTab /\ TabSound(o, db)
  BY <1>1, FreeTab
<1>3. ~o.poisoned /\ tx \in Tx /\ InMemory(o, db)
  BY <1>1, <1>2 DEF TabSound, Idle, OpenTab, Job, Resuming
<1>4. tx.expected = db.version /\ o.version = db.version
  BY <1>1, <1>2, <1>3 DEF Fenced, InMemory, TabSound, JobSound
<1>5. db \in Database
  BY DEF MemoryInv, TypeOK
<1> HIDE DEF tx
<1>6. db' \in Database /\ db'.version = db.version + 1 /\ db'.snapshot = tx.snapshot
  <2> DEFINE manifests == [f \in Nonces |->
                 IF tx.wipe \/ tx.puts[f] # None THEN tx.puts[f] ELSE db.manifests[f]]
             chunks == (IF tx.wipe THEN {} ELSE db.chunks \ tx.drops) \cup tx.adds
  <2>1. manifests \in Manifests
    BY <1>3, <1>5 DEF Manifests, Tx, Database
  <2>2. chunks \in SUBSET (Nonces \X Nat)
    BY <1>3, <1>5 DEF Tx, Database
  <2>3. tx.snapshot \in Snapshot /\ db.version + 1 \in Nat
    BY <1>3, <1>5 DEF Tx, Database
  <2> HIDE DEF manifests, chunks
  <2>4. db' = [version |-> db.version + 1, snapshot |-> tx.snapshot,
               manifests |-> manifests, chunks |-> chunks]
    BY <1>1, <1>4 DEF Applied, manifests, chunks
  <2>. QED  BY <2>1, <2>2, <2>3, <2>4 DEF Database
<1>. QED  BY <1>1, <1>2, <1>3, <1>4, <1>5, <1>6 DEF tx, Database

LEMMA CommitSound ==
  ASSUME MemoryInv, NEW t \in Tabs, CommitTransaction(t)
  PROVE  MemoryInv'
<1> DEFINE o == tab[t]
           tx == o.job.tx
           job == IF o.job.at = "saving" THEN Saved(o.job) ELSE Replaced(o.job)
<1>1. /\ o \in OpenTab /\ TabSound(o, db) /\ ~o.poisoned /\ InMemory(o, db) /\ o.vault \in Vault /\ o.job \in Job
      /\ o.job.at \in {"saving", "replacing"} /\ tx \in Tx
      /\ tx.expected = db.version /\ o.version = db.version
      /\ db' \in Database /\ db'.version = db.version + 1 /\ db'.snapshot = tx.snapshot
      /\ db.version \in Nat
  BY CommitWrites DEF OpenTab
<1>2. /\ Stored(tx.snapshot) /\ Rooted(o.vault) /\ tx.snapshot \in Snapshot
      /\ tx.snapshot # None => StoreOf(tx.snapshot) = tx.snapshot
  BY <1>1, SnapshotLoads DEF TabSound, JobSound, Tx
<1>3. /\ job \in Job /\ job.tx = tx
      /\ o.job.at = "saving" => job.at = "saved"
      /\ o.job.at = "replacing" => job.at = "replaced" /\ job.vault = o.job.vault
  BY <1>1 DEF Saved, Replaced, Job, Idle, Resuming
<1>4. tab' = [tab EXCEPT ![t] = With(o, o.vault, job)]
  BY <1>1 DEF CommitTransaction, Becomes, V, With, MemoryInv, TypeOK
<1>5. o.job.at = "saving" => o.vault.store = StoreOf(tx.snapshot)
  BY <1>1, <1>2 DEF InMemory, TabSound, JobSound
<1>6. o.job.at = "replacing" => o.job.vault.store = StoreOf(tx.snapshot) /\ Rooted(o.job.vault)
  BY <1>1 DEF TabSound, JobSound
<1> HIDE DEF job
<1>7. PICK n \in OpenTab :
        /\ tab' = [tab EXCEPT ![t] = n]
        /\ n.vault = o.vault /\ n.job = job /\ n.version = o.version /\ ~n.poisoned
  <2> DEFINE m == With(o, o.vault, job)
  <2>1. /\ m \in OpenTab /\ m.vault = o.vault /\ m.job = job
        /\ m.version = o.version /\ m.poisoned = o.poisoned
    BY <1>1, <1>3, WithFields
  <2>2. tab' = [tab EXCEPT ![t] = m]
    BY <1>4
  <2> HIDE DEF m
  <2>. QED  BY <1>1, <2>1, <2>2
<1>8. PICK store : store = StoreOf(tx.snapshot)
  OBVIOUS
<1>9. store = StoreOf(db'.snapshot)
  BY <1>1, <1>8
<1>10. TabSound(n, db')
  <2>1. /\ n.job.at \in {"saved", "replaced"} /\ n.job.tx.expected = db.version
        /\ n.job.at = "saved" => n.vault.store = store
        /\ n.job.at = "replaced" => n.job.vault.store = store /\ Rooted(n.job.vault)
        /\ Rooted(n.vault) /\ n.version = db.version
    BY <1>1, <1>2, <1>3, <1>5, <1>6, <1>7, <1>8
  <2>2. InMemory(n, db')
    BY <1>9, <2>1 DEF InMemory, StoreOf
  <2>3. JobSound(n, db')
    BY <1>1, <2>1 DEF JobSound, Rooted
  <2>. QED  BY <1>1, <1>7, <2>1, <2>2, <2>3 DEF TabSound, Rooted
<1>11. ASSUME NEW u \in Tabs, tab'[u] # None PROVE TabSound(tab'[u], db')
  <2>1. CASE u = t
    <3>1. tab'[u] = n
      BY <1>7, <2>1 DEF MemoryInv, TypeOK
    <3>. QED  BY <1>10, <3>1
  <2>2. CASE u # t
    <3>1. tab'[u] = tab[u]
      BY <1>7, <2>2 DEF MemoryInv, TypeOK
    <3>2. tab[u] \in OpenTab /\ TabSound(tab[u], db)
      BY <1>11, <3>1, FreeTab
    <3>3. PICK p \in OpenTab : p = tab[u]
      BY <3>2
    <3>4. /\ p.version \in Nat /\ p.job \in Job /\ p.poisoned \in BOOLEAN
          /\ p.job.at \in {"saving", "saved", "replacing", "replaced"} => p.job.tx.expected \in Nat
          /\ p.job.at = "latest" => p.job.version \in Nat
      <4>1. p.version \in Nat /\ p.job \in Job /\ p.poisoned \in BOOLEAN
        BY <3>3 DEF OpenTab
      <4>2. p.job.at \in {"saving", "saved", "replacing", "replaced"} => p.job.tx \in Tx
        BY <4>1 DEF Job, Idle, Resuming
      <4>3. p.job.at = "latest" => p.job.version \in Nat
        BY <4>1 DEF Job, Idle, Resuming
      <4>. QED  BY <4>1, <4>2, <4>3 DEF Tx
    <3>5. /\ TabSound(p, db) /\ p.version < db'.version /\ JobSound(p, db)
          /\ ~p.poisoned => InMemory(p, db)
      <4>1. TabSound(p, db)
        BY <3>2, <3>3
      <4>2. p.version <= db.version /\ JobSound(p, db) /\ (~p.poisoned => InMemory(p, db))
        BY <4>1 DEF TabSound
      <4>3. db.version \in Nat /\ db'.version = db.version + 1
        BY <1>1
      <4>4. p.version < db'.version
        BY <3>4, <4>2, <4>3
      <4>. QED  BY <4>1, <4>2, <4>4
    <3>6. p.job.at \in {"saved", "replaced"} =>
            p.job.tx.expected < db'.version /\ p.job.tx.expected + 1 # db'.version
      <4>1. p.job.at \in {"saved", "replaced"} => p.job.tx.expected < db.version /\ p.job.tx.expected \in Nat
        BY <3>4, <3>5 DEF JobSound
      <4>2. db.version \in Nat /\ db'.version = db.version + 1
        BY <1>1
      <4>. QED  BY <4>1, <4>2
    <3>11. p.job.at = "latest" => p.job.version <= db'.version /\ p.job.version # db'.version
      <4>1. p.job.at = "latest" => p.job.version <= db.version /\ p.job.version \in Nat
        BY <3>4, <3>5 DEF JobSound
      <4>2. db.version \in Nat /\ db'.version = db.version + 1
        BY <1>1
      <4>. QED  BY <4>1, <4>2
    <3>7. ~p.poisoned => InMemory(p, db')
      <4>1. CASE p.job.at = "saving"
        BY <3>4, <3>5, <4>1 DEF InMemory
      <4>2. CASE p.job.at \in {"saved", "replaced"}
        BY <3>6, <4>2 DEF InMemory
      <4>3. CASE p.job.at = "latest"
        BY <3>4, <3>5, <3>11, <4>3 DEF InMemory
      <4>4. CASE p.job.at \notin {"saving", "saved", "replaced", "latest"}
        BY <3>4, <3>5, <4>4 DEF InMemory
      <4>. QED  BY <4>1, <4>2, <4>3, <4>4
    <3>8. JobSound(p, db')
      <4>1. p.job.at \in {"saved", "replaced"} => p.job.tx.expected < db'.version
        BY <3>6
      <4>2. p.job.at = "latest" => p.job.version <= db'.version
        BY <3>11
      <4>. QED  BY <3>5, <4>1, <4>2 DEF JobSound
    <3>9. p.version <= db'.version
      BY <1>1, <3>4, <3>5
    <3>10. TabSound(p, db')
      BY <3>4, <3>5, <3>7, <3>8, <3>9 DEF TabSound
    <3>. QED  BY <3>1, <3>3, <3>10
  <2>. QED  BY <2>1, <2>2
<1>12. UNCHANGED <<credentials, backup, account, draws, outside>>
  BY DEF CommitTransaction
<1>13. TypeOK'
  BY <1>1, <1>7, <1>12 DEF MemoryInv, TypeOK
<1>. QED  BY <1>1, <1>2, <1>11, <1>12, <1>13 DEF MemoryInv, Stored

-----------------------------------------------------------------------------
(* The theorems.                                                            *)

LEMMA MemoryStep == MemoryInv /\ [Next]_vars => MemoryInv'
<1>. SUFFICES ASSUME MemoryInv, [Next]_vars PROVE MemoryInv'
  OBVIOUS
<1>1. CASE UNCHANGED vars
  BY <1>1 DEF vars, MemoryInv, TypeOK
<1>2. ASSUME NEW t \in Tabs, Mutation(t) \/ AttachmentStep(t) \/ Settle(t) \/ Session(t) \/ Whole(t)
      PROVE  MemoryInv'
  <2>1. CASE CommitTransaction(t)
    BY <2>1, CommitSound
  <2>2. CASE ~CommitTransaction(t)
    <3>1. (Moves(t) \/ tab' = [tab EXCEPT ![t] = None]) /\ Framed
      BY <1>2, <2>2, MutationSound, AttachmentSound, SettleSound, SessionSound, WholeSound
    <3>. QED  BY <3>1, TabMoves DEF Framed
  <2>. QED  BY <2>1, <2>2
<1>. QED  BY <1>1, <1>2 DEF Next

(* Every tab is well typed, its memory is what its version of the database    *)
(* holds or one operation ahead of it, and what its job relies on is so.      *)
THEOREM MemoryInvariant == Spec => []MemoryInv
<1>1. Init => MemoryInv
  <2> SUFFICES ASSUME Init PROVE MemoryInv
    OBVIOUS
  <2>1. PICK start \in Starts :
          /\ db = start.db /\ backup = start.backup /\ account = start.account
          /\ credentials = start.credentials /\ draws = start.draws
    BY DEF Init
  <2>2. tab = [t \in Tabs |-> None] /\ outside = FALSE
    BY DEF Init
  <2>3. TypeOK
    BY <2>1, <2>2, StartsAssumption DEF TypeOK
  <2>4. Stored(db.snapshot) /\ (backup # None => Stored(backup.snapshot))
    BY <2>1, StartsAssumption DEF Stored, Left
  <2>. QED  BY <2>2, <2>3, <2>4 DEF MemoryInv
<1>. QED  BY <1>1, MemoryStep, PTL DEF Spec

(* persistence.ts 199-264 and session.ts 1034-1059: a tab at the database's    *)
(* version has the database's content in memory, and a poisoned tab is locked. *)
THEOREM MemoryMatches == Spec => [](TypeOK /\ MemoryIsSnapshot /\ PoisonedIsLocked)
<1>1. MemoryInv => TypeOK /\ MemoryIsSnapshot /\ PoisonedIsLocked
  BY DEF MemoryInv, MemoryIsSnapshot, PoisonedIsLocked, TabSound, Healthy, IsUnlocked, V
<1>. QED  BY <1>1, MemoryInvariant, PTL

(* session.ts 1002-1024 and persistence.ts 199-264: a save that commits is one *)
(* operation on what was stored, so no tab overwrites another's.              *)
THEOREM SavesBuild == Spec => SavesBuildOnStored
<1>1. MemoryInv /\ [Next]_vars =>
        [db' # db =>
           /\ db'.version = db.version + 1
           /\ db'.snapshot # None /\ db.snapshot # None => OneOperation(db.snapshot, db'.snapshot)]_vars
  <2> SUFFICES ASSUME MemoryInv, Next, db' # db
               PROVE  /\ db'.version = db.version + 1
                      /\ db'.snapshot # None /\ db.snapshot # None =>
                           OneOperation(db.snapshot, db'.snapshot)
    BY DEF vars
  <2>1. PICK t \in Tabs : CommitTransaction(t)
    BY MutationSound, AttachmentSound, SettleSound, SessionSound, WholeSound DEF Next, Framed
  <2> DEFINE o == tab[t]
  <2>2. /\ TabSound(o, db) /\ InMemory(o, db) /\ o.job.at \in {"saving", "replacing"}
        /\ o.version = db.version
        /\ db'.version = db.version + 1 /\ db'.snapshot = o.job.tx.snapshot
    BY <2>1, CommitWrites
  <2>3. /\ Stored(db.snapshot)
        /\ db.snapshot # None => StoreOf(db.snapshot) = db.snapshot
    BY SnapshotLoads DEF MemoryInv, TypeOK, Database
  <2>4. CASE o.job.at = "saving"
    BY <2>2, <2>3, <2>4 DEF InMemory, TabSound, JobSound
  <2>5. CASE o.job.at = "replacing"
    <3>1. o.vault.store = StoreOf(db.snapshot)
      BY <2>2, <2>5 DEF InMemory
    <3>. QED  BY <2>2, <2>3, <2>5, <3>1 DEF TabSound, JobSound, Stored
  <2>. QED  BY <2>2, <2>4, <2>5
<1>. QED  BY <1>1, MemoryInvariant, PTL DEF Spec, SavesBuildOnStored

(* session.ts 583-601: a tab is resumed with a credential that was bound to    *)
(* the snapshot stored when the resume read it, however old the one the tab   *)
(* had loaded; and if it can save, with one bound to the stored snapshot.     *)
THEOREM ResumesAreNewest == Spec => ResumeIsNewest
<1>1. MemoryInv /\ [Next]_vars =>
        [\A t \in Tabs : Resumed(t) =>
           \E c \in credentials :
             /\ tab'[t].vault.key = c.key
             /\ CanResume(FromSnapshot(tab[t].job.snapshot), c)
             /\ tab'[t].version = db.version => CanResume(FromSnapshot(db.snapshot), c)]_vars
  <2> SUFFICES ASSUME MemoryInv, NEW u \in Tabs, NEW t \in Tabs, Resumed(u),
                      Mutation(t) \/ AttachmentStep(t) \/ Settle(t) \/ Session(t) \/ Whole(t)
               PROVE  \E c \in credentials :
                        /\ tab'[u].vault.key = c.key
                        /\ CanResume(FromSnapshot(tab[u].job.snapshot), c)
                        /\ tab'[u].version = db.version => CanResume(FromSnapshot(db.snapshot), c)
    BY DEF Next, vars, Resumed
  <2>1. /\ At(u, "latest") /\ tab[u] \in OpenTab /\ V(u).key = None
        /\ tab'[u] # None /\ tab'[u].job = Idle /\ tab'[u].vault.key # None
        /\ tab[u].job.at = "latest" /\ tab[u] # None
    BY FreeTab DEF Resumed, IsUnlocked, At, Healthy
  <2>2. Idle.at = "idle"
    BY DEF Idle
  <2>3. tab \in [Tabs -> OpenTab \cup {None}]
    BY DEF MemoryInv, TypeOK
  <2>4. t = u
    <3>1. (\E o : tab' = [tab EXCEPT ![t] = o]) \/ tab' = tab
      <4>1. CASE CommitTransaction(t)
        BY <4>1 DEF CommitTransaction, Becomes
      <4>2. CASE ~CommitTransaction(t)
        BY <4>2, MutationSound, AttachmentSound, SettleSound, SessionSound, WholeSound DEF Moves
      <4>. QED  BY <4>1, <4>2
    <3>. QED  BY <2>1, <2>2, <2>3, <3>1
  <2>5. ~Free(t) /\ \A label : At(t, label) => label = "latest"
    BY <2>1, <2>2, <2>4 DEF Free, At
  <2>6. ~Mutation(t)
    BY <2>5 DEF Mutation, SessionCreate, InitializeFromRemote, SessionChangePassphrase,
         SessionInstallRecoveryKit, SessionCreateResume, SessionPutItem, SessionUpdateItem,
         SessionTrashItem, SessionRestoreItem, ApplyRemoteEncryptedItem
  <2>7. ~AttachmentStep(t)
    BY <2>5 DEF AttachmentStep, EncryptChunk, CancelImport, CommitDeletion, DeletionThrows,
         ReadManifest, StartPurge, AddAttachment, StartDeleteAttachment
  <2>8. ~Settle(t)
    BY <2>1, <2>4, <2>5 DEF Settle, CommitTransaction, SaveReturns, PoisonAfterDurabilityFailure,
         ReplaceReturns, ReplaceThrows
  <2>9. ~Whole(t)
    BY <2>1, <2>2, <2>4, <2>5 DEF Whole, ExportEncryptedSnapshot, ExportRemoteAccountRootWrap,
         ImportEncryptedSnapshot, Reset
  <2>10. ~Load(t) /\ ~Close(t) /\ ~StartResume(t) /\ ~ReadLatest(t) /\ ~ReadThrows(t)
    BY <2>1, <2>3, <2>4, <2>5 DEF Load, Close, StartResume, ReadLatest, ReadThrows
  <2>11. ~SessionUnlock(t) /\ ~SessionLock(t)
    <3>1. \A v : Becomes(t, v, tab[t].job) => tab'[t].job = tab[t].job
      BY <2>1, <2>3, <2>4 DEF Becomes, OpenTab
    <3>. QED  BY <2>1, <2>2, <2>4, <3>1 DEF SessionUnlock, SessionLock
  <2> DEFINE o == Refreshed(t)
             read == tab[t].job.snapshot
  <2>12. /\ o \in OpenTab /\ o.vault.store = StoreOf(read) /\ o.vault.key = None
         /\ o.version = db.version => o.vault.store = StoreOf(db.snapshot)
    BY <2>1, <2>4, RefreshedSound DEF V, IsUnlocked
  <2>13. ~ResumeThrows(t)
    BY <2>1, <2>3, <2>4, <2>12 DEF ResumeThrows, OpenTab
  <2>14. PICK c \in credentials : Resume(t, c)
    BY <2>6, <2>7, <2>8, <2>9, <2>10, <2>11, <2>13 DEF Session
  <2>15. CanResume(o.vault, c) /\ c \in Credential
    BY <2>14 DEF Resume, MemoryInv, TypeOK
  <2>16. \A snapshot : o.vault.store = StoreOf(snapshot) => CanResume(FromSnapshot(snapshot), c)
    BY <2>15 DEF CanResume, StoreOf, IsInitialized, Binding
  <2>17. UnlockWithSessionResume(o.vault, c).key = c.key
    BY <2>12 DEF UnlockWithSessionResume, OpenTab, Vault
  <2>18. /\ tab'[t].vault = UnlockWithSessionResume(o.vault, c)
         /\ tab'[t].version = o.version
    BY <2>1, <2>3, <2>4, <2>12, <2>14 DEF Resume, OpenTab
  <2>. QED  BY <2>4, <2>12, <2>16, <2>17, <2>18
<1>. QED  BY <1>1, MemoryInvariant, PTL DEF Spec, ResumeIsNewest

-----------------------------------------------------------------------------
(* One root key.                                                            *)

(* An unlocked vault holds the key its store is sealed under.               *)
Keyed(v, n) == Sealed(v.store, n) /\ (v.key # None => v.key = v.store.root.key)

LEMMA PresentFinite ==
  ASSUME NEW items \in [Ids -> Row \cup {None}]
  PROVE  /\ Present(items) \subseteq Ids /\ IsFiniteSet(Present(items))
         /\ Cardinality(Present(items)) \in Nat
         /\ \A id \in Ids, row \in Row :
              Cardinality(Present([items EXCEPT ![id] = row])) =
                IF items[id] = None THEN Cardinality(Present(items)) + 1 ELSE Cardinality(Present(items))
<1>1. IsFiniteSet(Ids)
  BY FS_AddElement DEF Ids
<1>2. Present(items) \subseteq Ids
  BY DEF Present
<1>3. IsFiniteSet(Present(items)) /\ Cardinality(Present(items)) \in Nat
  BY <1>1, <1>2, FS_Subset, FS_CardinalityType
<1>4. ASSUME NEW id \in Ids, NEW row \in Row
      PROVE  Cardinality(Present([items EXCEPT ![id] = row])) =
               IF items[id] = None THEN Cardinality(Present(items)) + 1 ELSE Cardinality(Present(items))
  <2>1. row # None
    OBVIOUS
  <2>2. Present([items EXCEPT ![id] = row]) = Present(items) \cup {id}
    BY <2>1 DEF Present
  <2>3. id \in Present(items) <=> items[id] # None
    BY DEF Present
  <2>. QED  BY <1>3, <2>2, <2>3, FS_AddElement
<1>. QED  BY <1>2, <1>3, <1>4

LEMMA WriteSealed ==
  ASSUME NEW v \in Vault, NEW n \in Nat, NEW m \in Nat, n <= m, Keyed(v, n), v.key # None, Rooted(v),
         NEW id \in Ids, NEW row \in Row, row.key = v.key, row.files \subseteq 1..m,
         row.at = "tombstone" => row.files = {},
         v.store.items[id] = None => CanInsert(v, id)
  PROVE  Keyed(Write(v, id, row), m)
<1> DEFINE w == Write(v, id, row)
           items == v.store.items
<1>1. /\ w.key = v.key /\ w.store.root = v.store.root /\ w.store.kit = v.store.kit
      /\ w.store.items = [items EXCEPT ![id] = row] /\ items \in [Ids -> Row \cup {None}]
  BY DEF Write, Vault, MemStore
<1> HIDE DEF w
<1>2. v.store.root # None /\ v.key = v.store.root.key /\ Sealed(v.store, n)
  BY DEF Keyed, Rooted
<1>3. Cardinality(Present(w.store.items)) <= ITEM_MAX_OBJECTS
  <2>1. Cardinality(Present(items)) \in Nat /\ Cardinality(Present(items)) <= ITEM_MAX_OBJECTS
    BY <1>1, <1>2, PresentFinite DEF Sealed, Decodes
  <2>2. items[id] = None => Cardinality(Present(items)) + 1 <= ITEM_MAX_OBJECTS
    BY DEF CanInsert
  <2>. QED  BY <1>1, <2>1, <2>2, PresentFinite
<1>4. Decodes(w.store)
  BY <1>1, <1>2, <1>3 DEF Decodes
<1>5. ASSUME NEW x \in Ids, w.store.items[x] # None
      PROVE  /\ w.store.items[x].key = w.store.root.key /\ w.store.items[x].files \subseteq 1..m
             /\ w.store.items[x].at = "tombstone" => w.store.items[x].files = {}
  <2>1. CASE x = id
    BY <1>1, <1>2, <2>1
  <2>2. CASE x # id
    <3>1. w.store.items[x] = items[x]
      BY <1>1, <2>2
    <3>2. 1..n \subseteq 1..m
      OBVIOUS
    <3>. QED  BY <1>1, <1>2, <1>5, <3>1, <3>2 DEF Sealed
  <2>. QED  BY <2>1, <2>2
<1>6. Sealed(w.store, m)
  BY <1>1, <1>2, <1>4, <1>5 DEF Sealed
<1>. QED  BY <1>1, <1>2, <1>6 DEF Keyed, w

LEMMA SealedLater ==
  ASSUME NEW store, NEW n \in Nat, NEW m \in Nat, n <= m, Sealed(store, n)
  PROVE  Sealed(store, m)
<1>1. 1..n \subseteq 1..m
  OBVIOUS
<1>. QED  BY <1>1 DEF Sealed

(* Making a vault, rewrapping its key, and the recovery kit.                 *)
LEMMA RootSealed ==
  ASSUME NEW v \in Vault, NEW n \in Nat, Keyed(v, n), NEW key \in Nonces, NEW nonce \in Nonces,
         NEW imports, v.store.root = None \/ v.store.root.key = key
  PROVE  Keyed([v EXCEPT !.store.root = WrapRootKey(key, nonce), !.imports = imports, !.key = key], n)
<1> DEFINE w == [v EXCEPT !.store.root = WrapRootKey(key, nonce), !.imports = imports, !.key = key]
<1>1. /\ w.store.root # None /\ w.store.root.key = key /\ w.key = key
      /\ w.store.kit = v.store.kit /\ w.store.items = v.store.items
      /\ v.store.items \in [Ids -> Row \cup {None}]
  BY DEF WrapRootKey, Wrap, Vault, MemStore
<1> HIDE DEF w
<1>2. v.store.root = None => v.store.kit = None /\ \A id \in Ids : v.store.items[id] = None
  BY <1>1 DEF Keyed, Sealed, Decodes, Present
<1>3. Sealed(w.store, n)
  BY <1>1, <1>2 DEF Keyed, Sealed, Decodes
<1>. QED  BY <1>1, <1>3 DEF Keyed, w

LEMMA KitSealed ==
  ASSUME NEW v \in Vault, NEW n \in Nat, Keyed(v, n), v.key # None, Rooted(v), NEW nonce \in Nonces
  PROVE  Keyed(InstallRecoveryKit(v, nonce), n)
<1> DEFINE w == InstallRecoveryKit(v, nonce)
<1>1. /\ w.store.root = v.store.root /\ w.key = v.key /\ w.store.items = v.store.items
      /\ w.store.kit.key = v.key
  BY DEF InstallRecoveryKit, WrapWithRecoverySecret, Vault, MemStore
<1> HIDE DEF w
<1>. QED  BY <1>1 DEF Keyed, Sealed, Decodes, Rooted, w

LEMMA SnapshotKeyed ==
  ASSUME NEW snapshot, NEW n, Sealed(StoreOf(snapshot), n)
  PROVE  Keyed(FromSnapshot(snapshot), n)
BY DEF Keyed, StoreOf, FromSnapshot

LEMMA UnlockKeyed ==
  ASSUME NEW v \in Vault, NEW n, Keyed(v, n)
  PROVE  /\ Keyed(Unlock(v), n)
         /\ v.store.kit # None => Keyed(UnlockWithRecoveryKit(v), n)
         /\ \A c : c.key = v.store.root.key => Keyed(UnlockWithSessionResume(v, c), n)
         /\ Keyed(Lock(v), n)
<1>1. \A key : [v EXCEPT !.key = key].store = v.store /\ [v EXCEPT !.key = key].key = key
  BY DEF Vault
<1>2. Lock(v).store = v.store /\ Lock(v).key = None
  BY DEF Lock, Vault
<1>. QED  BY <1>1, <1>2 DEF Keyed, Unlock, UnlockWithRecoveryKit, UnlockWithSessionResume,
              UnwrapRootKey, UnwrapWithRecoverySecret, Sealed

-----------------------------------------------------------------------------
(* Attachments stay whole.                                                  *)

Names(store, i) == IF store.items[i] = None THEN {} ELSE store.items[i].files

IsHeld(store, manifests, chunks, f, i) ==
  /\ manifests[f] # None
  /\ manifests[f].at = "active" /\ manifests[f].owner = i
  /\ manifests[f].key = store.root.key
  /\ ChunksOf(f, manifests[f].chunks) \subseteq chunks

FilesOK(store, manifests, chunks) ==
  /\ \A i \in Items : \A f \in Names(store, i) : IsHeld(store, manifests, chunks, f, i)
  /\ \A chunk \in chunks : \E i \in Items :
       chunk[1] \in Names(store, i) /\ chunk[2] < manifests[chunk[1]].chunks

LEMMA FilesNamed ==
  ASSUME NEW d, StoreOf(d.snapshot) \in MemStore
  PROVE  FilesIn(d) <=> FilesOK(StoreOf(d.snapshot), d.manifests, d.chunks)
<1> DEFINE store == StoreOf(d.snapshot)
<1>1. \A i : i \in Holders(store) <=> i \in Items /\ store.items[i] # None
  BY DEF Holders, Present, MemStore, Ids
<1>2. \A i \in Items : \A f : f \in Names(store, i) <=> i \in Holders(store) /\ f \in store.items[i].files
  BY <1>1 DEF Names
<1>3. \A i \in Holders(store) : i \in Items
  BY <1>1
<1> HIDE DEF store
<1>. QED  BY <1>2, <1>3 DEF FilesIn, FilesOK, IsHeld, store

(* What a transaction over the database makes of its files.                 *)
LEMMA AppliedFiles ==
  ASSUME NEW d \in Database, NEW tx \in Tx, StoreOf(tx.snapshot) \in MemStore,
         FilesOK(StoreOf(tx.snapshot),
                 [f \in Nonces |-> IF tx.wipe \/ tx.puts[f] # None THEN tx.puts[f] ELSE d.manifests[f]],
                 (IF tx.wipe THEN {} ELSE d.chunks \ tx.drops) \cup tx.adds)
  PROVE  FilesIn(Applied(d, tx))
<1> DEFINE a == Applied(d, tx)
<1>1. /\ a.snapshot = tx.snapshot
      /\ a.manifests =
           [f \in Nonces |-> IF tx.wipe \/ tx.puts[f] # None THEN tx.puts[f] ELSE d.manifests[f]]
      /\ a.chunks = (IF tx.wipe THEN {} ELSE d.chunks \ tx.drops) \cup tx.adds
  BY DEF Applied
<1> HIDE DEF a
<1>. QED  BY <1>1, FilesNamed DEF a

(* Who names what, before and after.                                        *)
RootKept(old, new) == \A i \in Items : Names(old, i) # {} => new.root.key = old.root.key

LEMMA NamesAreDrawn ==
  ASSUME NEW store \in MemStore, NEW n, Sealed(store, n), NEW i \in Items
  PROVE  Names(store, i) \subseteq Nonces /\ Names(store, i) \subseteq 1..n
BY DEF Names, MemStore, Row, Sealed, Ids

(* A save that leaves the attachments.                                      *)
LEMMA PlainFiles ==
  ASSUME NEW d \in Database, NEW e \in Nat, NEW old \in MemStore, NEW new \in MemStore,
         FilesOK(old, d.manifests, d.chunks), RootKept(old, new),
         \A i \in Items : Names(new, i) = Names(old, i)
  PROVE  FilesIn(Applied(d, SaveSnapshot(e, new)))
<1> DEFINE tx == SaveSnapshot(e, new)
<1>1. tx \in Tx /\ tx.snapshot = new
  BY SavesTyped DEF Tells
<1>2. ~tx.wipe /\ tx.puts = NoManifests /\ tx.adds = {} /\ tx.drops = {}
  BY DEF SaveSnapshot, Transaction
<1> HIDE DEF tx
<1>3. StoreOf(new) = new
  BY DEF StoreOf, FromSnapshot
<1>4. [f \in Nonces |-> IF tx.wipe \/ tx.puts[f] # None THEN tx.puts[f] ELSE d.manifests[f]] = d.manifests
  BY <1>2 DEF NoManifests, Database, Manifests
<1>5. (IF tx.wipe THEN {} ELSE d.chunks \ tx.drops) \cup tx.adds = d.chunks
  BY <1>2
<1>6. FilesOK(new, d.manifests, d.chunks)
  BY DEF FilesOK, IsHeld, RootKept
<1>. QED  BY <1>1, <1>3, <1>4, <1>5, <1>6, AppliedFiles DEF tx

(* An import adds one attachment to an item.                                *)
LEMMA ImportFiles ==
  ASSUME NEW d \in Database, NEW e \in Nat, NEW old \in MemStore, NEW new \in MemStore,
         FilesOK(old, d.manifests, d.chunks), RootKept(old, new),
         NEW i \in Items, NEW f \in Nonces, NEW m \in Manifest,
         \A j \in Items : f \notin Names(old, j),
         \A j \in Items : Names(new, j) = IF j = i THEN Names(old, i) \cup {f} ELSE Names(old, j),
         m.key = new.root.key, m.at = "active", m.owner = i
  PROVE  FilesIn(Applied(d, SaveAttachmentImport(e, new, f, m)))
<1> DEFINE tx == SaveAttachmentImport(e, new, f, m)
<1>1. tx \in Tx /\ tx.snapshot = new
  BY SavesTyped DEF Tells
<1>2. /\ ~tx.wipe /\ tx.puts = [NoManifests EXCEPT ![f] = m]
      /\ tx.adds = ChunksOf(f, m.chunks) /\ tx.drops = {}
  BY DEF SaveAttachmentImport, Transaction
<1> HIDE DEF tx
<1>3. StoreOf(new) = new
  BY DEF StoreOf, FromSnapshot
<1> DEFINE manifests ==
             [g \in Nonces |-> IF tx.wipe \/ tx.puts[g] # None THEN tx.puts[g] ELSE d.manifests[g]]
           chunks == (IF tx.wipe THEN {} ELSE d.chunks \ tx.drops) \cup tx.adds
<1>4. manifests[f] = m /\ \A g \in Nonces \ {f} : manifests[g] = d.manifests[g]
  BY <1>2 DEF NoManifests
<1>5. chunks = d.chunks \cup ChunksOf(f, m.chunks)
  BY <1>2
<1>6. d.chunks \subseteq Nonces \X Nat /\ m.chunks \in Nat /\ m # None
  BY DEF Database, Manifest
<1>7. \A j \in Items : Names(new, j) \subseteq Nonces
  BY DEF Names, MemStore, Row, Ids
<1> HIDE DEF manifests, chunks
<1>8. ASSUME NEW j \in Items, NEW g \in Names(new, j)
      PROVE  IsHeld(new, manifests, chunks, g, j)
  <2>1. CASE g = f
    BY <1>4, <1>5, <1>6, <1>8, <2>1 DEF IsHeld
  <2>2. CASE g # f
    BY <1>4, <1>5, <1>7, <1>8, <2>2 DEF IsHeld, FilesOK, RootKept
  <2>. QED  BY <2>1, <2>2
<1>9. ASSUME NEW chunk \in chunks
      PROVE  \E j \in Items : chunk[1] \in Names(new, j) /\ chunk[2] < manifests[chunk[1]].chunks
  <2>1. CASE chunk \in d.chunks
    <3>1. PICK j \in Items : chunk[1] \in Names(old, j) /\ chunk[2] < d.manifests[chunk[1]].chunks
      BY <2>1 DEF FilesOK
    <3>. QED  BY <1>4, <1>6, <2>1, <3>1
  <2>2. CASE chunk \in ChunksOf(f, m.chunks)
    BY <1>4, <1>6, <2>2 DEF ChunksOf
  <2>. QED  BY <1>5, <1>9, <2>1, <2>2
<1>10. FilesOK(new, manifests, chunks)
  BY <1>8, <1>9 DEF FilesOK
<1>. QED  BY <1>1, <1>3, <1>10, AppliedFiles DEF tx, manifests, chunks

(* A deletion or a purge takes attachments from an item.                    *)
LEMMA PurgeFiles ==
  ASSUME NEW d \in Database, NEW e \in Nat, NEW old \in MemStore, NEW new \in MemStore,
         FilesOK(old, d.manifests, d.chunks), RootKept(old, new),
         NEW i \in Items, NEW got \in Manifests,
         \A f \in Present(got) : got[f] = d.manifests[f] /\ f \in Names(old, i),
         \A j \in Items :
           Names(new, j) = IF j = i THEN Names(old, i) \ Present(got) ELSE Names(old, j)
  PROVE  FilesIn(Applied(d, SaveItemPurge(e, new, got)))
<1> DEFINE tx == SaveItemPurge(e, new, got)
           P == Present(got)
<1>1. tx \in Tx /\ tx.snapshot = new
  BY SavesTyped DEF Tells
<1>2. /\ ~tx.wipe /\ tx.adds = {}
      /\ tx.puts = [f \in Nonces |-> IF got[f] = None THEN None ELSE Tombstone(got[f])]
      /\ tx.drops = UNION {ChunksOf(f, got[f].chunks) : f \in P}
  BY DEF SaveItemPurge, Transaction
<1> HIDE DEF tx
<1>3. StoreOf(new) = new
  BY DEF StoreOf, FromSnapshot
<1> DEFINE manifests ==
             [g \in Nonces |-> IF tx.wipe \/ tx.puts[g] # None THEN tx.puts[g] ELSE d.manifests[g]]
           chunks == (IF tx.wipe THEN {} ELSE d.chunks \ tx.drops) \cup tx.adds
<1>4. \A g \in Nonces \ P : manifests[g] = d.manifests[g]
  BY <1>2 DEF Present, Manifests
<1>5. chunks = d.chunks \ tx.drops
  BY <1>2
<1>6. d.chunks \subseteq Nonces \X Nat
  BY DEF Database
<1>7. \A j \in Items : Names(old, j) \subseteq Nonces
  BY DEF Names, MemStore, Row, Ids
<1>8. \A j \in Items : Names(new, j) = Names(old, j) \ P
  BY DEF FilesOK, IsHeld
<1>9. \A chunk \in tx.drops : chunk[1] \in P
  BY <1>2 DEF ChunksOf
<1> HIDE DEF manifests, chunks, P
<1>10. ASSUME NEW j \in Items, NEW g \in Names(new, j)
       PROVE  IsHeld(new, manifests, chunks, g, j)
  <2>1. g \in Names(old, j) /\ g \in Nonces \ P
    BY <1>7, <1>8, <1>10
  <2>2. IsHeld(old, d.manifests, d.chunks, g, j) /\ new.root.key = old.root.key
    BY <2>1 DEF FilesOK, RootKept
  <2>3. \A chunk \in ChunksOf(g, d.manifests[g].chunks) : chunk \notin tx.drops
    BY <1>9, <2>1 DEF ChunksOf
  <2>. QED  BY <1>4, <1>5, <2>1, <2>2, <2>3 DEF IsHeld
<1>11. ASSUME NEW chunk \in chunks
       PROVE  \E j \in Items : chunk[1] \in Names(new, j) /\ chunk[2] < manifests[chunk[1]].chunks
  <2>1. chunk \in d.chunks /\ chunk \notin tx.drops
    BY <1>5, <1>11
  <2>2. PICK j \in Items : chunk[1] \in Names(old, j) /\ chunk[2] < d.manifests[chunk[1]].chunks
    BY <2>1 DEF FilesOK
  <2>3. chunk[1] \notin P
    <3>1. SUFFICES ASSUME chunk[1] \in P PROVE chunk \in tx.drops
      BY <2>1
    <3>2. got[chunk[1]] = d.manifests[chunk[1]] /\ d.manifests[chunk[1]] # None
      BY <3>1 DEF P, Present
    <3>3. d.manifests[chunk[1]].chunks \in Nat /\ chunk[2] \in Nat /\ chunk = <<chunk[1], chunk[2]>>
      BY <1>6, <2>1, <3>2 DEF Database, Manifests, Manifest
    <3>4. chunk \in ChunksOf(chunk[1], got[chunk[1]].chunks)
      BY <2>2, <3>2, <3>3 DEF ChunksOf
    <3>. QED  BY <1>2, <3>1, <3>4
  <2>. QED  BY <1>4, <1>7, <1>8, <2>2, <2>3
<1>12. FilesOK(new, manifests, chunks)
  BY <1>10, <1>11 DEF FilesOK
<1>. QED  BY <1>1, <1>3, <1>12, AppliedFiles DEF tx, manifests, chunks

(* A restore, and a reset.                                                  *)
LEMMA ReplaceFiles ==
  ASSUME NEW d \in Database, NEW e \in Nat
  PROVE  /\ \A copy \in Backup : FilesIn(copy) => FilesIn(Applied(d, ReplaceVaultFromBackup(e, copy)))
         /\ FilesIn(Applied(d, ClearSnapshot(e)))
<1>1. ASSUME NEW copy \in Backup, FilesIn(copy)
      PROVE  FilesIn(Applied(d, ReplaceVaultFromBackup(e, copy)))
  <2> DEFINE a == Applied(d, ReplaceVaultFromBackup(e, copy))
  <2>1. /\ a.snapshot = copy.snapshot /\ a.chunks = copy.chunks
        /\ a.manifests = [f \in Nonces |-> copy.manifests[f]]
    BY DEF Applied, ReplaceVaultFromBackup, Transaction
  <2>2. a.manifests = copy.manifests
    BY <2>1 DEF Backup, Manifests
  <2> HIDE DEF a
  <2>3. \A x : FilesIn(x) = FilesIn([snapshot |-> x.snapshot, manifests |-> x.manifests, chunks |-> x.chunks])
    BY DEF FilesIn
  <2>4. FilesIn(a)
    BY <1>1, <2>1, <2>2, <2>3
  <2>. QED  BY <2>4 DEF a
<1>2. FilesIn(Applied(d, ClearSnapshot(e)))
  <2> DEFINE a == Applied(d, ClearSnapshot(e))
  <2>1. a.snapshot = None /\ a.chunks = {}
    BY DEF Applied, ClearSnapshot, Transaction
  <2> HIDE DEF a
  <2>2. Holders(StoreOf(None)) = {}
    BY DEF StoreOf, FromSnapshot, NewStore, Holders, Present
  <2>. QED  BY <2>1, <2>2 DEF FilesIn, a
<1>. QED  BY <1>1, <1>2

-----------------------------------------------------------------------------
(* What the tabs rely on.                                                   *)

(* An attachment under import is new, and is to be added to its item.        *)
Imports(store, job, n) ==
  /\ job.row.key = store.root.key /\ job.row.at = "active"
  /\ job.row.files = Names(store, job.item) \cup {job.file}
  /\ job.file \in 1..n /\ \A i \in Items : job.file \notin Names(store, i)
  /\ job.manifest.key = store.root.key
  /\ job.manifest.at = "active" /\ job.manifest.owner = job.item

(* A tab over the database d; what it is about to write keeps the files whole *)
(* if it is still at the database's version.                                *)
TabFiles(o, d, n, out) ==
  /\ Keyed(o.vault, n)
  /\ o.job.at = "saving" => Sealed(o.job.before, n)
  /\ o.job.at \in {"saving", "replacing"} =>
       /\ Sealed(StoreOf(o.job.tx.snapshot), n)
       /\ ~out /\ o.version = d.version => FilesIn(Applied(d, o.job.tx))
  /\ o.job.at \in {"replacing", "replaced"} => Keyed(o.job.vault, n)
  /\ o.job.at = "latest" => Sealed(StoreOf(o.job.snapshot), n)
  /\ o.job.at = "importing" => Imports(o.vault.store, o.job, n)
  /\ o.job.at = "reading" =>
       /\ o.version = d.version => \A f \in Present(o.job.got) : o.job.got[f] = d.manifests[f]
       /\ o.job.purge \/ \E f : o.job.left \cup Present(o.job.got) = {f}

FilesInv ==
  /\ SealedAlike /\ FilesStored
  /\ backup # None => Sealed(StoreOf(backup.snapshot), draws) /\ (~outside => FilesIn(backup))
  /\ \A t \in Tabs : tab[t] # None => TabFiles(tab[t], db, draws, outside)

LEMMA KeyedLater ==
  ASSUME NEW v, NEW n \in Nat, NEW m \in Nat, n <= m, Keyed(v, n)
  PROVE  Keyed(v, m)
BY SealedLater DEF Keyed

LEMMA TabFilesLater ==
  ASSUME NEW o, NEW d, NEW n \in Nat, NEW m \in Nat, n <= m,
         NEW out \in BOOLEAN, NEW later \in BOOLEAN, out => later,
         TabFiles(o, d, n, out)
  PROVE  TabFiles(o, d, m, later)
<1>1. \A store : Sealed(store, n) => Sealed(store, m)
  BY SealedLater
<1>2. \A v : Keyed(v, n) => Keyed(v, m)
  BY KeyedLater
<1>3. \A store, job : Imports(store, job, n) => Imports(store, job, m)
  BY DEF Imports
<1>. QED  BY <1>1, <1>2, <1>3 DEF TabFiles

(* The job that a step which leaves the store may take a tab to.             *)
Takes(o, d, n, job) ==
  \/ job = o.job
  \/ job.at \in {"idle", "resuming"}
  \/ job.at = "latest" /\ Sealed(StoreOf(job.snapshot), n)
  \/ job.at = "importing" /\ Imports(o.vault.store, job, n)
  \/ /\ job.at = "reading"
     /\ o.version = d.version => \A f \in Present(job.got) : job.got[f] = d.manifests[f]
     /\ job.purge \/ \E f : job.left \cup Present(job.got) = {f}

LEMMA StepFiles ==
  ASSUME NEW o \in OpenTab, NEW d, NEW n \in Nat, NEW m \in Nat, n <= m,
         NEW out \in BOOLEAN, NEW later \in BOOLEAN, out => later, TabFiles(o, d, n, out),
         NEW v \in Vault, v.store = o.vault.store, Keyed(v, m), NEW job \in Job, Takes(o, d, m, job)
  PROVE  TabFiles(With(o, v, job), d, m, later)
<1> DEFINE p == With(o, v, job)
<1>1. p.vault = v /\ p.job = job /\ p.version = o.version
  BY WithFields
<1> HIDE DEF p
<1>2. TabFiles(o, d, m, later)
  BY TabFilesLater
<1>. QED  BY <1>1, <1>2 DEF TabFiles, Takes, p

-----------------------------------------------------------------------------
(* The steps other than a commit: what they make of the tab.                *)

Grows == draws' \in Nat /\ draws <= draws' /\ outside' \in BOOLEAN /\ (outside => outside')
Files(t) == tab'[t] # None => TabFiles(tab'[t], db, draws', outside')

LEMMA TabFiled ==
  ASSUME MemoryInv, FilesInv, NEW t \in Tabs, tab[t] # None
  PROVE  /\ TabFiles(tab[t], db, draws, outside) /\ Keyed(V(t), draws)
         /\ Sealed(V(t).store, draws) /\ draws \in Nat /\ outside \in BOOLEAN
         /\ db \in Database
         /\ V(t).key # None => V(t).key = V(t).store.root.key /\ V(t).store.root # None
BY FreeTab DEF FilesInv, TabFiles, Keyed, V, MemoryInv, TypeOK, Rooted

(* What a tab at the database's version has is stored with its files.        *)
LEMMA StoreFiled ==
  ASSUME MemoryInv, FilesInv, NEW t \in Tabs, Healthy(t), Steady(tab[t].job),
         tab[t].version = db.version, ~outside
  PROVE  FilesOK(V(t).store, db.manifests, db.chunks)
<1>1. V(t).store = StoreOf(db.snapshot) /\ V(t).store \in MemStore
  BY FreeTab DEF Healthy, TabSound, InMemory, Steady, V
<1>. QED  BY <1>1, FilesNamed DEF FilesInv, FilesStored

LEMMA SaveFiles ==
  ASSUME MemoryInv, FilesInv, Grows, NEW t \in Tabs, Healthy(t), Steady(tab[t].job),
         NEW v \in Vault, Keyed(v, draws'),
         NEW tx \in Tx, Tells(tx, tab[t].version, v.store),
         NEW c \in Credential \cup {None}, Saves(t, v, tx, c),
         ~outside' /\ tab[t].version = db.version /\ FilesOK(V(t).store, db.manifests, db.chunks) =>
           FilesIn(Applied(db, tx))
  PROVE  Files(t)
<1> DEFINE o == tab[t]
           job == Saving(tx, o.vault.store, c)
           n == With(o, v, job)
<1>1. o \in OpenTab /\ o.vault = V(t) /\ tab[t] # None
  BY FreeTab DEF Healthy, V
<1>2. job \in Job
  BY <1>1 DEF Saving, Job, OpenTab, Vault
<1>3. job.at = "saving" /\ job.tx = tx /\ job.before = V(t).store
  BY <1>1 DEF Saving
<1>4. tab'[t] = n
  BY <1>1 DEF Saves, Becomes, With, V, MemoryInv, TypeOK
<1>5. StoreOf(tx.snapshot) = v.store
  BY DEF Tells, StoreOf, FromSnapshot, Vault
<1> HIDE DEF job
<1>6. n.vault = v /\ n.job = job /\ n.version = o.version
  BY <1>1, <1>2, WithFields
<1> HIDE DEF n
<1>7. Sealed(V(t).store, draws')
  BY <1>1, TabFiled, SealedLater DEF Grows
<1>8. ~outside' /\ o.version = db.version => FilesIn(Applied(db, tx))
  BY StoreFiled DEF Grows
<1>9. Sealed(v.store, draws')
  BY DEF Keyed
<1>10. TabFiles(n, db, draws', outside')
  BY <1>3, <1>5, <1>6, <1>7, <1>8, <1>9 DEF TabFiles
<1>. QED  BY <1>4, <1>10 DEF Files

(* A save of a snapshot that names the same attachments.                    *)
LEMMA PersistFiles ==
  ASSUME MemoryInv, FilesInv, Grows, NEW t \in Tabs, Free(t),
         NEW v \in Vault, Keyed(v, draws'), RootKept(V(t).store, v.store),
         ~outside' => \A i \in Items : Names(v.store, i) = Names(V(t).store, i),
         NEW c \in Credential \cup {None}, Saves(t, v, SaveSnapshot(tab[t].version, v.store), c)
  PROVE  Files(t)
<1> DEFINE tx == SaveSnapshot(tab[t].version, v.store)
<1>1. /\ tab[t] # None /\ Healthy(t) /\ Steady(tab[t].job) /\ tab[t].version \in Nat
      /\ V(t).store \in MemStore /\ v.store \in MemStore /\ db \in Database
  BY FreeTab, TabFiled DEF Free, Healthy, Vault
<1>2. tx \in Tx /\ Tells(tx, tab[t].version, v.store)
  BY <1>1, SavesTyped DEF Tells
<1>3. ~outside' /\ FilesOK(V(t).store, db.manifests, db.chunks) => FilesIn(Applied(db, tx))
  BY <1>1, PlainFiles
<1> HIDE DEF tx
<1>4. Saves(t, v, tx, c)
  BY DEF tx
<1>. QED  BY <1>1, <1>2, <1>3, <1>4, SaveFiles

LEMMA DrawGrows ==
  ASSUME MemoryInv, Draw \/ UNCHANGED draws, outside' \in BOOLEAN, outside => outside'
  PROVE  Grows /\ (Draw => draws' \in Nonces /\ draws' \in 1..draws' /\ draws' = draws + 1)
BY DEF Draw, Grows, MemoryInv, TypeOK

(* The calls about root key and kit.                                        *)
LEMMA KeyCallFiles ==
  ASSUME MemoryInv, FilesInv, Grows, NEW t \in Tabs,
         \/ SessionCreate(t) \/ InitializeFromRemote(t)
         \/ SessionChangePassphrase(t) \/ SessionInstallRecoveryKit(t)
  PROVE  Files(t)
<1>1. Free(t) /\ tab[t] # None /\ draws' \in Nonces
  BY Drawn DEF SessionCreate, InitializeFromRemote, SessionChangePassphrase,
               SessionInstallRecoveryKit, Free, Healthy
<1>2. /\ V(t) \in Vault /\ V(t).store \in MemStore /\ V(t).imports \in SUBSET Nonces
      /\ Keyed(V(t), draws) /\ Keyed(V(t), draws') /\ Rooted(V(t)) /\ draws \in Nat
  BY <1>1, FreeTab, TabFiled, KeyedLater DEF Vault, Grows
<1>3. ASSUME NEW v \in Vault, Keyed(v, draws'), v.store.items = V(t).store.items,
             V(t).store.root # None => v.store.root.key = V(t).store.root.key,
             MutateAndPersist(t, v)
      PROVE  Files(t)
  <2>1. \A i \in Items : Names(v.store, i) = Names(V(t).store, i)
    BY <1>3 DEF Names
  <2>2. V(t).store.root = None => \A i \in Items : Names(V(t).store, i) = {}
    BY <1>2 DEF Keyed, Sealed, Decodes, Present, Names, MemStore, Ids
  <2>3. RootKept(V(t).store, v.store)
    BY <1>3, <2>2 DEF RootKept
  <2>. QED  BY <1>1, <1>3, <2>1, <2>3, PersistFiles DEF MutateAndPersist
<1>4. ASSUME NEW key \in Nonces, NEW imports \in SUBSET Nonces, NEW n, n = draws',
             V(t).store.root = None \/ V(t).store.root.key = key,
             MutateAndPersist(t, [V(t) EXCEPT !.store.root = WrapRootKey(key, n),
                                              !.imports = imports, !.key = key])
      PROVE  Files(t)
  <2> DEFINE w == [V(t) EXCEPT !.store.root = WrapRootKey(key, n), !.imports = imports, !.key = key]
  <2>1. w \in Vault /\ Keyed(w, n)
    BY <1>1, <1>2, <1>4, RootSound, RootSealed DEF Grows
  <2>2. w.store.items = V(t).store.items /\ w.store.root.key = key
    BY <1>2 DEF Vault, MemStore, WrapRootKey
  <2> HIDE DEF w
  <2>3. MutateAndPersist(t, w)
    BY <1>4 DEF w
  <2>. QED  BY <1>3, <1>4, <2>1, <2>2, <2>3
<1>5. ASSUME NEW key \in Nonces, ~IsInitialized(V(t)),
             MutateAndPersist(t, InitializeRootWrap(V(t), key, draws'))
      PROVE  Files(t)
  <2>1. PICK imports \in SUBSET Nonces : imports = V(t).imports
    BY <1>2
  <2>2. PICK n : n = draws'
    OBVIOUS
  <2>3. InitializeRootWrap(V(t), key, draws') =
          [V(t) EXCEPT !.store.root = WrapRootKey(key, n), !.imports = imports, !.key = key]
    BY <1>2, <2>1, <2>2 DEF InitializeRootWrap, Vault
  <2>4. MutateAndPersist(t, [V(t) EXCEPT !.store.root = WrapRootKey(key, n),
                                         !.imports = imports, !.key = key])
    BY <1>5, <2>3
  <2>5. V(t).store.root = None
    BY <1>5 DEF IsInitialized
  <2>. QED  BY <1>4, <2>2, <2>4, <2>5
<1>6. CASE SessionCreate(t)
  BY <1>1, <1>5, <1>6 DEF SessionCreate, Create
<1>7. CASE InitializeFromRemote(t)
  <2>1. account.key \in Nonces
    BY <1>7 DEF InitializeFromRemote, MemoryInv, TypeOK, RemoteWrap
  <2>. QED  BY <1>5, <1>7, <2>1
       DEF InitializeFromRemote, InitializeFromRemoteWrap, UnwrapForRemoteAccount
<1>8. CASE SessionChangePassphrase(t)
  <2>1. UnwrapRootKey(V(t).store.root) \in Nonces
    BY <1>2, <1>8 DEF SessionChangePassphrase, Reauthenticates, IsInitialized, UnwrapRootKey,
                      Vault, MemStore, Wrap
  <2>2. V(t).store.root.key = UnwrapRootKey(V(t).store.root)
    BY DEF UnwrapRootKey
  <2>. QED  BY <1>4, <1>8, <2>1, <2>2 DEF SessionChangePassphrase, ChangePassphrase
<1>9. CASE SessionInstallRecoveryKit(t)
  <2>1. V(t).key # None
    BY <1>9 DEF SessionInstallRecoveryKit, IsUnlocked
  <2> DEFINE w == InstallRecoveryKit(V(t), draws')
  <2>2. w \in Vault /\ Keyed(w, draws')
    BY <1>1, <1>2, <2>1, KitSound, KitSealed DEF Grows
  <2>3. w.store.items = V(t).store.items /\ w.store.root = V(t).store.root
    BY <1>2 DEF InstallRecoveryKit, Vault, MemStore
  <2> HIDE DEF w
  <2>. QED  BY <1>3, <1>9, <2>2, <2>3 DEF SessionInstallRecoveryKit, w
<1>. QED  BY <1>6, <1>7, <1>8, <1>9

(* The calls about one record.                                              *)
LEMMA RecordFiles ==
  ASSUME MemoryInv, FilesInv, Grows, NEW t \in Tabs, Free(t), V(t).key # None,
         NEW id \in Ids, NEW row \in Row, row.key = V(t).key, row.files \subseteq 1..draws',
         V(t).store.items[id] # None => row.revision > V(t).store.items[id].revision,
         row.at = "tombstone" => row.files = {},
         V(t).store.items[id] = None => CanInsert(V(t), id),
         ~outside' /\ id \in Items => row.files = Names(V(t).store, id),
         NEW c \in Credential \cup {None}, NEW w, w = Write(V(t), id, row),
         Saves(t, w, SaveSnapshot(tab[t].version, w.store), c)
  PROVE  Files(t)
<1>1. V(t) \in Vault /\ Rooted(V(t)) /\ Keyed(V(t), draws) /\ draws \in Nat /\ draws' \in Nat
  BY FreeTab, TabFiled DEF Free, Healthy, Grows
<1>2. w \in Vault /\ w.store.root = V(t).store.root
  BY <1>1, WriteSound
<1>3. Keyed(w, draws')
  BY <1>1, WriteSealed DEF Grows
<1>4. w.store.items = [V(t).store.items EXCEPT ![id] = row] /\ V(t).store.items \in [Ids -> Row \cup {None}]
  BY <1>1 DEF Write, Vault, MemStore
<1>5. ~outside' => \A i \in Items : Names(w.store, i) = Names(V(t).store, i)
  BY <1>4 DEF Names, Ids
<1>6. RootKept(V(t).store, w.store)
  BY <1>2 DEF RootKept
<1>. QED  BY <1>2, <1>3, <1>5, <1>6, PersistFiles

LEMMA RevisedFiles ==
  ASSUME MemoryInv, FilesInv, Grows, NEW t \in Tabs, Free(t), NEW i \in Items, Draw,
         NEW from, Is(V(t), i, from), NEW at \in {"active", "trashed"},
         MutateAndPersist(t, Write(V(t), i, Revised(V(t), i, at, V(t).store.items[i].files, draws')))
  PROVE  Files(t)
<1> DEFINE files == V(t).store.items[i].files
           row == Revised(V(t), i, at, files, draws')
<1>1. /\ V(t) \in Vault /\ V(t).store \in MemStore /\ V(t).key # None
      /\ V(t).store.items[i] \in Row /\ V(t).store.items[i] # None
      /\ Keyed(V(t), draws) /\ draws \in Nat
  BY FreeTab, TabFiled DEF Free, Healthy, Is, IsUnlocked, Ids
<1>2. files \in SUBSET Nonces /\ files \subseteq 1..draws /\ 1..draws \subseteq 1..draws'
  BY <1>1, NamesAreDrawn DEF Keyed, Names, Grows
<1>3. i \in Ids /\ draws' \in Nonces
  BY Drawn DEF Ids
<1>4. row \in Row /\ row.revision > V(t).store.items[i].revision
  BY <1>1, <1>2, <1>3, RevisedSound
<1>5. row.key = V(t).key /\ row.files = files /\ row.at = at
  BY DEF Revised, EncryptItemState
<1>6. files = Names(V(t).store, i)
  BY <1>1 DEF Names
<1> HIDE DEF row, files
<1> DEFINE w == Write(V(t), i, row)
<1>7. Saves(t, w, SaveSnapshot(tab[t].version, w.store), None)
  BY DEF MutateAndPersist, row, files
<1> HIDE DEF w
<1>8. w = Write(V(t), i, row)
  BY DEF w
<1>. QED  BY <1>1, <1>2, <1>3, <1>4, <1>5, <1>6, <1>7, <1>8, RecordFiles

LEMMA ItemCallFiles ==
  ASSUME MemoryInv, FilesInv, Grows, NEW t \in Tabs, NEW i \in Items,
         \/ SessionPutItem(t, i) \/ SessionUpdateItem(t, i)
         \/ SessionTrashItem(t, i) \/ SessionRestoreItem(t, i)
         \/ \E revision \in 0..MaxRevision, at \in {"active", "trashed", "tombstone"} :
              Healthy(t) /\ \E files \in {{}, FilesOf(t, i), {draws + 1}} :
                ApplyRemoteEncryptedItem(t, i, revision, at, files)
  PROVE  Files(t)
<1>1. Free(t) /\ tab[t] # None /\ draws' \in Nonces /\ Draw /\ i \in Ids
  BY Drawn DEF SessionPutItem, SessionUpdateItem, SessionTrashItem, SessionRestoreItem,
               ApplyRemoteEncryptedItem, Free, Healthy, Ids
<1>2. /\ V(t) \in Vault /\ V(t).store \in MemStore /\ V(t).store.items[i] \in Row \cup {None}
      /\ Keyed(V(t), draws) /\ draws \in Nat /\ draws' = draws + 1
  BY <1>1, FreeTab, TabFiled DEF Draw
<1>3. CASE SessionPutItem(t, i)
  <2> DEFINE row == EncryptItemState(V(t).key, 0, "active", {}, draws')
  <2>1. V(t).key # None /\ V(t).store.items[i] = None /\ CanInsert(V(t), i)
    BY <1>3 DEF SessionPutItem, CanPut, CanInsert, IsUnlocked
  <2>2. V(t).key \in Nonces
    BY <1>2, <2>1 DEF Vault
  <2>3. row \in Row /\ row.key = V(t).key /\ row.files = {}
    BY <1>1, <2>2 DEF EncryptItemState, Row
  <2> HIDE DEF row
  <2> DEFINE w == Write(V(t), i, row)
  <2>4. Saves(t, w, SaveSnapshot(tab[t].version, w.store), None)
    BY <1>3 DEF SessionPutItem, PutItem, MutateAndPersist, row
  <2> HIDE DEF w
  <2>5. w = Write(V(t), i, row) /\ Names(V(t).store, i) = {}
    BY <2>1 DEF w, Names
  <2>. QED  BY <1>1, <2>1, <2>3, <2>4, <2>5, RecordFiles
<1>4. CASE SessionUpdateItem(t, i)
  BY <1>1, <1>4, RevisedFiles DEF SessionUpdateItem, UpdateItem
<1>5. CASE SessionTrashItem(t, i)
  BY <1>1, <1>5, RevisedFiles DEF SessionTrashItem, TrashItem
<1>6. CASE SessionRestoreItem(t, i)
  BY <1>1, <1>6, RevisedFiles DEF SessionRestoreItem, RestoreItem
<1>7. ASSUME NEW revision \in 0..MaxRevision, NEW at \in {"active", "trashed", "tombstone"},
             NEW files \in {{}, FilesOf(t, i), {draws + 1}},
             ApplyRemoteEncryptedItem(t, i, revision, at, files)
      PROVE  Files(t)
  <2> DEFINE held == IF at = "tombstone" THEN {} ELSE files
             row == EncryptItemState(V(t).key, revision, at, held, draws')
  <2>1. /\ CanApply(V(t), i, row) /\ MutateAndPersist(t, Write(V(t), i, row))
        /\ outside' = (outside \/ row.files # FilesOf(t, i))
    BY <1>7 DEF ApplyRemoteEncryptedItem, ApplyEncryptedItem
  <2>2. /\ FilesOf(t, i) = Names(V(t).store, i)
        /\ FilesOf(t, i) \subseteq Nonces /\ FilesOf(t, i) \subseteq 1..draws
    BY <1>2, NamesAreDrawn DEF FilesOf, Names, Keyed
  <2>3. 1..draws \subseteq 1..draws' /\ draws + 1 \in 1..draws'
    BY <1>2
  <2>4. held \in SUBSET Nonces /\ held \subseteq 1..draws'
    BY <1>1, <1>2, <2>2, <2>3
  <2>5. at = "tombstone" => held = {}
    OBVIOUS
  <2> HIDE DEF held
  <2>6. V(t).key # None /\ (V(t).store.items[i] # None => row.revision > V(t).store.items[i].revision)
        /\ (V(t).store.items[i] = None => CanInsert(V(t), i))
    BY <2>1 DEF CanApply, CanInsert, CanUpdate, IsUnlocked
  <2>7. V(t).key \in Nonces /\ revision \in Nat
    BY <1>2, <2>6 DEF Vault
  <2>8. row \in Row /\ row.key = V(t).key /\ row.files = held /\ row.at = at
    BY <1>1, <2>4, <2>7 DEF EncryptItemState, Row
  <2> HIDE DEF row
  <2>9. ~outside' => row.files = Names(V(t).store, i)
    BY <2>1, <2>2
  <2> DEFINE w == Write(V(t), i, row)
  <2>10. Saves(t, w, SaveSnapshot(tab[t].version, w.store), None)
    BY <2>1 DEF MutateAndPersist
  <2> HIDE DEF w
  <2>11. w = Write(V(t), i, row)
    BY DEF w
  <2>. QED  BY <1>1, <2>4, <2>5, <2>6, <2>8, <2>9, <2>10, <2>11, RecordFiles
<1>. QED  BY <1>3, <1>4, <1>5, <1>6, <1>7

(* The marker is no item, and names no attachment.                          *)
LEMMA ResumeCallFiles ==
  ASSUME MemoryInv, FilesInv, Grows, NEW t \in Tabs, SessionCreateResume(t)
  PROVE  Files(t)
<1>1. /\ Free(t) /\ draws' \in Nonces /\ Marker \in Ids /\ Marker \notin Items
      /\ V(t).key # None /\ V(t).store.root # None
      /\ V(t).store.items[Marker] = None => CanInsert(V(t), Marker)
  BY Drawn DEF SessionCreateResume, CanCreateSessionResume, IsUnlocked, IsInitialized, Ids, Is
<1>2. V(t) \in Vault /\ V(t).key \in Nonces /\ V(t).store.root \in Wrap
  BY <1>1, FreeTab DEF Free, Healthy, Vault, MemStore
<1> DEFINE row == NextMarker(V(t), draws')
           w == Write(V(t), Marker, row)
<1>3. row \in Row /\ (V(t).store.items[Marker] # None => row.revision > V(t).store.items[Marker].revision)
  <2>1. CASE V(t).store.items[Marker] = None
    BY <1>1, <1>2, <2>1 DEF NextMarker, EncryptItemState, Row
  <2>2. CASE V(t).store.items[Marker] # None
    BY <1>1, <1>2, <2>2, RevisedSound DEF NextMarker
  <2>. QED  BY <2>1, <2>2
<1>4. row.key = V(t).key /\ row.files = {} /\ row.at = "active"
  BY DEF NextMarker, EncryptItemState, Revised
<1> HIDE DEF row
<1>5. /\ w \in Vault /\ w.key = V(t).key /\ w.store.root = V(t).store.root
      /\ w.store.items[Marker] = row
  BY <1>1, <1>2, <1>3, WriteSound
<1> HIDE DEF w
<1>6. SessionResumeCredential(w) \in Credential
  <2>1. SessionResumeCredential(w) =
          [key |-> V(t).key, binding |-> [root |-> V(t).store.root, marker |-> row]]
    BY <1>5 DEF SessionResumeCredential, WrapWithSessionResume, Binding
  <2>. QED  BY <1>2, <1>3, <2>1 DEF Credential
<1>7. Saves(t, w, SaveSnapshot(tab[t].version, w.store), SessionResumeCredential(w))
  BY DEF SessionCreateResume, CreateSessionResume, w, row
<1>8. w = Write(V(t), Marker, row)
  BY DEF w
<1>. QED  BY <1>1, <1>3, <1>4, <1>6, <1>7, <1>8, RecordFiles

-----------------------------------------------------------------------------
(* Attachments.                                                             *)

LEMMA ImportCommitFiles ==
  ASSUME MemoryInv, FilesInv, Grows, NEW t \in Tabs, Healthy(t), Steady(tab[t].job), V(t).key # None,
         NEW job, job.item \in Items, job.file \in Nonces, job.row \in Row, job.manifest \in Manifest,
         V(t).store.items[job.item] # None,
         job.row.revision > V(t).store.items[job.item].revision,
         Imports(V(t).store, job, draws'),
         CommitsImport(t, job)
  PROVE  Files(t)
<1> DEFINE i == job.item
           f == job.file
           u == CancelAttachmentImport(V(t), f)
           w == Write(u, i, job.row)
           tx == SaveAttachmentImport(tab[t].version, w.store, f, job.manifest)
<1>1. /\ V(t) \in Vault /\ V(t).store \in MemStore /\ Rooted(V(t)) /\ tab[t].version \in Nat
      /\ tab[t] # None /\ Keyed(V(t), draws) /\ draws \in Nat /\ db \in Database /\ i \in Ids
      /\ V(t).key = V(t).store.root.key /\ draws' \in Nat /\ draws <= draws'
  BY FreeTab, TabFiled DEF Healthy, Ids, Grows
<1>2. u \in Vault /\ u.store = V(t).store /\ u.key = V(t).key
  BY <1>1 DEF CancelAttachmentImport, Vault
<1>3. Keyed(u, draws) /\ Rooted(u)
  BY <1>1, <1>2 DEF Keyed, Rooted
<1> HIDE DEF u
<1>4. /\ job.row.key = u.key /\ job.row.files \subseteq 1..draws' /\ job.row.at = "active"
      /\ job.row.files = Names(V(t).store, i) \cup {f}
  <2>1. Names(V(t).store, i) \subseteq 1..draws /\ 1..draws \subseteq 1..draws'
    BY <1>1, NamesAreDrawn DEF Keyed
  <2>. QED  BY <1>1, <1>2, <2>1 DEF Imports
<1>5. w \in Vault /\ w.store.root = V(t).store.root
  BY <1>1, <1>2, WriteSound
<1>6. Keyed(w, draws')
  BY <1>1, <1>2, <1>3, <1>4, WriteSealed
<1>7. w.store.items = [V(t).store.items EXCEPT ![i] = job.row] /\ V(t).store.items \in [Ids -> Row \cup {None}]
  BY <1>1, <1>2 DEF Write, Vault, MemStore
<1>8. CommitsImport(t, job) = Saves(t, w, tx, None)
  BY DEF CommitsImport, CommitAttachmentImport, u
<1> HIDE DEF w
<1>9. w.store \in MemStore
  BY <1>5 DEF Vault
<1>10. tx \in Tx /\ Tells(tx, tab[t].version, w.store)
  <2>1. \A g \in Nonces, m \in Manifest :
          Tells(SaveAttachmentImport(tab[t].version, w.store, g, m), tab[t].version, w.store)
    BY <1>1, <1>9, SavesTyped
  <2>2. Tells(tx, tab[t].version, w.store)
    BY <2>1
  <2>. QED  BY <2>2 DEF Tells
<1>11. FilesOK(V(t).store, db.manifests, db.chunks) => FilesIn(Applied(db, tx))
  <2>1. RootKept(V(t).store, w.store)
    BY <1>5 DEF RootKept
  <2>2. \A j \in Items : f \notin Names(V(t).store, j)
    BY DEF Imports
  <2>3. \A j \in Items :
          Names(w.store, j) = IF j = i THEN Names(V(t).store, i) \cup {f} ELSE Names(V(t).store, j)
    BY <1>4, <1>7 DEF Names, Ids
  <2>4. job.manifest.key = w.store.root.key /\ job.manifest.at = "active" /\ job.manifest.owner = i
    BY <1>5 DEF Imports
  <2>. QED  BY <1>1, <1>9, <2>1, <2>2, <2>3, <2>4, ImportFiles
<1> HIDE DEF tx
<1>. QED  BY <1>5, <1>6, <1>8, <1>10, <1>11, SaveFiles

(* A step to another job that leaves the store.                             *)
LEMMA JobFiles ==
  ASSUME MemoryInv, FilesInv, Grows, NEW t \in Tabs, tab[t] # None,
         NEW v \in Vault, v.store = V(t).store, Keyed(v, draws'), NEW job \in Job,
         Takes(tab[t], db, draws', job),
         Becomes(t, v, job)
  PROVE  Files(t)
<1> DEFINE o == tab[t]
<1>1. /\ o \in OpenTab /\ TabFiles(o, db, draws, outside) /\ v.store = o.vault.store
      /\ draws \in Nat /\ outside \in BOOLEAN
  BY FreeTab, TabFiled DEF V
<1>2. TabFiles(With(o, v, job), db, draws', outside')
  <2>1. PICK m \in Nat, later \in BOOLEAN : m = draws' /\ later = outside'
    BY DEF Grows
  <2>2. draws <= m /\ (outside => later) /\ Keyed(v, m) /\ Takes(o, db, m, job)
    BY <2>1 DEF Grows
  <2> HIDE DEF o
  <2>3. TabFiles(With(o, v, job), db, m, later)
    BY <1>1, <2>2, StepFiles
  <2>. QED  BY <2>1, <2>3
<1>3. tab'[t] = With(o, v, job)
  BY DEF Becomes, With, MemoryInv, TypeOK
<1>. QED  BY <1>2, <1>3 DEF Files

LEMMA AddFiles ==
  ASSUME MemoryInv, FilesInv, Grows, NEW t \in Tabs, NEW i \in Items, NEW chunks \in 0..MaxChunks,
         AddAttachment(t, i, chunks)
  PROVE  Files(t)
<1> DEFINE f == draws'
           held == V(t).store.items[i].files \cup {f}
           row == Revised(V(t), i, "active", held, f)
           manifest == SealManifest(V(t).key, 1, "active", i, chunks)
           job == Importing(i, f, row, manifest, 0)
<1>1. /\ Free(t) /\ Healthy(t) /\ Steady(tab[t].job) /\ f \in Nonces /\ i \in Ids /\ tab[t] # None
      /\ V(t).key # None /\ V(t).store.items[i] # None /\ chunks \in Nat /\ f = draws + 1
  BY Drawn DEF AddAttachment, CanBeginImport, Is, IsUnlocked, Ids, Free, Healthy, Steady, Idle, Draw
<1>2. /\ V(t) \in Vault /\ V(t).store \in MemStore /\ Rooted(V(t)) /\ V(t).key \in Nonces
      /\ V(t).store.items[i] \in Row /\ V(t).key = V(t).store.root.key
      /\ Keyed(V(t), draws) /\ Keyed(V(t), draws') /\ draws \in Nat
  BY <1>1, FreeTab, TabFiled, KeyedLater DEF Healthy, Vault, Grows
<1>3. held \in SUBSET Nonces /\ held = Names(V(t).store, i) \cup {f}
  BY <1>1, <1>2 DEF Row, Names
<1>4. IF chunks = 0 THEN CommitsImport(t, job) ELSE Becomes(t, BeginAttachmentImport(V(t), f), job)
  BY DEF AddAttachment
<1>5. \A j \in Items : f \notin Names(V(t).store, j)
  <2>1. f \notin 1..draws
    BY <1>1, <1>2
  <2>. QED  BY <1>2, <2>1, NamesAreDrawn DEF Keyed
<1> HIDE DEF held
<1>6. row \in Row /\ row.revision > V(t).store.items[i].revision
  BY <1>1, <1>2, <1>3, RevisedSound
<1>7. row.key = V(t).key /\ row.files = held /\ row.at = "active"
  BY DEF Revised, EncryptItemState
<1>8. /\ manifest \in Manifest
      /\ manifest.key = V(t).key /\ manifest.at = "active" /\ manifest.owner = i
  BY <1>1, <1>2 DEF SealManifest, Manifest
<1> HIDE DEF row, manifest
<1>9. /\ job \in Job /\ job.at = "importing"
      /\ job.item = i /\ job.file = f /\ job.row = row /\ job.manifest = manifest
  BY <1>1, <1>6, <1>8 DEF Importing, Job
<1>10. f \in 1..draws'
  BY <1>1, <1>2
<1> HIDE DEF job
<1>11. Imports(V(t).store, job, draws')
  BY <1>2, <1>3, <1>5, <1>7, <1>8, <1>9, <1>10 DEF Imports
<1> DEFINE u == BeginAttachmentImport(V(t), f)
<1>12. u \in Vault /\ u.store = V(t).store /\ u.key = V(t).key
  BY <1>1, <1>2 DEF BeginAttachmentImport, Vault
<1>13. Keyed(u, draws')
  BY <1>2, <1>12 DEF Keyed
<1> HIDE DEF u
<1>14. CASE chunks = 0
  <2>1. CommitsImport(t, job)
    BY <1>4, <1>14
  <2> HIDE DEF f
  <2>2. job.item \in Items /\ job.file \in Nonces /\ job.row \in Row /\ job.manifest \in Manifest
    BY <1>1, <1>6, <1>8, <1>9
  <2>3. V(t).store.items[job.item] # None /\ job.row.revision > V(t).store.items[job.item].revision
    BY <1>1, <1>6, <1>9
  <2>. QED  BY <1>1, <1>11, <2>1, <2>2, <2>3, ImportCommitFiles
<1>15. CASE chunks # 0
  <2>1. Becomes(t, u, job)
    BY <1>4, <1>15 DEF u
  <2>2. Takes(tab[t], db, draws', job)
    BY <1>9, <1>11 DEF Takes, V
  <2>. QED  BY <1>1, <1>9, <1>12, <1>13, <2>1, <2>2, JobFiles
<1>. QED  BY <1>14, <1>15

LEMMA ImportStepFiles ==
  ASSUME MemoryInv, FilesInv, Grows, NEW t \in Tabs, EncryptChunk(t) \/ CancelImport(t)
  PROVE  Files(t)
<1> DEFINE o == tab[t]
<1>1. /\ Healthy(t) /\ o.job.at = "importing" /\ Steady(o.job) /\ o \in OpenTab /\ TabSound(o, db)
      /\ o # None
  BY FreeTab DEF EncryptChunk, CancelImport, At, Steady, Healthy
<1>2. /\ o.job \in Job /\ o.job.file \in Nonces /\ o.job.item \in Items /\ o.job.row \in Row
      /\ o.job.manifest \in Manifest /\ o.job.done \in Nat
  BY <1>1 DEF OpenTab, Job, Idle, Resuming
<1>3. V(t) \in Vault /\ V(t) = o.vault /\ Keyed(V(t), draws) /\ Keyed(V(t), draws')
  BY <1>1, FreeTab, TabFiled, KeyedLater DEF V, Grows
<1>4. V(t).store.items[o.job.item] # None /\ o.job.row.revision > V(t).store.items[o.job.item].revision
  BY <1>1, <1>3 DEF TabSound, JobSound
<1>5. Imports(V(t).store, o.job, draws')
  <2>1. TabFiles(o, db, draws', outside')
    BY <1>1, TabFiled, TabFilesLater DEF Grows
  <2>. QED  BY <1>1, <1>3, <2>1 DEF TabFiles
<1>6. CASE EncryptChunk(t)
  <2> DEFINE job == [o.job EXCEPT !.done = @ + 1]
  <2>1. /\ job \in Job /\ job.at = "importing" /\ job.file = o.job.file /\ job.item = o.job.item
        /\ job.row = o.job.row /\ job.manifest = o.job.manifest
    BY <1>1, <1>2, NextChunk
  <2>2. V(t).key # None
    BY <1>6 DEF EncryptChunk, CanEncryptChunk, IsUnlocked
  <2>3. CommitsImport(t, job) \/ Becomes(t, V(t), job)
    BY <1>6 DEF EncryptChunk
  <2> HIDE DEF job
  <2>4. Imports(V(t).store, job, draws')
    BY <1>5, <2>1 DEF Imports
  <2>5. CASE CommitsImport(t, job)
    BY <1>1, <1>2, <1>4, <2>1, <2>2, <2>4, <2>5, ImportCommitFiles
  <2>6. CASE Becomes(t, V(t), job)
    <3>1. Takes(o, db, draws', job)
      BY <1>3, <2>1, <2>4 DEF Takes
    <3>. QED  BY <1>1, <1>3, <2>1, <2>6, <3>1, JobFiles
  <2>. QED  BY <2>3, <2>5, <2>6
<1>7. CASE CancelImport(t)
  <2> DEFINE u == CancelAttachmentImport(V(t), o.job.file)
  <2>1. u \in Vault /\ u.store = V(t).store /\ u.key = V(t).key
    BY <1>3 DEF CancelAttachmentImport, Vault
  <2>2. Becomes(t, u, Idle)
    BY <1>7 DEF CancelImport
  <2> HIDE DEF u
  <2>3. Keyed(u, draws')
    BY <1>3, <2>1 DEF Keyed
  <2>4. Idle \in Job /\ Takes(o, db, draws', Idle)
    BY DEF Job, Idle, Takes
  <2>. QED  BY <1>1, <2>1, <2>2, <2>3, <2>4, JobFiles
<1>. QED  BY <1>6, <1>7

LEMMA ReadingFiles ==
  ASSUME MemoryInv, FilesInv, Grows, NEW t \in Tabs,
         \/ \E i \in Items : StartPurge(t, i) \/ \E f \in Nonces : StartDeleteAttachment(t, i, f)
         \/ DeletionThrows(t) \/ \E f \in Nonces : ReadManifest(t, f)
  PROVE  Files(t)
<1> DEFINE o == tab[t]
<1>1. o # None /\ o \in OpenTab /\ o.job \in Job /\ TabFiles(o, db, draws, outside)
  BY FreeTab, TabFiled DEF StartPurge, StartDeleteAttachment, ReadManifest, DeletionThrows,
                 Free, At, Healthy, OpenTab
<1>2. /\ V(t) \in Vault /\ Keyed(V(t), draws')
      /\ \A i \in Items : V(t).store.items[i] \in Row \cup {None}
      /\ NoManifests \in Manifests /\ Present(NoManifests) = {}
  BY <1>1, FreeTab, TabFiled, KeyedLater DEF Grows, NoManifests, Manifests, Ids, Present
<1>3. ASSUME NEW job \in Job, Becomes(t, V(t), job), job.at = "reading",
             o.version = db.version => \A f \in Present(job.got) : job.got[f] = db.manifests[f],
             job.purge \/ \E f : job.left \cup Present(job.got) = {f}
      PROVE  Files(t)
  BY <1>1, <1>2, <1>3, JobFiles DEF Takes
<1>4. ASSUME NEW i \in Items, StartPurge(t, i) PROVE Files(t)
  <2> DEFINE job == Reading(i, TRUE, TrashedAttachmentIds(V(t), i), NoManifests)
  <2>1. TrashedAttachmentIds(V(t), i) \in SUBSET Nonces
    BY <1>2, <1>4 DEF StartPurge, TrashedAttachmentIds, Is, Row
  <2>2. job \in Job /\ job.at = "reading" /\ job.purge /\ job.got = NoManifests
    BY <1>2, <2>1 DEF Reading, Job
  <2>3. Becomes(t, V(t), job)
    BY <1>4 DEF StartPurge
  <2> HIDE DEF job
  <2>. QED  BY <1>2, <1>3, <2>2, <2>3
<1>5. ASSUME NEW i \in Items, NEW f \in Nonces, StartDeleteAttachment(t, i, f) PROVE Files(t)
  <2> DEFINE job == Reading(i, FALSE, {f}, NoManifests)
  <2>1. job \in Job /\ job.at = "reading" /\ job.left = {f} /\ job.got = NoManifests
    BY <1>2 DEF Reading, Job
  <2>2. Becomes(t, V(t), job)
    BY <1>5 DEF StartDeleteAttachment
  <2> HIDE DEF job
  <2>3. job.left \cup Present(job.got) = {f}
    BY <1>2, <2>1
  <2>. QED  BY <1>2, <1>3, <2>1, <2>2, <2>3
<1>6. ASSUME NEW f \in Nonces, ReadManifest(t, f) PROVE Files(t)
  <2> DEFINE job == [o.job EXCEPT !.left = @ \ {f}, !.got[f] = db.manifests[f]]
  <2>0. o.job.at = "reading" /\ f \in o.job.left
    BY <1>6 DEF ReadManifest, At
  <2>1. o.job \in [at : {"reading"}, item : Items, purge : BOOLEAN, left : SUBSET Nonces, got : Manifests]
    BY <1>1, <2>0 DEF Job, Idle, Resuming
  <2>2. db.manifests[f] \in Manifest /\ db.manifests[f] # None
    BY <1>6 DEF ReadManifest, MemoryInv, TypeOK, Database, Manifests
  <2>3. [o.job.got EXCEPT ![f] = db.manifests[f]] \in Manifests
    BY <2>1, <2>2 DEF Manifests
  <2>4. /\ job \in [at : {"reading"}, item : Items, purge : BOOLEAN, left : SUBSET Nonces, got : Manifests]
        /\ job.got = [o.job.got EXCEPT ![f] = db.manifests[f]]
        /\ job.left = o.job.left \ {f} /\ job.purge = o.job.purge
    BY <2>1, <2>3
  <2>5. job \in Job /\ job.at = "reading"
    BY <2>4 DEF Job
  <2>6. Becomes(t, V(t), job)
    BY <1>6 DEF ReadManifest
  <2> HIDE DEF job
  <2>7. Present(job.got) = Present(o.job.got) \cup {f} /\ job.got[f] = db.manifests[f]
        /\ \A g \in Present(o.job.got) \ {f} : job.got[g] = o.job.got[g]
    BY <2>1, <2>2, <2>4 DEF Present, Manifests
  <2>8. o.version = db.version => \A g \in Present(job.got) : job.got[g] = db.manifests[g]
    BY <1>1, <2>0, <2>7 DEF TabFiles
  <2>9. job.left \cup Present(job.got) = o.job.left \cup Present(o.job.got)
    BY <2>0, <2>4, <2>7
  <2>10. job.purge \/ \E g : job.left \cup Present(job.got) = {g}
    BY <1>1, <2>0, <2>4, <2>9 DEF TabFiles
  <2>. QED  BY <1>3, <2>5, <2>6, <2>8, <2>10
<1>7. CASE DeletionThrows(t)
  <2>1. Becomes(t, V(t), Idle) /\ Idle \in Job /\ Takes(o, db, draws', Idle)
    BY <1>7 DEF DeletionThrows, Idle, Job, Takes
  <2>. QED  BY <1>1, <1>2, <2>1, JobFiles
<1>. QED  BY <1>4, <1>5, <1>6, <1>7

(* The manifests that were read are those of the attachments to go, if the    *)
(* tab is still at the database's version.                                  *)
LEMMA DeletionFiles ==
  ASSUME MemoryInv, FilesInv, Grows, NEW t \in Tabs, CommitDeletion(t)
  PROVE  Files(t)
<1> DEFINE job == tab[t].job
           i == job.item
           P == Present(job.got)
<1>1. /\ Healthy(t) /\ job.at = "reading" /\ Steady(job) /\ tab[t] \in OpenTab /\ TabSound(tab[t], db)
      /\ tab[t] # None /\ TabFiles(tab[t], db, draws, outside) /\ job.left = {}
  BY FreeTab, TabFiled DEF CommitDeletion, At, Steady, Healthy
<1>2. job \in [at : {"reading"}, item : Items, purge : BOOLEAN, left : SUBSET Nonces, got : Manifests]
  BY <1>1 DEF OpenTab, Job, Idle, Resuming
<1>3. /\ V(t) \in Vault /\ V(t).store \in MemStore /\ Rooted(V(t)) /\ i \in Ids /\ i \in Items
      /\ draws' \in Nonces /\ tab[t].version \in Nat /\ V(t).store.items[i] \in Row \cup {None}
      /\ Keyed(V(t), draws) /\ draws \in Nat /\ draws' \in Nat /\ draws <= draws' /\ db \in Database
  BY <1>1, <1>2, FreeTab, TabFiled, Drawn DEF CommitDeletion, Healthy, Ids, Grows
<1>4. job.purge \/ \E f : P = {f}
  BY <1>1 DEF TabFiles
<1>5. tab[t].version = db.version => \A f \in P : job.got[f] = db.manifests[f]
  BY <1>1 DEF TabFiles
<1>6. /\ V(t).key # None /\ V(t).store.items[i] # None
      /\ job.purge => P = V(t).store.items[i].files
      /\ ~job.purge => P \subseteq V(t).store.items[i].files
  BY <1>4 DEF CommitDeletion, CanCommitDeletion, CanPurge, CanDeleteAttachment, Is, IsUnlocked
<1>7. /\ Names(V(t).store, i) = V(t).store.items[i].files
      /\ Names(V(t).store, i) \in SUBSET Nonces /\ Names(V(t).store, i) \subseteq 1..draws
  BY <1>3, <1>6, NamesAreDrawn DEF Names, Keyed
<1> HIDE DEF P
<1>8. ASSUME NEW at \in {"active", "tombstone"}, NEW files \in SUBSET Nonces,
             files = Names(V(t).store, i) \ P, at = "tombstone" => files = {},
             LET w == Write(V(t), i, Revised(V(t), i, at, files, draws'))
             IN  Saves(t, w, SaveItemPurge(tab[t].version, w.store, job.got), None)
      PROVE  Files(t)
  <2> DEFINE row == Revised(V(t), i, at, files, draws')
             w == Write(V(t), i, row)
             tx == SaveItemPurge(tab[t].version, w.store, job.got)
  <2>1. row \in Row /\ row.revision > V(t).store.items[i].revision
    BY <1>3, <1>6, RevisedSound
  <2>2. row.key = V(t).key /\ row.files = files /\ row.at = at
    BY DEF Revised, EncryptItemState
  <2>3. files \subseteq 1..draws'
    <3>1. 1..draws \subseteq 1..draws'
      BY <1>3
    <3>2. files \subseteq Names(V(t).store, i)
      BY <1>8
    <3>. QED  BY <1>7, <3>1, <3>2
  <2> HIDE DEF row
  <2>4. w \in Vault /\ w.store.root = V(t).store.root
    BY <1>3, <1>6, <2>1, WriteSound
  <2>5. Keyed(w, draws')
    BY <1>3, <1>6, <1>8, <2>1, <2>2, <2>3, WriteSealed
  <2>6. w.store.items = [V(t).store.items EXCEPT ![i] = row] /\ V(t).store.items \in [Ids -> Row \cup {None}]
    BY <1>3 DEF Write, Vault, MemStore
  <2>7. Saves(t, w, tx, None)
    BY <1>8 DEF row
  <2> HIDE DEF w
  <2>8. w.store \in MemStore
    BY <2>4 DEF Vault
  <2>9. tx \in Tx /\ Tells(tx, tab[t].version, w.store)
    BY <1>2, <1>3, <2>8, SavesTyped DEF Tells
  <2>10. \A j \in Items :
           Names(w.store, j) = IF j = i THEN Names(V(t).store, i) \ P ELSE Names(V(t).store, j)
    BY <1>8, <2>1, <2>2, <2>6 DEF Names, Ids
  <2>11. RootKept(V(t).store, w.store)
    BY <2>4 DEF RootKept
  <2>12. P \subseteq Names(V(t).store, i)
    BY <1>6, <1>7
  <2>13. tab[t].version = db.version /\ FilesOK(V(t).store, db.manifests, db.chunks) =>
           FilesIn(Applied(db, tx))
    BY <1>2, <1>3, <1>5, <2>8, <2>10, <2>11, <2>12, PurgeFiles DEF P
  <2> HIDE DEF tx
  <2>14. Healthy(t) /\ Steady(tab[t].job)
    BY <1>1
  <2>. QED  BY <2>4, <2>5, <2>7, <2>9, <2>13, <2>14, SaveFiles
<1>9. CASE job.purge
  <2>1. Names(V(t).store, i) \ P = {}
    BY <1>6, <1>7, <1>9
  <2>2. PICK files \in SUBSET Nonces : files = {}
    OBVIOUS
  <2>3. LET w == Write(V(t), i, Revised(V(t), i, "tombstone", files, draws'))
        IN  Saves(t, w, SaveItemPurge(tab[t].version, w.store, job.got), None)
    BY <1>9, <2>2 DEF CommitDeletion, CommitsDeletion, PurgeItem
  <2>4. files = Names(V(t).store, i) \ P
    BY <2>1, <2>2
  <2>. QED  BY <1>8, <2>2, <2>3, <2>4
<1>10. CASE ~job.purge
  <2> DEFINE f == CHOOSE f \in P : TRUE
  <2>1. P = {f}
    BY <1>4, <1>10
  <2> DEFINE files == Names(V(t).store, i) \ P
  <2>2. files = V(t).store.items[i].files \ {f} /\ files \in SUBSET Nonces
    BY <1>7, <2>1
  <2> HIDE DEF files
  <2>3. files = Names(V(t).store, i) \ P
    BY DEF files
  <2>4. LET w == Write(V(t), i, Revised(V(t), i, "active", files, draws'))
        IN  Saves(t, w, SaveItemPurge(tab[t].version, w.store, job.got), None)
    BY <1>10, <2>2 DEF CommitDeletion, CommitsDeletion, DeleteAttachment, P
  <2>. QED  BY <1>8, <2>2, <2>3, <2>4
<1>. QED  BY <1>9, <1>10

-----------------------------------------------------------------------------
(* Opening, locking, resuming, and how a job ends.                          *)

LEMMA TabFilesFresh ==
  ASSUME NEW v, NEW version, NEW n, Keyed(v, n), NEW d, NEW out
  PROVE  TabFiles(Tab(v, version, Idle), d, n, out)
BY DEF TabFiles, Tab, Idle

LEMMA LockingFiles ==
  ASSUME MemoryInv, FilesInv, Grows, NEW t \in Tabs, SessionUnlock(t) \/ SessionLock(t)
  PROVE  Files(t)
<1> DEFINE o == tab[t]
<1>1. /\ o \in OpenTab /\ o # None /\ V(t) \in Vault /\ o.job \in Job
      /\ Keyed(V(t), draws') /\ Takes(o, db, draws', o.job)
  BY FreeTab, TabFiled, KeyedLater DEF SessionUnlock, SessionLock, Healthy, OpenTab, Takes, Grows
<1>2. ASSUME NEW v \in Vault, v.store = V(t).store, Keyed(v, draws'), Becomes(t, v, o.job)
      PROVE  Files(t)
  BY <1>1, <1>2, JobFiles
<1>3. /\ Keyed(Unlock(V(t)), draws') /\ Keyed(Lock(V(t)), draws')
      /\ V(t).store.kit # None => Keyed(UnlockWithRecoveryKit(V(t)), draws')
  BY <1>1, UnlockKeyed
<1>4. CASE SessionUnlock(t)
  <2>1. V(t).store.root # None
    BY <1>4 DEF SessionUnlock, IsInitialized
  <2>. QED  BY <1>1, <1>2, <1>3, <1>4, <2>1, UnlockSound DEF SessionUnlock
<1>5. CASE SessionLock(t)
  <2>1. Lock(V(t)) \in Vault /\ Lock(V(t)).store = V(t).store
    BY <1>1 DEF Lock, Vault
  <2>. QED  BY <1>2, <1>3, <1>5, <2>1 DEF SessionLock
<1>. QED  BY <1>4, <1>5

LEMMA RefreshedFiles ==
  ASSUME MemoryInv, FilesInv, Grows, NEW t \in Tabs, At(t, "latest")
  PROVE  Keyed(Refreshed(t).vault, draws')
<1> DEFINE snapshot == tab[t].job.snapshot
<1>1. tab[t] # None /\ TabFiles(tab[t], db, draws, outside) /\ draws \in Nat /\ outside \in BOOLEAN
  BY TabFiled DEF At, Healthy
<1>2. TabFiles(tab[t], db, draws', outside')
  BY <1>1, TabFilesLater DEF Grows
<1>3. Sealed(StoreOf(snapshot), draws')
  BY <1>2 DEF TabFiles, At
<1>4. Keyed(FromSnapshot(snapshot), draws')
  BY <1>3, SnapshotKeyed
<1>. QED  BY <1>2, <1>4 DEF Refreshed, TabFiles, Tab

LEMMA SessionFiles ==
  ASSUME MemoryInv, FilesInv, Grows, NEW t \in Tabs,
         \/ Load(t) \/ StartResume(t) \/ ReadLatest(t) \/ ReadThrows(t) \/ ResumeThrows(t)
         \/ \E c \in credentials : Resume(t, c)
  PROVE  Files(t)
<1>1. CASE Load(t)
  <2>1. Keyed(FromSnapshot(db.snapshot), draws')
    BY SealedLater, SnapshotKeyed DEF FilesInv, SealedAlike, Grows, MemoryInv, TypeOK
  <2>2. tab'[t] = Tab(FromSnapshot(db.snapshot), db.version, Idle)
    BY <1>1 DEF Load, MemoryInv, TypeOK
  <2>. QED  BY <2>1, <2>2, TabFilesFresh DEF Files
<1>2. CASE StartResume(t)
  <2>1. tab[t] # None /\ V(t) \in Vault /\ Keyed(V(t), draws')
    BY <1>2, FreeTab, TabFiled, KeyedLater DEF StartResume, Free, Healthy, Grows
  <2>2. Becomes(t, V(t), Resuming) /\ Resuming \in Job /\ Takes(tab[t], db, draws', Resuming)
    BY <1>2 DEF StartResume, Resuming, Job, Takes
  <2>. QED  BY <2>1, <2>2, JobFiles
<1>3. CASE ResumeThrows(t)
  <2>1. PICK o : o = Refreshed(t) /\ tab' = [tab EXCEPT ![t] = [o EXCEPT !.job = Idle]]
    BY <1>3 DEF ResumeThrows
  <2>2. o \in OpenTab /\ Keyed(o.vault, draws')
    BY <1>3, <2>1, RefreshedSound, RefreshedFiles DEF ResumeThrows
  <2> DEFINE p == [o EXCEPT !.job = Idle]
  <2>3. p.vault = o.vault /\ p.job = Idle
    BY <2>2 DEF OpenTab
  <2>4. tab'[t] = p
    BY <2>1 DEF MemoryInv, TypeOK
  <2> HIDE DEF p
  <2>. QED  BY <2>2, <2>3, <2>4 DEF Files, TabFiles, Idle
<1>4. ASSUME NEW c \in credentials, Resume(t, c) PROVE Files(t)
  <2> DEFINE o == Refreshed(t)
             v == UnlockWithSessionResume(o.vault, c)
             p == With(o, v, Idle)
  <2>1. o \in OpenTab /\ o.vault \in Vault /\ Keyed(o.vault, draws') /\ c \in Credential
    BY <1>4, RefreshedSound, RefreshedFiles DEF Resume, OpenTab, MemoryInv, TypeOK
  <2>2. c.key = o.vault.store.root.key /\ o.vault.store.root # None
    BY <1>4, <2>1 DEF Resume, CanResume, Keyed, Sealed, Ids, IsInitialized
  <2>3. Keyed(v, draws') /\ v \in Vault
    BY <2>1, <2>2, UnlockKeyed, UnlockSound
  <2>4. tab'[t] = With(o, v, Idle)
    BY <1>4, <2>1 DEF Resume, With, OpenTab, MemoryInv, TypeOK
  <2> HIDE DEF v, o
  <2>5. p.vault = v /\ p.job = Idle
    BY <2>1, <2>3, WithFields DEF Job
  <2> HIDE DEF p
  <2>6. tab'[t] = p
    BY <2>4 DEF p
  <2>. QED  BY <2>3, <2>5, <2>6 DEF Files, TabFiles, Idle
<1>5. CASE ReadThrows(t)
  <2>1. tab[t] # None /\ V(t) \in Vault /\ Keyed(V(t), draws')
    BY <1>5, FreeTab, TabFiled, KeyedLater DEF ReadThrows, At, Healthy, Grows
  <2>2. Becomes(t, V(t), Idle) /\ Idle \in Job /\ Takes(tab[t], db, draws', Idle)
    BY <1>5 DEF ReadThrows, Idle, Job, Takes
  <2>. QED  BY <2>1, <2>2, JobFiles
<1>6. CASE ReadLatest(t)
  <2> DEFINE job == Latest(db.version, db.snapshot)
  <2>1. tab[t] # None /\ V(t) \in Vault /\ Keyed(V(t), draws')
    BY <1>6, FreeTab, TabFiled, KeyedLater DEF ReadLatest, At, Healthy, Grows
  <2>2. db.version \in Nat /\ db.snapshot \in Snapshot /\ Sealed(StoreOf(db.snapshot), draws')
    BY SealedLater DEF FilesInv, SealedAlike, Grows, MemoryInv, TypeOK, Database
  <2>3. Becomes(t, V(t), job) /\ job \in Job /\ Takes(tab[t], db, draws', job)
    BY <1>6, <2>2 DEF ReadLatest, Latest, Job, Takes
  <2>. QED  BY <2>1, <2>3, JobFiles
<1>. QED  BY <1>1, <1>2, <1>3, <1>4, <1>5, <1>6

LEMMA NothingSealed == ASSUME NEW n PROVE Sealed(StoreOf(None), n)
<1>1. StoreOf(None) = NewStore
  BY DEF StoreOf, FromSnapshot
<1>2. NewStore.kit = None /\ \A id \in Ids : NewStore.items[id] = None
  BY DEF NewStore
<1>3. Present(NewStore.items) = {}
  BY DEF Present, NewStore
<1>4. Cardinality({}) = 0 /\ 0 <= ITEM_MAX_OBJECTS
  BY FS_EmptySet
<1>5. Decodes(NewStore)
  BY <1>2, <1>3, <1>4 DEF Decodes
<1>. QED  BY <1>1, <1>2, <1>5 DEF Sealed

LEMMA ReplaceBeginFiles ==
  ASSUME MemoryInv, FilesInv, Grows, NEW t \in Tabs, Free(t), NEW tx \in Tx, NEW v \in Vault,
         Keyed(v, draws'), Sealed(StoreOf(tx.snapshot), draws'),
         ~outside' => FilesIn(Applied(db, tx)),
         Becomes(t, V(t), Replacing(tx, v))
  PROVE  Files(t)
<1> DEFINE o == tab[t]
           job == Replacing(tx, v)
           n == With(o, o.vault, job)
<1>1. /\ o \in OpenTab /\ o.vault = V(t) /\ o.vault \in Vault /\ o # None
      /\ Keyed(o.vault, draws')
  BY FreeTab, TabFiled, KeyedLater DEF Free, Healthy, V, Grows
<1>2. job \in Job /\ job.at = "replacing" /\ job.tx = tx /\ job.vault = v
  BY DEF Replacing, Job
<1>3. tab'[t] = n
  BY <1>1 DEF Becomes, With, MemoryInv, TypeOK
<1> HIDE DEF job
<1>4. n.vault = o.vault /\ n.job = job /\ n.version = o.version
  BY <1>1, <1>2, WithFields
<1> HIDE DEF n
<1>5. TabFiles(n, db, draws', outside')
  BY <1>1, <1>2, <1>4 DEF TabFiles
<1>. QED  BY <1>3, <1>5 DEF Files

LEMMA WholeFiles ==
  ASSUME MemoryInv, FilesInv, Grows, NEW t \in Tabs, ImportEncryptedSnapshot(t) \/ Reset(t)
  PROVE  Files(t)
<1>1. Free(t) /\ tab[t] # None /\ tab[t].version \in Nat /\ db \in Database /\ draws \in Nat
  BY FreeTab DEF ImportEncryptedSnapshot, Reset, Free, Healthy, MemoryInv, TypeOK
<1>2. CASE ImportEncryptedSnapshot(t)
  <2> DEFINE tx == ReplaceVaultFromBackup(tab[t].version, backup)
             u == FromSnapshot(backup.snapshot)
  <2>1. /\ backup \in Backup /\ backup.snapshot \in Snapshot /\ Stored(backup.snapshot)
        /\ backup # None /\ backup.snapshot # None
    BY <1>2 DEF ImportEncryptedSnapshot, MemoryInv, TypeOK, Backup, Snapshot
  <2>2. tx \in Tx /\ tx.snapshot = backup.snapshot
    <3>1. Tells(tx, tab[t].version, backup.snapshot)
      BY <1>1, <2>1, TransactionTyped DEF ReplaceVaultFromBackup, Backup
    <3>. QED  BY <3>1 DEF Tells
  <2>3. u \in Vault /\ u.store = backup.snapshot /\ StoreOf(backup.snapshot) = u.store
    BY <2>1, SnapshotLoads
  <2>4. Becomes(t, V(t), Replacing(tx, Unlock(u)))
    BY <1>2 DEF ImportEncryptedSnapshot
  <2>5. Sealed(StoreOf(backup.snapshot), draws')
    BY <1>1, <2>1, SealedLater DEF FilesInv, Grows
  <2>6. Keyed(u, draws')
    BY <2>5, SnapshotKeyed
  <2>7. ~outside' => FilesIn(Applied(db, tx))
    BY <1>1, <2>1, ReplaceFiles DEF FilesInv, Grows
  <2> HIDE DEF tx, u
  <2>8. Unlock(u) \in Vault /\ Keyed(Unlock(u), draws')
    BY <2>1, <2>3, <2>6, UnlockSound, UnlockKeyed DEF Stored
  <2>. QED  BY <1>1, <2>2, <2>4, <2>5, <2>7, <2>8, ReplaceBeginFiles
<1>3. CASE Reset(t)
  <2> DEFINE tx == ClearSnapshot(tab[t].version)
             u == FromSnapshot(None)
  <2>1. NoManifests \in Manifests /\ None \in Snapshot /\ Stored(None)
    BY DEF NoManifests, Manifests, Snapshot, Stored
  <2>2. tx \in Tx /\ tx.snapshot = None
    <3>1. Tells(tx, tab[t].version, None)
      BY <1>1, <2>1, TransactionTyped DEF ClearSnapshot
    <3>. QED  BY <3>1 DEF Tells
  <2>3. u \in Vault
    BY <2>1, SnapshotLoads
  <2>4. Becomes(t, V(t), Replacing(tx, u))
    BY <1>3 DEF Reset
  <2>5. Sealed(StoreOf(tx.snapshot), draws') /\ Keyed(u, draws')
    BY <2>2, NothingSealed, SnapshotKeyed
  <2>6. FilesIn(Applied(db, tx))
    BY <1>1, ReplaceFiles
  <2> HIDE DEF tx, u
  <2>. QED  BY <1>1, <2>2, <2>3, <2>4, <2>5, <2>6, ReplaceBeginFiles
<1>. QED  BY <1>2, <1>3

LEMMA SettleFiles ==
  ASSUME MemoryInv, FilesInv, Grows, NEW t \in Tabs,
         SaveReturns(t) \/ PoisonAfterDurabilityFailure(t) \/ ReplaceReturns(t) \/ ReplaceThrows(t)
  PROVE  Files(t)
<1> DEFINE o == tab[t]
<1>1. /\ o \in OpenTab /\ o # None /\ o.vault = V(t) /\ o.vault \in Vault
      /\ o.job.at = "saving" => o.job.before \in MemStore
  BY FreeTab DEF SaveReturns, PoisonAfterDurabilityFailure, ReplaceReturns, ReplaceThrows,
                 At, Healthy, V, OpenTab, Job, Idle, Resuming
<1>2. TabFiles(o, db, draws', outside') /\ Keyed(V(t), draws')
  BY <1>1, TabFiled, TabFilesLater, KeyedLater DEF Grows
<1>3. CASE SaveReturns(t)
  <2>1. tab'[t] = Tab(V(t), PersistenceVersion(t), Idle)
    BY <1>3 DEF SaveReturns, MemoryInv, TypeOK
  <2>. QED  BY <1>2, <2>1, TabFilesFresh DEF Files
<1>4. CASE PoisonAfterDurabilityFailure(t)
  <2> DEFINE u == FromSnapshot(o.job.before)
             n == [o EXCEPT !.vault = u, !.job = Idle, !.poisoned = TRUE]
  <2>1. o.job.before \in MemStore /\ o.job.at = "saving"
    BY <1>1, <1>4 DEF PoisonAfterDurabilityFailure, At
  <2>2. StoreOf(o.job.before) = o.job.before
    BY <2>1 DEF StoreOf, FromSnapshot
  <2>3. Keyed(u, draws')
    BY <1>2, <2>1, <2>2, SnapshotKeyed DEF TabFiles
  <2> HIDE DEF u
  <2>4. n.vault = u /\ n.job = Idle
    BY <1>1 DEF OpenTab
  <2>5. tab'[t] = n
    BY <1>4 DEF PoisonAfterDurabilityFailure, u, MemoryInv, TypeOK
  <2> HIDE DEF n
  <2>. QED  BY <2>3, <2>4, <2>5 DEF Files, TabFiles, Idle
<1>5. CASE ReplaceReturns(t)
  <2>1. tab'[t] = Tab(o.job.vault, PersistenceVersion(t), Idle) /\ o.job.at = "replaced"
    BY <1>5 DEF ReplaceReturns, At, MemoryInv, TypeOK
  <2>2. Keyed(o.job.vault, draws')
    BY <1>2, <2>1 DEF TabFiles
  <2>. QED  BY <2>1, <2>2, TabFilesFresh DEF Files
<1>6. CASE ReplaceThrows(t)
  <2>1. Becomes(t, V(t), Idle) /\ Idle \in Job /\ Takes(o, db, draws', Idle)
    BY <1>6 DEF ReplaceThrows, Idle, Job, Takes
  <2>. QED  BY <1>1, <1>2, <2>1, JobFiles
<1>. QED  BY <1>3, <1>4, <1>5, <1>6

-----------------------------------------------------------------------------
(* All steps.                                                               *)

(* What a step other than a commit leaves.                                  *)
Filed(t) ==
  /\ Grows /\ Files(t) /\ db' = db
  /\ \E o : tab' = [tab EXCEPT ![t] = o]
  /\ backup' # backup =>
       Sealed(StoreOf(backup'.snapshot), draws') /\ (~outside' => FilesIn(backup'))

LEMMA FiledKeeps ==
  ASSUME MemoryInv, FilesInv, NEW t \in Tabs, Filed(t)
  PROVE  FilesInv'
<1>1. PICK m \in Nat, later \in BOOLEAN : m = draws' /\ later = outside'
  BY DEF Filed, Grows
<1>2. draws \in Nat /\ draws <= m /\ outside \in BOOLEAN /\ (outside => later) /\ db' = db
      /\ tab \in [Tabs -> OpenTab \cup {None}]
  BY <1>1 DEF Filed, Grows, MemoryInv, TypeOK
<1>3. SealedAlike' /\ FilesStored'
  <2>1. PICK d : d = db
    OBVIOUS
  <2>2. Sealed(StoreOf(d.snapshot), m) /\ (~later => FilesIn(d))
    BY <1>2, <2>1, SealedLater DEF FilesInv, SealedAlike, FilesStored
  <2>. QED  BY <1>1, <1>2, <2>1, <2>2 DEF SealedAlike, FilesStored
<1>4. (backup # None => Sealed(StoreOf(backup.snapshot), draws) /\ (~outside => FilesIn(backup)))'
  <2>1. PICK b : b = backup'
    OBVIOUS
  <2>2. b # None => Sealed(StoreOf(b.snapshot), m) /\ (~later => FilesIn(b))
    <3>1. CASE b = backup
      BY <1>2, <3>1, SealedLater DEF FilesInv
    <3>2. CASE b # backup
      BY <1>1, <2>1, <3>2 DEF Filed
    <3>. QED  BY <3>1, <3>2
  <2>. QED  BY <1>1, <2>1, <2>2
<1>5. ASSUME NEW u \in Tabs, tab'[u] # None
      PROVE  TabFiles(tab[u], db, draws, outside)'
  <2>1. PICK o, d : o = tab'[u] /\ d = db
    OBVIOUS
  <2>2. TabFiles(o, d, m, later)
    <3>1. CASE u = t
      BY <1>1, <1>5, <2>1, <3>1 DEF Filed, Files
    <3>2. CASE u # t
      <4>1. o = tab[u]
        BY <1>2, <2>1, <3>2 DEF Filed
      <4>2. TabFiles(o, d, draws, outside)
        BY <1>5, <2>1, <4>1 DEF FilesInv
      <4>. QED  BY <1>2, <4>2, TabFilesLater
    <3>. QED  BY <3>1, <3>2
  <2>. QED  BY <1>1, <1>2, <2>1, <2>2
<1>. QED  BY <1>3, <1>4, <1>5 DEF FilesInv

LEMMA QuietFiled ==
  ASSUME MemoryInv, Grows, NEW t \in Tabs, Files(t), db' = db, backup' = backup,
         Moves(t) \/ tab' = [tab EXCEPT ![t] = None]
  PROVE  Filed(t)
BY DEF Filed, Moves

LEMMA MutationFiled ==
  ASSUME MemoryInv, FilesInv, NEW t \in Tabs, Mutation(t)
  PROVE  Filed(t)
<1>0. outside \in BOOLEAN /\ Moves(t)
  BY MutationSound DEF MemoryInv, TypeOK
<1>1. ASSUME SessionCreate(t) \/ InitializeFromRemote(t)
             \/ SessionChangePassphrase(t) \/ SessionInstallRecoveryKit(t)
      PROVE  Filed(t)
  <2>1. Quiet /\ Draw /\ outside' = outside
    BY <1>1 DEF SessionCreate, InitializeFromRemote, SessionChangePassphrase, SessionInstallRecoveryKit
  <2>2. Grows
    BY <1>0, <2>1, DrawGrows
  <2>. QED  BY <1>0, <1>1, <2>1, <2>2, KeyCallFiles, QuietFiled DEF Quiet
<1>2. ASSUME SessionCreateResume(t) PROVE Filed(t)
  <2>1. Quiet /\ Draw /\ outside' = outside
    BY <1>2 DEF SessionCreateResume
  <2>2. Grows
    BY <1>0, <2>1, DrawGrows
  <2>. QED  BY <1>0, <1>2, <2>1, <2>2, ResumeCallFiles, QuietFiled DEF Quiet
<1>3. ASSUME NEW i \in Items,
             SessionPutItem(t, i) \/ SessionUpdateItem(t, i)
             \/ SessionTrashItem(t, i) \/ SessionRestoreItem(t, i)
      PROVE  Filed(t)
  <2>1. Quiet /\ Draw /\ outside' = outside
    BY <1>3 DEF SessionPutItem, SessionUpdateItem, SessionTrashItem, SessionRestoreItem
  <2>2. Grows
    BY <1>0, <2>1, DrawGrows
  <2>. QED  BY <1>0, <1>3, <2>1, <2>2, ItemCallFiles, QuietFiled DEF Quiet
<1>4. ASSUME NEW i \in Items,
             \E revision \in 0..MaxRevision, at \in {"active", "trashed", "tombstone"} :
               Healthy(t) /\ \E files \in {{}, FilesOf(t, i), {draws + 1}} :
                 ApplyRemoteEncryptedItem(t, i, revision, at, files)
      PROVE  Filed(t)
  <2>1. Quiet /\ Draw /\ outside' \in BOOLEAN /\ (outside => outside')
    BY <1>0, <1>4 DEF ApplyRemoteEncryptedItem
  <2>2. Grows
    BY <2>1, DrawGrows
  <2>3. Files(t)
    BY <1>4, <2>2, ItemCallFiles
  <2>. QED  BY <1>0, <2>1, <2>2, <2>3, QuietFiled DEF Quiet
<1>. QED  BY <1>1, <1>2, <1>3, <1>4 DEF Mutation

LEMMA AttachmentFiled ==
  ASSUME MemoryInv, FilesInv, NEW t \in Tabs, AttachmentStep(t)
  PROVE  Filed(t)
<1>0. outside \in BOOLEAN /\ Moves(t)
  BY AttachmentSound DEF MemoryInv, TypeOK
<1>1. /\ Quiet /\ (Draw \/ UNCHANGED draws) /\ outside' = outside
  BY DEF AttachmentStep, EncryptChunk, CancelImport, CommitDeletion, DeletionThrows, ReadManifest,
         StartPurge, AddAttachment, StartDeleteAttachment
<1>2. Grows
  BY <1>0, <1>1, DrawGrows
<1>3. Files(t)
  BY <1>2, ImportStepFiles, DeletionFiles, ReadingFiles, AddFiles DEF AttachmentStep
<1>. QED  BY <1>0, <1>1, <1>2, <1>3, QuietFiled DEF Quiet

LEMMA SessionFiled ==
  ASSUME MemoryInv, FilesInv, NEW t \in Tabs, Session(t)
  PROVE  Filed(t)
<1>0. outside \in BOOLEAN /\ (Moves(t) \/ tab' = [tab EXCEPT ![t] = None])
  BY SessionSound DEF MemoryInv, TypeOK
<1>1. UNCHANGED <<db, credentials, backup, account, draws, outside>>
  BY DEF Session, Load, Close, SessionUnlock, SessionLock, StartResume,
              ReadLatest, ReadThrows, ResumeThrows, Resume, Quiet
<1>2. Grows
  BY <1>0, <1>1, DrawGrows
<1>3. Close(t) => Files(t)
  BY DEF Close, Files, MemoryInv, TypeOK
<1>4. Files(t)
  BY <1>2, <1>3, SessionFiles, LockingFiles DEF Session
<1>. QED  BY <1>0, <1>1, <1>2, <1>4, QuietFiled

LEMMA SettleFiled ==
  ASSUME MemoryInv, FilesInv, NEW t \in Tabs, Settle(t), ~CommitTransaction(t)
  PROVE  Filed(t)
<1>0. outside \in BOOLEAN /\ Moves(t)
  BY SettleSound DEF MemoryInv, TypeOK
<1>1. UNCHANGED <<db, backup, draws, outside>>
  BY DEF Settle, SaveReturns, PoisonAfterDurabilityFailure, ReplaceReturns, ReplaceThrows, Quiet
<1>2. Grows
  BY <1>0, <1>1, DrawGrows
<1>3. Files(t)
  BY <1>2, SettleFiles DEF Settle
<1>. QED  BY <1>0, <1>1, <1>2, <1>3, QuietFiled

(* A backup is what is stored.                                              *)
LEMMA WholeFiled ==
  ASSUME MemoryInv, FilesInv, NEW t \in Tabs, Whole(t)
  PROVE  Filed(t)
<1>0. outside \in BOOLEAN /\ Moves(t) /\ tab \in [Tabs -> OpenTab \cup {None}] /\ draws \in Nat
  BY WholeSound DEF MemoryInv, TypeOK
<1>1. UNCHANGED <<db, draws, outside>>
  BY DEF Whole, ExportEncryptedSnapshot, ExportRemoteAccountRootWrap, ImportEncryptedSnapshot, Reset, Quiet
<1>2. Grows
  BY <1>0, <1>1, DrawGrows
<1>3. CASE tab' = tab
  <2>1. Files(t)
    BY <1>0, <1>1, <1>3 DEF Files, FilesInv
  <2>2. CASE backup' = backup
    BY <1>0, <1>1, <1>2, <2>1, <2>2, QuietFiled
  <2>3. CASE backup' # backup
    <3>1. backup' = BackupState(db)
      BY <2>3 DEF Whole, ExportEncryptedSnapshot, ExportRemoteAccountRootWrap, ImportEncryptedSnapshot,
                  Reset, Quiet
    <3>2. FilesIn(BackupState(db)) <=> FilesIn(db)
      BY DEF BackupState, FilesIn
    <3>3. BackupState(db).snapshot = db.snapshot
      BY DEF BackupState
    <3>4. Sealed(StoreOf(BackupState(db).snapshot), draws)
      BY <3>3 DEF FilesInv, SealedAlike
    <3>5. ~outside => FilesIn(BackupState(db))
      BY <3>2 DEF FilesInv, FilesStored
    <3>. QED  BY <1>0, <1>1, <1>2, <2>1, <3>1, <3>4, <3>5 DEF Filed, Moves
  <2>. QED  BY <2>2, <2>3
<1>4. CASE ImportEncryptedSnapshot(t) \/ Reset(t)
  <2>1. backup' = backup
    BY <1>4 DEF ImportEncryptedSnapshot, Reset, Quiet
  <2>. QED  BY <1>0, <1>1, <1>2, <1>4, <2>1, WholeFiles, QuietFiled
<1>. QED  BY <1>3, <1>4 DEF Whole, ExportEncryptedSnapshot, ExportRemoteAccountRootWrap

(* A commit leaves what its job was about to write; every other tab is now    *)
(* behind.                                                                  *)
LEMMA CommitFiled ==
  ASSUME MemoryInv, FilesInv, NEW t \in Tabs, CommitTransaction(t)
  PROVE  FilesInv'
<1> DEFINE o == tab[t]
           tx == o.job.tx
           job == IF o.job.at = "saving" THEN Saved(o.job) ELSE Replaced(o.job)
<1>1. /\ o \in OpenTab /\ o.vault \in Vault /\ o.job \in Job
      /\ o.job.at \in {"saving", "replacing"}
      /\ o.version = db.version /\ db.version \in Nat
      /\ db'.version = db.version + 1 /\ db'.snapshot = tx.snapshot
  BY CommitWrites DEF OpenTab
<1>2. o # None /\ TabFiles(o, db, draws, outside) /\ draws \in Nat /\ outside \in BOOLEAN
  BY TabFiled DEF CommitTransaction
<1>3. UNCHANGED <<credentials, backup, account, draws, outside>> /\ db' = Applied(db, tx)
  BY DEF CommitTransaction
<1>4. PICK d : d = Applied(db, tx)
  OBVIOUS
<1>5. Sealed(StoreOf(d.snapshot), draws) /\ (~outside => FilesIn(d))
  BY <1>1, <1>2, <1>3, <1>4 DEF TabFiles
<1>6. SealedAlike' /\ FilesStored'
  BY <1>3, <1>4, <1>5 DEF SealedAlike, FilesStored
<1>7. /\ job \in Job /\ job.at \in {"saved", "replaced"}
      /\ job.at = "replaced" => o.job.at = "replacing" /\ job.vault = o.job.vault
  <2>1. CASE o.job.at = "saving"
    BY <1>1, <2>1 DEF Saved, Job, Idle, Resuming
  <2>2. CASE o.job.at = "replacing"
    BY <1>1, <2>2 DEF Replaced, Job, Idle, Resuming
  <2>. QED  BY <1>1, <2>1, <2>2
<1>8. tab' = [tab EXCEPT ![t] = With(o, o.vault, job)] /\ tab \in [Tabs -> OpenTab \cup {None}]
  BY <1>1 DEF CommitTransaction, Becomes, V, With, MemoryInv, TypeOK
<1> HIDE DEF job
<1>9. PICK n : /\ tab'[t] = n /\ n.vault = o.vault /\ n.job = job
  <2> DEFINE m == With(o, o.vault, job)
  <2>1. m.vault = o.vault /\ m.job = job
    BY <1>1, <1>7, WithFields
  <2>2. tab'[t] = m
    BY <1>8
  <2> HIDE DEF m
  <2>. QED  BY <2>1, <2>2
<1>10. PICK k, out : k = draws /\ out = outside
  OBVIOUS
<1>11. TabFiles(n, d, k, out)
  BY <1>2, <1>7, <1>9, <1>10 DEF TabFiles
<1>12. ASSUME NEW u \in Tabs, tab'[u] # None
       PROVE  TabFiles(tab[u], db, draws, outside)'
  <2>1. PICK p : p = tab'[u]
    OBVIOUS
  <2>2. TabFiles(p, d, k, out)
    <3>1. CASE u = t
      BY <1>9, <1>11, <2>1, <3>1
    <3>2. CASE u # t
      <4>1. p = tab[u]
        BY <1>8, <2>1, <3>2
      <4>2. TabFiles(p, db, k, out)
        BY <1>10, <1>12, <2>1, <4>1 DEF FilesInv
      <4>3. p.version \in Nat /\ p.version <= db.version
        BY <1>12, <2>1, <4>1, FreeTab DEF TabSound
      <4>4. p.version # d.version
        BY <1>1, <1>3, <1>4, <4>3
      <4>. QED  BY <4>2, <4>4 DEF TabFiles
    <3>. QED  BY <3>1, <3>2
  <2>. QED  BY <1>3, <1>4, <1>10, <2>1, <2>2
<1>13. (backup # None => Sealed(StoreOf(backup.snapshot), draws) /\ (~outside => FilesIn(backup)))'
  <2>1. PICK b : b = backup
    OBVIOUS
  <2>2. b # None => Sealed(StoreOf(b.snapshot), k) /\ (~out => FilesIn(b))
    BY <1>10, <2>1 DEF FilesInv
  <2>. QED  BY <1>3, <1>10, <2>1, <2>2
<1>. QED  BY <1>6, <1>12, <1>13 DEF FilesInv

LEMMA FilesStep == MemoryInv /\ FilesInv /\ [Next]_vars => FilesInv'
<1>. SUFFICES ASSUME MemoryInv, FilesInv, [Next]_vars PROVE FilesInv'
  OBVIOUS
<1>1. CASE UNCHANGED vars
  <2>1. PICK d, k, out, b : d = db /\ k = draws /\ out = outside /\ b = backup
    OBVIOUS
  <2>2. db' = d /\ draws' = k /\ outside' = out /\ backup' = b /\ tab' = tab
    BY <1>1, <2>1 DEF vars
  <2>3. SealedAlike' /\ FilesStored'
    <3>1. Sealed(StoreOf(d.snapshot), k) /\ (~out => FilesIn(d))
      BY <2>1 DEF FilesInv, SealedAlike, FilesStored
    <3>. QED  BY <2>2, <3>1 DEF SealedAlike, FilesStored
  <2>4. (backup # None => Sealed(StoreOf(backup.snapshot), draws) /\ (~outside => FilesIn(backup)))'
    <3>1. b # None => Sealed(StoreOf(b.snapshot), k) /\ (~out => FilesIn(b))
      BY <2>1 DEF FilesInv
    <3>. QED  BY <2>2, <3>1
  <2>5. ASSUME NEW u \in Tabs, tab'[u] # None PROVE TabFiles(tab[u], db, draws, outside)'
    <3>1. PICK p : p = tab[u]
      OBVIOUS
    <3>2. TabFiles(p, d, k, out)
      BY <2>1, <2>2, <2>5, <3>1 DEF FilesInv
    <3>. QED  BY <2>2, <3>1, <3>2
  <2>. QED  BY <2>3, <2>4, <2>5 DEF FilesInv
<1>2. ASSUME NEW t \in Tabs, Mutation(t) \/ AttachmentStep(t) \/ Settle(t) \/ Session(t) \/ Whole(t)
      PROVE  FilesInv'
  <2>1. CASE CommitTransaction(t)
    BY <2>1, CommitFiled
  <2>2. CASE ~CommitTransaction(t)
    BY <1>2, <2>2, MutationFiled, AttachmentFiled, SettleFiled, SessionFiled, WholeFiled, FiledKeeps
  <2>. QED  BY <2>1, <2>2
<1>. QED  BY <1>1, <1>2 DEF Next

LEMMA FilesInvariant == Spec => []FilesInv
<1>1. Init => FilesInv
  <2> SUFFICES ASSUME Init PROVE FilesInv
    OBVIOUS
  <2>1. PICK start \in Starts :
          /\ db = start.db /\ backup = start.backup /\ account = start.account
          /\ credentials = start.credentials /\ draws = start.draws
    BY DEF Init
  <2>2. tab = [t \in Tabs |-> None] /\ outside = FALSE
    BY DEF Init
  <2>3. /\ Left(start.db, start.draws)
        /\ start.backup # None => Left(start.backup, start.draws)
    BY <2>1, StartsAssumption
  <2>. QED  BY <2>1, <2>2, <2>3 DEF FilesInv, SealedAlike, FilesStored, Left
<1>. QED  BY <1>1, FilesStep, MemoryInvariant, PTL DEF Spec

(* A backup of what is stored opens.                                        *)
LEMMA StoredRestores == ASSUME MemoryInv, FilesInv PROVE BackupRestores
<1>. SUFFICES ASSUME db.snapshot # None, ~outside, ~TrashHoldsChunks
              PROVE  ValidatesRestored(BackupState(db))
  BY DEF BackupRestores
<1> DEFINE store == db.snapshot
           v == Unlock(FromSnapshot(store))
<1>1. /\ store \in MemStore /\ store.root # None /\ Sealed(store, draws) /\ StoreOf(store) = store
      /\ db \in Database
  BY SnapshotLoads DEF MemoryInv, TypeOK, Database, Snapshot, Stored, FilesInv, SealedAlike
<1>2. FilesOK(store, db.manifests, db.chunks)
  BY <1>1, FilesNamed DEF FilesInv, FilesStored
<1>3. FromSnapshot(store) \in Vault /\ FromSnapshot(store).store = store
  BY <1>1, SnapshotLoads DEF Stored, Snapshot
<1>4. v.store = store /\ v.key = store.root.key /\ v.key # None
  <2>1. store.root.key \in Nonces
    BY <1>1 DEF MemStore, Wrap
  <2>. QED  BY <1>3, <2>1 DEF Unlock, UnwrapRootKey, Vault
<1>5. \A i : i \in Holders(store) <=> i \in Items /\ store.items[i] # None
  BY <1>1 DEF Holders, Present, MemStore, Ids
<1>6. \A i \in ActiveItems(store) :
        /\ i \in Items /\ i \in Ids /\ store.items[i] # None /\ store.items[i].at = "active"
        /\ Names(store, i) = store.items[i].files
  BY <1>5 DEF ActiveItems, Names, Ids
<1>7. \A i \in ActiveItems(store) : Is(v, i, "active")
  BY <1>1, <1>4, <1>6 DEF Is, IsUnlocked, Sealed
<1>8. \A i \in ActiveItems(store) : \A f \in store.items[i].files :
        IsHeld(store, db.manifests, db.chunks, f, i)
  BY <1>2, <1>6 DEF FilesOK
<1>9. ASSUME NEW i \in ActiveItems(store), NEW j \in ActiveItems(store), i # j
      PROVE  store.items[i].files \cap store.items[j].files = {}
  BY <1>8, <1>9 DEF IsHeld
<1>10. ASSUME NEW chunk \in db.chunks
       PROVE  \E i \in ActiveItems(store) :
                /\ chunk[1] \in store.items[i].files
                /\ chunk \in ChunksOf(chunk[1], db.manifests[chunk[1]].chunks)
                /\ db.manifests[chunk[1]] # None
  <2>1. PICK i \in Items : chunk[1] \in Names(store, i) /\ chunk[2] < db.manifests[chunk[1]].chunks
    BY <1>2 DEF FilesOK
  <2>2. store.items[i] # None /\ Names(store, i) = store.items[i].files /\ i \in Ids /\ i \in Holders(store)
    BY <1>5, <2>1 DEF Names, Ids
  <2>3. db.manifests[chunk[1]] # None
    BY <1>2, <2>1 DEF FilesOK, IsHeld
  <2>4. chunk = <<chunk[1], chunk[2]>> /\ chunk[2] \in Nat /\ chunk[1] \in Nonces
    BY <1>1 DEF Database
  <2>5. db.manifests[chunk[1]].chunks \in Nat
    BY <1>1, <2>3, <2>4 DEF Database, Manifests, Manifest
  <2>6. store.items[i].at # "trashed"
    BY <2>1, <2>2, <2>4, <2>5 DEF TrashHoldsChunks
  <2>7. store.items[i].at # "tombstone"
    BY <1>1, <2>1, <2>2 DEF Sealed
  <2>8. store.items[i].at \in {"active", "trashed", "tombstone"}
    BY <1>1, <2>2 DEF MemStore, Row
  <2>9. i \in ActiveItems(store)
    BY <2>2, <2>6, <2>7, <2>8 DEF ActiveItems
  <2>10. chunk \in ChunksOf(chunk[1], db.manifests[chunk[1]].chunks)
    BY <2>1, <2>4, <2>5 DEF ChunksOf
  <2>. QED  BY <2>1, <2>2, <2>3, <2>9, <2>10
<1>11. /\ BackupState(db).snapshot = store /\ BackupState(db).manifests = db.manifests
       /\ BackupState(db).chunks = db.chunks
  BY DEF BackupState
<1>12. Decodes(store) /\ IsInitialized(v)
  BY <1>1, <1>4 DEF Sealed, IsInitialized
<1>13. \A i \in ActiveItems(store) : \A f \in store.items[i].files :
         /\ db.manifests[f] # None /\ Opens(v, i, db.manifests[f])
         /\ ChunksOf(f, db.manifests[f].chunks) \subseteq db.chunks
  BY <1>4, <1>8 DEF IsHeld, Opens
<1> HIDE DEF store
<1>14. db.chunks \subseteq
         UNION {UNION {ChunksOf(f, db.manifests[f].chunks) : f \in store.items[i].files} :
                  i \in ActiveItems(store)}
  BY <1>10
<1>15. \A chunk \in db.chunks : db.manifests[chunk[1]] # None
  BY <1>10
<1> HIDE DEF v
<1>16. Unlock(FromSnapshot(BackupState(db).snapshot)) = v
  BY <1>11 DEF v
<1>. QED  BY <1>4, <1>7, <1>9, <1>11, <1>12, <1>13, <1>14, <1>15, <1>16 DEF ValidatesRestored

(* session.ts 498-1059, persistence.ts 199-264 and vault-wasm 203-1047: what is *)
(* stored is sealed under one root key, its attachments are whole, and a      *)
(* backup of it can be restored; what a tab remembers of it is true.          *)
THEOREM BrowserInvariant == Spec => []BrowserInv
<1>1. MemoryInv /\ FilesInv => BrowserInv
  BY StoredRestores DEF BrowserInv, FilesInv, MemoryInv, MemoryIsSnapshot, PoisonedIsLocked, TabSound,
     Healthy, IsUnlocked, V
<1>. QED  BY <1>1, MemoryInvariant, FilesInvariant, PTL
=============================================================================
