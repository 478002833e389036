---------------------------- MODULE BrowserVault ----------------------------
(***************************************************************************)
(* Tabs of the web app over one browser database.                          *)
(*                                                                         *)
(* A tab loads the snapshot once and works on its own copy in memory.  A   *)
(* mutation changes the copy, then saves all of it in a transaction that   *)
(* compares the version the tab loaded; a tab whose save does not commit   *)
(* is poisoned: it locks, and nothing but a reload brings it back.  A tab  *)
(* does one job at a time, in the order of its queue; the calls that lock  *)
(* and unlock do not wait for the queue, and fall between the steps of a   *)
(* job.                                                                    *)
(***************************************************************************)
EXTENDS BrowserStorage

CONSTANTS
  Tabs,
  Starts,       \* what the tabs find, and what has been made before
  MaxDraws, MaxVersion, MaxRevision, MaxChunks   \* bounds of the model

ASSUME BrowserVaultAssumption ==
  /\ None \notin Tabs /\ Nonces = 1..MaxDraws
  /\ {MaxDraws, MaxVersion, MaxRevision, MaxChunks} \subseteq Nat

VARIABLES
  db,          \* the browser's database
  tab,         \* [Tabs -> an open tab, or None]
  credentials, \* resume credentials that have been returned to a tab's host
  backup,      \* the backup file last exported, or None
  account,     \* the envelope of the root key on the server, or None
  draws,       \* how many nonces and identifiers have been drawn
  outside      \* history: another device has changed the attachments of an item

vars == <<db, tab, credentials, backup, account, draws, outside>>

(* What a tab is at.  A save keeps the snapshot from before its mutation.   *)
Idle == [at |-> "idle"]
Saving(tx, before, credential) ==
  [at |-> "saving", tx |-> tx, before |-> before, credential |-> credential]
Saved(job) == [job EXCEPT !.at = "saved"]
Replacing(tx, vault) == [at |-> "replacing", tx |-> tx, vault |-> vault]
Replaced(job) == [job EXCEPT !.at = "replaced"]
Importing(i, f, row, manifest, done) ==
  [at |-> "importing", item |-> i, file |-> f, row |-> row, manifest |-> manifest, done |-> done]
Reading(i, purge, left, got) ==
  [at |-> "reading", item |-> i, purge |-> purge, left |-> left, got |-> got]
Resuming == [at |-> "resuming"]
Latest(version, snapshot) == [at |-> "latest", version |-> version, snapshot |-> snapshot]

Tab(vault, version, job) ==
  [vault |-> vault, version |-> version, job |-> job, poisoned |-> FALSE]

Init ==
  /\ \E start \in Starts :
       /\ db = start.db /\ backup = start.backup /\ account = start.account
       /\ credentials = start.credentials /\ draws = start.draws
  /\ tab = [t \in Tabs |-> None] /\ outside = FALSE

Healthy(t) == tab[t] # None /\ ~tab[t].poisoned
Free(t) == Healthy(t) /\ tab[t].job = Idle
At(t, at) == Healthy(t) /\ tab[t].job.at = at
V(t) == tab[t].vault
Draw == draws < MaxDraws /\ draws' = draws + 1

Becomes(t, v, job) ==
  tab' = [tab EXCEPT ![t] = [@ EXCEPT !.vault = v, !.job = job]]

(***************************************************************************)
(* Opening, closing, and the calls that do not wait for the queue.         *)
(***************************************************************************)
Load(t) ==
  /\ tab[t] = None
  /\ tab' = [tab EXCEPT ![t] = Tab(FromSnapshot(db.snapshot), db.version, Idle)]
  /\ UNCHANGED <<db, credentials, backup, account, draws, outside>>

(* The tab is closed, reloaded or killed, whatever it is doing.             *)
Close(t) ==
  /\ tab[t] # None
  /\ tab' = [tab EXCEPT ![t] = None]
  /\ UNCHANGED <<db, credentials, backup, account, draws, outside>>

SessionUnlock(t) ==
  /\ Healthy(t) /\ IsInitialized(V(t))
  /\ \/ Becomes(t, Unlock(V(t)), tab[t].job)
     \/ /\ V(t).store.kit # None
        /\ Becomes(t, UnlockWithRecoveryKit(V(t)), tab[t].job)
  /\ UNCHANGED <<db, credentials, backup, account, draws, outside>>

SessionLock(t) ==
  /\ tab[t] # None
  /\ Becomes(t, Lock(V(t)), tab[t].job)
  /\ UNCHANGED <<db, credentials, backup, account, draws, outside>>

(***************************************************************************)
(* Mutations: the copy in memory changes, and a save is under way.         *)
(***************************************************************************)
Saves(t, v, tx, credential) ==
  Becomes(t, v, Saving(tx, V(t).store, credential))

MutateAndPersist(t, v) ==
  Saves(t, v, SaveSnapshot(tab[t].version, v.store), None)

Quiet == UNCHANGED <<db, credentials, backup, account>>

SessionCreate(t) ==
  /\ Free(t) /\ ~IsInitialized(V(t))
  /\ Draw
  /\ MutateAndPersist(t, Create(V(t), draws'))
  /\ outside' = outside /\ Quiet

(* The envelope on the server holds the root key of the account.            *)
InitializeFromRemote(t) ==
  /\ Free(t) /\ ~IsInitialized(V(t)) /\ account # None
  /\ Draw
  /\ MutateAndPersist(t, InitializeFromRemoteWrap(V(t), account, draws'))
  /\ outside' = outside /\ Quiet

SessionChangePassphrase(t) ==
  /\ Free(t) /\ Reauthenticates(V(t))
  /\ Draw
  /\ MutateAndPersist(t, ChangePassphrase(V(t), draws'))
  /\ outside' = outside /\ Quiet

SessionInstallRecoveryKit(t) ==
  /\ Free(t) /\ IsUnlocked(V(t))
  /\ Draw
  /\ MutateAndPersist(t, InstallRecoveryKit(V(t), draws'))
  /\ outside' = outside /\ Quiet

SessionPutItem(t, i) ==
  /\ Free(t) /\ CanPut(V(t), i)
  /\ Draw
  /\ MutateAndPersist(t, PutItem(V(t), i, draws'))
  /\ outside' = outside /\ Quiet

(* Also the emergency card's dedicated operations, on its own record.       *)
SessionUpdateItem(t, i) ==
  /\ Free(t) /\ Is(V(t), i, "active") /\ V(t).store.items[i].revision < MaxRevision
  /\ Draw
  /\ MutateAndPersist(t, UpdateItem(V(t), i, draws'))
  /\ outside' = outside /\ Quiet

SessionTrashItem(t, i) ==
  /\ Free(t) /\ Is(V(t), i, "active") /\ V(t).store.items[i].revision < MaxRevision
  /\ Draw
  /\ MutateAndPersist(t, TrashItem(V(t), i, draws'))
  /\ outside' = outside /\ Quiet

SessionRestoreItem(t, i) ==
  /\ Free(t) /\ Is(V(t), i, "trashed") /\ V(t).store.items[i].revision < MaxRevision
  /\ Draw
  /\ MutateAndPersist(t, RestoreItem(V(t), i, draws'))
  /\ outside' = outside /\ Quiet

(* A record the sync cycle accepted: the other device knows nothing of this *)
(* browser's attachments, and may name one of its own.                      *)
FilesOf(t, i) == IF V(t).store.items[i] = None THEN {} ELSE V(t).store.items[i].files

ApplyRemoteEncryptedItem(t, i, revision, at, files) ==
  /\ Free(t)
  /\ Draw
  /\ LET row == EncryptItemState(V(t).key, revision, at,
                  IF at = "tombstone" THEN {} ELSE files, draws')
     IN  /\ CanApply(V(t), i, row)
         /\ MutateAndPersist(t, ApplyEncryptedItem(V(t), i, row))
         /\ outside' = (outside \/ row.files # FilesOf(t, i))
  /\ Quiet

SessionCreateResume(t) ==
  /\ Free(t) /\ CanCreateSessionResume(V(t))
  /\ Draw
  /\ LET v == CreateSessionResume(V(t), draws')
     IN  Saves(t, v, SaveSnapshot(tab[t].version, v.store), SessionResumeCredential(v))
  /\ outside' = outside /\ Quiet

(***************************************************************************)
(* Attachments.  An import awaits the file before each chunk; a deletion   *)
(* and a purge await the manifests they replace.                           *)
(***************************************************************************)
CommitsImport(t, job) ==
  LET v == CommitAttachmentImport(V(t), job.item, job.file, job.row)
  IN  Saves(t, v, SaveAttachmentImport(tab[t].version, v.store, job.file, job.manifest), None)

AddAttachment(t, i, chunks) ==
  /\ Free(t) /\ CanBeginImport(V(t), i) /\ V(t).store.items[i].revision < MaxRevision
  /\ Draw
  /\ LET f == draws'
         row == Revised(V(t), i, "active", V(t).store.items[i].files \cup {f}, f)
         manifest == SealManifest(V(t).key, 1, "active", i, chunks)
         job == Importing(i, f, row, manifest, 0)
     IN  IF chunks = 0 THEN CommitsImport(t, job)
         ELSE Becomes(t, BeginAttachmentImport(V(t), f), job)
  /\ outside' = outside /\ Quiet

EncryptChunk(t) ==
  /\ At(t, "importing") /\ CanEncryptChunk(V(t), tab[t].job.file)
  /\ LET job == [tab[t].job EXCEPT !.done = @ + 1]
     IN  IF job.done = job.manifest.chunks THEN CommitsImport(t, job)
         ELSE Becomes(t, V(t), job)
  /\ UNCHANGED <<draws, outside>> /\ Quiet

(* The file cannot be read, or a lock has come between.                     *)
CancelImport(t) ==
  /\ At(t, "importing")
  /\ Becomes(t, CancelAttachmentImport(V(t), tab[t].job.file), Idle)
  /\ UNCHANGED <<draws, outside>> /\ Quiet

(* The deletion of an attachment, or a trashed item's purge, once it holds  *)
(* every manifest it wants.                                                 *)
CanCommitDeletion(t, job) ==
  IF job.purge THEN CanPurge(V(t), job.item, job.got)
  ELSE \A f \in Present(job.got) : CanDeleteAttachment(V(t), job.item, f, job.got[f])

CommitsDeletion(t, job) ==
  LET v == IF job.purge THEN PurgeItem(V(t), job.item, draws')
           ELSE DeleteAttachment(V(t), job.item, CHOOSE f \in Present(job.got) : TRUE, draws')
  IN  Saves(t, v, SaveItemPurge(tab[t].version, v.store, job.got), None)

StartPurge(t, i) ==
  /\ Free(t) /\ Is(V(t), i, "trashed") /\ V(t).store.items[i].revision < MaxRevision
  /\ Becomes(t, V(t), Reading(i, TRUE, TrashedAttachmentIds(V(t), i), NoManifests))
  /\ UNCHANGED <<draws, outside>> /\ Quiet

StartDeleteAttachment(t, i, f) ==
  /\ Free(t) /\ Is(V(t), i, "active") /\ V(t).store.items[i].revision < MaxRevision
  /\ f \in V(t).store.items[i].files
  /\ Becomes(t, V(t), Reading(i, FALSE, {f}, NoManifests))
  /\ UNCHANGED <<draws, outside>> /\ Quiet

ReadManifest(t, f) ==
  /\ At(t, "reading") /\ f \in tab[t].job.left /\ db.manifests[f] # None
  /\ Becomes(t, V(t), [tab[t].job EXCEPT !.left = @ \ {f}, !.got[f] = db.manifests[f]])
  /\ UNCHANGED <<draws, outside>> /\ Quiet

CommitDeletion(t) ==
  /\ At(t, "reading") /\ tab[t].job.left = {}
  /\ CanCommitDeletion(t, tab[t].job)
  /\ Draw
  /\ CommitsDeletion(t, tab[t].job)
  /\ outside' = outside /\ Quiet

(* A manifest is missing, not what the vault wants, or cannot be read.      *)
DeletionThrows(t) ==
  /\ At(t, "reading")
  /\ Becomes(t, V(t), Idle)
  /\ UNCHANGED <<draws, outside>> /\ Quiet

(***************************************************************************)
(* How a save ends.                                                        *)
(***************************************************************************)
CommitTransaction(t) ==
  /\ tab[t] # None /\ tab[t].job.at \in {"saving", "replacing"}
  /\ Fenced(db, tab[t].job.tx) /\ db.version < MaxVersion
  /\ db' = Applied(db, tab[t].job.tx)
  /\ Becomes(t, V(t), IF tab[t].job.at = "saving" THEN Saved(tab[t].job)
                      ELSE Replaced(tab[t].job))
  /\ UNCHANGED <<credentials, backup, account, draws, outside>>

PersistenceVersion(t) == tab[t].job.tx.expected + 1

(* The host gets the credential only now.                                   *)
SaveReturns(t) ==
  /\ At(t, "saved")
  /\ tab' = [tab EXCEPT ![t] = Tab(V(t), PersistenceVersion(t), Idle)]
  /\ credentials' = credentials \cup ({tab[t].job.credential} \ {None})
  /\ UNCHANGED <<db, backup, account, draws, outside>>

(* The transaction is refused, or the browser cannot store it.              *)
PoisonAfterDurabilityFailure(t) ==
  /\ At(t, "saving")
  /\ tab' = [tab EXCEPT ![t] =
       [@ EXCEPT !.vault = FromSnapshot(tab[t].job.before), !.job = Idle, !.poisoned = TRUE]]
  /\ UNCHANGED <<draws, outside>> /\ Quiet

(***************************************************************************)
(* Backups and resets replace the whole vault; their failure is no poison. *)
(***************************************************************************)
ExportEncryptedSnapshot(t) ==
  /\ Healthy(t) /\ IsUnlocked(V(t))
  /\ db.version = tab[t].version /\ db.snapshot # None
  /\ backup = None
  /\ backup' = BackupState(db)
  /\ UNCHANGED <<db, tab, credentials, account, draws, outside>>

ExportRemoteAccountRootWrap(t) ==
  /\ Healthy(t) /\ Reauthenticates(V(t))
  /\ account' = WrapForRemoteAccount(V(t))
  /\ UNCHANGED <<db, tab, credentials, backup, draws, outside>>

ImportEncryptedSnapshot(t) ==
  /\ Free(t) /\ ~IsInitialized(V(t))
  /\ backup # None /\ ValidatesRestored(backup)
  /\ Becomes(t, V(t), Replacing(ReplaceVaultFromBackup(tab[t].version, backup),
                                Unlock(FromSnapshot(backup.snapshot))))
  /\ UNCHANGED <<draws, outside>> /\ Quiet

Reset(t) ==
  /\ Free(t)
  /\ Becomes(t, V(t), Replacing(ClearSnapshot(tab[t].version), FromSnapshot(None)))
  /\ UNCHANGED <<draws, outside>> /\ Quiet

ReplaceReturns(t) ==
  /\ At(t, "replaced")
  /\ tab' = [tab EXCEPT ![t] = Tab(tab[t].job.vault, PersistenceVersion(t), Idle)]
  /\ UNCHANGED <<draws, outside>> /\ Quiet

ReplaceThrows(t) ==
  /\ At(t, "replacing")
  /\ Becomes(t, V(t), Idle)
  /\ UNCHANGED <<draws, outside>> /\ Quiet

(***************************************************************************)
(* A reload's resume awaits the latest snapshot, then tries the credential: *)
(* a tab that is behind what was read takes it over, locked.  Another tab   *)
(* may save between the read and the unlock.                               *)
(***************************************************************************)
StartResume(t) ==
  /\ Free(t)
  /\ Becomes(t, V(t), Resuming)
  /\ UNCHANGED <<draws, outside>> /\ Quiet

ReadLatest(t) ==
  /\ At(t, "resuming")
  /\ Becomes(t, V(t), Latest(db.version, db.snapshot))
  /\ UNCHANGED <<draws, outside>> /\ Quiet

(* Mutant: a resume that trusts the snapshot the tab loaded.                *)
AsLoaded(t) == tab[t]

Refreshed(t) ==
  LET read == tab[t].job
  IN  IF read.version = tab[t].version THEN tab[t]
      ELSE Tab(FromSnapshot(read.snapshot), read.version, Idle)

Resume(t, c) ==
  /\ At(t, "latest") /\ CanResume(Refreshed(t).vault, c)
  /\ tab' = [tab EXCEPT ![t] =
       [Refreshed(t) EXCEPT !.vault = UnlockWithSessionResume(@, c), !.job = Idle]]
  /\ UNCHANGED <<draws, outside>> /\ Quiet

(* The snapshot cannot be read, or the credential is not bound to it.       *)
ReadThrows(t) ==
  /\ At(t, "resuming")
  /\ Becomes(t, V(t), Idle)
  /\ UNCHANGED <<draws, outside>> /\ Quiet

ResumeThrows(t) ==
  /\ At(t, "latest")
  /\ tab' = [tab EXCEPT ![t] = [Refreshed(t) EXCEPT !.job = Idle]]
  /\ UNCHANGED <<draws, outside>> /\ Quiet

-----------------------------------------------------------------------------
Mutation(t) ==
  \/ SessionCreate(t) \/ InitializeFromRemote(t)
  \/ SessionChangePassphrase(t) \/ SessionInstallRecoveryKit(t) \/ SessionCreateResume(t)
  \/ \E i \in Items :
       \/ SessionPutItem(t, i) \/ SessionUpdateItem(t, i)
       \/ SessionTrashItem(t, i) \/ SessionRestoreItem(t, i)
       \/ \E revision \in 0..MaxRevision, at \in {"active", "trashed", "tombstone"} :
            Healthy(t) /\ \E files \in {{}, FilesOf(t, i), {draws + 1}} :
              ApplyRemoteEncryptedItem(t, i, revision, at, files)

AttachmentStep(t) ==
  \/ EncryptChunk(t) \/ CancelImport(t) \/ CommitDeletion(t) \/ DeletionThrows(t)
  \/ \E f \in Nonces : ReadManifest(t, f)
  \/ \E i \in Items :
       \/ StartPurge(t, i)
       \/ \E chunks \in 0..MaxChunks : AddAttachment(t, i, chunks)
       \/ \E f \in Nonces : StartDeleteAttachment(t, i, f)

Settle(t) ==
  \/ CommitTransaction(t) \/ SaveReturns(t) \/ PoisonAfterDurabilityFailure(t)
  \/ ReplaceReturns(t) \/ ReplaceThrows(t)

Session(t) ==
  \/ Load(t) \/ Close(t) \/ SessionUnlock(t) \/ SessionLock(t)
  \/ StartResume(t) \/ ReadLatest(t) \/ ReadThrows(t)
  \/ ResumeThrows(t) \/ \E c \in credentials : Resume(t, c)

Whole(t) ==
  \/ ExportEncryptedSnapshot(t) \/ ExportRemoteAccountRootWrap(t)
  \/ ImportEncryptedSnapshot(t) \/ Reset(t)

Next == \E t \in Tabs :
  Mutation(t) \/ AttachmentStep(t) \/ Settle(t) \/ Session(t) \/ Whole(t)

Spec == Init /\ [][Next]_vars

-----------------------------------------------------------------------------
(***************************************************************************)
(* What the tabs and the database promise.                                 *)
(***************************************************************************)
Tx == [expected : Nat, snapshot : Snapshot, wipe : BOOLEAN,
       puts : Manifests, adds : SUBSET (Nonces \X Nat), drops : SUBSET (Nonces \X Nat)]

Job ==
  {Idle, Resuming}
  \cup [at : {"latest"}, version : Nat, snapshot : Snapshot]
  \cup [at : {"saving", "saved"}, tx : Tx, before : MemStore, credential : Credential \cup {None}]
  \cup [at : {"replacing", "replaced"}, tx : Tx, vault : Vault]
  \cup [at : {"importing"}, item : Items, file : Nonces, row : Row, manifest : Manifest, done : Nat]
  \cup [at : {"reading"}, item : Items, purge : BOOLEAN, left : SUBSET Nonces, got : Manifests]

OpenTab == [vault : Vault, version : Nat, job : Job, poisoned : BOOLEAN]

ASSUME NoneIsNoTab == None \notin OpenTab \cup Credential \cup Backup

TypeOK ==
  /\ db \in Database
  /\ tab \in [Tabs -> OpenTab \cup {None}]
  /\ credentials \subseteq Credential
  /\ backup \in Backup \cup {None}
  /\ account \in RemoteWrap \cup {None}
  /\ draws \in Nat /\ outside \in BOOLEAN

StoreOf(snapshot) == FromSnapshot(snapshot).store

(* A tab that is at the database's version has the database's snapshot: in  *)
(* its memory, or from before the mutation it is saving; and what it has    *)
(* read to resume from is the database's as long as no tab saves.           *)
InMemory(o, d) ==
  CASE o.job.at = "saving" ->
         /\ o.job.tx.expected = o.version /\ o.job.tx.snapshot = o.vault.store
         /\ o.version = d.version => o.job.before = StoreOf(d.snapshot)
    [] o.job.at = "saved" ->
         o.job.tx.expected + 1 = d.version => o.vault.store = StoreOf(d.snapshot)
    [] o.job.at = "replaced" ->
         o.job.tx.expected + 1 = d.version => o.job.vault.store = StoreOf(d.snapshot)
    [] o.job.at = "latest" ->
         /\ o.version = d.version => o.vault.store = StoreOf(d.snapshot)
         /\ o.job.version = d.version => o.job.snapshot = d.snapshot
    [] OTHER ->
         o.version = d.version => o.vault.store = StoreOf(d.snapshot)

MemoryIsSnapshot == \A t \in Tabs : Healthy(t) => InMemory(tab[t], db)

(* Nothing but a reload brings a poisoned tab back.                         *)
PoisonedIsLocked == \A t \in Tabs : tab[t] # None /\ ~Healthy(t) => ~IsUnlocked(V(t))

(* A stored vault is sealed under one root key, within its limits, and a       *)
(* purged item names no attachment.                                         *)
Sealed(store, drawn) ==
  /\ Decodes(store)
  /\ store.kit # None => store.kit.key = store.root.key
  /\ \A id \in Ids : store.items[id] # None =>
       /\ store.items[id].key = store.root.key /\ store.items[id].files \subseteq 1..drawn
       /\ store.items[id].at = "tombstone" => store.items[id].files = {}

SealedAlike == Sealed(StoreOf(db.snapshot), draws)

(* Every attachment an item names is stored whole under the vault's key, and *)
(* no chunk is stored that no item names, unless another device changed an   *)
(* item's attachments.                                                      *)
FilesIn(d) ==
  LET store == StoreOf(d.snapshot)
  IN  /\ \A i \in Holders(store) : \A f \in store.items[i].files :
           /\ d.manifests[f] # None
           /\ d.manifests[f].at = "active" /\ d.manifests[f].owner = i
           /\ d.manifests[f].key = store.root.key
           /\ ChunksOf(f, d.manifests[f].chunks) \subseteq d.chunks
      /\ \A chunk \in d.chunks : \E i \in Holders(store) :
           chunk[1] \in store.items[i].files /\ chunk[2] < d.manifests[chunk[1]].chunks

FilesStored == ~outside => FilesIn(db)

(* What a tab finds was left by the same code.                              *)
Left(d, drawn) ==
  /\ d.snapshot # None => d.snapshot.root # None
  /\ Sealed(StoreOf(d.snapshot), drawn) /\ FilesIn(d)

ASSUME StartsAssumption == \A start \in Starts :
  /\ start.db \in Database /\ start.backup \in Backup \cup {None}
  /\ start.account \in RemoteWrap \cup {None}
  /\ start.credentials \subseteq Credential /\ start.draws \in Nat
  /\ Left(start.db, start.draws) /\ (start.backup # None => Left(start.backup, start.draws))

(* What is exported now can be restored, unless the trash holds the chunks  *)
(* of an attachment.                                                        *)
TrashHoldsChunks ==
  \E i \in Holders(db.snapshot) :
    /\ db.snapshot.items[i].at = "trashed"
    /\ \E f \in db.snapshot.items[i].files : db.manifests[f].chunks > 0
BackupRestores ==
  db.snapshot # None /\ ~outside /\ ~TrashHoldsChunks => ValidatesRestored(BackupState(db))

BrowserInv ==
  /\ TypeOK /\ MemoryIsSnapshot /\ PoisonedIsLocked
  /\ SealedAlike /\ FilesStored /\ BackupRestores

(* A save that commits is one operation on what was stored: it changes the  *)
(* root wrap without changing the root key, or the recovery kit, or it      *)
(* gives one item a later revision.  A restore finds no vault to replace.   *)
(* So no tab overwrites what another tab was told is saved.                 *)
ChangesOnly(old, new, part) ==
  /\ part # "root" => new.root = old.root
  /\ part # "kit" => new.kit = old.kit
  /\ part # "item" => new.items = old.items

OneOperation(old, new) ==
  \/ ChangesOnly(old, new, "root") /\ (old.root = None \/ new.root.key = old.root.key)
  \/ ChangesOnly(old, new, "kit")
  \/ /\ ChangesOnly(old, new, "item")
     /\ \E id \in Ids :
          /\ new.items[id] # None /\ \A x \in Ids \ {id} : new.items[x] = old.items[x]
          /\ old.items[id] # None => new.items[id].revision > old.items[id].revision

SavesBuildOnStored ==
  [][db' # db =>
       /\ db'.version = db.version + 1
       /\ db'.snapshot # None /\ db.snapshot # None => OneOperation(db.snapshot, db'.snapshot)]_vars

(* A tab is resumed with a credential that a host was given, and that was   *)
(* bound to the stored snapshot when it was read: not with one that another *)
(* tab's rotation or changed passphrase had made stale by then.  One that   *)
(* was made stale between the read and the unlock still opens the tab, but  *)
(* not one that can save: a tab at the database's version was resumed with  *)
(* a credential bound to what is stored.                                    *)
Resumed(t) ==
  /\ At(t, "latest") /\ ~IsUnlocked(V(t))
  /\ tab'[t] # None /\ tab'[t].job = Idle /\ IsUnlocked(tab'[t].vault)
ResumeIsNewest ==
  [][\A t \in Tabs : Resumed(t) =>
       \E c \in credentials :
         /\ tab'[t].vault.key = c.key
         /\ CanResume(FromSnapshot(tab[t].job.snapshot), c)
         /\ tab'[t].version = db.version => CanResume(FromSnapshot(db.snapshot), c)]_vars
=============================================================================
