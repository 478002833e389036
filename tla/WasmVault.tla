------------------------------ MODULE WasmVault ------------------------------
(***************************************************************************)
(* The browser's vault inside WebAssembly: a store of ciphertext in memory *)
(* and, while it is unlocked, the root key.  Every operation is a function *)
(* from one vault to the next; one that its guard refuses throws and       *)
(* leaves the vault as it was.  A sealing draws a nonce, so two sealings   *)
(* of one record differ: a nonce is a number never drawn before.  A call   *)
(* names the revision it replaces; a call with another one is refused.     *)
(***************************************************************************)
EXTENDS Integers, FiniteSets

CONSTANTS
  Items,              \* identifiers of the items users keep
  Marker,             \* the session-resume marker, an item of the system
  Nonces,             \* what can be drawn: keys, nonces and attachment identifiers
  None,
  ITEM_MAX_OBJECTS, MAX_ITEM_ATTACHMENTS

ASSUME WasmVaultAssumption ==
  /\ Marker \notin Items
  /\ IsFiniteSet(Items) /\ Nonces \subseteq Nat
  /\ None \notin Items \cup {Marker} \cup Nat
  /\ {ITEM_MAX_OBJECTS, MAX_ITEM_ATTACHMENTS} \subseteq Nat \ {0}

Ids == Items \cup {Marker}

(* Ciphertext: the root key is named by the nonce it was drawn with.        *)
Wrap == [key : Nonces, nonce : Nonces]
RemoteWrap == [key : Nonces]
Row == [key : Nonces, revision : Nat, at : {"active", "trashed", "tombstone"},
        files : SUBSET Nonces, nonce : Nonces]
Manifest == [key : Nonces, revision : Nat, at : {"active", "tombstone"},
             owner : Items, chunks : Nat]

MemStore == [root : Wrap \cup {None}, kit : Wrap \cup {None},
             items : [Ids -> Row \cup {None}]]
Vault == [store : MemStore, key : Nonces \cup {None}, imports : SUBSET Nonces]

ASSUME NoneIsNoRecord == None \notin Wrap \cup RemoteWrap \cup Row \cup Manifest \cup MemStore

NewStore == [root |-> None, kit |-> None, items |-> [id \in Ids |-> None]]
Present(items) == {id \in DOMAIN items : items[id] # None}

(* What a snapshot is decoded to; a reset leaves none behind.               *)
Decodes(store) ==
  /\ store.root = None => store.kit = None /\ Present(store.items) = {}
  /\ Cardinality(Present(store.items)) <= ITEM_MAX_OBJECTS
FromSnapshot(snap) == [store |-> IF snap = None THEN NewStore ELSE snap,
                       key |-> None, imports |-> {}]

IsInitialized(v) == v.store.root # None
IsUnlocked(v) == v.key # None
Lock(v) == [v EXCEPT !.key = None, !.imports = {}]

(***************************************************************************)
(* The root key and its wraps.                                             *)
(***************************************************************************)
WrapRootKey(key, n) == [key |-> key, nonce |-> n]
UnwrapRootKey(wrap) == wrap.key

InitializeRootWrap(v, key, n) ==
  [v EXCEPT !.store.root = WrapRootKey(key, n), !.key = key]

Create(v, n) == InitializeRootWrap(v, n, n)

Unlock(v) == [v EXCEPT !.key = UnwrapRootKey(v.store.root)]

(* The passphrase opens the wrap, and its key every record.                 *)
Reauthenticates(v) ==
  /\ IsUnlocked(v) /\ IsInitialized(v)
  /\ \A id \in Present(v.store.items) :
       v.store.items[id].key = UnwrapRootKey(v.store.root)

ChangePassphrase(v, n) ==
  LET key == UnwrapRootKey(v.store.root)
  IN  [v EXCEPT !.store.root = WrapRootKey(key, n), !.imports = {}, !.key = key]

(* The envelope that brings the root key to the account's next browser: it   *)
(* opens with the passphrase, the account's secret and its identifier.      *)
WrapForRemoteAccount(v) == [key |-> UnwrapRootKey(v.store.root)]
UnwrapForRemoteAccount(wrap) == wrap.key
InitializeFromRemoteWrap(v, wrap, n) ==
  InitializeRootWrap(v, UnwrapForRemoteAccount(wrap), n)

WrapWithRecoverySecret(key, n) == [key |-> key, nonce |-> n]
UnwrapWithRecoverySecret(wrap) == wrap.key
InstallRecoveryKit(v, n) == [v EXCEPT !.store.kit = WrapWithRecoverySecret(v.key, n)]
UnlockWithRecoveryKit(v) == [v EXCEPT !.key = UnwrapWithRecoverySecret(v.store.kit)]

(***************************************************************************)
(* Items.                                                                  *)
(***************************************************************************)
EncryptItemState(key, revision, at, files, n) ==
  [key |-> key, revision |-> revision, at |-> at, files |-> files, nonce |-> n]

Write(v, id, row) == [v EXCEPT !.store.items[id] = row]

CanInsert(v, id) ==
  /\ v.store.items[id] = None
  /\ Cardinality(Present(v.store.items)) + 1 <= ITEM_MAX_OBJECTS

CanUpdate(v, id, row) ==
  v.store.items[id] # None /\ row.revision > v.store.items[id].revision

(* The record is there, decrypts under the session's key and is at `at`.    *)
Is(v, id, at) ==
  /\ IsUnlocked(v) /\ v.store.items[id] # None
  /\ v.store.items[id].key = v.key /\ v.store.items[id].at = at

Revised(v, id, at, files, n) ==
  EncryptItemState(v.key, v.store.items[id].revision + 1, at, files, n)

CanPut(v, i) == IsUnlocked(v) /\ CanInsert(v, i)
PutItem(v, i, n) == Write(v, i, EncryptItemState(v.key, 0, "active", {}, n))

UpdateItem(v, i, n) == Write(v, i, Revised(v, i, "active", v.store.items[i].files, n))
TrashItem(v, i, n) == Write(v, i, Revised(v, i, "trashed", v.store.items[i].files, n))
RestoreItem(v, i, n) == Write(v, i, Revised(v, i, "active", v.store.items[i].files, n))

(* A record that another device sealed under the same root key.  The caller *)
(* passes the ciphertext it judged, and nothing else is replaced.           *)
CanApply(v, i, row) ==
  /\ IsUnlocked(v) /\ row.key = v.key
  /\ CanInsert(v, i) \/ CanUpdate(v, i, row)
ApplyEncryptedItem(v, i, row) == Write(v, i, row)

(***************************************************************************)
(* The session-resume marker.  A credential wraps the root key and is      *)
(* bound to the root wrap and to the marker's ciphertext.                  *)
(***************************************************************************)
Binding(v) == [root |-> v.store.root, marker |-> v.store.items[Marker]]
Credential == [key : Nonces, binding : [root : Wrap, marker : Row]]

WrapWithSessionResume(key, binding) == [key |-> key, binding |-> binding]
OpensSessionResume(c, binding) == c.binding = binding

NextMarker(v, n) ==
  IF v.store.items[Marker] = None
  THEN EncryptItemState(v.key, 0, "active", {}, n)
  ELSE Revised(v, Marker, "active", {}, n)

CanCreateSessionResume(v) ==
  /\ IsUnlocked(v) /\ IsInitialized(v)
  /\ Is(v, Marker, "active") \/ CanInsert(v, Marker)
CreateSessionResume(v, n) == Write(v, Marker, NextMarker(v, n))
SessionResumeCredential(v) == WrapWithSessionResume(v.key, Binding(v))

CanResume(v, c) ==
  /\ IsInitialized(v) /\ v.store.items[Marker] # None
  /\ OpensSessionResume(c, Binding(v))
  /\ v.store.items[Marker].key = c.key
UnlockWithSessionResume(v, c) == [v EXCEPT !.key = c.key]

(***************************************************************************)
(* Attachments.  The vault keeps what an import has sealed at its start;   *)
(* manifests and chunks are the host's to store.                           *)
(***************************************************************************)
CanBeginImport(v, i) ==
  Is(v, i, "active") /\ Cardinality(v.store.items[i].files) < MAX_ITEM_ATTACHMENTS
BeginAttachmentImport(v, f) == [v EXCEPT !.imports = @ \cup {f}]
CancelAttachmentImport(v, f) == [v EXCEPT !.imports = @ \ {f}]

SealManifest(key, revision, at, owner, chunks) ==
  [key |-> key, revision |-> revision, at |-> at, owner |-> owner, chunks |-> chunks]

CanEncryptChunk(v, f) == IsUnlocked(v) /\ f \in v.imports
CommitAttachmentImport(v, i, f, row) ==
  Write(CancelAttachmentImport(v, f), i, row)

Opens(v, i, m) == m.key = v.key /\ m.at = "active" /\ m.owner = i

CanDeleteAttachment(v, i, f, m) ==
  Is(v, i, "active") /\ f \in v.store.items[i].files /\ Opens(v, i, m)
DeleteAttachment(v, i, f, n) ==
  Write(v, i, Revised(v, i, "active", v.store.items[i].files \ {f}, n))

CanPurge(v, i, manifests) ==
  /\ Is(v, i, "trashed")
  /\ Present(manifests) = v.store.items[i].files
  /\ \A f \in Present(manifests) : Opens(v, i, manifests[f])
PurgeItem(v, i, n) == Write(v, i, Revised(v, i, "tombstone", {}, n))

TrashedAttachmentIds(v, i) == v.store.items[i].files

(* The manifest that takes a deleted attachment's place.                    *)
Tombstone(m) == SealManifest(m.key, m.revision + 1, "tombstone", m.owner, 0)
=============================================================================
