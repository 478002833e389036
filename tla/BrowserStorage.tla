--------------------------- MODULE BrowserStorage ---------------------------
(***************************************************************************)
(* The three IndexedDB stores of the web app: the vault's snapshot with    *)
(* its version, the attachment manifests and the attachment chunks.  Every *)
(* write is one transaction over all it touches: it compares the version   *)
(* that its tab believes in, and the revisions of the manifests it         *)
(* replaces, and changes nothing when one of them differs.                 *)
(***************************************************************************)
EXTENDS WasmVault

Snapshot == MemStore \cup {None}
Manifests == [Nonces -> Manifest \cup {None}]
NoManifests == [f \in Nonces |-> None]

Database == [version : Nat, snapshot : Snapshot,
             manifests : Manifests, chunks : SUBSET (Nonces \X Nat)]

EmptyDatabase ==
  [version |-> 0, snapshot |-> None, manifests |-> NoManifests, chunks |-> {}]

ChunksOf(f, count) == {f} \X (0..count - 1)

(* A transaction; a manifest it puts is one revision later than the one it  *)
(* replaces.                                                                *)
Transaction(expected, snapshot, wipe, puts, adds, drops) ==
  [expected |-> expected, snapshot |-> snapshot, wipe |-> wipe,
   puts |-> puts, adds |-> adds, drops |-> drops]

SaveSnapshot(expected, store) ==
  Transaction(expected, store, FALSE, NoManifests, {}, {})

SaveAttachmentImport(expected, store, f, manifest) ==
  Transaction(expected, store, FALSE, [NoManifests EXCEPT ![f] = manifest],
              ChunksOf(f, manifest.chunks), {})

(* An attachment's deletion, and an item's purge with all of them.          *)
SaveItemPurge(expected, store, manifests) ==
  Transaction(expected, store, FALSE,
              [f \in Nonces |-> IF manifests[f] = None THEN None ELSE Tombstone(manifests[f])],
              {}, UNION {ChunksOf(f, manifests[f].chunks) : f \in Present(manifests)})

ReplaceVaultFromBackup(expected, backup) ==
  Transaction(expected, backup.snapshot, TRUE, backup.manifests, backup.chunks, {})

(* Mutant: a reset that leaves the attachment stores as they are.           *)
ClearSnapshotOnly(expected) ==
  Transaction(expected, None, FALSE, NoManifests, {}, {})

ClearSnapshot(expected) ==
  Transaction(expected, None, TRUE, NoManifests, {}, {})

RevisionOf(db, f) == IF db.manifests[f] = None THEN 0 ELSE db.manifests[f].revision

(* Mutant: a save that does not compare the version.                        *)
FencedByManifests(db, tx) ==
  tx.wipe \/ \A f \in Present(tx.puts) : RevisionOf(db, f) + 1 = tx.puts[f].revision

Fenced(db, tx) ==
  /\ db.version = tx.expected
  /\ tx.wipe \/ \A f \in Present(tx.puts) : RevisionOf(db, f) + 1 = tx.puts[f].revision

Applied(db, tx) ==
  [version |-> tx.expected + 1,
   snapshot |-> tx.snapshot,
   manifests |-> [f \in Nonces |->
     IF tx.wipe \/ tx.puts[f] # None THEN tx.puts[f] ELSE db.manifests[f]],
   chunks |-> (IF tx.wipe THEN {} ELSE db.chunks \ tx.drops) \cup tx.adds]

(***************************************************************************)
(* A backup is everything the three stores hold.  A restore opens it with  *)
(* its passphrase, opens every attachment of every active item, and wants  *)
(* no chunk left over.                                                     *)
(***************************************************************************)
Backup == [snapshot : MemStore, manifests : Manifests, chunks : SUBSET (Nonces \X Nat)]
BackupState(db) ==
  [snapshot |-> db.snapshot, manifests |-> db.manifests, chunks |-> db.chunks]

Holders(store) == Items \cap Present(store.items)
ActiveItems(store) == {i \in Holders(store) : store.items[i].at = "active"}

ValidatesRestored(backup) ==
  LET v == Unlock(FromSnapshot(backup.snapshot))
      active == ActiveItems(v.store)
      files(i) == v.store.items[i].files
      chunks(f) == ChunksOf(f, backup.manifests[f].chunks)
  IN  /\ Decodes(backup.snapshot) /\ IsInitialized(v)
      /\ \A i \in active : Is(v, i, "active")
      /\ \A i, j \in active : i # j => files(i) \cap files(j) = {}
      /\ \A i \in active : \A f \in files(i) :
           /\ backup.manifests[f] # None
           /\ Opens(v, i, backup.manifests[f])
           /\ chunks(f) \subseteq backup.chunks
      /\ backup.chunks \subseteq UNION {UNION {chunks(f) : f \in files(i)} : i \in active}
      /\ \A chunk \in backup.chunks : backup.manifests[chunk[1]] # None
=============================================================================
