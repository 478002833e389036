---------------------------- MODULE VaultDatabase ----------------------------
(***************************************************************************)
(* The SQLite database of a native vault as a value: its tables, the       *)
(* transactions of vault-storage as functions from a database to the next  *)
(* one, and the checks a backup or a restore makes of its contents         *)
(* (crates/vault-storage, validate_storage_contents of crates/vault-core). *)
(*                                                                         *)
(* A record is authenticated together with its object id and revision, so  *)
(* a ciphertext is its plaintext and the root key it is sealed under.      *)
(***************************************************************************)
EXTENDS Integers, FiniteSets

CONSTANTS
  Items,           \* ids of vault items
  Files,           \* ids of attachments
  Keys,            \* account root keys
  Passphrases,     \* master passphrases
  MaxItems,        \* ITEM_MAX_OBJECTS, which no insertion enforces
  HistoryPerItem,  \* ITEM_HISTORY_MAX_REVISIONS_PER_ITEM
  HistoryRows,     \* ITEM_HISTORY_MAX_ROWS; the limit in bytes acts like it
  MaxFileObjects,  \* ATTACHMENT_MAX_OBJECTS
  FileBudget,      \* MAX_ATTACHMENT_STORAGE_BYTES, in attachments of one size
  None

ASSUME DatabaseAssumption ==
  /\ IsFiniteSet(Items) /\ IsFiniteSet(Files)
  /\ HistoryPerItem \in Nat \ {0} /\ HistoryRows \in Nat \ {0}
  /\ MaxItems \in Nat \ {0} /\ MaxFileObjects \in Nat /\ FileBudget \in Nat

(***************************************************************************)
(* Rows.  body stands for everything in an item but its attachments; a     *)
(* history row keeps the state that was current, n is its history_id.      *)
(***************************************************************************)
Row == [revision : Nat, key : Keys, at : {"active", "trashed", "tombstone"},
        body : Nat, files : SUBSET Files]
Archived == [item : Items, n : Nat, row : Row]
FileRow == [revision : Nat, key : Keys, at : {"active", "tombstone"}, owner : Items,
            chunks : BOOLEAN]
Wrap == [key : Keys, by : Passphrases]

Tables == [root : Wrap \cup {None}, kit : Keys \cup {None}, items : [Items -> Row \cup {None}],
           history : SUBSET Archived, files : [Files -> FileRow \cup {None}]]

ASSUME NoneAssumption == None \notin Keys \cup Files \cup Wrap \cup Row \cup FileRow \cup Tables

(* history_id is the primary key of a history row, and its item and revision *)
(* are UNIQUE.                                                              *)
IsDatabase(d) ==
  /\ d \in Tables
  /\ IsFiniteSet(d.history)
  /\ \A a, b \in d.history :
       a.n = b.n \/ (a.item = b.item /\ a.row.revision = b.row.revision) => a = b

Blank ==
  [root |-> None, kit |-> None, items |-> [i \in Items |-> None], history |-> {},
   files |-> [f \in Files |-> None]]

Stored(d) == {f \in Files : d.files[f] # None}
WithChunks(d) == {f \in Stored(d) : d.files[f].chunks}

(***************************************************************************)
(* The wraps of the root key.  A wrap opens with the secret it was made    *)
(* with, and the session that opens it has its root key.                   *)
(***************************************************************************)
OpensWith(d, p) == d.root # None /\ d.root.by = p

InitializeRootWrap(d, k, p) == [d EXCEPT !.root = [key |-> k, by |-> p]]

ReplaceRootWrap(d, k, p) == [d EXCEPT !.root = [key |-> k, by |-> p]]

StoreRecoveryWrap(d, k) == [d EXCEPT !.kit = k]

(***************************************************************************)
(* Sealed rows.  A row read with another root key than it was sealed under *)
(* does not authenticate.                                                  *)
(***************************************************************************)
EncryptItemState(k, revision, at, body, files) ==
  [revision |-> revision, key |-> k, at |-> at, body |-> body, files |-> files]

DecryptsItem(d, k, i) == d.items[i] # None /\ d.items[i].key = k

SealAttachmentManifest(k, owner) ==
  [revision |-> 1, key |-> k, at |-> "active", owner |-> owner, chunks |-> TRUE]

OpensAttachment(d, k, f, owner) ==
  /\ d.files[f] # None
  /\ d.files[f].key = k
  /\ d.files[f].at = "active"
  /\ d.files[f].owner = owner

(* Mutant: the chunks of a deleted attachment stay.                         *)
SealButChunks(file, k) == [file EXCEPT !.revision = @ + 1, !.key = k, !.at = "tombstone"]

SealTombstone(file, k) ==
  [revision |-> file.revision + 1, key |-> k, at |-> "tombstone", owner |-> file.owner,
   chunks |-> FALSE]

(***************************************************************************)
(* Parts of transactions: archive_current_item, update_current_item and    *)
(* prune_item_history_with_limits.                                         *)
(***************************************************************************)
(* Mutant: the update names the row, not its revision.                      *)
IsThere(d, i, expected) == d.items[i] # None /\ d.items[i].revision >= expected

IsCurrent(d, i, expected) == d.items[i] # None /\ d.items[i].revision = expected

(* INSERT ... SELECT, refused by UNIQUE(object_id, revision); history_id is *)
(* AUTOINCREMENT, and only the order of the ids matters.                    *)
CanArchive(d, i, expected) ==
  /\ IsCurrent(d, i, expected)
  /\ \A a \in d.history : a.item # i \/ a.row.revision # expected

NextHistoryId(h) ==
  CHOOSE n \in 1..(Cardinality(h) + 1) \cup {a.n + 1 : a \in h} :
    /\ \A a \in h : a.n < n
    /\ h = {} \/ \E a \in h : a.n + 1 = n

ArchiveCurrentItem(d, i) ==
  [d EXCEPT !.history = @ \cup {[item |-> i, n |-> NextHistoryId(@), row |-> d.items[i]]}]

UpdateCurrentItem(d, i, row) == [d EXCEPT !.items[i] = row]

Younger(h, a) == {b \in h : b.n > a.n}

Revised(h, a) == {b \in h : b.item = a.item /\ b.row.revision > a.row.revision}

PruneItemHistory(d, i) ==
  LET mine == {a \in d.history : a.item # i \/ Cardinality(Revised(d.history, a)) < HistoryPerItem}
  IN  [d EXCEPT !.history = {a \in mine : Cardinality(Younger(mine, a)) < HistoryRows}]

(***************************************************************************)
(* A write is what a session hands to one transaction: the row it sealed,  *)
(* the revision it expects to replace, a new attachment, and attachments   *)
(* to tombstone, each with the row it read of it.                          *)
(***************************************************************************)
Kinds == {"update", "edit", "attach", "detach", "purge"}
NoFiles == [f \in Files |-> None]
Write == [kind : Kinds, item : Items, expected : Nat, row : Row, file : Files \cup {None},
          marks : [Files -> FileRow \cup {None}]]
Marked(w) == {f \in Files : w.marks[f] # None}

Writes(kind, i, expected, row, file, marks) ==
  [kind |-> kind, item |-> i, expected |-> expected, row |-> row, file |-> file,
   marks |-> marks]

CanInsertItem(d, i) == d.items[i] = None
InsertItem(d, i, row) == [d EXCEPT !.items[i] = row]

(* update_item_if_revision: the lifecycle writes, which leave no history.   *)
CanUpdateItem(d, w) == w.kind = "update" /\ IsCurrent(d, w.item, w.expected)
UpdateItem(d, w) == UpdateCurrentItem(d, w.item, w.row)

(* Mutant: the row is archived after it was replaced.                       *)
ArchivesTheNewRow(d, w) ==
  PruneItemHistory(ArchiveCurrentItem(UpdateCurrentItem(d, w.item, w.row), w.item), w.item)

(* update_item_with_history_if_revision.                                    *)
CanUpdateWithHistory(d, w) == w.kind = "edit" /\ CanArchive(d, w.item, w.expected)
UpdateWithHistory(d, w) ==
  PruneItemHistory(UpdateCurrentItem(ArchiveCurrentItem(d, w.item), w.item, w.row), w.item)

(* insert_attachment_and_update_item_if_revision: COUNT of all attachments, *)
(* the tombstones among them, then the row and its chunks.                  *)
CanInsertAttachment(d, w) ==
  /\ w.kind = "attach"
  /\ CanArchive(d, w.item, w.expected)
  /\ Cardinality(Stored(d)) < MaxFileObjects
  /\ d.files[w.file] = None

InsertAttachment(d, w) ==
  LET added == [d EXCEPT !.files[w.file] = SealAttachmentManifest(w.row.key, w.item)]
  IN  PruneItemHistory(UpdateCurrentItem(ArchiveCurrentItem(added, w.item), w.item, w.row), w.item)

(* tombstone_attachments_and_update_item_inner: every attachment must be at *)
(* the revision it was read at.                                             *)
CanTombstone(d, w) ==
  /\ w.kind \in {"detach", "purge"}
  /\ IF w.kind = "detach" THEN CanArchive(d, w.item, w.expected)
                          ELSE IsCurrent(d, w.item, w.expected)
  /\ \A f \in Marked(w) :
        d.files[f] # None /\ d.files[f].revision = w.marks[f].revision
Tombstone(d, w) ==
  LET kept    == IF w.kind = "detach" THEN ArchiveCurrentItem(d, w.item) ELSE d
      updated == UpdateCurrentItem(kept, w.item, w.row)
      marked  == [updated EXCEPT !.files =
                    [f \in Files |-> IF f \in Marked(w)
                                     THEN SealTombstone(w.marks[f], w.row.key) ELSE @[f]]]
  IN  IF w.kind = "detach" THEN PruneItemHistory(marked, w.item)
      ELSE [marked EXCEPT !.history = {a \in @ : a.item # w.item}]

(* A transaction commits as a whole or leaves the database as it was.       *)
CanCommit(d, w) ==
  \/ CanUpdateItem(d, w) \/ CanUpdateWithHistory(d, w)
  \/ CanInsertAttachment(d, w) \/ CanTombstone(d, w)

Committed(d, w) ==
  CASE w.kind = "update" -> UpdateItem(d, w)
    [] w.kind = "edit"   -> UpdateWithHistory(d, w)
    [] w.kind = "attach" -> InsertAttachment(d, w)
    [] OTHER             -> Tombstone(d, w)

(***************************************************************************)
(* Reads of history and attachments.  Each one checks the rows it meets,   *)
(* and fails as a whole when one of them is not as it should be.           *)
(***************************************************************************)
HistoryOf(d, i) == {a \in d.history : a.item = i}
Predates(d, a) == d.items[a.item] # None /\ a.row.revision < d.items[a.item].revision

ListItemHistoryRevisions(d, i) == {a.row.revision : a \in HistoryOf(d, i)}
HistoryRevisionsListed(d, i) ==
  /\ Cardinality(HistoryOf(d, i)) <= HistoryPerItem
  /\ \A a \in HistoryOf(d, i) : Predates(d, a)

HistoryKeysListed(d) ==
  /\ Cardinality(d.history) <= HistoryRows
  /\ \A a \in d.history : HistoryRevisionsListed(d, a.item)

LoadItemHistory(d, i, revision) ==
  {a.row : a \in {b \in HistoryOf(d, i) : b.row.revision = revision /\ Predates(d, b)}}

(* Only an active item is archived, and only an active one decrypts here.   *)
DecryptsHistory(d, k, i, revision) ==
  \E row \in LoadItemHistory(d, i, revision) : row.key = k /\ row.at = "active"

ListAttachmentChunks(d, f) == IF d.files[f].chunks THEN {f} ELSE {}

(* list_item_history_revisions and get_item_history of vault-core: nothing  *)
(* of an item that is not active is shown.                                  *)
HistoryOpens(d, k, i) ==
  /\ DecryptsItem(d, k, i) /\ d.items[i].at = "active"
  /\ HistoryRevisionsListed(d, i)
  /\ \A n \in ListItemHistoryRevisions(d, i) : DecryptsHistory(d, k, i, n)

(* list_attachments, and prepare_attachment_export of each.                 *)
ExportsAttachments(d, k, i) ==
  /\ DecryptsItem(d, k, i) /\ d.items[i].at = "active"
  /\ \A f \in d.items[i].files :
       OpensAttachment(d, k, f, i) /\ ListAttachmentChunks(d, f) = {f}

(***************************************************************************)
(* What a backup and a restore check of a database, under a root key.      *)
(***************************************************************************)
Live(d) == {i \in Items : d.items[i] # None}

(* list_item_ids refuses a table of more items, and with it every check.    *)
ItemsListed(d) == Cardinality(Live(d)) <= MaxItems

Refers(d, i) == IF d.items[i].at = "tombstone" THEN {} ELSE d.items[i].files

ItemsValid(d, k) ==
  /\ \A i \in Live(d) : DecryptsItem(d, k, i)
  /\ \A i, j \in Live(d) : i = j \/ Refers(d, i) \cap Refers(d, j) = {}

HistoryValid(d, k) ==
  /\ HistoryKeysListed(d)
  /\ \A a \in d.history :
       /\ d.items[a.item].at # "tombstone"
       /\ DecryptsHistory(d, k, a.item, a.row.revision)

FilesValid(d, k) ==
  /\ \A f \in Stored(d) :
       IF d.files[f].at = "active"
       THEN /\ d.files[f].owner \in Live(d)
            /\ f \in Refers(d, d.files[f].owner)
            /\ d.files[f].key = k /\ d.files[f].chunks
       ELSE /\ \A i \in Live(d) : f \notin Refers(d, i)
            /\ d.files[f].key = k /\ ~d.files[f].chunks
  /\ \A i \in Live(d) : Refers(d, i) \subseteq Stored(d)

(* validate_record_bounds, and the number of attachments that               *)
(* list_attachment_ids admits.  Writes keep the bounds of the rows, not the  *)
(* number of items.                                                         *)
RowsBounded(d) ==
  /\ Cardinality(d.history) <= HistoryRows
  /\ \A a \in d.history : Predates(d, a)
  /\ \A a \in d.history : Cardinality({b \in d.history : b.item = a.item}) <= HistoryPerItem
  /\ Cardinality(Stored(d)) <= MaxFileObjects

WithinBounds(d) == ItemsListed(d) /\ RowsBounded(d)

WithinBudget(d) == Cardinality(WithChunks(d)) <= FileBudget

(* What validate_storage_contents compares, once the storage of the          *)
(* attachments is within its limit and the items are listed.                *)
Consistent(d, k) == ItemsValid(d, k) /\ HistoryValid(d, k) /\ FilesValid(d, k)

ContentsValid(d, k) == WithinBudget(d) /\ ItemsListed(d) /\ Consistent(d, k)

Validates(d, k) == WithinBounds(d) /\ ContentsValid(d, k)

(* replace_root_wrap_on_connection_if_fingerprint, on the candidate.        *)
Rewrapped(d, k, p) == ReplaceRootWrap(d, k, p)

(* replace_from_database_inner, of a source within the bounds: every table   *)
(* of it, and nothing of the database it replaces.                          *)
ReplaceFromDatabase(d, source) ==
  [d EXCEPT !.root = source.root, !.kit = source.kit, !.items = source.items,
            !.history = source.history, !.files = source.files]
=============================================================================
