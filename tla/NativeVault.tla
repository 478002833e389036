----------------------------- MODULE NativeVault -----------------------------
(***************************************************************************)
(* Sessions of vault-core over one database file, and a backup file.       *)
(*                                                                         *)
(* A session holds the root key, never the database: an operation reads    *)
(* rows, decrypts and judges them, seals new ones and hands a write to one *)
(* transaction, which compares the revision again.  Sessions of several    *)
(* windows or processes interleave between the two.  An attachment import  *)
(* is a plan that outlives the session: it is sealed at its start,         *)
(* encrypts a file at leisure and is committed by a later call.  A restore *)
(* is validated, fingerprinted, possibly rewrapped, and installed in one   *)
(* transaction that compares the fingerprint.                              *)
(***************************************************************************)
EXTENDS VaultDatabase

CONSTANTS
  Sessions,     \* VaultSession handles of the database file
  Foreign,      \* the vault in the backup file at the start: another vault's backup
  MaxRevision, MaxBodies, MaxFiles, MaxInstalls   \* bounds of the model

ASSUME NativeVaultAssumption ==
  /\ IsFiniteSet(Sessions) /\ Sessions # {}
  /\ {MaxRevision, MaxBodies, MaxFiles, MaxInstalls} \subseteq Nat
  /\ Files = 1..MaxFiles
  /\ IsDatabase(Foreign)
  /\ Foreign.root # None /\ Foreign.kit \in {None, Foreign.root.key}

VARIABLES
  live,      \* the database file
  copy,      \* the backup file, or the staged candidate of a restore
  session,   \* [Sessions -> root key and era of an unlocked session, or None]
  view,      \* [Sessions -> the item its user looks at, or None]
  plan,      \* [Sessions -> an attachment import between prepare and commit]
  call,      \* [Sessions -> a write between its reads and its transaction]
  staged,    \* the restore being prepared
  bodies,    \* how many item bodies users have written
  minted,    \* how many attachment ids have been drawn
  installs,  \* history: how many databases have replaced the live one
  stray      \* history: a write or install that the code does not fence took place

vars == <<live, copy, session, view, plan, call, staged, bodies, minted, installs, stray>>

Session == [key : Keys, era : Nat]
View == [item : Items, row : Row, era : Nat]
Call == [write : Write, base : View, era : Nat]
Plan == [write : Write, base : View, era : Nat, encrypted : BOOLEAN]
Restore == [key : Keys, seen : Tables, print : Tables \cup {None}]

ASSUME NoSessionAssumption == None \notin Session \cup View \cup Call \cup Plan \cup Restore

Init ==
  /\ live = Blank /\ copy = Foreign
  /\ session = [s \in Sessions |-> None] /\ view = session
  /\ plan = session /\ call = session
  /\ staged = None
  /\ bodies = 0 /\ minted = 0 /\ installs = 0
  /\ stray = FALSE

Idle(s) == session[s] # None /\ call[s] = None

(***************************************************************************)
(* Opening and closing sessions.                                           *)
(***************************************************************************)
Opened(s, k) == session' = [session EXCEPT ![s] = [key |-> k, era |-> installs]]

Create(s, p, k) ==
  /\ session[s] = None /\ live.root = None
  /\ k # copy.root.key
  /\ live' = InitializeRootWrap(live, k, p)
  /\ Opened(s, k)
  /\ UNCHANGED <<copy, view, plan, call, staged, bodies, minted, installs, stray>>

Unlock(s, p) ==
  /\ session[s] = None /\ OpensWith(live, p)
  /\ Opened(s, live.root.key)
  /\ UNCHANGED <<live, copy, view, plan, call, staged, bodies, minted, installs, stray>>

UnlockWithRecoveryKit(s) ==
  /\ session[s] = None /\ live.kit # None
  /\ Opened(s, live.kit)
  /\ UNCHANGED <<live, copy, view, plan, call, staged, bodies, minted, installs, stray>>

(* A session that is dropped; the import plan it prepared is not its own.   *)
Lock(s) ==
  /\ Idle(s)
  /\ session' = [session EXCEPT ![s] = None]
  /\ view' = [view EXCEPT ![s] = None]
  /\ UNCHANGED <<live, copy, plan, call, staged, bodies, minted, installs, stray>>

GetItemWithRevision(s, i) ==
  /\ Idle(s) /\ DecryptsItem(live, session[s].key, i)
  /\ view' = [view EXCEPT ![s] = [item |-> i, row |-> live.items[i], era |-> installs]]
  /\ UNCHANGED <<live, copy, session, plan, call, staged, bodies, minted, installs, stray>>

(***************************************************************************)
(* The read half of an operation: the item its user looked at is still     *)
(* there at that revision and in the state the operation wants.            *)
(***************************************************************************)
Looks(s, at) ==
  /\ Idle(s) /\ view[s] # None
  /\ LET i == view[s].item
     IN  /\ DecryptsItem(live, session[s].key, i)
         /\ live.items[i].revision = view[s].row.revision
         /\ live.items[i].revision < MaxRevision
         /\ live.items[i].at = at

Next1(s, at, body, files) ==
  EncryptItemState(session[s].key, view[s].row.revision + 1, at, body, files)

Begins(s, kind, row, marks) ==
  call' = [call EXCEPT ![s] =
    [write |-> Writes(kind, view[s].item, view[s].row.revision, row, None, marks),
     base |-> view[s], era |-> installs]]

(* The attachments a write tombstones, as they were read.                   *)
MarksOf(files) == [f \in Files |-> IF f \in files THEN live.files[f] ELSE None]

Begun == UNCHANGED <<live, copy, session, view, plan, staged, minted, installs, stray>>

(* Also set_legacy_disposition, set_account_closure_plan and                *)
(* set_access_policy.  The attachments the caller sends must be the         *)
(* current ones.                                                            *)
UpdateItemCall(s) ==
  /\ Looks(s, "active")
  /\ view[s].row.files = live.items[view[s].item].files
  /\ bodies < MaxBodies
  /\ bodies' = bodies + 1
  /\ Begins(s, "edit", Next1(s, "active", bodies', view[s].row.files), NoFiles)
  /\ Begun

TrashItem(s) ==
  /\ Looks(s, "active")
  /\ LET row == live.items[view[s].item]
     IN  Begins(s, "update", Next1(s, "trashed", row.body, row.files), NoFiles)
  /\ Begun /\ UNCHANGED bodies

RestoreItem(s) ==
  /\ Looks(s, "trashed")
  /\ LET row == live.items[view[s].item]
     IN  Begins(s, "update", Next1(s, "active", row.body, row.files), NoFiles)
  /\ Begun /\ UNCHANGED bodies

PurgeItem(s) ==
  /\ Looks(s, "trashed")
  /\ LET i == view[s].item
         files == live.items[i].files
     IN  /\ \A f \in files : OpensAttachment(live, session[s].key, f, i)
         /\ Begins(s, "purge", Next1(s, "tombstone", 0, {}), MarksOf(files))
  /\ Begun /\ UNCHANGED bodies

DeleteAttachment(s, f) ==
  /\ Looks(s, "active")
  /\ LET i == view[s].item
         row == live.items[i]
     IN  /\ f \in row.files
         /\ OpensAttachment(live, session[s].key, f, i)
         /\ Begins(s, "detach", Next1(s, "active", row.body, row.files \ {f}),
                   MarksOf({f}))
  /\ Begun /\ UNCHANGED bodies

(***************************************************************************)
(* The write half: one transaction.  The code fences it by revisions only. *)
(* It does not see that the database has been replaced in between, or that *)
(* the root key is no longer the one this session has.                     *)
(***************************************************************************)
Unfenced(k, era) == k # live.root.key \/ era # installs

CommitCall(s) ==
  /\ call[s] # None
  /\ LET w == call[s].write
     IN  IF CanCommit(live, w)
         THEN /\ live' = Committed(live, w)
              /\ stray' = (stray \/ Unfenced(w.row.key, call[s].era))
         ELSE UNCHANGED <<live, stray>>
  /\ call' = [call EXCEPT ![s] = None]
  /\ UNCHANGED <<copy, session, view, plan, staged, bodies, minted, installs>>

(* put_item: no read precedes it.                                           *)
PutItem(s, i) ==
  /\ Idle(s) /\ CanInsertItem(live, i)
  /\ bodies < MaxBodies
  /\ bodies' = bodies + 1
  /\ live' = InsertItem(live, i, EncryptItemState(session[s].key, 1, "active", bodies', {}))
  /\ stray' = (stray \/ session[s].key # live.root.key)
  /\ UNCHANGED <<copy, session, view, plan, call, staged, minted, installs>>

(***************************************************************************)
(* Attachment imports.                                                     *)
(***************************************************************************)
PrepareAttachmentImport(s) ==
  /\ Looks(s, "active") /\ plan[s] = None
  /\ minted < MaxFiles
  /\ minted' = minted + 1
  /\ LET i == view[s].item
         row == live.items[i]
         w == Writes("attach", i, row.revision,
                     Next1(s, "active", row.body, row.files \cup {minted'}), minted', NoFiles)
     IN  plan' = [plan EXCEPT ![s] =
                   [write |-> w, base |-> view[s], era |-> installs, encrypted |-> FALSE]]
  /\ UNCHANGED <<live, copy, session, view, call, staged, bodies, installs, stray>>

(* Reads the file, in chunks; it may be cancelled or find the file changed. *)
EncryptSource(s) ==
  /\ plan[s] # None /\ ~plan[s].encrypted
  /\ plan' = [plan EXCEPT ![s].encrypted = TRUE]
  /\ UNCHANGED <<live, copy, session, view, call, staged, bodies, minted, installs, stray>>

DropPlan(s) ==
  /\ plan[s] # None
  /\ plan' = [plan EXCEPT ![s] = None]
  /\ UNCHANGED <<live, copy, session, view, call, staged, bodies, minted, installs, stray>>

(* Mutant: the storage is not measured.                                     *)
CommitUnmeasured(s) ==
  /\ Idle(s) /\ plan[s] # None /\ plan[s].encrypted
  /\ call' = [call EXCEPT ![s] =
       [write |-> plan[s].write, base |-> plan[s].base, era |-> plan[s].era]]
  /\ plan' = [plan EXCEPT ![s] = None]
  /\ UNCHANGED <<live, copy, session, view, staged, bodies, minted, installs, stray>>

(* commit_attachment_import measures the storage before its transaction.    *)
CommitAttachmentImport(s) ==
  /\ Idle(s) /\ plan[s] # None /\ plan[s].encrypted
  /\ Cardinality(WithChunks(live)) + 1 <= FileBudget
  /\ call' = [call EXCEPT ![s] =
       [write |-> plan[s].write, base |-> plan[s].base, era |-> plan[s].era]]
  /\ plan' = [plan EXCEPT ![s] = None]
  /\ UNCHANGED <<live, copy, session, view, staged, bodies, minted, installs, stray>>

(***************************************************************************)
(* Secrets.                                                                *)
(***************************************************************************)
ChangePassphrase(s, p) ==
  /\ Idle(s) /\ ~OpensWith(live, p)
  /\ live' = ReplaceRootWrap(live, session[s].key, p)
  /\ stray' = (stray \/ session[s].key # live.root.key)
  /\ UNCHANGED <<copy, session, view, plan, call, staged, bodies, minted, installs>>

InstallRecoveryKit(s) ==
  /\ Idle(s) /\ live.kit # session[s].key
  /\ live' = StoreRecoveryWrap(live, session[s].key)
  /\ stray' = (stray \/ session[s].key # live.root.key)
  /\ UNCHANGED <<copy, session, view, plan, call, staged, bodies, minted, installs>>

(***************************************************************************)
(* Backups and restores.  A backup is written before it is validated, and  *)
(* stays when it is refused.                                               *)
(***************************************************************************)
BackupDatabaseTo(s) ==
  /\ Idle(s) /\ copy # live
  /\ copy' = live
  /\ UNCHANGED <<live, session, view, plan, call, staged, bodies, minted, installs, stray>>

Prepared(k) == staged' = [key |-> k, seen |-> copy, print |-> None]

PrepareRestore(p) ==
  /\ staged = None /\ installs < MaxInstalls
  /\ OpensWith(copy, p) /\ Validates(copy, copy.root.key)
  /\ Prepared(copy.root.key)
  /\ UNCHANGED <<live, copy, session, view, plan, call, bodies, minted, installs, stray>>

PrepareRestoreWithRecoveryKit ==
  /\ staged = None /\ installs < MaxInstalls
  /\ copy.root # None /\ copy.kit # None /\ Validates(copy, copy.kit)
  /\ Prepared(copy.kit)
  /\ UNCHANGED <<live, copy, session, view, plan, call, bodies, minted, installs, stray>>

(* finish_restore_preparation reads the candidate again for its print, and  *)
(* does not see that the file has changed since it was validated.           *)
FingerprintSource ==
  /\ staged # None /\ staged.print = None
  /\ staged' = [staged EXCEPT !.print = copy]
  /\ stray' = (stray \/ staged.seen # copy)
  /\ UNCHANGED <<live, copy, session, view, plan, call, bodies, minted, installs>>

(* Mutant: the candidate is installed whatever its fingerprint.             *)
MatchesAny == staged # None /\ staged.print # None

Matches == staged # None /\ staged.print = copy

RewrapCandidate(p) ==
  /\ Matches /\ ~OpensWith(copy, p)
  /\ copy' = Rewrapped(copy, staged.key, p)
  /\ staged' = [key |-> staged.key, seen |-> copy', print |-> copy']
  /\ UNCHANGED <<live, session, view, plan, call, bodies, minted, installs, stray>>

(* The candidate is not what was fingerprinted, or the user gives up.       *)
DropRestore ==
  /\ staged # None
  /\ staged' = None
  /\ UNCHANGED <<live, copy, session, view, plan, call, bodies, minted, installs, stray>>

Replaces ==
  /\ Matches /\ WithinBounds(copy)
  /\ live' = ReplaceFromDatabase(live, copy)
  /\ installs' = installs + 1
  /\ staged' = None
  /\ UNCHANGED <<copy, view, plan, call, bodies, minted, stray>>

(* commit_prepared_restore on an unlocked session, or install_to into one.  *)
CommitPreparedRestore(s) ==
  /\ call[s] = None
  /\ Replaces
  /\ session' = [session EXCEPT ![s] = [key |-> staged.key, era |-> installs']]

LockedInstall == Replaces /\ UNCHANGED session

Next ==
  \/ \E s \in Sessions :
       \/ \E p \in Passphrases, k \in Keys : Create(s, p, k)
       \/ \E p \in Passphrases : Unlock(s, p) \/ ChangePassphrase(s, p)
       \/ UnlockWithRecoveryKit(s) \/ Lock(s)
       \/ \E i \in Items : GetItemWithRevision(s, i) \/ PutItem(s, i)
       \/ UpdateItemCall(s) \/ TrashItem(s) \/ RestoreItem(s) \/ PurgeItem(s)
       \/ \E f \in Files : DeleteAttachment(s, f)
       \/ CommitCall(s)
       \/ PrepareAttachmentImport(s) \/ EncryptSource(s) \/ DropPlan(s)
       \/ CommitAttachmentImport(s)
       \/ InstallRecoveryKit(s) \/ BackupDatabaseTo(s) \/ CommitPreparedRestore(s)
  \/ \E p \in Passphrases : PrepareRestore(p) \/ RewrapCandidate(p)
  \/ PrepareRestoreWithRecoveryKit \/ FingerprintSource \/ DropRestore \/ LockedInstall

Spec == Init /\ [][Next]_vars

-----------------------------------------------------------------------------
TypeOK ==
  /\ IsDatabase(live) /\ IsDatabase(copy)
  /\ session \in [Sessions -> Session \cup {None}]
  /\ view \in [Sessions -> View \cup {None}]
  /\ call \in [Sessions -> Call \cup {None}]
  /\ plan \in [Sessions -> Plan \cup {None}]
  /\ staged \in Restore \cup {None}
  /\ {bodies, minted, installs} \subseteq Nat /\ stray \in BOOLEAN

(* A database file that only fenced writes have touched is consistent:       *)
(* references and attachments agree, history belongs to a living item and   *)
(* is older than it, everything opens with one root key, and every bound of *)
(* its rows holds.  So a backup of it is refused for two reasons only, both  *)
(* limits that no write enforces for sure: it holds more items than          *)
(* list_item_ids lists, or imports that raced past the storage limit.        *)
PersistedStateValid ==
  ~stray /\ live.root # None =>
    /\ Consistent(live, live.root.key)
    /\ RowsBounded(live)
    /\ live.kit \in {None, live.root.key}
    /\ ItemsListed(live) /\ WithinBudget(live) => Validates(live, live.root.key)

(* The storage limit is measured before the transaction that fills it; it   *)
(* can be exceeded by at most one import of every other session.            *)
BudgetOvershoot ==
  ~stray => Cardinality(WithChunks(live)) <= FileBudget + Cardinality(Sessions) - 1

(* A session that has seen every install holds the root key of the vault it *)
(* writes to, whichever secret opened it and however the vault came there;  *)
(* so it lists and opens the whole history of every active item             *)
(* (list_item_history_revisions, get_item_history) and exports each of its  *)
(* attachments, and no read it makes meets a row that is not as it should.  *)
SessionReads ==
  \A s \in Sessions :
    ~stray /\ session[s] # None /\ session[s].era = installs =>
      /\ session[s].key = live.root.key
      /\ \A i \in Live(live) : live.items[i].at = "active" =>
           HistoryOpens(live, session[s].key, i) /\ ExportsAttachments(live, session[s].key, i)

(* No vault is opened, read or written before it has a root key.            *)
NothingBeforeRoot ==
  /\ copy.root # None
  /\ live.root = None =>
       live = Blank /\ \A s \in Sessions : session[s] = None /\ call[s] = None /\ plan[s] = None

(* Since the last install, the revision of an item tells whether it is still *)
(* the row that was looked at.                                              *)
Seen(v) ==
  /\ v.era <= installs
  /\ v.era = installs =>
       /\ live.items[v.item] # None
       /\ v.row.revision <= live.items[v.item].revision
       /\ v.row.revision = live.items[v.item].revision => v.row = live.items[v.item]

(* What a write makes of the row it replaces.                               *)
Continues(w, row) ==
  /\ w.kind \in {"edit", "attach", "detach"} => row.at = "active" /\ w.row.at = "active"
  /\ w.kind = "update" => w.row.at # row.at /\ {w.row.at, row.at} \subseteq {"active", "trashed"}
  /\ w.kind = "purge" => row.at = "trashed" /\ w.row.at = "tombstone"
  /\ w.row.files =
       CASE w.kind = "attach" -> row.files \cup {w.file}
         [] w.kind = "detach" -> row.files \ Marked(w)
         [] w.kind = "purge"  -> {}
         [] OTHER             -> row.files
  /\ w.kind = "attach" => w.file \in Files
  /\ w.kind = "detach" => Marked(w) \subseteq row.files
  /\ w.kind = "purge" => Marked(w) = row.files

(* A write on its way, or planned, still fits the row it would replace.      *)
WriteFits(x) ==
  /\ Seen(x.base) /\ x.base.item = x.write.item /\ x.base.row.revision = x.write.expected
  /\ x.write.row.revision = x.write.expected + 1
  /\ x.era <= installs
  /\ x.era = installs =>
       /\ live.items[x.write.item] # None
       /\ x.write.expected <= live.items[x.write.item].revision
       /\ x.write.expected = live.items[x.write.item].revision =>
            Continues(x.write, live.items[x.write.item])

ReadsFit ==
  \A s \in Sessions :
    /\ session[s] # None => session[s].era <= installs
    /\ view[s] # None => Seen(view[s])
    /\ call[s] # None => WriteFits(call[s])
    /\ plan[s] # None => WriteFits(plan[s])

(* What has been prepared for an install was validated under the root key   *)
(* that its wraps hold.                                                     *)
RestoreSound ==
  ~stray =>
    /\ copy.kit \in {None, copy.root.key}
    /\ staged # None =>
         /\ Validates(staged.seen, staged.key)
         /\ staged.seen.root # None /\ staged.key = staged.seen.root.key
         /\ staged.seen.kit \in {None, staged.key}
         /\ staged.print \in {None, staged.seen}

(* All of it: what is stored is valid, whoever may write to it reads it, and *)
(* what was read, sealed and prepared for it still fits.                    *)
VaultInv ==
  /\ TypeOK /\ NothingBeforeRoot
  /\ PersistedStateValid /\ SessionReads
  /\ ReadsFit /\ RestoreSound

Commits(s) == call[s] # None /\ call'[s] = None /\ live' # live

(* A write replaces exactly the item its user looked at: what another       *)
(* session saved in between is never overwritten.  The revision alone says  *)
(* so, as long as no restore sets revisions back.                           *)
NoLostUpdate ==
  [][\A s \in Sessions : Commits(s) /\ call[s].base.era = installs =>
       live.items[call[s].base.item] = call[s].base.row]_vars

(* History gains exactly the row an edit replaces, so the last edit of an   *)
(* item can always be undone.  It loses a row to the purge of its item, or  *)
(* to enough younger rows to fill a limit.                                  *)
HistoryKeepsNewest ==
  [][installs' = installs /\ ~stray' =>
       /\ \A i \in Live(live) :
            live.items[i].at = "active" /\ live'.items[i].at = "active" =>
              {a.row : a \in {b \in live'.history \ live.history : b.item = i}} =
                {live.items[i]} \ {live'.items[i]}
       /\ \A a \in live.history \ live'.history :
            \/ live'.items[a.item].at = "tombstone"
            \/ Cardinality({b \in live'.history :
                   b.item = a.item /\ b.row.revision > a.row.revision}) = HistoryPerItem
            \/ Cardinality({b \in live'.history : b.n > a.n}) = HistoryRows]_vars

(* What an install puts in place is what was validated, whatever happened   *)
(* to the candidate file after its print was taken.                         *)
InstallsWhatWasValidated ==
  [][installs' # installs /\ ~stray' =>
       /\ staged.seen = live' /\ Validates(live', staged.key)]_vars
=============================================================================
