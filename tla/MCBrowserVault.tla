--------------------------- MODULE MCBrowserVault ---------------------------
(* The instance of BrowserVault that TLC checks.  The tabs find an empty    *)
(* browser, or a vault of one item with an attachment, a credential for the *)
(* next reload and a backup, or that item in the trash; MaxDraws leaves two *)
(* more operations that seal something, or one with the trash.              *)
EXTENDS BrowserVault, TLC

CONSTANTS t1, t2, i1

Draws == 1..MaxDraws
Sealing == 4

OneItem == PutItem(Create(FromSnapshot(None), 1), i1, 2)
WithAttachment ==
  LET row == Revised(OneItem, i1, "active", {3}, 3)
  IN  CommitAttachmentImport(OneItem, i1, 3, row)
Used == CreateSessionResume(WithAttachment, Sealing)
Envelope == WrapForRemoteAccount(Used)
InTrash == TrashItem(Used, i1, Sealing + 1)

Made(v) ==
  Applied(EmptyDatabase, SaveAttachmentImport(0, v.store, 3, SealManifest(1, 1, "active", i1, 1)))

Start(base, copy, key, made, drawn) ==
  [db |-> base, backup |-> copy, account |-> key, credentials |-> made, draws |-> drawn]

TheStarts ==
  {Start(EmptyDatabase, None, None, {}, Sealing),
   Start(Made(Used), BackupState(Made(Used)), Envelope, {SessionResumeCredential(Used)}, Sealing),
   Start(Made(InTrash), None, Envelope, {SessionResumeCredential(Used)}, Sealing + 1)}

Symmetry == Permutations(Tabs)
=============================================================================
