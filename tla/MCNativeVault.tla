---------------------------- MODULE MCNativeVault ----------------------------
(* The instance of NativeVault that TLC checks.                             *)
EXTENDS NativeVault, TLC

CONSTANTS i1, i2, k1, k2, p1, p2

ThreeFiles == 1..3

(* Another vault's backup: created, one item put, a recovery kit installed. *)
OtherVault ==
  StoreRecoveryWrap(
    InsertItem(InitializeRootWrap(Blank, k2, p1), i1, EncryptItemState(k2, 1, "active", 0, {})),
    k2)

(* A behaviour is followed up to its first write that nothing fences, in     *)
(* one of three classes: one item with attachments, all revisions, and a     *)
(* third attachment if at most one body is put; two items up to the second   *)
(* revision, with two attachments between them; or one item without          *)
(* attachments up to the second revision, with backups, restores and changed *)
(* secrets.                                                                 *)
NoBackups == copy = Foreign /\ live.kit = None /\ staged = None /\ ~OpensWith(live, p2)
UpTo(revision) == \A i \in Live(live) : live.items[i].revision <= revision
Bounded ==
  /\ ~stray
  /\ \/ NoBackups /\ i2 \notin Live(live) /\ (minted <= 2 \/ bodies <= 1)
     \/ NoBackups /\ UpTo(2) /\ minted <= 2
     \/ i2 \notin Live(live) /\ minted = 0 /\ UpTo(2)

Symmetry == Permutations(Sessions)

-----------------------------------------------------------------------------
(* Pruning of two items' histories, longer than Bounded has room for: an    *)
(* edit archived into a history within both limits leaves it within both,   *)
(* keeps its own row, and drops only the oldest rows of an item.            *)
Archive(items) ==
  {[item |-> items[n], n |-> n, row |-> [revision |-> n]] : n \in DOMAIN items}

WithinLimits(h) ==
  /\ Cardinality(h) <= HistoryRows
  /\ \A a \in h : Cardinality({b \in h : b.item = a.item}) <= HistoryPerItem

ASSUME PruningDropsTheOldest ==
  \A n \in 0 .. HistoryRows : \A items \in [1 .. n -> {i1, i2}], i \in {i1, i2} :
    WithinLimits(Archive(items)) =>
      LET edit == CHOOSE a \in Archive([m \in 1 .. n + 1 |-> IF m > n THEN i ELSE items[m]]) :
                    a.n = n + 1
          all  == Archive(items) \cup {edit}
          kept == PruneItemHistory([Blank EXCEPT !.history = all], i).history
      IN  /\ WithinLimits(kept) /\ edit \in kept
          /\ \A a \in all \ kept, b \in kept : a.n < b.n \/ a.item # b.item
=============================================================================
