------------------------------ MODULE VaultSync ------------------------------
(***************************************************************************)
(* The client sync engine (packages/contracts/src/sync-*.ts): what the     *)
(* devices of one account do with the object store.                        *)
(*                                                                         *)
(* A device keeps four durable things that no transaction spans: the       *)
(* encrypted vault (`local'), the sync state of every item (`baseline',    *)
(* `conflict', `stamp'), the outbox of uploads and the pull cursor.  A sync *)
(* cycle pulls a page and accepts it object by object, harvests the vault   *)
(* for missing uploads and flushes the outbox.  Every await of the cycle is *)
(* a step: edits, the steps of other cycles of the device (a second tab, or *)
(* the runtime of a session locked and unlocked again) and failures come in *)
(* between.  The server is the atomic store that ObjectStore implements.    *)
(*                                                                         *)
(* An item version is a number.  Its ciphertext is as unique as the nonce  *)
(* it is encrypted with, so the number stands for the ciphertext, its      *)
(* digest and the header built from both; 0 is `null'.                      *)
(***************************************************************************)
EXTENDS Integers, FiniteSets, SequencesExt

CONSTANTS
  Objects,      \* vault item ids
  Devices,
  Editors,      \* the devices whose user creates and edits items
  Cycles,       \* executions of runCycle
  DeviceOf,     \* Cycles -> Devices
  PageLimit,    \* objects of one pulled page
  FlushLimit,   \* MAX_FLUSH_ENTRIES
  OutboxLimit,  \* MAX_OUTBOX_ENTRIES
  MaxVersions,  \* bound: item versions ever encrypted
  MaxFailures,  \* bound: cycles cut off by a crash, an error or a lost answer
  None

ASSUME VaultSyncAssumption ==
  /\ IsFiniteSet(Objects)
  /\ Editors \subseteq Devices
  /\ DeviceOf \in [Cycles -> Devices]
  /\ PageLimit \in Nat \ {0} /\ FlushLimit \in Nat \ {0} /\ OutboxLimit \in Nat \ {0}
  /\ MaxVersions \in Nat /\ MaxFailures \in Nat

Version == 1..MaxVersions
Item == 0..MaxVersions   \* a version, or 0 for none

(* An edit: its item, its revision and the versions it grew from, itself too. *)
Made == [object : Objects, revision : Nat \ {0}, line : SUBSET Version]

(* The content-derived operation id: the item and its baseline. *)
Operation == [version : Version, baseline : Item]

(* The header of a version, the write that is uploaded and the server's row. *)
Headers == [revision : Nat, ciphertext : Item]
Write == [op : Operation, object : Objects, revision : Nat, ciphertext : Version,
          pre : Headers \cup {None}, scope : {"account"}]
Entry == [mutation : Write, seq : Nat \ {0}]

ASSUME NoneAssumption == None \notin Item \cup Headers \cup Entry

VARIABLES
  made,      \* the versions encrypted so far: a sequence of [object, revision, line]
  current,   \* the server's object rows (VersionedObjects)
  log,       \* the server's operation log (VersionedObjects)
  changes,   \* the server's change cursor (VersionedObjects)
  local,     \* Devices -> Objects -> the version in the vault
  baseline,  \* Devices -> Objects -> the last accepted server version
  conflict,  \* Devices -> Objects -> the conflict candidate
  stamp,     \* Devices -> Objects -> version of the two above, for compare-and-swap
  outbox,    \* Devices -> queued operations, oldest first
  cursor,    \* Devices -> the durable pull cursor
  cycle,     \* Cycles -> where runCycle is, and its locals
  failures   \* failures so far

server == <<current, log, changes>>
state == <<baseline, conflict, stamp>>
vars == <<made, current, log, changes, local, baseline, conflict, stamp, outbox,
          cursor, cycle, failures>>

Revision(v) == IF v = 0 THEN 0 ELSE made[v].revision

(* v was edited from u, directly or not; everything descends from nothing. *)
Descends(v, u) == u = 0 \/ (v # 0 /\ u \in made[v].line)

DescendsNext(v, u) == u = 0 \/ (v # 0 /\ u \in made'[v].line)

Header(v) == [revision |-> Revision(v), ciphertext |-> v]

(* buildPreparedMutation *)
Mutation(op) ==
  [op         |-> op,
   object     |-> made[op.version].object,
   revision   |-> Revision(op.version),
   ciphertext |-> op.version,
   pre        |-> IF op.baseline = 0 THEN None ELSE Header(op.baseline),
   scope      |-> "account"]

Server == INSTANCE VersionedObjects WITH
  OperationIds <- Operation, Mutations <- {},
  Clients <- {}, asked <- <<>>, answer <- <<>>

ServerVersion(o) == IF current[o] = None THEN 0 ELSE current[o].mutation.ciphertext

Take(s, limit) == SubSeq(s, 1, Min({limit, Len(s)}))

PageEntry == [object : Objects, version : Version, seq : Nat \ {0}]

Labels == {"idle", "page", "state", "decide", "apply", "commit", "advance",
           "harvest", "enqueue", "push", "ack"}

(* The locals of a cycle, and those of a cycle that does not run.           *)
Locals == [at : Labels, cursor : Nat, page : Seq(PageEntry), stamp : Nat, baseline : Item,
           item : Item, conflict : Item, pending : SUBSET Operation, todo : SUBSET Objects,
           batch : Seq(Operation)]

Idle == [at |-> "idle", cursor |-> 0, page |-> <<>>, stamp |-> 0, baseline |-> 0,
         item |-> 0, conflict |-> 0, pending |-> {}, todo |-> {}, batch |-> <<>>]

(* TypeOK types the server, the durable stores of the devices and the locals *)
(* of their cycles.                                                         *)
TypeOK ==
  /\ made \in Seq(Made)
  /\ Len(made) <= MaxVersions
  /\ changes \in Nat
  /\ current \in [Objects -> Entry \cup {None}]
  /\ log \in [Operation -> Entry \cup {None}]
  /\ \A o \in Objects : current[o] # None =>
       current[o].mutation.object = o /\ current[o].seq <= changes
  /\ local \in [Devices -> [Objects -> Item]]
  /\ baseline \in [Devices -> [Objects -> Item]]
  /\ conflict \in [Devices -> [Objects -> Item]]
  /\ stamp \in [Devices -> [Objects -> Nat]]
  /\ outbox \in [Devices -> Seq(Operation)]
  /\ \A d \in Devices : Len(outbox[d]) <= OutboxLimit
  /\ cursor \in [Devices -> 0..changes]
  /\ cycle \in [Cycles -> Locals]
  /\ failures \in 0..MaxFailures

Init ==
  /\ made = <<>>
  /\ Server!AbstractInit
  /\ local = [d \in Devices |-> [o \in Objects |-> 0]]
  /\ baseline = local
  /\ conflict = local
  /\ stamp = local
  /\ outbox = [d \in Devices |-> <<>>]
  /\ cursor = [d \in Devices |-> 0]
  /\ cycle = [c \in Cycles |-> Idle]
  /\ failures = 0

-----------------------------------------------------------------------------
(* The user: a session encrypts a new version and saves the snapshot.       *)

Save(d, o, from) ==
  LET v == Len(made) + 1
      line == IF from = 0 THEN {v} ELSE made[from].line \cup {v}
  IN
  /\ d \in Editors
  /\ v <= MaxVersions
  /\ made' = Append(made, [object |-> o, revision |-> Revision(from) + 1, line |-> line])
  /\ local' = [local EXCEPT ![d][o] = v]
  /\ UNCHANGED <<server, state, outbox, cursor, cycle, failures>>

(* A new item gets a fresh random id. *)
Create(d, o) == 
  /\ \A v \in 1..Len(made) : made[v].object # o
  /\ Save(d, o, 0)

Edit(d, o) == local[d][o] # 0 /\ Save(d, o, local[d][o])

-----------------------------------------------------------------------------
(* pullPage and accept.                                                     *)

(* runCycle throws or returns: its locals are gone. *)
End(c) == cycle' = [cycle EXCEPT ![c] = Idle]

Go(c, label) == cycle' = [cycle EXCEPT ![c].at = label]

(* The client's half of list_objects: one page of rows after the cursor. *)
ListPage(c) ==
  LET d == DeviceOf[c]
      rows == {[object |-> o, version |-> ServerVersion(o), seq |-> current[o].seq] :
                 o \in {n \in Objects : current[n] # None /\ current[n].seq > cursor[d]}}
  IN
  /\ cycle[c].at = "idle"
  /\ \E sorted \in [1..Cardinality(rows) -> rows] :
       /\ \A i, j \in DOMAIN sorted : i < j => sorted[i].seq < sorted[j].seq
       /\ cycle' = [cycle EXCEPT
            ![c] = [Idle EXCEPT !.at = "page", !.cursor = cursor[d],
                                !.page = Take(sorted, PageLimit)]]
  /\ UNCHANGED <<made, server, local, state, outbox, cursor, failures>>

(* getObject: the body must be the one the listed header describes. *)
GetObject(c) ==
  /\ cycle[c].at = "page" /\ cycle[c].page # <<>>
  /\ LET head == Head(cycle[c].page)
     IN IF ServerVersion(head.object) = head.version THEN Go(c, "state") ELSE End(c)
  /\ UNCHANGED <<made, server, local, state, outbox, cursor, failures>>

LoadState(c) ==
  LET d == DeviceOf[c]
      o == Head(cycle[c].page).object
  IN
  /\ cycle[c].at = "state"
  /\ cycle' = [cycle EXCEPT ![c].at = "decide", ![c].stamp = stamp[d][o],
                            ![c].baseline = baseline[d][o]]
  /\ UNCHANGED <<made, server, local, state, outbox, cursor, failures>>

(* reconcilePulledVaultItem *)
Rejected(base, remote) ==
  base # 0 /\ (Revision(remote) < Revision(base)
               \/ (Revision(remote) = Revision(base) /\ remote # base))

(* Mutants: the local version is kept and no conflict recorded, or the pulled *)
(* one becomes its baseline.                                                 *)
ReconcileLocalWins(item, base, remote) ==
  CASE item = remote -> "unchanged"
    [] item = base   -> "apply_remote"
    [] OTHER         -> "keep_local"

ReconcileRebases(item, base, remote) ==
  IF item = base /\ item # remote THEN "apply_remote" ELSE "unchanged"

Reconcile(item, base, remote) ==
  CASE Rejected(base, remote)            -> "reject"
    [] OTHER -> CASE item = remote       -> "unchanged"
                  [] item = base         -> "apply_remote"
                  [] item # 0 /\ base # 0 /\ base = remote -> "keep_local"
                  [] OTHER               -> "conflict"

(* loadLocal and the decision on what was read. *)
Decide(c) ==
  LET head == Head(cycle[c].page)
      item == local[DeviceOf[c]][head.object]
      base == cycle[c].baseline
      decision == Reconcile(item, base, head.version)
      next(label, newBase, candidate) ==
        cycle' = [cycle EXCEPT ![c].at = label, ![c].item = item,
                               ![c].baseline = newBase, ![c].conflict = candidate]
  IN
  /\ cycle[c].at = "decide"
  /\ CASE decision = "reject"       -> End(c)
       [] decision = "apply_remote" -> next("apply", head.version, 0)
       [] decision = "unchanged"    -> next("commit", head.version, 0)
       [] decision = "conflict"     -> next("commit", base, head.version)
       [] decision = "keep_local"   -> next("advance", base, 0)
  /\ UNCHANGED <<made, server, local, state, outbox, cursor, failures>>

(* Mutant: the local item is replaced without the compare. *)
ApplyRemoteBlindly(c) ==
  LET head == Head(cycle[c].page) IN
  /\ cycle[c].at = "apply"
  /\ local' = [local EXCEPT ![DeviceOf[c]][head.object] = head.version]
  /\ Go(c, "commit")
  /\ UNCHANGED <<made, server, state, outbox, cursor, failures>>

(* applyRemoteEncryptedItemForSync: compare-and-swap of the vault item. *)
ApplyRemote(c) ==
  LET head == Head(cycle[c].page)
      d == DeviceOf[c]
  IN
  /\ cycle[c].at = "apply"
  /\ IF local[d][head.object] = cycle[c].item /\ Revision(head.version) > Revision(cycle[c].item)
     THEN /\ local' = [local EXCEPT ![d][head.object] = head.version]
          /\ Go(c, "commit")
     ELSE End(c) /\ UNCHANGED local
  /\ UNCHANGED <<made, server, state, outbox, cursor, failures>>

(* Mutant: the state is committed without the compare.                      *)
CommitStateBlindly(c) ==
  LET o == Head(cycle[c].page).object
      d == DeviceOf[c]
  IN
  /\ cycle[c].at = "commit"
  /\ baseline' = [baseline EXCEPT ![d][o] = cycle[c].baseline]
  /\ conflict' = [conflict EXCEPT ![d][o] = cycle[c].conflict]
  /\ stamp' = [stamp EXCEPT ![d][o] = @ + 1]
  /\ Go(c, "advance")
  /\ UNCHANGED <<made, server, local, outbox, cursor, failures>>

(* The state store's commit, against the version that was loaded. *)
CommitState(c) ==
  LET o == Head(cycle[c].page).object
      d == DeviceOf[c]
  IN
  /\ cycle[c].at = "commit"
  /\ IF stamp[d][o] = cycle[c].stamp
     THEN /\ baseline' = [baseline EXCEPT ![d][o] = cycle[c].baseline]
          /\ conflict' = [conflict EXCEPT ![d][o] = cycle[c].conflict]
          /\ stamp' = [stamp EXCEPT ![d][o] = @ + 1]
          /\ Go(c, "advance")
     ELSE End(c) /\ UNCHANGED state
  /\ UNCHANGED <<made, server, local, outbox, cursor, failures>>

Advance(c) ==
  LET head == Head(cycle[c].page)
      d == DeviceOf[c]
  IN
  /\ cycle[c].at = "advance"
  /\ IF cursor[d] = cycle[c].cursor
     THEN /\ cursor' = [cursor EXCEPT ![d] = head.seq]
          /\ cycle' = [cycle EXCEPT
               ![c] = [Idle EXCEPT !.at = "page", !.cursor = head.seq,
                                   !.page = Tail(cycle[c].page)]]
     ELSE End(c) /\ UNCHANGED cursor
  /\ UNCHANGED <<made, server, local, state, outbox, failures>>

-----------------------------------------------------------------------------
(* harvest: missing uploads are rebuilt from the vault.                     *)

(* Mutant: only items the server knows are harvested. *)
StartHarvestKnown(c) ==
  LET d == DeviceOf[c] IN
  /\ cycle[c].at = "page" /\ cycle[c].page = <<>>
  /\ cycle' = [cycle EXCEPT ![c].at = "harvest", ![c].pending = Range(outbox[d]),
                            ![c].todo = {o \in Objects : baseline[d][o] # 0}]
  /\ UNCHANGED <<made, server, local, state, outbox, cursor, failures>>

StartHarvest(c) ==
  LET d == DeviceOf[c] IN
  /\ cycle[c].at = "page" /\ cycle[c].page = <<>>
  /\ cycle' = [cycle EXCEPT ![c].at = "harvest", ![c].pending = Range(outbox[d]),
                            ![c].todo = {o \in Objects : local[d][o] # 0}]
  /\ UNCHANGED <<made, server, local, state, outbox, cursor, failures>>

LoadItem(c) ==
  /\ cycle[c].at = "harvest"
  /\ \E o \in cycle[c].todo :
       cycle' = [cycle EXCEPT ![c].at = "enqueue", ![c].todo = @ \ {o},
                              ![c].item = local[DeviceOf[c]][o]]
  /\ UNCHANGED <<made, server, local, state, outbox, cursor, failures>>

(* advanceQueuedBaseline: the version the queued chain leads to from base, or *)
(* None when the entries do not form one chain.  Entries for a version the    *)
(* chain has reached are dropped; of the others exactly one continues it.     *)
AdvanceQueued(base, queued) ==
  LET reached(chain, k) == IF k = 0 THEN base ELSE chain[k].version
      remaining(chain, k) == {op \in queued : \A i \in 0..k : op.version # reached(chain, i)}
      Consumes(chain) ==
        /\ \A k \in 1..Len(chain) :
             {op \in remaining(chain, k - 1) : op.baseline = reached(chain, k - 1)} = {chain[k]}
        /\ remaining(chain, Len(chain)) = {}
      chains == {chain \in UNION {[1..n -> queued] : n \in 0..Cardinality(queued)} : Consumes(chain)}
  IN IF chains = {} THEN None
     ELSE LET chain == CHOOSE chain \in chains : TRUE IN reached(chain, Len(chain))

(* state, the decision and outbox.enqueue. *)
Enqueue(c) ==
  LET d == DeviceOf[c]
      item == cycle[c].item
      o == made[item].object
      base == AdvanceQueued(baseline[d][o],
                            {op \in cycle[c].pending : made[op.version].object = o})
      op == [version |-> item, baseline |-> base]
      broken == conflict[d][o] = 0 /\ base = None
      due == /\ conflict[d][o] = 0 /\ base # None /\ base # item
             /\ Revision(item) > Revision(base)
             /\ op \notin Range(outbox[d])
      full == Len(outbox[d]) >= OutboxLimit
  IN
  /\ cycle[c].at = "enqueue"
  /\ IF broken \/ (due /\ full) THEN End(c) ELSE Go(c, "harvest")
  /\ outbox' = IF due /\ ~full THEN [outbox EXCEPT ![d] = Append(@, op)] ELSE outbox
  /\ UNCHANGED <<made, server, local, state, cursor, failures>>

-----------------------------------------------------------------------------
(* flush: the oldest entries are uploaded one by one.                       *)

StartFlush(c) ==
  /\ cycle[c].at = "harvest" /\ cycle[c].todo = {}
  /\ cycle' = [cycle EXCEPT
       ![c] = [Idle EXCEPT !.at = "push",
                           !.batch = Take(outbox[DeviceOf[c]], FlushLimit)]]
  /\ UNCHANGED <<made, server, local, state, outbox, cursor, failures>>

Finish(c) ==
  /\ cycle[c].at = "push" /\ cycle[c].batch = <<>>
  /\ End(c)
  /\ UNCHANGED <<made, server, local, state, outbox, cursor, failures>>

(* putObject: the store takes the write or replays it. *)
Accepted(c) ==
  LET op == Head(cycle[c].batch) IN
  /\ cycle[c].at = "push" /\ cycle[c].batch # <<>>
  /\ \/ Server!TakeEffect(Mutation(op))
     \/ log[op] # None /\ UNCHANGED server
  /\ UNCHANGED <<made, local, state, outbox, cursor>>

Push(c) == Accepted(c) /\ Go(c, "ack") /\ UNCHANGED failures

(* Mutant: a refused entry is dropped from the queue. *)
PushRefusedAcknowledged(c) ==
  LET op == Head(cycle[c].batch) IN
  /\ cycle[c].at = "push" /\ cycle[c].batch # <<>>
  /\ log[op] = None /\ ~Server!Admits(Mutation(op))
  /\ Go(c, "ack")
  /\ UNCHANGED <<made, server, local, state, outbox, cursor, failures>>

(* The precondition of the oldest entry fails: the flush throws. *)
PushRefused(c) ==
  LET op == Head(cycle[c].batch) IN
  /\ cycle[c].at = "push" /\ cycle[c].batch # <<>>
  /\ log[op] = None /\ ~Server!Admits(Mutation(op))
  /\ End(c)
  /\ UNCHANGED <<made, server, local, state, outbox, cursor, failures>>

Acknowledge(c) ==
  /\ cycle[c].at = "ack"
  /\ outbox' = [outbox EXCEPT ![DeviceOf[c]] = RemoveFirst(@, Head(cycle[c].batch))]
  /\ cycle' = [cycle EXCEPT ![c].at = "push", ![c].batch = Tail(@)]
  /\ UNCHANGED <<made, server, local, state, cursor, failures>>

-----------------------------------------------------------------------------
Fail(c) == failures < MaxFailures /\ failures' = failures + 1 /\ End(c)

(* The write took effect but its answer is lost. *)
PushLost(c) == Fail(c) /\ Accepted(c)

(* A crash, a closed tab, a failed request or a failed local transaction.   *)
Abort(c) ==
  /\ cycle[c].at # "idle"
  /\ Fail(c)
  /\ UNCHANGED <<made, server, local, state, outbox, cursor>>

CycleStep(c) ==
  \/ ListPage(c) \/ GetObject(c) \/ LoadState(c) \/ Decide(c)
  \/ ApplyRemote(c) \/ CommitState(c) \/ Advance(c)
  \/ StartHarvest(c) \/ LoadItem(c) \/ Enqueue(c)
  \/ StartFlush(c) \/ Push(c) \/ PushRefused(c) \/ Acknowledge(c) \/ Finish(c)

Next ==
  \/ \E d \in Devices, o \in Objects : Create(d, o) \/ Edit(d, o)
  \/ \E c \in Cycles : CycleStep(c) \/ PushLost(c) \/ Abort(c)

Spec == Init /\ [][Next]_vars

(* Cycles are started by a timer and their awaits return: of every device at *)
(* least one cycle makes progress.                                          *)
FairSpec ==
  Spec /\ \A d \in Devices : WF_vars(\E c \in {k \in Cycles : DeviceOf[k] = d} : CycleStep(c))

-----------------------------------------------------------------------------
(* Safety.                                                                  *)

(* What a user wrote is never replaced by something that was not written on  *)
(* top of it: the vault of a device only ever moves to a descendant,         *)
(* whatever edits, overlapping cycles and failures come between the loading  *)
(* of an item, the decision and the compare-and-swap.                        *)
LocalFastForwards ==
  [][\A d \in Devices, o \in Objects :
       local'[d][o] # local[d][o] => DescendsNext(local'[d][o], local[d][o])]_vars

(* The same of the server: no upload, however it was harvested, queued and   *)
(* repeated, replaces a version its author had not seen.                     *)
ServerFastForwards ==
  [][\A o \in Objects :
       ServerVersion(o)' # ServerVersion(o) => DescendsNext(ServerVersion(o)', ServerVersion(o))]_vars

(* The pull cursor passes a change only when the device has dealt with it:   *)
(* the version is in the vault, under the user's edits perhaps, or it is     *)
(* kept as the conflict candidate.                                          *)
CursorComplete ==
  \A d \in Devices, o \in Objects :
    current[o] # None /\ current[o].seq <= cursor[d] =>
      Descends(local[d][o], ServerVersion(o)) \/ conflict[d][o] = ServerVersion(o)

(* The history of the edits: a version's line is itself and the versions it  *)
(* grew from, one after the other, with growing revisions.                  *)
LineageSound ==
  \A v \in 1..Len(made) :
    /\ v \in made[v].line
    /\ \A u \in made[v].line :
         /\ u \in 1..v
         /\ made[u].object = made[v].object
         /\ made[u].line \subseteq made[v].line
         /\ u = v \/ made[u].revision < made[v].revision
    /\ \A u, w \in made[v].line : u \in made[w].line \/ w \in made[u].line

(* x is a version of item o, or none.                                       *)
VersionOf(o, x) == x = 0 \/ (x \in 1..Len(made) /\ made[x].object = o)

(* Device d's vault, or the server, has the version x of item o or one that  *)
(* grew from it.                                                            *)
Holds(d, o, x) == VersionOf(o, x) /\ Descends(local[d][o], x)
Taken(o, x) == VersionOf(o, x) /\ Descends(ServerVersion(o), x)

(* The baseline of item o moves forward when x is committed against stamp st.*)
Advances(d, o, x, st) == st <= stamp[d][o] /\ (st = stamp[d][o] => Descends(x, baseline[d][o]))

(* An upload says what its author had seen, and the vault that queued it     *)
(* still has what it says.                                                  *)
UploadSound(d, op) ==
  /\ op.version \in 1..Len(made)
  /\ VersionOf(made[op.version].object, op.baseline)
  /\ Descends(op.version, op.baseline)
  /\ Holds(d, made[op.version].object, op.version)

(* A baseline is a version the server took and the vault has grown from, so  *)
(* that an upload against it says what its author had seen.                  *)
StoresSound ==
  /\ \A o \in Objects : VersionOf(o, ServerVersion(o))
  /\ \A d \in Devices, o \in Objects :
       /\ VersionOf(o, local[d][o])
       /\ Holds(d, o, baseline[d][o]) /\ Taken(o, baseline[d][o])

(* What a cycle has loaded for an item of its page: the baseline it may      *)
(* commit was taken by the server and is newer than the stored one unless a  *)
(* concurrent commit will refuse it; the vault has it, or is about to.       *)
ItemSound(r, d, o, remote) ==
  /\ r.at \in {"decide", "apply", "commit"} =>
       Taken(o, r.baseline) /\ Advances(d, o, r.baseline, r.stamp)
  /\ r.at \in {"decide", "commit"} => Holds(d, o, r.baseline)
  /\ r.at = "apply" =>
       r.baseline = remote /\ VersionOf(o, r.item) /\ Descends(remote, r.item)

(* The locals r of a cycle of device d, whatever happened since they were    *)
(* read.                                                                    *)
CycleSound(r, d) ==
  /\ \A i \in 1..Len(r.page) :
       Taken(r.page[i].object, r.page[i].version) /\ r.page[i].seq <= changes
  /\ r.at \in {"state", "decide", "apply", "commit", "advance"} =>
       r.page # <<>> /\ ItemSound(r, d, Head(r.page).object, Head(r.page).version)
  /\ \A op \in r.pending : UploadSound(d, op)
  /\ \A i \in 1..Len(r.batch) : UploadSound(d, r.batch[i])
  /\ \A o \in r.todo : local[d][o] # 0
  /\ r.at = "enqueue" => r.item # 0 /\ \E o \in Objects : Holds(d, o, r.item)
  /\ r.at = "ack" => r.batch # <<>> /\ log[Head(r.batch)] # None

OutboxSound == \A d \in Devices : \A i \in 1..Len(outbox[d]) : UploadSound(d, outbox[d][i])

(* The stores of every device are well typed and their baselines sound, and  *)
(* what the outbox and the cycles hold still fits them.                      *)
SyncInv ==
  /\ TypeOK
  /\ LineageSound
  /\ StoresSound
  /\ OutboxSound
  /\ \A c \in Cycles : CycleSound(cycle[c], DeviceOf[c])

(* The baseline of an item only moves forward, along what the server took,   *)
(* also when two cycles of a device commit what they read in either order:   *)
(* an older baseline would turn the device's own history into a conflict.    *)
BaselineAdvances ==
  [][\A d \in Devices, o \in Objects :
       baseline'[d][o] # baseline[d][o] => DescendsNext(baseline'[d][o], baseline[d][o])]_vars

(* An entry leaves the outbox only after its write took effect.              *)
AcknowledgedTookEffect ==
  [][\A d \in Devices : \A op \in Range(outbox[d]) \ Range(outbox'[d]) : log'[op] # None]_vars

(* A conflict is recorded only between versions neither of which was written *)
(* on top of the other (the baseline is there to tell a fast-forward from    *)
(* concurrent edits).                                                       *)
ConflictIsConcurrent ==
  \A d \in Devices, o \in Objects : conflict[d][o] # 0 =>
    /\ ~Descends(local[d][o], conflict[d][o])
    /\ ~Descends(conflict[d][o], local[d][o])

-----------------------------------------------------------------------------
(* Liveness.                                                                *)

(* What a user creates is uploaded in the end: a cycle pulls, rebuilds the    *)
(* missing uploads and flushes the outbox.                                  *)
CreatedIsUploaded ==
  \A o \in Objects :
    (\E v \in 1..Len(made) : made[v].object = o) ~> ServerVersion(o) # 0

(* A created item reaches every device, whatever answers are lost and cycles *)
(* are cut off on the way.                                                  *)
CreatedReachesAll ==
  \A o \in Objects :
    (\E v \in 1..Len(made) : made[v].object = o) ~> \A d \in Devices : local[d][o] # 0

=============================================================================
