----------------------------- MODULE ObjectStore -----------------------------
(***************************************************************************)
(* The ciphertext object store of the sync API for one account: PUT, list  *)
(* and the bookkeeping behind them (apps/api/src/sync.rs, store.rs,        *)
(* model.rs).                                                              *)
(*                                                                         *)
(* A PUT spans two systems without a common transaction: the blob store    *)
(* holds ciphertext under a fresh storage key, PostgreSQL holds the object *)
(* row, the account's change cursor and the operation log.  Every await of *)
(* the handler is a step of its own here, so any number of handlers        *)
(* interleave between authentication, authorization, the replay lookup,    *)
(* the policy check, the upload, the commit and the clean-up.  The commit  *)
(* transaction runs under the account row lock and is one step, except     *)
(* that its acknowledgement may be lost: it is then in doubt, holds its    *)
(* locks, and is resolved either way later.                                *)
(***************************************************************************)
EXTENDS Integers, FiniteSets

CONSTANTS
  Objects,          \* object ids
  OperationIds,     \* client-chosen operation ids
  Ciphertexts,      \* ciphertexts, each standing for its SHA-256 and size
  Devices,          \* device ids of the account
  Mutations,        \* the canonical mutations clients may send
  Handlers,         \* concurrent executions of put_object
  Readers,          \* devices that follow the change feed
  StorageKeys,      \* storage keys (fresh UUIDs), bounds the uploads of a run
  Topologies,       \* the household topologies that may be put
  PageLimit,        \* the limit of one feed page
  MaxWireRevision,  \* MAX_WIRE_REVISION
  None

Version == [revision : Nat, ciphertext : Ciphertexts]

(* An opaque mutation: `pre' is None for CreateOnly and a version for Match. *)
Mutation == [op : OperationIds, object : Objects, revision : Nat,
             ciphertext : Ciphertexts, pre : Version \cup {None},
             scope : {"account", "household"}]

(* What a topology says of this account: its listed devices and its role.  *)
Topology == [listed : SUBSET Devices, role : {"organizer", "member", "legacy"}]

ASSUME ObjectStoreAssumption ==
  /\ Mutations \subseteq Mutation
  /\ Topologies \subseteq Topology
  /\ PageLimit \in Nat \ {0}
  /\ MaxWireRevision \in Nat
  /\ None \notin Version \cup StorageKeys \cup Ciphertexts \cup Mutations

Statuses == {"ok", "unauthorized", "forbidden", "operation_conflict",
             "precondition_failed", "bad_request", "unavailable"}

InFlight == {"authorize", "lookup", "precheck", "upload", "commit",
             "reconcile", "discard", "retire"}

VARIABLES
  active,      \* non-revoked devices
  topology,    \* the household topology, as far as it concerns this account
  objects,     \* ciphertext_objects: Objects -> row or None
  operations,  \* sync_operations: OperationIds -> row or None
  cursor,      \* accounts.sync_cursor
  blobs,       \* the blob store: StorageKeys -> ciphertext or None
  used,        \* storage keys handed out so far
  indoubt,     \* the commit whose acknowledgement was lost, or None
  pc,          \* Handlers -> where put_object is
  request,     \* Handlers -> [device, mutation], or None
  candidate,   \* Handlers -> storage key of the uploaded candidate, or None
  previous,    \* Handlers -> storage key to retire, or None
  reply,       \* Handlers -> [status, seq], or None
  feed,        \* Readers -> [cursor, seen]
  faulted,     \* history: some clean-up may have been skipped by a failure
  replayDue    \* history: Handlers -> the operation had committed on arrival

stored  == <<objects, operations, cursor>>
locals  == <<request, candidate, previous, reply>>
vars == <<active, topology, objects, operations, cursor, blobs, used, indoubt,
          pc, request, candidate, previous, reply, feed, faulted, replayDue>>

Row == [mutation : Mutations, seq : Nat, key : StorageKeys]
OperationRow == [mutation : Mutations, seq : Nat, key : StorageKeys, created : BOOLEAN]
Request == [device : Devices, mutation : Mutations]
Reply == [status : Statuses, seq : Nat]
InDoubt == [mutation : Mutations, key : StorageKeys]
Entry == [mutation : Mutations, seq : Nat]  \* what clients see of a row

ASSUME NoneAssumption ==
  None \notin Row \cup OperationRow \cup Request \cup Reply \cup InDoubt \cup Entry

(* TypeOK types every variable of the store, its handlers and its feed.     *)
TypeOK ==
  /\ active \subseteq Devices
  /\ topology \in Topology
  /\ objects \in [Objects -> Row \cup {None}]
  /\ operations \in [OperationIds -> OperationRow \cup {None}]
  /\ cursor \in Nat
  /\ blobs \in [StorageKeys -> Ciphertexts \cup {None}]
  /\ used \subseteq StorageKeys
  /\ indoubt \in InDoubt \cup {None}
  /\ pc \in [Handlers -> InFlight \cup {"idle", "replied"}]
  /\ request \in [Handlers -> Request \cup {None}]
  /\ candidate \in [Handlers -> StorageKeys \cup {None}]
  /\ previous \in [Handlers -> StorageKeys \cup {None}]
  /\ reply \in [Handlers -> Reply \cup {None}]
  /\ feed \in [Readers -> [cursor : Nat, seen : [Objects -> Nat]]]
  /\ faulted \in BOOLEAN
  /\ replayDue \in [Handlers -> BOOLEAN]

Init ==
  /\ active = Devices
  /\ topology = [listed |-> Devices, role |-> "organizer"]
  /\ objects = [o \in Objects |-> None]
  /\ operations = [i \in OperationIds |-> None]
  /\ cursor = 0
  /\ blobs = [k \in StorageKeys |-> None]
  /\ used = {}
  /\ indoubt = None
  /\ pc = [h \in Handlers |-> "idle"]
  /\ request = [h \in Handlers |-> None]
  /\ candidate = [h \in Handlers |-> None]
  /\ previous = [h \in Handlers |-> None]
  /\ reply = [h \in Handlers |-> None]
  /\ feed = [r \in Readers |-> [cursor |-> 0, seen |-> [o \in Objects |-> 0]]]
  /\ faulted = FALSE
  /\ replayDue = [h \in Handlers |-> FALSE]

-----------------------------------------------------------------------------
(* Write policy (model.rs) and scope authorization (sync.rs).              *)

VersionOf(row) == [revision   |-> row.mutation.revision,
                   ciphertext |-> row.mutation.ciphertext]

PreconditionHolds(m, row) ==
  IF row = None THEN m.pre = None ELSE m.pre = VersionOf(row)

RevisionAdvances(m, row) ==
  /\ m.revision <= MaxWireRevision
  /\ row # None => m.revision > row.mutation.revision

WritePolicy(m, row) == PreconditionHolds(m, row) /\ RevisionAdvances(m, row)

PolicyStatus(m, row) ==
  IF m.revision <= MaxWireRevision /\ ~PreconditionHolds(m, row)
  THEN "precondition_failed"
  ELSE "bad_request"

RolesFor(action) ==
  IF action = "read" THEN {"organizer", "member"} ELSE {"organizer"}

ScopeAuthorized(device, scope, action) ==
  \/ scope = "account"
  \/ device \in topology.listed /\ topology.role \in RolesFor(action)

Failure(status) == [status |-> status, seq |-> 0]
Outcome(row) == [status |-> "ok", seq |-> row.seq]

(* The replay rule shared by the lookup, the commit and the reconciliation. *)
(* Mutant: the request hash of the recorded operation is not compared.      *)
RecordedUnderId(m) == operations[m.op] # None

RecordedAs(m) == operations[m.op] # None /\ operations[m.op].mutation = m
Conflicts(m) == operations[m.op] # None /\ operations[m.op].mutation # m

Goto(h, label) == pc' = [pc EXCEPT ![h] = label]

(* The handler's future ends and its locals are gone.                      *)
Drop(h) ==
  /\ candidate' = [candidate EXCEPT ![h] = None]
  /\ previous' = [previous EXCEPT ![h] = None]
  /\ UNCHANGED request

(* Handler h answers its client and ends.                                  *)
Answer(h, answer) ==
  /\ Goto(h, "replied")
  /\ reply' = [reply EXCEPT ![h] = answer]
  /\ Drop(h)

-----------------------------------------------------------------------------
(* put_object before the transaction.                                      *)

(* validate_upload_binding: what a mutation must satisfy by itself.        *)
UploadBinding(m) ==
  /\ m.revision <= MaxWireRevision
  /\ m.pre # None => m.pre.revision < m.revision

(* Bound: a request arrives only while a storage key is left for it.       *)
KeyLeft ==
  LET uploading == {h \in Handlers :
                      pc[h] \in {"authorize", "lookup", "precheck", "upload"}}
  IN Cardinality(used) + Cardinality(uploading) < Cardinality(StorageKeys)

(* authenticate_device, then the binding of the mutation.                  *)
Receive(h, d, m) ==
  /\ pc[h] \in {"idle", "replied"}
  /\ d \in active
  /\ UploadBinding(m)
  /\ KeyLeft
  /\ Goto(h, "authorize")
  /\ request' = [request EXCEPT ![h] = [device |-> d, mutation |-> m]]
  /\ candidate' = [candidate EXCEPT ![h] = None]
  /\ previous' = [previous EXCEPT ![h] = None]
  /\ reply' = [reply EXCEPT ![h] = None]
  /\ replayDue' = [replayDue EXCEPT ![h] = RecordedAs(m)]
  /\ UNCHANGED <<active, topology, stored, blobs, used, indoubt, feed, faulted>>

Authorize(h) ==
  /\ pc[h] = "authorize"
  /\ IF ScopeAuthorized(request[h].device, request[h].mutation.scope, "write")
     THEN Goto(h, "lookup") /\ UNCHANGED locals
     ELSE Answer(h, Failure("forbidden"))
  /\ UNCHANGED <<active, topology, stored, blobs, used, indoubt, feed, faulted, replayDue>>

(* Mutant: no replay, every request is checked against the current object.  *)
LookupNothing(h) ==
  /\ pc[h] = "lookup"
  /\ Goto(h, "precheck") /\ UNCHANGED locals
  /\ UNCHANGED <<active, topology, stored, blobs, used, indoubt, feed, faulted, replayDue>>

(* get_operation: an operation that committed before is replayed. *)
Lookup(h) ==
  LET m == request[h].mutation IN
  /\ pc[h] = "lookup"
  /\ \/ RecordedAs(m) /\ Answer(h, Outcome(operations[m.op]))
     \/ Conflicts(m) /\ Answer(h, Failure("operation_conflict"))
     \/ operations[m.op] = None /\ Goto(h, "precheck") /\ UNCHANGED locals
  /\ UNCHANGED <<active, topology, stored, blobs, used, indoubt, feed, faulted, replayDue>>

(* get_object and validate_write_policy outside the transaction. *)
Precheck(h) ==
  LET m == request[h].mutation IN
  /\ pc[h] = "precheck"
  /\ IF WritePolicy(m, objects[m.object])
     THEN Goto(h, "upload") /\ UNCHANGED locals
     ELSE Answer(h, Failure(PolicyStatus(m, objects[m.object])))
  /\ UNCHANGED <<active, topology, stored, blobs, used, indoubt, feed, faulted, replayDue>>

(* candidate_storage_key and blobs.put. *)
Upload(h) ==
  /\ pc[h] = "upload"
  /\ \E k \in StorageKeys \ used :
       /\ used' = used \cup {k}
       /\ candidate' = [candidate EXCEPT ![h] = k]
       /\ blobs' = [blobs EXCEPT ![k] = request[h].mutation.ciphertext]
  /\ Goto(h, "commit")
  /\ UNCHANGED <<active, topology, stored, indoubt, request, previous, reply, feed,
                 faulted, replayDue>>

(* blobs.put fails: the body may have been stored all the same. *)
UploadFails(h) ==
  /\ pc[h] = "upload"
  /\ \E k \in StorageKeys \ used :
       /\ used' = used \cup {k}
       /\ \/ UNCHANGED blobs
          \/ blobs' = [blobs EXCEPT ![k] = request[h].mutation.ciphertext]
  /\ Answer(h, Failure("unavailable"))
  /\ faulted' = TRUE
  /\ UNCHANGED <<active, topology, stored, indoubt, feed, replayDue>>

-----------------------------------------------------------------------------
(* commit_object: one transaction under the account row lock.              *)

AccountLockFree == indoubt = None

(* Mutant: the rows take the change number before it is advanced.           *)
WriteRowsUnnumbered(m, k) ==
  /\ cursor' = cursor + 1
  /\ objects' = [objects EXCEPT ![m.object] = [mutation |-> m, seq |-> cursor, key |-> k]]
  /\ operations' = [operations EXCEPT ![m.op] =
       [mutation |-> m, seq |-> cursor, key |-> k, created |-> objects[m.object] = None]]

(* The row writes of a committed mutation m whose body is under key k. *)
WriteRows(m, k) ==
  LET seq == cursor + 1 IN
  /\ cursor' = seq
  /\ objects' = [objects EXCEPT ![m.object] = [mutation |-> m, seq |-> seq, key |-> k]]
  /\ operations' = [operations EXCEPT ![m.op] =
       [mutation |-> m, seq |-> seq, key |-> k, created |-> objects[m.object] = None]]

(* Mutants: the transaction relies on the policy check, or on the            *)
(* authorization, made before the upload.                                   *)
CommittableOnPrecheck(h) ==
  /\ pc[h] = "commit" /\ AccountLockFree
  /\ ScopeAuthorized(request[h].device, request[h].mutation.scope, "write")
  /\ operations[request[h].mutation.op] = None

CommittableUnscoped(h) ==
  /\ pc[h] = "commit" /\ AccountLockFree
  /\ operations[request[h].mutation.op] = None
  /\ WritePolicy(request[h].mutation, objects[request[h].mutation.object])

(* Every check of the transaction, made again under the lock. *)
Committable(h) ==
  LET m == request[h].mutation IN
  /\ pc[h] = "commit"
  /\ AccountLockFree
  /\ ScopeAuthorized(request[h].device, m.scope, "write")
  /\ operations[m.op] = None
  /\ WritePolicy(m, objects[m.object])

Commit(h) ==
  LET m == request[h].mutation IN
  /\ Committable(h)
  /\ WriteRows(m, candidate[h])
  /\ reply' = [reply EXCEPT ![h] = [status |-> "ok", seq |-> cursor + 1]]
  /\ IF objects[m.object] = None
     THEN Goto(h, "replied") /\ Drop(h)
     ELSE /\ Goto(h, "retire")
          /\ previous' = [previous EXCEPT ![h] = objects[m.object].key]
          /\ UNCHANGED <<request, candidate>>
  /\ UNCHANGED <<active, topology, blobs, used, indoubt, feed, faulted, replayDue>>

(* The commit was sent but its acknowledgement is lost. *)
CommitOutcomeUnknown(h) ==
  /\ Committable(h)
  /\ indoubt' = [mutation |-> request[h].mutation, key |-> candidate[h]]
  /\ Goto(h, "reconcile")
  /\ faulted' = TRUE
  /\ UNCHANGED <<active, topology, stored, blobs, used, locals, feed, replayDue>>

(* Mutant: the candidate of a refused or replayed upload is kept.           *)
PrepareNothing(h, answer) == Answer(h, answer)

(* Handler h has its answer and still has to delete its candidate.         *)
Prepare(h, answer) ==
  /\ reply' = [reply EXCEPT ![h] = answer]
  /\ Goto(h, "discard")
  /\ UNCHANGED <<request, candidate, previous>>

(* The transaction ends without writing.                                   *)
CommitRefused(h) ==
  LET m == request[h].mutation
      authorized == ScopeAuthorized(request[h].device, m.scope, "write")
  IN
  /\ pc[h] = "commit"
  /\ AccountLockFree
  /\ \/ ~authorized /\ Prepare(h, Failure("forbidden"))
     \/ authorized /\ RecordedAs(m) /\ Prepare(h, Outcome(operations[m.op]))
     \/ authorized /\ Conflicts(m) /\ Prepare(h, Failure("operation_conflict"))
     \/ /\ authorized
        /\ operations[m.op] = None
        /\ ~WritePolicy(m, objects[m.object])
        /\ Prepare(h, Failure("precondition_failed"))
  /\ UNCHANGED <<active, topology, stored, blobs, used, indoubt, feed, faulted, replayDue>>

(* A database error before the commit was sent: rolled back.               *)
CommitFails(h) ==
  /\ pc[h] = "commit"
  /\ Prepare(h, Failure("unavailable"))
  /\ UNCHANGED <<active, topology, stored, blobs, used, indoubt, feed, faulted, replayDue>>

(* The database resolves a commit in doubt, with or without its client. *)
ResolveCommitted ==
  /\ indoubt # None
  /\ WriteRows(indoubt.mutation, indoubt.key)
  /\ indoubt' = None
  /\ UNCHANGED <<active, topology, blobs, used, pc, locals, feed, faulted, replayDue>>

ResolveAborted ==
  /\ indoubt # None
  /\ indoubt' = None
  /\ UNCHANGED <<active, topology, stored, blobs, used, pc, locals, feed, faulted, replayDue>>

-----------------------------------------------------------------------------
(* put_object after the transaction.                                       *)

(* get_operation after a lost acknowledgement; the read itself may fail.   *)
ReconcileRecorded(h) ==
  LET m == request[h].mutation IN
  /\ RecordedAs(m)
  /\ IF operations[m.op].key = candidate[h]
     THEN Answer(h, Outcome(operations[m.op]))
     ELSE Prepare(h, Outcome(operations[m.op]))

(* Mutant: a candidate that is not recorded yet is deleted.                 *)
ReconcileDeletes(h) ==
  /\ pc[h] = "reconcile"
  /\ ReconcileRecorded(h) \/ Prepare(h, Failure("unavailable"))
  /\ UNCHANGED <<active, topology, stored, blobs, used, indoubt, feed, faulted, replayDue>>

(* Mutant: the handler waits until its operation is recorded.               *)
ReconcileWaits(h) ==
  /\ pc[h] = "reconcile"
  /\ ReconcileRecorded(h)
  /\ UNCHANGED <<active, topology, stored, blobs, used, indoubt, feed, faulted, replayDue>>

(* Otherwise the candidate is retained: it may still become committed.      *)
Reconcile(h) ==
  /\ pc[h] = "reconcile"
  /\ ReconcileRecorded(h) \/ Answer(h, Failure("unavailable"))
  /\ UNCHANGED <<active, topology, stored, blobs, used, indoubt, feed, faulted, replayDue>>

(* best_effort_delete of key k, then the prepared answer. *)
DeleteAndReply(h, k) ==
  /\ \/ blobs' = [blobs EXCEPT ![k] = None] /\ UNCHANGED faulted
     \/ UNCHANGED blobs /\ faulted' = TRUE
  /\ Goto(h, "replied")
  /\ Drop(h)
  /\ UNCHANGED <<active, topology, stored, used, indoubt, reply, feed, replayDue>>

(* Mutant: the new body is retired instead of the replaced one.             *)
RetireCandidate(h) == pc[h] = "retire" /\ DeleteAndReply(h, candidate[h])

Discard(h) == pc[h] = "discard" /\ DeleteAndReply(h, candidate[h])
Retire(h) == pc[h] = "retire" /\ DeleteAndReply(h, previous[h])

(* The client disconnects or the server stops: the handler is dropped. *)
Crash(h) ==
  /\ pc[h] \in InFlight
  /\ Goto(h, "idle")
  /\ reply' = [reply EXCEPT ![h] = None]
  /\ Drop(h)
  /\ faulted' = TRUE
  /\ UNCHANGED <<active, topology, stored, blobs, used, indoubt, feed, replayDue>>

-----------------------------------------------------------------------------
(* The surroundings: revocation, topology updates and the change feed.     *)

Revoke(d) ==
  /\ d \in active
  /\ active \ {d} # {}
  /\ AccountLockFree
  /\ active' = active \ {d}
  /\ UNCHANGED <<topology, stored, blobs, used, indoubt, pc, locals, feed, faulted, replayDue>>

(* put_household_topology waits for a commit in doubt: for its lock on the   *)
(* topology if it is household-scoped, and for the account row if the new    *)
(* topology still names this account.                                       *)
TopologyLocksFree(t) ==
  ~AccountLockFree => indoubt.mutation.scope = "account" /\ t.listed = {}

(* Some organizer of the household puts topology t, whose devices are active. *)
PutTopology(t) ==
  /\ TopologyLocksFree(t)
  /\ t.listed \subseteq active
  /\ topology' = t
  /\ UNCHANGED <<active, stored, blobs, used, indoubt, pc, locals, feed, faulted, replayDue>>

(* Mutant: the page ends before its last row.                               *)
FeedPageShort(after, last) ==
  {o \in Objects : objects[o] # None /\ objects[o].seq > after /\ objects[o].seq < last}

(* One page: at most PageLimit rows after the reader's cursor, in change order. *)
FeedPage(after, last) ==
  {o \in Objects : objects[o] # None /\ objects[o].seq > after /\ objects[o].seq <= last}

(* list_objects: the cursor moves past rows the reader may not see. *)
ListObjects(r) ==
  /\ r \in active
  /\ \E last \in {objects[o].seq : o \in {p \in Objects : objects[p] # None}} :
       LET after == feed[r].cursor
           page == FeedPage(after, last)
       IN /\ last > after
          /\ Cardinality(page) <= PageLimit
          /\ \/ Cardinality(page) = PageLimit
             \/ \A o \in Objects : objects[o] # None => objects[o].seq <= last
          /\ feed' = [feed EXCEPT ![r] =
               [cursor |-> last,
                seen |-> [o \in Objects |->
                  IF o \in page /\ ScopeAuthorized(r, objects[o].mutation.scope, "read")
                  THEN objects[o].seq
                  ELSE feed[r].seen[o]]]]
  /\ UNCHANGED <<active, topology, stored, blobs, used, indoubt, pc, locals, faulted, replayDue>>

-----------------------------------------------------------------------------
HandlerStep(h) ==
  \/ Authorize(h) \/ Lookup(h) \/ Precheck(h)
  \/ Upload(h) \/ UploadFails(h)
  \/ Commit(h) \/ CommitOutcomeUnknown(h) \/ CommitRefused(h) \/ CommitFails(h)
  \/ Reconcile(h) \/ Discard(h) \/ Retire(h)

Resolve == ResolveCommitted \/ ResolveAborted

Next ==
  \/ \E h \in Handlers, d \in Devices, m \in Mutations : Receive(h, d, m)
  \/ \E h \in Handlers : HandlerStep(h) \/ Crash(h)
  \/ Resolve
  \/ \E d \in Devices : Revoke(d)
  \/ \E t \in Topologies : PutTopology(t)
  \/ \E r \in Readers : ListObjects(r)

Spec == Init /\ [][Next]_vars

-----------------------------------------------------------------------------
(* Safety.                                                                 *)

(* Every object row points at a blob that holds exactly the ciphertext the  *)
(* row describes: no clean-up path ever deletes a body that is, or may     *)
(* still become, reachable, even when commits are in doubt (sync.rs        *)
(* retains the candidate then) and uploads of one operation race.          *)
NoDanglingMetadata ==
  \A o \in Objects :
    objects[o] # None => blobs[objects[o].key] = objects[o].mutation.ciphertext

(* Conversely, when no handler is running and no failure cut a clean-up     *)
(* short, the blob store holds nothing but current bodies: every refused,  *)
(* replayed and replaced upload was deleted.                               *)
Quiescent == /\ \A h \in Handlers : pc[h] \in {"idle", "replied"}
             /\ indoubt = None

NoOrphanWithoutFault ==
  Quiescent /\ ~faulted =>
    \A k \in StorageKeys :
      blobs[k] # None => \E o \in Objects : objects[o] # None /\ objects[o].key = k

(* No lost update: in commit order, every write of an object was made       *)
(* against the version its predecessor left, and only the first created it. *)
Earlier(i) ==
  {j \in OperationIds :
     /\ operations[j] # None
     /\ operations[j].mutation.object = operations[i].mutation.object
     /\ operations[j].seq < operations[i].seq}

Predecessor(i, j) ==
  j \in Earlier(i) /\ \A n \in Earlier(i) : operations[n].seq <= operations[j].seq

NoLostUpdate ==
  \A i \in OperationIds : operations[i] # None =>
    LET pre == operations[i].mutation.pre
    IN IF pre = None
       THEN Earlier(i) = {}
       ELSE \E j \in OperationIds : Predecessor(i, j) /\ VersionOf(operations[j]) = pre

(* The object rows are the newest writes of the operation log, and the      *)
(* change numbers of the log are distinct and run up to the cursor: the    *)
(* feed can be followed by number without gaps (commits take the account    *)
(* lock before they take a number).                                         *)
StoreIsLog ==
  /\ \A i \in OperationIds : operations[i] # None =>
       /\ operations[i].seq \in 1..cursor
       /\ objects[operations[i].mutation.object] # None
       /\ objects[operations[i].mutation.object].seq >= operations[i].seq
       /\ \A j \in OperationIds \ {i} :
            operations[j] # None => operations[j].seq # operations[i].seq
  /\ \A o \in Objects : objects[o] # None =>
       LET i == objects[o].mutation.op IN
       /\ operations[i] # None
       /\ operations[i].mutation = objects[o].mutation
       /\ operations[i].seq = objects[o].seq
       /\ operations[i].key = objects[o].key
       /\ objects[o].mutation.object = o

(* A retry of an operation that had committed when the retry arrived is     *)
(* never refused as stale or conflicting: it is answered with the original  *)
(* outcome, or with an error that does not speak about the write at all.    *)
RetryOfCommittedIsReplayed ==
  \A h \in Handlers :
    replayDue[h] /\ reply[h] # None =>
      reply[h].status \in {"ok", "forbidden", "unavailable"}

(* A reader whose cursor has passed the newest change of an account-scoped   *)
(* object has been shown that change: a write that commits late never slips  *)
(* in behind a cursor.                                                       *)
FeedComplete ==
  \A r \in Readers, o \in Objects :
    /\ objects[o] # None
    /\ objects[o].mutation.scope = "account"
    /\ objects[o].seq <= feed[r].cursor
    => feed[r].seen[o] = objects[o].seq

-----------------------------------------------------------------------------
(* The inductive invariant behind NoDanglingMetadata: who may still refer    *)
(* to a storage key.                                                         *)

InOperations(k) == \E i \in OperationIds : operations[i] # None /\ operations[i].key = k
InDoubtKey(k) == indoubt # None /\ indoubt.key = k
Holding == {h \in Handlers : pc[h] \in {"commit", "reconcile", "discard"}}

(* Operation rows are filed under their own id and never share a body; every *)
(* object row repeats the operation row that wrote it.                       *)
RowsRecorded ==
  /\ \A i \in OperationIds : operations[i] # None =>
       /\ operations[i].mutation.op = i
       /\ \A j \in OperationIds :
            operations[j] # None /\ operations[j].key = operations[i].key => i = j
  /\ \A o \in Objects : objects[o] # None =>
       LET i == objects[o].mutation.op IN
       /\ objects[o].mutation.object = o
       /\ operations[i] # None
       /\ operations[i].mutation = objects[o].mutation
       /\ operations[i].key = objects[o].key

(* A fresh key is fresh: every key in sight was handed out before.           *)
KeysUsed ==
  /\ \A i \in OperationIds : operations[i] # None => operations[i].key \in used
  /\ indoubt # None => indoubt.key \in used
  /\ \A h \in Holding : candidate[h] \in used

(* A candidate belongs to one handler and, until its commit is sent, to no   *)
(* row; afterwards only the handler's own mutation can refer to it.          *)
CandidatesOwned ==
  /\ \A g, h \in Holding : candidate[g] = candidate[h] => g = h
  /\ \A h \in Handlers :
       /\ pc[h] \in {"commit", "discard"} =>
            ~InOperations(candidate[h]) /\ ~InDoubtKey(candidate[h])
       /\ pc[h] = "commit" => blobs[candidate[h]] = request[h].mutation.ciphertext
       /\ pc[h] = "reconcile" =>
            /\ \A i \in OperationIds :
                 operations[i] # None /\ operations[i].key = candidate[h]
                   => operations[i].mutation = request[h].mutation
            /\ InDoubtKey(candidate[h]) => indoubt.mutation = request[h].mutation

(* A commit in doubt may still be applied: what its transaction checked still *)
(* holds and its body is kept.                                               *)
InDoubtApplicable ==
  indoubt # None =>
    /\ operations[indoubt.mutation.op] = None
    /\ WritePolicy(indoubt.mutation, objects[indoubt.mutation.object])
    /\ ~InOperations(indoubt.key)
    /\ blobs[indoubt.key] = indoubt.mutation.ciphertext

(* A key to be retired was written once and is current nowhere.              *)
RetiredReplaced ==
  \A h \in Handlers : pc[h] = "retire" =>
    /\ InOperations(previous[h])
    /\ \A o \in Objects : objects[o] # None => objects[o].key # previous[h]

(* Which handlers have a request and a key at hand.                          *)
LocalsSet ==
  \A h \in Handlers :
    /\ pc[h] \in InFlight => request[h] # None
    /\ pc[h] \in {"commit", "reconcile", "discard"} => candidate[h] # None
    /\ pc[h] = "retire" => previous[h] # None

(* The invariant that is inductive, and implies NoDanglingMetadata.          *)
StoreInv ==
  /\ TypeOK
  /\ LocalsSet
  /\ RowsRecorded
  /\ KeysUsed
  /\ CandidatesOwned
  /\ InDoubtApplicable
  /\ RetiredReplaced
  /\ NoDanglingMetadata

-----------------------------------------------------------------------------
(* Properties of steps, liveness and refinement.                           *)

(* An object is never removed and its revision only grows.                  *)
RevisionsAdvance ==
  [][\A o \in Objects : objects[o] # None /\ objects'[o] # objects[o] =>
       /\ objects'[o] # None
       /\ objects'[o].mutation.revision > objects[o].mutation.revision]_vars

(* A household-scoped write takes effect only while the topology lets some   *)
(* listed device of the account write, however long ago the handler was     *)
(* authorized: the check is repeated in the transaction and the topology is  *)
(* locked until the commit is resolved.                                     *)
HouseholdWritesAuthorized ==
  [][\A o \in Objects :
       objects'[o] # objects[o] /\ objects'[o].mutation.scope = "household" =>
         \E d \in Devices : ScopeAuthorized(d, "household", "write")]_vars

Store == INSTANCE VersionedObjects WITH
  current <- [o \in Objects |->
    IF objects[o] = None THEN None
    ELSE [mutation |-> objects[o].mutation, seq |-> objects[o].seq]],
  log <- [i \in OperationIds |->
    IF operations[i] = None THEN None
    ELSE [mutation |-> operations[i].mutation, seq |-> operations[i].seq]],
  changes <- cursor,
  asked <- [h \in Handlers |-> IF request[h] = None THEN None ELSE request[h].mutation],
  answer <- reply,
  Clients <- Handlers

(* The store implements VersionedObjects: every answer is true of the instant *)
(* it is decided at and an operation takes effect at most once.             *)
ImplementsVersionedObjects == Store!AbstractSpec

(* The returns of a handler that is not cut off by an error.               *)
HandlerProgress(h) ==
  \/ Authorize(h) \/ Lookup(h) \/ Precheck(h) \/ Upload(h)
  \/ Commit(h) \/ CommitRefused(h) \/ Reconcile(h) \/ Discard(h) \/ Retire(h)

(* Every await of a live handler returns; the database grants a row lock to  *)
(* a waiter it is freed for again and again (its lock queue is first come,   *)
(* first served) and resolves a commit whose connection was lost.            *)
Fairness ==
  /\ \A h \in Handlers : SF_vars(HandlerProgress(h))
  /\ WF_vars(Resolve)

FairSpec == Spec /\ Fairness

(* Every request is answered or dropped, whatever the others do.            *)
RequestsEnd ==
  \A h \in Handlers : pc[h] = "authorize" ~> pc[h] \in {"idle", "replied"}

=============================================================================
