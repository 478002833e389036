-------------------------- MODULE ObjectStoreProofs --------------------------
(***************************************************************************)
(* Proofs about ObjectStore, for every set of objects, operations,         *)
(* handlers, devices and storage keys: type correctness, that no clean-up   *)
(* ever deletes a body that a row refers to, and that the store implements  *)
(* the atomic one of VersionedObjects.                                     *)
(***************************************************************************)
EXTENDS ObjectStore, TLAPS

USE ObjectStoreAssumption, NoneAssumption

Typed == TypeOK /\ LocalsSet

(* The fields of a typed mutation are typed.                                *)
LEMMA MutationFields ==
  ASSUME NEW m \in Mutations
  PROVE  /\ m.op \in OperationIds /\ m.object \in Objects /\ m.revision \in Nat
         /\ m.ciphertext \in Ciphertexts
BY DEF Mutation

(* What a handler with a request reads from it is typed.                    *)
LEMMA RequestFields ==
  ASSUME TypeOK, NEW h \in Handlers, request[h] # None
  PROVE  /\ request[h] \in Request
         /\ request[h].mutation \in Mutations
         /\ request[h].device \in Devices
         /\ request[h].mutation.ciphertext \in Ciphertexts
         /\ request[h].mutation.op \in OperationIds
         /\ request[h].mutation.object \in Objects
<1>1. request[h] \in Request
  BY DEF TypeOK
<1>2. request[h].mutation \in Mutations /\ request[h].device \in Devices
  BY <1>1 DEF Request
<1>. QED  BY <1>1, <1>2, MutationFields

(* The initial state is typed: empty tables, no request in flight.          *)
LEMMA InitTyped == Init => Typed
<1>. SUFFICES ASSUME Init PROVE Typed
  OBVIOUS
<1>1. topology \in Topology
  BY DEF Init, Topology
<1>2. feed \in [Readers -> [cursor : Nat, seen : [Objects -> Nat]]]
  BY DEF Init
<1>3. TypeOK
  BY <1>1, <1>2 DEF Init, TypeOK
<1>4. LocalsSet
  BY DEF Init, LocalsSet, InFlight
<1>. QED  BY <1>3, <1>4 DEF Typed

(* The row writes of a typed mutation and key keep the rows typed.          *)
LEMMA WriteRowsTyped ==
  ASSUME TypeOK, NEW m \in Mutations, NEW k \in StorageKeys, WriteRows(m, k)
  PROVE  /\ objects' \in [Objects -> Row \cup {None}]
         /\ operations' \in [OperationIds -> OperationRow \cup {None}]
         /\ cursor' \in Nat
<1>1. cursor + 1 \in Nat
  BY DEF TypeOK
<1>2. [mutation |-> m, seq |-> cursor + 1, key |-> k] \in Row
  BY <1>1 DEF Row
<1>3. [mutation |-> m, seq |-> cursor + 1, key |-> k,
       created |-> objects[m.object] = None] \in OperationRow
  BY <1>1 DEF OperationRow
<1>. QED  BY <1>1, <1>2, <1>3 DEF WriteRows, TypeOK

(* The three ways a handler moves on without a new key of its own.          *)
LEMMA AnswerTyped ==
  ASSUME Typed, NEW h \in Handlers, NEW a \in Reply, Answer(h, a),
         UNCHANGED <<active, topology, stored, indoubt, feed, replayDue>>,
         used' \subseteq StorageKeys,
         blobs' \in [StorageKeys -> Ciphertexts \cup {None}],
         faulted' \in BOOLEAN
  PROVE  Typed'
<1>1. TypeOK'
  BY DEF Typed, TypeOK, Answer, Goto, Drop, InFlight, stored
<1>2. LocalsSet'
  BY DEF Typed, TypeOK, LocalsSet, Answer, Goto, Drop, InFlight
<1>. QED  BY <1>1, <1>2 DEF Typed

(* A handler that prepares its answer, to delete its body first, stays      *)
(* typed.                                                                   *)
LEMMA PrepareTyped ==
  ASSUME Typed, NEW h \in Handlers, NEW a \in Reply, Prepare(h, a),
         pc[h] \in {"commit", "reconcile"},
         UNCHANGED <<active, topology, stored, blobs, used, indoubt, feed, faulted, replayDue>>
  PROVE  Typed'
<1>1. TypeOK'
  BY DEF Typed, TypeOK, Prepare, Goto, InFlight, stored
<1>2. LocalsSet'
  BY DEF Typed, TypeOK, LocalsSet, Prepare, Goto, InFlight
<1>. QED  BY <1>1, <1>2 DEF Typed

(* Moving on to a step that needs no new local keeps every local typed.     *)
LEMMA GotoTyped ==
  ASSUME Typed, NEW h \in Handlers, NEW label \in {"lookup", "precheck", "upload"},
         Goto(h, label), pc[h] \in InFlight,
         UNCHANGED <<active, topology, stored, blobs, used, indoubt, locals, feed,
                     faulted, replayDue>>
  PROVE  Typed'
<1>1. TypeOK'
  BY DEF Typed, TypeOK, Goto, InFlight, stored, locals
<1>2. LocalsSet'
  BY DEF Typed, TypeOK, LocalsSet, Goto, InFlight, locals
<1>. QED  BY <1>1, <1>2 DEF Typed

(* Every failure a handler answers with is a reply.                         *)
LEMMA FailureTyped == \A s \in Statuses : Failure(s) \in Reply
BY DEF Failure, Reply

(* The answer rebuilt from an operation row that records this request is a  *)
(* reply.                                                                   *)
LEMMA OutcomeTyped ==
  ASSUME Typed, NEW h \in Handlers, pc[h] \in InFlight, RecordedAs(request[h].mutation)
  PROVE  Outcome(operations[request[h].mutation.op]) \in Reply
<1>1. request[h].mutation.op \in OperationIds
  BY RequestFields DEF Typed, LocalsSet
<1>. QED  BY <1>1 DEF Typed, RecordedAs, TypeOK, Outcome, OperationRow, Reply, Statuses

(* Every action of the store, the handlers, the faults and the readers      *)
(* keeps the state typed, and keeps set the locals the next step of a       *)
(* handler reads.                                                           *)
THEOREM TypedStep == Typed /\ [Next]_vars => Typed'
<1>. SUFFICES ASSUME Typed, [Next]_vars PROVE Typed'
  OBVIOUS
<1>. USE DEF Typed
<1>1. ASSUME NEW h \in Handlers, NEW d \in Devices, NEW m \in Mutations, Receive(h, d, m)
      PROVE  Typed'
  <2>1. [device |-> d, mutation |-> m] \in Request
    BY DEF Request
  <2>2. TypeOK'
    BY <1>1, <2>1 DEF Receive, TypeOK, Goto, stored, InFlight, RecordedAs
  <2>3. LocalsSet'
    BY <1>1, <2>1 DEF Receive, TypeOK, LocalsSet, Goto, InFlight
  <2>. QED  BY <2>2, <2>3
<1>2. ASSUME NEW h \in Handlers, Authorize(h) PROVE Typed'
  <2>1. CASE ScopeAuthorized(request[h].device, request[h].mutation.scope, "write")
    BY <1>2, <2>1, GotoTyped DEF Authorize, InFlight
  <2>2. CASE ~ScopeAuthorized(request[h].device, request[h].mutation.scope, "write")
    <3>1. Failure("forbidden") \in Reply
      BY FailureTyped DEF Statuses
    <3>. QED  BY <1>2, <2>2, <3>1, AnswerTyped DEF Authorize, TypeOK
  <2>. QED  BY <2>1, <2>2
<1>3. ASSUME NEW h \in Handlers, Lookup(h) PROVE Typed'
  <2> DEFINE m == request[h].mutation
  <2>1. CASE RecordedAs(m) /\ Answer(h, Outcome(operations[m.op]))
    <3>1. Outcome(operations[m.op]) \in Reply
      BY <1>3, <2>1, OutcomeTyped DEF Lookup, InFlight
    <3>. QED  BY <1>3, <2>1, <3>1, AnswerTyped DEF Lookup, TypeOK
  <2>2. CASE Answer(h, Failure("operation_conflict"))
    <3>1. Failure("operation_conflict") \in Reply
      BY FailureTyped DEF Statuses
    <3>. QED  BY <1>3, <2>2, <3>1, AnswerTyped DEF Lookup, TypeOK
  <2>3. CASE Goto(h, "precheck") /\ UNCHANGED locals
    BY <1>3, <2>3, GotoTyped DEF Lookup, InFlight
  <2>. QED  BY <1>3, <2>1, <2>2, <2>3 DEF Lookup
<1>4. ASSUME NEW h \in Handlers, Precheck(h) PROVE Typed'
  <2> DEFINE m == request[h].mutation
  <2>1. CASE WritePolicy(m, objects[m.object])
    BY <1>4, <2>1, GotoTyped DEF Precheck, InFlight
  <2>2. CASE ~WritePolicy(m, objects[m.object])
    <3>1. Failure(PolicyStatus(m, objects[m.object])) \in Reply
      BY FailureTyped DEF PolicyStatus, Statuses
    <3>. QED  BY <1>4, <2>2, <3>1, AnswerTyped DEF Precheck, TypeOK
  <2>. QED  BY <2>1, <2>2
<1>5. ASSUME NEW h \in Handlers, Upload(h) PROVE Typed'
  <2>1. request[h].mutation.ciphertext \in Ciphertexts
    BY <1>5, RequestFields DEF Upload, LocalsSet, InFlight
  <2>. QED  BY <1>5, <2>1 DEF Upload, TypeOK, LocalsSet, Goto, InFlight, stored
<1>6. ASSUME NEW h \in Handlers, UploadFails(h) PROVE Typed'
  <2>1. request[h].mutation.ciphertext \in Ciphertexts
    BY <1>6, RequestFields DEF UploadFails, LocalsSet, InFlight
  <2>2. /\ used' \subseteq StorageKeys
        /\ blobs' \in [StorageKeys -> Ciphertexts \cup {None}]
    BY <1>6, <2>1 DEF UploadFails, TypeOK
  <2>3. Failure("unavailable") \in Reply
    BY FailureTyped DEF Statuses
  <2>. QED  BY <1>6, <2>2, <2>3, AnswerTyped DEF UploadFails
<1>7. ASSUME NEW h \in Handlers, Commit(h) PROVE Typed'
  <2>1. request[h].mutation \in Mutations /\ request[h].mutation.object \in Objects
    BY <1>7, RequestFields DEF Commit, Committable, LocalsSet, InFlight
  <2>2. candidate[h] \in StorageKeys
    BY <1>7 DEF Commit, Committable, LocalsSet, TypeOK
  <2>3. /\ objects' \in [Objects -> Row \cup {None}]
        /\ operations' \in [OperationIds -> OperationRow \cup {None}]
        /\ cursor' \in Nat
    BY <1>7, <2>1, <2>2, WriteRowsTyped DEF Commit
  <2>4. reply' \in [Handlers -> Reply \cup {None}]
    BY <1>7 DEF Commit, TypeOK, Reply, Statuses
  <2>5. objects[request[h].mutation.object] # None =>
          objects[request[h].mutation.object].key \in StorageKeys
    BY <2>1 DEF TypeOK, Row
  <2>6. CASE objects[request[h].mutation.object] = None
    <3>1. Goto(h, "replied") /\ Drop(h)
      BY <1>7, <2>6 DEF Commit
    <3>2. TypeOK'
      BY <1>7, <2>3, <2>4, <3>1 DEF Commit, TypeOK, Goto, Drop
    <3>3. LocalsSet'
      BY <3>1 DEF TypeOK, LocalsSet, Goto, Drop, InFlight
    <3>. QED  BY <3>2, <3>3
  <2>7. CASE objects[request[h].mutation.object] # None
    <3>1. /\ Goto(h, "retire")
          /\ previous' = [previous EXCEPT ![h] = objects[request[h].mutation.object].key]
          /\ UNCHANGED <<request, candidate>>
      BY <1>7, <2>7 DEF Commit
    <3>2. TypeOK'
      BY <1>7, <2>3, <2>4, <2>5, <2>7, <3>1 DEF Commit, TypeOK, Goto, InFlight
    <3>3. LocalsSet'
      BY <1>7, <2>5, <2>7, <3>1 DEF Commit, Committable, TypeOK, LocalsSet, Goto, InFlight
    <3>. QED  BY <3>2, <3>3
  <2>. QED  BY <2>6, <2>7
<1>8. ASSUME NEW h \in Handlers, CommitOutcomeUnknown(h) PROVE Typed'
  <2>1. request[h].mutation \in Mutations
    BY <1>8, RequestFields DEF CommitOutcomeUnknown, Committable, LocalsSet, InFlight
  <2>2. candidate[h] \in StorageKeys
    BY <1>8 DEF CommitOutcomeUnknown, Committable, LocalsSet, TypeOK
  <2>3. indoubt' \in InDoubt
    BY <1>8, <2>1, <2>2 DEF CommitOutcomeUnknown, InDoubt
  <2>. QED  BY <1>8, <2>3 DEF CommitOutcomeUnknown, Committable, TypeOK, LocalsSet, Goto,
                              InFlight, stored, locals
<1>9. ASSUME NEW h \in Handlers, CommitRefused(h) PROVE Typed'
  <2>1. RecordedAs(request[h].mutation) =>
          Outcome(operations[request[h].mutation.op]) \in Reply
    BY <1>9, OutcomeTyped DEF CommitRefused, InFlight
  <2>2. PICK a \in Reply : Prepare(h, a)
    BY <1>9, <2>1, FailureTyped DEF CommitRefused, Statuses
  <2>. QED  BY <1>9, <2>2, PrepareTyped DEF CommitRefused
<1>10. ASSUME NEW h \in Handlers, CommitFails(h) PROVE Typed'
  <2>1. Failure("unavailable") \in Reply
    BY FailureTyped DEF Statuses
  <2>. QED  BY <1>10, <2>1, PrepareTyped DEF CommitFails
<1>11. ASSUME NEW h \in Handlers, Reconcile(h) PROVE Typed'
  <2>1. RecordedAs(request[h].mutation) =>
          Outcome(operations[request[h].mutation.op]) \in Reply
    BY <1>11, OutcomeTyped DEF Reconcile, InFlight
  <2>2. PICK a \in Reply : Answer(h, a) \/ Prepare(h, a)
    BY <1>11, <2>1, FailureTyped DEF Reconcile, ReconcileRecorded, Statuses
  <2>3. CASE Answer(h, a)
    BY <1>11, <2>3, AnswerTyped DEF Reconcile, TypeOK
  <2>4. CASE Prepare(h, a)
    BY <1>11, <2>4, PrepareTyped DEF Reconcile
  <2>. QED  BY <2>2, <2>3, <2>4
<1>12. ASSUME NEW h \in Handlers, NEW k, DeleteAndReply(h, k) PROVE Typed'
  BY <1>12 DEF DeleteAndReply, TypeOK, LocalsSet, Goto, Drop, InFlight, stored
<1>13. ASSUME NEW h \in Handlers, Crash(h) PROVE Typed'
  BY <1>13 DEF Crash, TypeOK, LocalsSet, Goto, Drop, InFlight, stored
<1>14. CASE ResolveCommitted
  <2>1. indoubt.mutation \in Mutations /\ indoubt.key \in StorageKeys
    BY <1>14 DEF ResolveCommitted, TypeOK, InDoubt
  <2>2. /\ objects' \in [Objects -> Row \cup {None}]
        /\ operations' \in [OperationIds -> OperationRow \cup {None}]
        /\ cursor' \in Nat
    BY <1>14, <2>1, WriteRowsTyped DEF ResolveCommitted
  <2>. QED  BY <1>14, <2>2 DEF ResolveCommitted, TypeOK, LocalsSet, locals
<1>15. CASE ResolveAborted
  BY <1>15 DEF ResolveAborted, TypeOK, LocalsSet, stored, locals
<1>16. ASSUME NEW d \in Devices, Revoke(d) PROVE Typed'
  BY <1>16 DEF Revoke, TypeOK, LocalsSet, stored, locals
<1>17. ASSUME NEW t \in Topologies, PutTopology(t) PROVE Typed'
  BY <1>17 DEF PutTopology, TypeOK, LocalsSet, stored, locals
<1>18. ASSUME NEW r \in Readers, ListObjects(r) PROVE Typed'
  <2>1. \A o \in Objects : objects[o] # None => objects[o].seq \in Nat
    BY DEF TypeOK, Row
  <2>2. PICK last \in {objects[o].seq : o \in {p \in Objects : objects[p] # None}} :
          feed' = [feed EXCEPT ![r] = [cursor |-> last,
            seen |-> [o \in Objects |->
              IF /\ o \in FeedPage(feed[r].cursor, last)
                 /\ ScopeAuthorized(r, objects[o].mutation.scope, "read")
              THEN objects[o].seq ELSE feed[r].seen[o]]]]
    BY <1>18 DEF ListObjects
  <2>3. last \in Nat /\ feed[r].seen \in [Objects -> Nat]
    BY <2>1 DEF TypeOK
  <2>4. \A o \in FeedPage(feed[r].cursor, last) : objects[o].seq \in Nat
    BY <2>1 DEF FeedPage
  <2>5. feed' \in [Readers -> [cursor : Nat, seen : [Objects -> Nat]]]
    BY <2>2, <2>3, <2>4 DEF TypeOK
  <2>. QED  BY <1>18, <2>5 DEF ListObjects, TypeOK, LocalsSet, stored, locals
<1>19. CASE UNCHANGED vars
  BY <1>19 DEF vars, TypeOK, LocalsSet
<1>. QED
  BY <1>1, <1>2, <1>3, <1>4, <1>5, <1>6, <1>7, <1>8, <1>9, <1>10, <1>11, <1>12, <1>13,
     <1>14, <1>15, <1>16, <1>17, <1>18, <1>19
     DEF Next, HandlerStep, Resolve, Discard, Retire

(* Every reachable state of the store is well typed: in particular no row   *)
(* ever names a missing storage key and no answer lacks a status.           *)
THEOREM TypeCorrect == Spec => []TypeOK
<1>1. Typed => TypeOK
  BY DEF Typed
<1>. QED  BY InitTyped, TypedStep, <1>1, PTL DEF Spec

-----------------------------------------------------------------------------
(* No clean-up deletes a referenced body.  KeyInv is the part of StoreInv    *)
(* that says who may refer to a storage key; typing is TypedStep.            *)

KeyInv ==
  /\ RowsRecorded
  /\ KeysUsed
  /\ CandidatesOwned
  /\ InDoubtApplicable
  /\ RetiredReplaced
  /\ NoDanglingMetadata

Held == {"commit", "reconcile", "discard", "retire"}

(* The checked invariant is typing and the account of the storage keys.     *)
LEMMA StoreInvParts == StoreInv <=> Typed /\ KeyInv
BY DEF StoreInv, Typed, KeyInv

(* Nothing is stored and no key is held at the start.                       *)
LEMMA KeyInvInit == Init => KeyInv
<1>. SUFFICES ASSUME Init PROVE KeyInv
  OBVIOUS
<1>1. Holding = {}
  BY DEF Init, Holding
<1>2. RowsRecorded /\ KeysUsed
  BY <1>1 DEF Init, RowsRecorded, KeysUsed
<1>3. CandidatesOwned
  BY <1>1 DEF Init, CandidatesOwned
<1>4. InDoubtApplicable /\ RetiredReplaced /\ NoDanglingMetadata
  BY DEF Init, InDoubtApplicable, RetiredReplaced, NoDanglingMetadata
<1>. QED  BY <1>2, <1>3, <1>4 DEF KeyInv

(* A step that writes no row and touches no body under a key in use keeps    *)
(* KeyInv, if handlers that go on holding a key keep it, and one that starts *)
(* to discard its candidate is alone with it.                                *)
Quiet(h) ==
  pc'[h] \in Held =>
    /\ request'[h] = request[h]
    /\ candidate'[h] = candidate[h]
    /\ previous'[h] = previous[h]
    /\ \/ pc'[h] = pc[h]
       \/ /\ pc[h] \in {"commit", "reconcile"}
          /\ pc'[h] = "discard"
          /\ ~InOperations(candidate[h])
          /\ ~InDoubtKey(candidate[h])

(* A step that writes no row, deletes no body and gives no handler a new    *)
(* key keeps the account of the keys: most actions are of this kind.        *)
LEMMA QuietStep ==
  ASSUME Typed, KeyInv, UNCHANGED stored, indoubt' \in {indoubt, None},
         used \subseteq used', \A k \in used : blobs'[k] = blobs[k],
         \A h \in Handlers : Quiet(h)
  PROVE  KeyInv'
<1>1. RowsRecorded'
  BY DEF KeyInv, RowsRecorded, stored
<1>2. Holding' \subseteq Holding
  BY DEF Holding, Quiet, Held
<1>3. \A h \in Holding' : candidate'[h] = candidate[h]
  BY DEF Holding, Quiet, Held
<1>4. KeysUsed'
  BY <1>2, <1>3 DEF KeyInv, KeysUsed, stored
<1>5. \A k : InOperations(k)' = InOperations(k)
  BY DEF InOperations, stored
<1>6. \A k : InDoubtKey(k)' => InDoubtKey(k)
  BY DEF InDoubtKey
<1>7. CandidatesOwned'
  <2>1. \A g, h \in Holding' : candidate'[g] = candidate'[h] => g = h
    BY <1>2, <1>3 DEF KeyInv, CandidatesOwned
  <2>2. ASSUME NEW h \in Handlers, pc'[h] \in {"commit", "discard"}
        PROVE  (~InOperations(candidate[h]) /\ ~InDoubtKey(candidate[h]))'
    <3>1. /\ candidate'[h] = candidate[h]
          /\ ~InOperations(candidate[h])
          /\ ~InDoubtKey(candidate[h])
      BY <2>2 DEF KeyInv, CandidatesOwned, Quiet, Held
    <3>. QED  BY <3>1 DEF InOperations, InDoubtKey, stored
  <2>3. ASSUME NEW h \in Handlers, pc'[h] = "commit"
        PROVE  blobs'[candidate'[h]] = request'[h].mutation.ciphertext
    <3>1. pc[h] = "commit" /\ candidate'[h] = candidate[h] /\ request'[h] = request[h]
      BY <2>3 DEF Quiet, Held
    <3>. QED  BY <3>1 DEF KeyInv, CandidatesOwned, KeysUsed, Holding
  <2>4. ASSUME NEW h \in Handlers, pc'[h] = "reconcile"
        PROVE  /\ \A i \in OperationIds :
                    operations[i] # None /\ operations[i].key = candidate'[h]
                      => operations[i].mutation = request'[h].mutation
               /\ InDoubtKey(candidate[h])' => indoubt'.mutation = request'[h].mutation
    <3>1. pc[h] = "reconcile" /\ candidate'[h] = candidate[h] /\ request'[h] = request[h]
      BY <2>4 DEF Quiet, Held
    <3>. QED  BY <3>1 DEF KeyInv, CandidatesOwned, InDoubtKey
  <2>. QED  BY <2>1, <2>2, <2>3, <2>4, <1>5 DEF CandidatesOwned, stored
<1>8. InDoubtApplicable'
  BY <1>5 DEF KeyInv, InDoubtApplicable, KeysUsed, stored
<1>9. RetiredReplaced'
  BY <1>5 DEF KeyInv, RetiredReplaced, Quiet, Held, stored
<1>10. NoDanglingMetadata'
  <2>1. \A o \in Objects : objects[o] # None => objects[o].key \in used
    <3>. SUFFICES ASSUME NEW o \in Objects, objects[o] # None PROVE objects[o].key \in used
      OBVIOUS
    <3>1. objects[o] \in Row
      BY DEF Typed, TypeOK
    <3>2. objects[o].mutation.op \in OperationIds
      BY <3>1, MutationFields DEF Row
    <3>. QED  BY <3>2 DEF KeyInv, RowsRecorded, KeysUsed
  <2>. QED  BY <2>1 DEF KeyInv, NoDanglingMetadata, stored
<1>. QED  BY <1>1, <1>4, <1>7, <1>8, <1>9, <1>10 DEF KeyInv

(* The body key of a row is recorded in the operation that wrote it.        *)
LEMMA RowKeyRecorded ==
  ASSUME Typed, RowsRecorded, NEW o \in Objects, objects[o] # None
  PROVE  /\ objects[o].mutation \in Mutations
         /\ objects[o].mutation.op \in OperationIds
         /\ InOperations(objects[o].key)
         /\ objects[o].key \in StorageKeys
<1>1. objects[o] \in Row
  BY DEF Typed, TypeOK
<1>2. objects[o].mutation \in Mutations /\ objects[o].key \in StorageKeys
  BY <1>1 DEF Row
<1>3. objects[o].mutation.op \in OperationIds
  BY <1>2, MutationFields
<1>. QED  BY <1>2, <1>3 DEF RowsRecorded, InOperations

(* A body under a key that nobody referred to before.                       *)
LEMMA UploadStep ==
  ASSUME Typed, KeyInv, NEW h \in Handlers, Upload(h)
  PROVE  KeyInv'
<1>. PICK k \in StorageKeys \ used :
       /\ used' = used \cup {k}
       /\ candidate' = [candidate EXCEPT ![h] = k]
       /\ blobs' = [blobs EXCEPT ![k] = request[h].mutation.ciphertext]
  BY DEF Upload
<1>1. /\ UNCHANGED <<objects, operations, indoubt, previous, request>>
      /\ pc' = [pc EXCEPT ![h] = "commit"]
  BY DEF Upload, Goto, stored
<1>2. /\ candidate'[h] = k /\ pc'[h] = "commit"
      /\ blobs'[k] = request[h].mutation.ciphertext
      /\ \A g \in Handlers \ {h} : candidate'[g] = candidate[g] /\ pc'[g] = pc[g]
      /\ \A j \in used : blobs'[j] = blobs[j]
  BY <1>1 DEF Typed, TypeOK
<1>3. ~InOperations(k) /\ ~InDoubtKey(k) /\ \A g \in Holding : candidate[g] # k
  BY DEF KeyInv, KeysUsed, InOperations, InDoubtKey
<1>4. Holding' = Holding \cup {h} /\ h \notin Holding
  BY <1>1, <1>2 DEF Holding, Upload
<1>5. RowsRecorded'
  BY <1>1 DEF KeyInv, RowsRecorded
<1>6. KeysUsed'
  BY <1>1, <1>2, <1>4 DEF KeyInv, KeysUsed, Holding
<1>7. CandidatesOwned'
  <2>1. \A f, g \in Holding' : candidate'[f] = candidate'[g] => f = g
    BY <1>2, <1>3, <1>4 DEF KeyInv, CandidatesOwned, Holding
  <2>2. ASSUME NEW g \in Handlers, pc'[g] \in {"commit", "discard"}
        PROVE  (~InOperations(candidate[g]) /\ ~InDoubtKey(candidate[g]))'
    BY <2>2, <1>1, <1>2, <1>3 DEF KeyInv, CandidatesOwned, InOperations, InDoubtKey
  <2>3. ASSUME NEW g \in Handlers, pc'[g] = "commit"
        PROVE  blobs'[candidate'[g]] = request'[g].mutation.ciphertext
    BY <2>3, <1>1, <1>2 DEF KeyInv, CandidatesOwned, KeysUsed, Holding
  <2>4. ASSUME NEW g \in Handlers, pc'[g] = "reconcile"
        PROVE  pc[g] = "reconcile" /\ candidate'[g] = candidate[g]
    BY <2>4, <1>2
  <2>. QED  BY <2>1, <2>2, <2>3, <2>4, <1>1 DEF KeyInv, CandidatesOwned, InDoubtKey
<1>8. InDoubtApplicable'
  BY <1>1, <1>2 DEF KeyInv, InDoubtApplicable, KeysUsed, InOperations, WritePolicy,
                    PreconditionHolds, RevisionAdvances, VersionOf
<1>9. RetiredReplaced'
  BY <1>1, <1>2 DEF KeyInv, RetiredReplaced, InOperations
<1>10. NoDanglingMetadata'
  BY <1>1, <1>2, RowKeyRecorded DEF KeyInv, NoDanglingMetadata, KeysUsed, InOperations
<1>. QED  BY <1>5, <1>6, <1>7, <1>8, <1>9, <1>10 DEF KeyInv

(* The commit is sent: its candidate passes to the in-doubt record.         *)
LEMMA OutcomeUnknownStep ==
  ASSUME Typed, KeyInv, NEW h \in Handlers, CommitOutcomeUnknown(h)
  PROVE  KeyInv'
<1>1. /\ UNCHANGED <<objects, operations, blobs, used, request, candidate, previous>>
      /\ indoubt' = [mutation |-> request[h].mutation, key |-> candidate[h]]
      /\ pc' = [pc EXCEPT ![h] = "reconcile"]
      /\ pc[h] = "commit" /\ indoubt = None
  BY DEF CommitOutcomeUnknown, Committable, AccountLockFree, Goto, stored, locals
<1>2. pc'[h] = "reconcile" /\ \A g \in Handlers \ {h} : pc'[g] = pc[g]
  BY <1>1 DEF Typed, TypeOK
<1>3. Holding' = Holding /\ h \in Holding
  BY <1>1, <1>2 DEF Holding
<1>4. RowsRecorded' /\ NoDanglingMetadata'
  BY <1>1 DEF KeyInv, RowsRecorded, NoDanglingMetadata
<1>5. KeysUsed'
  BY <1>1, <1>3 DEF KeyInv, KeysUsed
<1>6. CandidatesOwned'
  <2>1. \A f, g \in Holding' : candidate'[f] = candidate'[g] => f = g
    BY <1>1, <1>3 DEF KeyInv, CandidatesOwned
  <2>2. ASSUME NEW g \in Handlers, pc'[g] \in {"commit", "discard"}
        PROVE  (~InOperations(candidate[g]) /\ ~InDoubtKey(candidate[g]))'
    <3>1. g # h /\ pc[g] \in {"commit", "discard"} /\ g \in Holding
      BY <2>2, <1>2 DEF Holding
    <3>2. candidate[g] # candidate[h]
      BY <3>1, <1>3 DEF KeyInv, CandidatesOwned
    <3>. QED  BY <3>1, <3>2, <1>1 DEF KeyInv, CandidatesOwned, InOperations, InDoubtKey
  <2>3. ASSUME NEW g \in Handlers, pc'[g] = "commit"
        PROVE  blobs'[candidate'[g]] = request'[g].mutation.ciphertext
    BY <2>3, <1>1, <1>2 DEF KeyInv, CandidatesOwned
  <2>4. ASSUME NEW g \in Handlers, pc'[g] = "reconcile"
        PROVE  (/\ \A i \in OperationIds :
                     operations[i] # None /\ operations[i].key = candidate[g]
                       => operations[i].mutation = request[g].mutation
                /\ InDoubtKey(candidate[g]) => indoubt.mutation = request[g].mutation)'
    <3>1. CASE g = h
      BY <3>1, <1>1 DEF KeyInv, CandidatesOwned, InOperations, InDoubtKey
    <3>2. CASE g # h
      <4>1. pc[g] = "reconcile" /\ g \in Holding
        BY <2>4, <3>2, <1>2 DEF Holding
      <4>2. candidate[g] # candidate[h]
        BY <4>1, <3>2, <1>3 DEF KeyInv, CandidatesOwned
      <4>. QED  BY <4>1, <4>2, <1>1 DEF KeyInv, CandidatesOwned, InDoubtKey
    <3>. QED  BY <3>1, <3>2
  <2>. QED  BY <2>1, <2>2, <2>3, <2>4 DEF CandidatesOwned
<1>7. InDoubtApplicable'
  BY <1>1 DEF KeyInv, InDoubtApplicable, CandidatesOwned, CommitOutcomeUnknown, Committable,
              InOperations, WritePolicy, PreconditionHolds, RevisionAdvances, VersionOf
<1>8. RetiredReplaced'
  BY <1>1, <1>2 DEF KeyInv, RetiredReplaced, InOperations
<1>. QED  BY <1>4, <1>5, <1>6, <1>7, <1>8 DEF KeyInv

(* The row writes of mutation m, whose body is under the unrecorded key k.  *)
LEMMA WriteRowsStep ==
  ASSUME Typed, KeyInv, NEW m \in Mutations, NEW k \in used, WriteRows(m, k),
         operations[m.op] = None, ~InOperations(k), blobs[k] = m.ciphertext,
         UNCHANGED blobs
  PROVE  /\ RowsRecorded'
         /\ NoDanglingMetadata'
         /\ \A i \in OperationIds :
              operations'[i] # None => operations'[i] = operations[i] \/ operations'[i].key = k
         /\ \A i \in OperationIds :
              operations'[i] # None /\ operations'[i].key = k => operations'[i].mutation = m
         /\ \A j : InOperations(j) => InOperations(j)'
         /\ \A j : InOperations(j)' => InOperations(j) \/ j = k
         /\ \A o \in Objects : objects'[o] # None =>
              objects'[o].key = k \/ (o # m.object /\ objects'[o] = objects[o])
<1>0. m.op \in OperationIds /\ m.object \in Objects
  BY MutationFields
<1> DEFINE row == [mutation |-> m, seq |-> cursor + 1, key |-> k]
           record == [mutation |-> m, seq |-> cursor + 1, key |-> k,
                      created |-> objects[m.object] = None]
<1>1. /\ objects'[m.object] = row
      /\ \A o \in Objects \ {m.object} : objects'[o] = objects[o]
      /\ operations'[m.op] = record
      /\ \A i \in OperationIds \ {m.op} : operations'[i] = operations[i]
  BY <1>0 DEF WriteRows, Typed, TypeOK
<1>2. row.mutation = m /\ row.key = k /\ record.mutation = m /\ record.key = k
  OBVIOUS
<1>3. k \in StorageKeys /\ row # None /\ record # None
  <2>1. k \in StorageKeys /\ cursor + 1 \in Nat
    BY DEF Typed, TypeOK
  <2>2. row \in Row /\ record \in OperationRow
    BY <2>1 DEF Row, OperationRow
  <2>. QED  BY <2>1, <2>2
<1>. HIDE DEF row, record
<1>4. \A i \in OperationIds : operations[i] # None => operations[i].key # k
  BY DEF InOperations
<1>5. RowsRecorded'
  <2>1. ASSUME NEW i \in OperationIds, operations'[i] # None
        PROVE  /\ operations'[i].mutation.op = i
               /\ \A j \in OperationIds :
                    operations'[j] # None /\ operations'[j].key = operations'[i].key => i = j
    BY <2>1, <1>0, <1>1, <1>2, <1>4 DEF KeyInv, RowsRecorded
  <2>2. ASSUME NEW o \in Objects, objects'[o] # None
        PROVE  LET i == objects'[o].mutation.op IN
               /\ objects'[o].mutation.object = o
               /\ operations'[i] # None
               /\ operations'[i].mutation = objects'[o].mutation
               /\ operations'[i].key = objects'[o].key
    <3>1. CASE o = m.object
      BY <3>1, <1>1, <1>2, <1>3
    <3>2. CASE o # m.object
      <4>1. objects'[o] = objects[o] /\ objects[o] # None
        BY <2>2, <3>2, <1>1
      <4>2. objects[o].mutation.op \in OperationIds
        BY <4>1, RowKeyRecorded DEF KeyInv
      <4>3. objects[o].mutation.op # m.op
        BY <4>1 DEF KeyInv, RowsRecorded
      <4>. QED  BY <4>1, <4>2, <4>3, <1>1 DEF KeyInv, RowsRecorded
    <3>. QED  BY <3>1, <3>2
  <2>. QED  BY <2>1, <2>2 DEF RowsRecorded
<1>6. NoDanglingMetadata'
  BY <1>0, <1>1, <1>2 DEF KeyInv, NoDanglingMetadata
<1>. QED  BY <1>0, <1>1, <1>2, <1>3, <1>4, <1>5, <1>6 DEF InOperations

(* A commit hands the key of its body from the handler to the rows.         *)
LEMMA CommitStep ==
  ASSUME Typed, KeyInv, NEW h \in Handlers, Commit(h)
  PROVE  KeyInv'
<1> DEFINE m == request[h].mutation
           k == candidate[h]
<1>1. /\ m \in Mutations /\ m.object \in Objects /\ h \in Holding /\ pc[h] = "commit"
      /\ k \in used /\ ~InOperations(k) /\ ~InDoubtKey(k) /\ blobs[k] = m.ciphertext
  <2>1. pc[h] = "commit" /\ h \in Holding
    BY DEF Commit, Committable, Holding
  <2>2. request[h] # None
    BY <2>1 DEF Typed, LocalsSet, InFlight
  <2>. QED  BY <2>1, <2>2, RequestFields DEF Typed, KeyInv, KeysUsed, CandidatesOwned
<1>2. /\ WriteRows(m, k) /\ operations[m.op] = None /\ indoubt = None
      /\ UNCHANGED <<blobs, used, indoubt, request>>
  BY DEF Commit, Committable, AccountLockFree, Drop
<1>3. /\ pc'[h] \in {"replied", "retire"}
      /\ pc'[h] = "retire" => /\ objects[m.object] # None
                              /\ previous'[h] = objects[m.object].key
      /\ \A g \in Handlers \ {h} : /\ pc'[g] = pc[g] /\ candidate'[g] = candidate[g]
                                   /\ previous'[g] = previous[g]
  BY DEF Commit, Goto, Drop, Typed, TypeOK
<1>. HIDE DEF m, k
<1>4. /\ RowsRecorded'
      /\ NoDanglingMetadata'
      /\ \A i \in OperationIds :
           operations'[i] # None => operations'[i] = operations[i] \/ operations'[i].key = k
      /\ \A j : InOperations(j) => InOperations(j)'
      /\ \A j : InOperations(j)' => InOperations(j) \/ j = k
      /\ \A o \in Objects : objects'[o] # None =>
           objects'[o].key = k \/ (o # m.object /\ objects'[o] = objects[o])
  BY <1>1, <1>2, WriteRowsStep
<1>5. Holding' = Holding \ {h}
  BY <1>1, <1>3 DEF Holding
<1>6. \A g \in Holding' : candidate'[g] = candidate[g] /\ candidate[g] # k
  BY <1>1, <1>3, <1>5 DEF KeyInv, CandidatesOwned, Holding, k
<1>7. KeysUsed'
  <2>1. \A g \in Holding' : candidate'[g] \in used'
    BY <1>2, <1>5, <1>6 DEF KeyInv, KeysUsed
  <2>2. \A i \in OperationIds : operations'[i] # None => operations'[i].key \in used'
    BY <1>1, <1>2, <1>4 DEF KeyInv, KeysUsed
  <2>. QED  BY <2>1, <2>2, <1>2 DEF KeysUsed
<1>8. CandidatesOwned'
  <2>1. \A f, g \in Holding' : candidate'[f] = candidate'[g] => f = g
    BY <1>5, <1>6 DEF KeyInv, CandidatesOwned
  <2>2. ASSUME NEW g \in Handlers, pc'[g] \in {"commit", "discard"}
        PROVE  (~InOperations(candidate[g]) /\ ~InDoubtKey(candidate[g]))'
    <3>1. g # h /\ g \in Holding' /\ pc[g] = pc'[g]
      BY <2>2, <1>3 DEF Holding
    <3>. QED  BY <2>2, <3>1, <1>2, <1>4, <1>6 DEF KeyInv, CandidatesOwned, InDoubtKey
  <2>3. ASSUME NEW g \in Handlers, pc'[g] = "commit"
        PROVE  blobs'[candidate'[g]] = request'[g].mutation.ciphertext
    BY <2>3, <1>2, <1>3 DEF KeyInv, CandidatesOwned
  <2>4. ASSUME NEW g \in Handlers, pc'[g] = "reconcile"
        PROVE  (/\ \A i \in OperationIds :
                     operations[i] # None /\ operations[i].key = candidate[g]
                       => operations[i].mutation = request[g].mutation
                /\ InDoubtKey(candidate[g]) => indoubt.mutation = request[g].mutation)'
    <3>1. g # h /\ g \in Holding' /\ pc[g] = "reconcile"
      BY <2>4, <1>3 DEF Holding
    <3>. QED  BY <3>1, <1>2, <1>4, <1>6 DEF KeyInv, CandidatesOwned, InDoubtKey
  <2>. QED  BY <2>1, <2>2, <2>3, <2>4 DEF CandidatesOwned
<1>9. InDoubtApplicable'
  BY <1>2 DEF InDoubtApplicable
<1>10. RetiredReplaced'
  <2>. SUFFICES ASSUME NEW g \in Handlers, pc'[g] = "retire"
                PROVE  (/\ InOperations(previous[g])
                        /\ \A o \in Objects : objects[o] # None => objects[o].key # previous[g])'
    BY DEF RetiredReplaced
  <2>1. CASE g # h
    BY <2>1, <1>1, <1>3, <1>4 DEF KeyInv, RetiredReplaced
  <2>2. CASE g = h
    <3>1. InOperations(previous'[h]) /\ previous'[h] # k
      BY <2>2, <1>1, <1>3, RowKeyRecorded DEF KeyInv
    <3>2. ASSUME NEW o \in Objects, o # m.object, objects[o] # None
          PROVE  objects[o].key # objects[m.object].key
      BY <3>2, <2>2, <1>1, <1>3, RowKeyRecorded DEF KeyInv, RowsRecorded
    <3>. QED  BY <2>2, <3>1, <3>2, <1>3, <1>4
  <2>. QED  BY <2>1, <2>2
<1>. QED  BY <1>4, <1>7, <1>8, <1>9, <1>10 DEF KeyInv

(* So does a commit in doubt that turns out to have taken place.            *)
LEMMA ResolveCommittedStep ==
  ASSUME Typed, KeyInv, ResolveCommitted
  PROVE  KeyInv'
<1> DEFINE m == indoubt.mutation
           k == indoubt.key
<1>1. /\ m \in Mutations /\ k \in used /\ operations[m.op] = None
      /\ ~InOperations(k) /\ blobs[k] = m.ciphertext /\ InDoubtKey(k)
  BY DEF ResolveCommitted, Typed, TypeOK, InDoubt, KeyInv, KeysUsed, InDoubtApplicable, InDoubtKey
<1>2. /\ WriteRows(m, k)
      /\ UNCHANGED <<blobs, used, pc, request, candidate, previous>>
      /\ indoubt' = None
  BY DEF ResolveCommitted, locals
<1>3. /\ RowsRecorded'
      /\ NoDanglingMetadata'
      /\ \A i \in OperationIds :
           operations'[i] # None => operations'[i] = operations[i] \/ operations'[i].key = k
      /\ \A i \in OperationIds :
           operations'[i] # None /\ operations'[i].key = k => operations'[i].mutation = m
      /\ \A j : InOperations(j) => InOperations(j)'
      /\ \A j : InOperations(j)' => InOperations(j) \/ j = k
      /\ \A o \in Objects : objects'[o] # None =>
           objects'[o].key = k \/ (o # m.object /\ objects'[o] = objects[o])
  <2>. HIDE DEF m, k
  <2>. QED  BY <1>1, <1>2, WriteRowsStep
<1>4. KeysUsed'
  BY <1>1, <1>2, <1>3 DEF KeyInv, KeysUsed, Holding
<1>5. CandidatesOwned'
  <2>1. \A f, g \in Holding' : candidate'[f] = candidate'[g] => f = g
    BY <1>2 DEF KeyInv, CandidatesOwned, Holding
  <2>2. ASSUME NEW g \in Handlers, pc'[g] \in {"commit", "discard"}
        PROVE  (~InOperations(candidate[g]) /\ ~InDoubtKey(candidate[g]))'
    BY <2>2, <1>1, <1>2, <1>3 DEF KeyInv, CandidatesOwned, InDoubtKey
  <2>3. ASSUME NEW g \in Handlers, pc'[g] = "commit"
        PROVE  blobs'[candidate'[g]] = request'[g].mutation.ciphertext
    BY <2>3, <1>2 DEF KeyInv, CandidatesOwned
  <2>4. ASSUME NEW g \in Handlers, pc'[g] = "reconcile", NEW i \in OperationIds,
               operations'[i] # None, operations'[i].key = candidate'[g]
        PROVE  operations'[i].mutation = request'[g].mutation
    <3>1. CASE operations'[i] = operations[i]
      BY <3>1, <2>4, <1>2 DEF KeyInv, CandidatesOwned
    <3>2. CASE operations'[i].key = k
      BY <3>2, <2>4, <1>1, <1>2, <1>3 DEF KeyInv, CandidatesOwned, InDoubtKey
    <3>. QED  BY <2>4, <3>1, <3>2, <1>3
  <2>. QED  BY <2>1, <2>2, <2>3, <2>4, <1>2 DEF CandidatesOwned, InDoubtKey
<1>6. InDoubtApplicable'
  BY <1>2 DEF InDoubtApplicable
<1>7. RetiredReplaced'
  BY <1>1, <1>2, <1>3 DEF KeyInv, RetiredReplaced
<1>. QED  BY <1>3, <1>4, <1>5, <1>6, <1>7 DEF KeyInv

(* best_effort_delete: nobody but the handler itself knows the key.         *)
LEMMA DeleteStep ==
  ASSUME Typed, KeyInv, NEW h \in Handlers, NEW k, DeleteAndReply(h, k),
         ~InDoubtKey(k),
         \A g \in Handlers \ {h} : pc[g] = "commit" => candidate[g] # k,
         \A o \in Objects : objects[o] # None => objects[o].key # k
  PROVE  KeyInv'
<1>1. /\ UNCHANGED <<objects, operations, used, indoubt, request>>
      /\ \A j \in StorageKeys : j # k => blobs'[j] = blobs[j]
  BY DEF DeleteAndReply, Drop, stored, Typed, TypeOK
<1>2. /\ pc'[h] = "replied"
      /\ \A g \in Handlers \ {h} : /\ pc'[g] = pc[g] /\ candidate'[g] = candidate[g]
                                   /\ previous'[g] = previous[g]
  BY DEF DeleteAndReply, Goto, Drop, Typed, TypeOK
<1>3. Holding' \subseteq Holding /\ h \notin Holding'
  BY <1>2 DEF Holding
<1>4. RowsRecorded' /\ RetiredReplaced'
  BY <1>1, <1>2 DEF KeyInv, RowsRecorded, RetiredReplaced, InOperations
<1>5. KeysUsed'
  BY <1>1, <1>2, <1>3 DEF KeyInv, KeysUsed, Holding
<1>6. CandidatesOwned'
  <2>1. \A f, g \in Holding' : candidate'[f] = candidate'[g] => f = g
    BY <1>2, <1>3 DEF KeyInv, CandidatesOwned, Holding
  <2>2. ASSUME NEW g \in Handlers, pc'[g] = "commit"
        PROVE  blobs'[candidate'[g]] = request'[g].mutation.ciphertext
    <3>1. g # h /\ pc[g] = "commit" /\ candidate'[g] = candidate[g]
      BY <2>2, <1>2
    <3>2. candidate[g] \in StorageKeys
      BY <3>1 DEF Typed, TypeOK, LocalsSet
    <3>. QED  BY <3>1, <3>2, <1>1 DEF KeyInv, CandidatesOwned
  <2>. QED  BY <2>1, <2>2, <1>1, <1>2 DEF KeyInv, CandidatesOwned, InOperations, InDoubtKey
<1>7. InDoubtApplicable'
  <2>1. indoubt # None => indoubt.key \in StorageKeys
    BY DEF Typed, TypeOK, InDoubt
  <2>. QED  BY <2>1, <1>1 DEF KeyInv, InDoubtApplicable, InDoubtKey, InOperations, WritePolicy,
                              PreconditionHolds, RevisionAdvances, VersionOf
<1>8. NoDanglingMetadata'
  BY <1>1, RowKeyRecorded DEF KeyInv, NoDanglingMetadata
<1>. QED  BY <1>4, <1>5, <1>6, <1>7, <1>8 DEF KeyInv

(* Every action keeps the account of the keys.                              *)
LEMMA KeyStep == Typed /\ KeyInv /\ [Next]_vars => KeyInv'
<1>. SUFFICES ASSUME Typed, KeyInv, [Next]_vars PROVE KeyInv'
  OBVIOUS
<1>1. ASSUME NEW h \in Handlers, NEW d \in Devices, NEW m \in Mutations, Receive(h, d, m)
      PROVE  KeyInv'
  BY <1>1, QuietStep DEF Receive, Goto, Quiet, Held, Typed, TypeOK
<1>2. ASSUME NEW h \in Handlers, Authorize(h) \/ Lookup(h) \/ Precheck(h) PROVE KeyInv'
  <2>1. \A g \in Handlers : Quiet(g)
    BY <1>2 DEF Authorize, Lookup, Precheck, Answer, Goto, Drop, locals, Quiet, Held, Typed, TypeOK
  <2>. QED  BY <1>2, <2>1, QuietStep DEF Authorize, Lookup, Precheck
<1>3. ASSUME NEW h \in Handlers, Upload(h) PROVE KeyInv'
  BY <1>3, UploadStep
<1>4. ASSUME NEW h \in Handlers, UploadFails(h) PROVE KeyInv'
  <2>1. \A g \in Handlers : Quiet(g)
    BY <1>4 DEF UploadFails, Answer, Goto, Drop, Quiet, Held, Typed, TypeOK
  <2>2. used \subseteq used' /\ \A k \in used : blobs'[k] = blobs[k]
    BY <1>4 DEF UploadFails, Typed, TypeOK
  <2>. QED  BY <1>4, <2>1, <2>2, QuietStep DEF UploadFails
<1>5. ASSUME NEW h \in Handlers, Commit(h) PROVE KeyInv'
  BY <1>5, CommitStep
<1>6. ASSUME NEW h \in Handlers, CommitOutcomeUnknown(h) PROVE KeyInv'
  BY <1>6, OutcomeUnknownStep
<1>7. ASSUME NEW h \in Handlers, CommitRefused(h) \/ CommitFails(h) PROVE KeyInv'
  <2>1. pc[h] = "commit" /\ \E a : Prepare(h, a)
    BY <1>7 DEF CommitRefused, CommitFails
  <2>2. \A g \in Handlers : Quiet(g)
    BY <2>1 DEF Prepare, Goto, Quiet, Held, Typed, TypeOK, KeyInv, CandidatesOwned
  <2>. QED  BY <1>7, <2>2, QuietStep DEF CommitRefused, CommitFails
<1>8. ASSUME NEW h \in Handlers, Reconcile(h) PROVE KeyInv'
  <2> DEFINE m == request[h].mutation
  <2>1. CASE \E a : Answer(h, a)
    <3>1. \A g \in Handlers : Quiet(g)
      BY <2>1 DEF Answer, Goto, Drop, Quiet, Held, Typed, TypeOK
    <3>. QED  BY <1>8, <3>1, QuietStep DEF Reconcile
  <2>2. CASE /\ RecordedAs(m) /\ operations[m.op].key # candidate[h]
             /\ \E a : Prepare(h, a)
    <3>1. pc[h] = "reconcile"
      BY <1>8 DEF Reconcile
    <3>2. ~InOperations(candidate[h])
      BY <3>1, <2>2 DEF KeyInv, CandidatesOwned, RowsRecorded, InOperations, RecordedAs
    <3>3. ~InDoubtKey(candidate[h])
      BY <3>1, <2>2 DEF KeyInv, CandidatesOwned, InDoubtApplicable, InDoubtKey, RecordedAs
    <3>4. \A g \in Handlers : Quiet(g)
      BY <2>2, <3>1, <3>2, <3>3 DEF Prepare, Goto, Quiet, Held, Typed, TypeOK
    <3>. QED  BY <1>8, <3>4, QuietStep DEF Reconcile
  <2>. QED  BY <1>8, <2>1, <2>2 DEF Reconcile, ReconcileRecorded
<1>9. ASSUME NEW h \in Handlers, Discard(h) PROVE KeyInv'
  <2>1. pc[h] = "discard" /\ DeleteAndReply(h, candidate[h])
    BY <1>9 DEF Discard
  <2>2. ~InOperations(candidate[h]) /\ ~InDoubtKey(candidate[h])
    BY <2>1 DEF KeyInv, CandidatesOwned
  <2>3. \A g \in Handlers \ {h} : pc[g] = "commit" => candidate[g] # candidate[h]
    BY <2>1 DEF KeyInv, CandidatesOwned, Holding
  <2>4. \A o \in Objects : objects[o] # None => objects[o].key # candidate[h]
    BY <2>2, RowKeyRecorded DEF KeyInv
  <2>. QED  BY <2>1, <2>2, <2>3, <2>4, DeleteStep
<1>10. ASSUME NEW h \in Handlers, Retire(h) PROVE KeyInv'
  <2>1. pc[h] = "retire" /\ DeleteAndReply(h, previous[h])
    BY <1>10 DEF Retire
  <2>2. /\ InOperations(previous[h])
        /\ \A o \in Objects : objects[o] # None => objects[o].key # previous[h]
    BY <2>1 DEF KeyInv, RetiredReplaced
  <2>3. ~InDoubtKey(previous[h])
    BY <2>2 DEF KeyInv, InDoubtApplicable, InDoubtKey
  <2>4. \A g \in Handlers \ {h} : pc[g] = "commit" => candidate[g] # previous[h]
    BY <2>2 DEF KeyInv, CandidatesOwned
  <2>. QED  BY <2>1, <2>2, <2>3, <2>4, DeleteStep
<1>11. ASSUME NEW h \in Handlers, Crash(h) PROVE KeyInv'
  <2>1. \A g \in Handlers : Quiet(g)
    BY <1>11 DEF Crash, Goto, Drop, Quiet, Held, Typed, TypeOK
  <2>. QED  BY <1>11, <2>1, QuietStep DEF Crash
<1>12. CASE Resolve
  <2>1. CASE ResolveCommitted
    BY <2>1, ResolveCommittedStep
  <2>2. CASE ResolveAborted
    BY <2>2, QuietStep DEF ResolveAborted, locals, Quiet
  <2>. QED  BY <1>12, <2>1, <2>2 DEF Resolve
<1>13. ASSUME NEW d \in Devices, Revoke(d) PROVE KeyInv'
  BY <1>13, QuietStep DEF Revoke, locals, Quiet
<1>14. ASSUME NEW t \in Topologies, PutTopology(t) PROVE KeyInv'
  BY <1>14, QuietStep DEF PutTopology, locals, Quiet
<1>15. ASSUME NEW r \in Readers, ListObjects(r) PROVE KeyInv'
  BY <1>15, QuietStep DEF ListObjects, locals, Quiet
<1>16. CASE UNCHANGED vars
  BY <1>16, QuietStep DEF vars, stored, Quiet
<1>. QED
  BY <1>1, <1>2, <1>3, <1>4, <1>5, <1>6, <1>7, <1>8, <1>9, <1>10, <1>11, <1>12, <1>13,
     <1>14, <1>15, <1>16
     DEF Next, HandlerStep

(* StoreInv is inductive, so it holds in every reachable state.             *)
THEOREM StoreInvariant == Spec => []StoreInv
<1>1. Init => StoreInv
  BY InitTyped, KeyInvInit, StoreInvParts
<1>2. StoreInv /\ [Next]_vars => StoreInv'
  BY TypedStep, KeyStep, StoreInvParts DEF StoreInv, Typed, KeyInv
<1>. QED  BY <1>1, <1>2, PTL DEF Spec

(* Every object row points at a blob holding exactly its ciphertext: neither *)
(* best_effort_delete of a candidate or of a replaced body, nor any order of *)
(* racing, crashed or in-doubt commits, loses a body a row refers to.       *)
THEOREM NoDangling == Spec => []NoDanglingMetadata
<1>1. StoreInv => NoDanglingMetadata
  BY DEF StoreInv
<1>. QED  BY <1>1, StoreInvariant, PTL

-----------------------------------------------------------------------------
(* What a write does to the object rows and the operation log.              *)

(* The rows change only by the row writes of a commit or of a resolved       *)
(* commit, and then every check of the transaction holds.                   *)
Writes(m, k) ==
  /\ WriteRows(m, k)
  /\ operations[m.op] = None
  /\ WritePolicy(m, objects[m.object])

(* The tables change only by one write, with its row, its log entry and     *)
(* its place in the change feed.                                            *)
LEMMA OnlyWrites ==
  ASSUME StoreInv, [Next]_vars, ~UNCHANGED stored
  PROVE  \E m \in Mutations, k \in StorageKeys : Writes(m, k)
<1>1. ASSUME NEW h \in Handlers, Commit(h)
      PROVE  \E m \in Mutations, k \in StorageKeys : Writes(m, k)
  <2>1. request[h].mutation \in Mutations /\ candidate[h] \in StorageKeys
    BY <1>1, RequestFields DEF Commit, Committable, StoreInv, TypeOK, LocalsSet, InFlight
  <2>. QED  BY <1>1, <2>1 DEF Commit, Committable, Writes
<1>2. ASSUME ResolveCommitted
      PROVE  \E m \in Mutations, k \in StorageKeys : Writes(m, k)
  <2>1. indoubt.mutation \in Mutations /\ indoubt.key \in StorageKeys
    BY <1>2 DEF ResolveCommitted, StoreInv, TypeOK, InDoubt
  <2>. QED  BY <1>2, <2>1 DEF ResolveCommitted, Writes, StoreInv, InDoubtApplicable
<1>3. ASSUME NEW h \in Handlers, HandlerStep(h) \/ Crash(h), ~Commit(h) PROVE UNCHANGED stored
  BY <1>3 DEF HandlerStep, Crash, Authorize, Lookup, Precheck, Upload, UploadFails,
              CommitOutcomeUnknown, CommitRefused, CommitFails, Reconcile, Discard, Retire,
              DeleteAndReply
<1>. QED
  BY <1>1, <1>2, <1>3 DEF Next, Receive, Resolve, ResolveAborted, Revoke, PutTopology, ListObjects,
                          vars, stored

(* A write replaces one object row by a newer revision, or creates it.      *)
THEOREM RevisionsOnlyAdvance == Spec => RevisionsAdvance
<1> DEFINE Advance == \A o \in Objects : objects[o] # None /\ objects'[o] # objects[o] =>
                        /\ objects'[o] # None
                        /\ objects'[o].mutation.revision > objects[o].mutation.revision
<1>1. ASSUME StoreInv, StoreInv', [Next]_vars PROVE Advance
  <2>1. CASE UNCHANGED stored
    BY <2>1 DEF stored
  <2>2. CASE ~UNCHANGED stored
    <3>. PICK m \in Mutations, k \in StorageKeys : Writes(m, k)
      BY <1>1, <2>2, OnlyWrites
    <3>1. objects' = [objects EXCEPT ![m.object] =
                        [mutation |-> m, seq |-> cursor + 1, key |-> k]]
      BY DEF Writes, WriteRows
    <3>2. /\ objects'[m.object].mutation = m
          /\ \A o \in Objects \ {m.object} : objects'[o] = objects[o]
      BY <1>1, <3>1, MutationFields DEF StoreInv, TypeOK
    <3>3. cursor + 1 \in Nat
      BY <1>1 DEF StoreInv, TypeOK
    <3>4. objects'[m.object] # None
      BY <1>1, <3>1, <3>3, MutationFields DEF StoreInv, TypeOK, Row
    <3>5. objects[m.object] # None => m.revision > objects[m.object].mutation.revision
      BY DEF Writes, WritePolicy, RevisionAdvances
    <3>. QED  BY <3>2, <3>4, <3>5
  <2>. QED  BY <2>1, <2>2
<1>2. StoreInv /\ StoreInv' /\ [Next]_vars => [Advance]_vars
  BY <1>1
<1>. QED  BY <1>2, StoreInvariant, PTL DEF Spec, RevisionsAdvance

(* The topology that allowed a commit is locked until the commit is resolved. *)
SomeDeviceMayWrite == \E d \in Devices : ScopeAuthorized(d, "household", "write")

InDoubtAuthorized ==
  indoubt # None /\ indoubt.mutation.scope = "household" => SomeDeviceMayWrite

(* A commit in doubt stays one of a mutation that was authorised.           *)
LEMMA AuthorizedStep == StoreInv /\ InDoubtAuthorized /\ [Next]_vars => InDoubtAuthorized'
<1>. SUFFICES ASSUME StoreInv, InDoubtAuthorized, [Next]_vars PROVE InDoubtAuthorized'
  OBVIOUS
<1>1. ASSUME NEW h \in Handlers, CommitOutcomeUnknown(h) PROVE InDoubtAuthorized'
  <2>1. indoubt'.mutation = request[h].mutation /\ UNCHANGED topology
    BY <1>1 DEF CommitOutcomeUnknown
  <2>2. request[h].device \in Devices
    BY <1>1, RequestFields DEF CommitOutcomeUnknown, Committable, StoreInv, LocalsSet, InFlight
  <2>3. request[h].mutation.scope = "household" =>
          ScopeAuthorized(request[h].device, "household", "write")
    BY <1>1 DEF CommitOutcomeUnknown, Committable
  <2>. QED  BY <2>1, <2>2, <2>3 DEF InDoubtAuthorized, SomeDeviceMayWrite, ScopeAuthorized
<1>2. CASE UNCHANGED topology /\ indoubt' \in {indoubt, None}
  BY <1>2 DEF InDoubtAuthorized, SomeDeviceMayWrite, ScopeAuthorized
<1>3. ASSUME NEW t \in Topologies, PutTopology(t) PROVE InDoubtAuthorized'
  BY <1>3 DEF PutTopology, TopologyLocksFree, AccountLockFree, InDoubtAuthorized
<1>4. ASSUME NEW h \in Handlers, HandlerStep(h) \/ Crash(h), ~CommitOutcomeUnknown(h)
      PROVE  UNCHANGED topology /\ indoubt' \in {indoubt, None}
  BY <1>4 DEF HandlerStep, Crash, Authorize, Lookup, Precheck, Upload, UploadFails,
              Commit, CommitRefused, CommitFails, Reconcile, Discard, Retire, DeleteAndReply
<1>. QED
  BY <1>1, <1>2, <1>3, <1>4 DEF Next, Receive, Resolve, ResolveCommitted, ResolveAborted, Revoke,
                                ListObjects, vars

(* However long a handler was delayed between its checks and its commit, a   *)
(* household-scoped row is written only under a topology that allows it.    *)
THEOREM HouseholdWrites == Spec => HouseholdWritesAuthorized
<1> DEFINE Allowed == \A o \in Objects :
                        objects'[o] # objects[o] /\ objects'[o].mutation.scope = "household"
                          => SomeDeviceMayWrite
<1>1. ASSUME StoreInv, InDoubtAuthorized, [Next]_vars PROVE Allowed
  <2>1. ASSUME NEW h \in Handlers, Commit(h) PROVE Allowed
    <3>1. /\ objects' = [objects EXCEPT ![request[h].mutation.object] =
                 [mutation |-> request[h].mutation, seq |-> cursor + 1, key |-> candidate[h]]]
          /\ request[h].mutation.scope = "household" =>
                ScopeAuthorized(request[h].device, "household", "write")
      BY <2>1 DEF Commit, Committable, WriteRows
    <3>2. request[h].device \in Devices
      BY <1>1, <2>1, RequestFields DEF Commit, Committable, StoreInv, LocalsSet, InFlight
    <3>. QED  BY <1>1, <3>1, <3>2 DEF StoreInv, TypeOK, SomeDeviceMayWrite
  <2>2. CASE ResolveCommitted
    <3>1. /\ objects' = [objects EXCEPT ![indoubt.mutation.object] =
                 [mutation |-> indoubt.mutation, seq |-> cursor + 1, key |-> indoubt.key]]
          /\ indoubt # None
      BY <2>2 DEF ResolveCommitted, WriteRows
    <3>. QED  BY <1>1, <3>1 DEF StoreInv, TypeOK, InDoubtAuthorized
  <2>3. CASE UNCHANGED objects
    BY <2>3
  <2>4. ASSUME NEW h \in Handlers, HandlerStep(h) \/ Crash(h), ~Commit(h) PROVE UNCHANGED objects
    BY <2>4 DEF HandlerStep, Crash, Authorize, Lookup, Precheck, Upload, UploadFails,
                CommitOutcomeUnknown, CommitRefused, CommitFails, Reconcile, Discard, Retire,
                DeleteAndReply, stored
  <2>. QED
    BY <1>1, <2>1, <2>2, <2>3, <2>4 DEF Next, Receive, Resolve, ResolveAborted, Revoke, PutTopology,
                                        ListObjects, vars, stored
<1>2. Init => InDoubtAuthorized
  BY DEF Init, InDoubtAuthorized
<1>3. Spec => []InDoubtAuthorized
  BY <1>2, AuthorizedStep, StoreInvariant, PTL DEF Spec
<1>4. StoreInv /\ InDoubtAuthorized /\ [Next]_vars => [Allowed]_vars
  BY <1>1
<1>5. HouseholdWritesAuthorized <=> [][Allowed]_vars
  BY PTL DEF HouseholdWritesAuthorized, SomeDeviceMayWrite
<1>. QED  BY <1>3, <1>4, <1>5, StoreInvariant, PTL DEF Spec

-----------------------------------------------------------------------------
(* No lost update.  That every write was made against its predecessor needs  *)
(* to know that the object row is the newest write of the log: StoreIsLog.  *)

LogInv == StoreIsLog /\ NoLostUpdate

(* One write extends the log: its predecessor is the version its            *)
(* precondition names, which was the current one.                           *)
LEMMA LogWrite ==
  ASSUME StoreInv, LogInv, NEW m \in Mutations, NEW k \in StorageKeys, Writes(m, k)
  PROVE  LogInv'
<1> DEFINE new == cursor + 1
           before == objects[m.object]
<1>1. /\ m.op \in OperationIds /\ m.object \in Objects
      /\ cursor \in Nat /\ new \in Nat /\ cursor' = new
      /\ operations[m.op] = None
  BY MutationFields DEF StoreInv, TypeOK, Writes, WriteRows
<1>2. /\ operations'[m.op] # None
      /\ operations'[m.op].mutation = m /\ operations'[m.op].seq = new
      /\ operations'[m.op].key = k
      /\ \A i \in OperationIds \ {m.op} : operations'[i] = operations[i]
  <2>1. operations' = [operations EXCEPT ![m.op] =
          [mutation |-> m, seq |-> new, key |-> k, created |-> before = None]]
    BY DEF Writes, WriteRows
  <2>2. [mutation |-> m, seq |-> new, key |-> k, created |-> before = None] \in OperationRow
    BY <1>1 DEF OperationRow
  <2>. QED  BY <1>1, <2>1, <2>2 DEF StoreInv, TypeOK
<1>3. /\ objects'[m.object] # None
      /\ objects'[m.object].mutation = m /\ objects'[m.object].seq = new
      /\ objects'[m.object].key = k
      /\ \A o \in Objects \ {m.object} : objects'[o] = objects[o]
  <2>1. objects' = [objects EXCEPT ![m.object] = [mutation |-> m, seq |-> new, key |-> k]]
    BY DEF Writes, WriteRows
  <2>2. [mutation |-> m, seq |-> new, key |-> k] \in Row
    BY <1>1 DEF Row
  <2>. QED  BY <1>1, <2>1, <2>2 DEF StoreInv, TypeOK
<1>4. \A i \in OperationIds : operations[i] # None =>
        /\ operations[i].seq \in Nat /\ operations[i].seq <= cursor /\ operations[i].seq >= 1
        /\ operations[i].mutation.object \in Objects
        /\ objects[operations[i].mutation.object] # None
        /\ objects[operations[i].mutation.object].seq >= operations[i].seq
        /\ \A j \in OperationIds \ {i} :
             operations[j] # None => operations[j].seq # operations[i].seq
  <2>1. \A i \in OperationIds : operations[i] # None =>
          operations[i].seq \in Nat /\ operations[i].mutation \in Mutations
    BY DEF StoreInv, TypeOK, OperationRow
  <2>. QED  BY <1>1, <2>1, MutationFields DEF LogInv, StoreIsLog
<1>5. \A o \in Objects : objects[o] # None =>
        /\ objects[o].seq \in Nat
        /\ objects[o].mutation \in Mutations
        /\ objects[o].mutation.op \in OperationIds
        /\ objects[o].mutation.object = o
        /\ operations[objects[o].mutation.op] # None
        /\ operations[objects[o].mutation.op].mutation = objects[o].mutation
        /\ operations[objects[o].mutation.op].seq = objects[o].seq
        /\ operations[objects[o].mutation.op].key = objects[o].key
  <2>1. \A o \in Objects : objects[o] # None =>
          objects[o].seq \in Nat /\ objects[o].mutation \in Mutations
    BY DEF StoreInv, TypeOK, Row
  <2>. QED  BY <2>1, MutationFields DEF LogInv, StoreIsLog
<1>6. Writes(m, k)
  OBVIOUS
<1>. HIDE DEF new
<1>7. new = cursor + 1
  BY DEF new
<1>8. ASSUME NEW i \in OperationIds, operations'[i] # None
      PROVE  /\ operations'[i].seq \in 1..cursor'
             /\ objects'[operations'[i].mutation.object] # None
             /\ objects'[operations'[i].mutation.object].seq >= operations'[i].seq
             /\ \A j \in OperationIds \ {i} :
                  operations'[j] # None => operations'[j].seq # operations'[i].seq
  <2>1. CASE i = m.op
    BY <2>1, <1>1, <1>2, <1>3, <1>4, <1>7
  <2>2. CASE i # m.op
    <3>1. operations'[i] = operations[i] /\ operations[i] # None
      BY <2>2, <1>8, <1>2
    <3>2. objects'[operations[i].mutation.object] # None
      BY <3>1, <1>3, <1>4
    <3>3. objects'[operations[i].mutation.object].seq >= operations[i].seq
      BY <3>1, <1>1, <1>3, <1>4, <1>7
    <3>. QED  BY <3>1, <3>2, <3>3, <1>1, <1>2, <1>4, <1>7
  <2>. QED  BY <2>1, <2>2
<1>9. ASSUME NEW o \in Objects, objects'[o] # None
      PROVE  LET i == objects'[o].mutation.op IN
             /\ operations'[i] # None
             /\ operations'[i].mutation = objects'[o].mutation
             /\ operations'[i].seq = objects'[o].seq
             /\ operations'[i].key = objects'[o].key
             /\ objects'[o].mutation.object = o
  <2>1. CASE o = m.object
    BY <2>1, <1>2, <1>3
  <2>2. CASE o # m.object
    <3>1. objects'[o] = objects[o] /\ objects[o] # None
      BY <2>2, <1>9, <1>3
    <3>2. objects[o].mutation.op \in OperationIds \ {m.op}
      BY <3>1, <1>1, <1>5
    <3>. QED  BY <3>1, <3>2, <1>2, <1>5
  <2>. QED  BY <2>1, <2>2
<1>10. StoreIsLog'
  BY <1>8, <1>9 DEF StoreIsLog
<1>11. ASSUME NEW i \in OperationIds, operations'[i] # None, i # m.op
       PROVE  LET pre == operations'[i].mutation.pre
              IN IF pre = None THEN Earlier(i)' = {}
                 ELSE \E j \in OperationIds :
                        Predecessor(i, j)' /\ VersionOf(operations'[j]) = pre
  <2>1. operations'[i] = operations[i] /\ operations[i] # None
    BY <1>11, <1>2
  <2>2. Earlier(i)' = Earlier(i)
    BY <2>1, <1>1, <1>2, <1>4, <1>7 DEF Earlier
  <2>3. \A n \in Earlier(i) : n \in OperationIds /\ operations'[n] = operations[n]
    BY <1>1, <1>2 DEF Earlier
  <2>4. \A j : Predecessor(i, j) => Predecessor(i, j)' /\ operations'[j] = operations[j]
    BY <2>2, <2>3 DEF Predecessor
  <2>. QED  BY <2>1, <2>2, <2>4 DEF LogInv, NoLostUpdate
<1>12. \A j \in Earlier(m.op)' :
         /\ j \in OperationIds /\ j # m.op /\ operations[j] # None
         /\ operations'[j] = operations[j] /\ operations[j].mutation.object = m.object
  BY <1>1, <1>2, <1>7 DEF Earlier
<1>13. CASE m.pre = None
  <2>1. before = None
    <3>1. ASSUME before # None PROVE VersionOf(before) \in Version
      BY <3>1, <1>1, <1>5, MutationFields DEF VersionOf, Version
    <3>. QED  BY <3>1, <1>13, <1>6 DEF Writes, WritePolicy, PreconditionHolds
  <2>2. Earlier(m.op)' = {}
    BY <2>1, <1>4, <1>12
  <2>. QED  BY <1>2, <1>10, <1>11, <1>13, <2>2 DEF LogInv, NoLostUpdate
<1>14. CASE m.pre # None
  <2>1. before # None /\ m.pre = VersionOf(before)
    BY <1>14, <1>6 DEF Writes, WritePolicy, PreconditionHolds
  <2>. PICK j \in OperationIds : j = before.mutation.op
    BY <2>1, <1>1, <1>5
  <2>2. /\ j # m.op /\ operations'[j] = operations[j]
        /\ operations[j] # None /\ operations[j].mutation = before.mutation
        /\ operations[j].seq = before.seq /\ operations[j].mutation.object = m.object
    BY <2>1, <1>1, <1>2, <1>5
  <2>3. j \in Earlier(m.op)'
    BY <2>2, <1>1, <1>2, <1>4, <1>7 DEF Earlier
  <2>4. ASSUME NEW n \in Earlier(m.op)' PROVE operations'[n].seq <= operations'[j].seq
    <3>1. /\ n \in OperationIds /\ operations[n] # None
          /\ operations'[n] = operations[n] /\ operations[n].mutation.object = m.object
      BY <1>12
    <3>2. before.seq >= operations[n].seq
      BY <3>1, <1>4
    <3>3. operations'[n].seq = operations[n].seq /\ operations'[j].seq = before.seq
      BY <3>1, <2>2
    <3>4. before.seq \in Nat /\ operations[n].seq \in 1..cursor /\ cursor \in Nat
      BY <3>1, <2>1, <1>1, <1>4, <1>5
    <3>. QED  BY <3>2, <3>3, <3>4
  <2>5. Predecessor(m.op, j)' /\ VersionOf(operations'[j]) = m.pre
    BY <2>1, <2>2, <2>3, <2>4 DEF Predecessor, VersionOf
  <2>. QED  BY <1>2, <1>10, <1>11, <1>14, <2>2, <2>5 DEF LogInv, NoLostUpdate
<1>. QED  BY <1>13, <1>14

(* The strengthening of StoreIsLog holds throughout: the rows are what      *)
(* replaying the operation log in feed order gives (vault-sync-server,      *)
(* put_object).                                                             *)
THEOREM LogInvariant == Spec => []LogInv
<1>1. Init => LogInv
  BY DEF Init, LogInv, StoreIsLog, NoLostUpdate
<1>2. ASSUME StoreInv, LogInv, [Next]_vars PROVE LogInv'
  <2>1. CASE UNCHANGED stored
    BY <1>2, <2>1 DEF stored, LogInv, StoreIsLog, NoLostUpdate, Earlier, Predecessor, VersionOf
  <2>2. CASE ~UNCHANGED stored
    BY <1>2, <2>2, OnlyWrites, LogWrite
  <2>. QED  BY <2>1, <2>2
<1>. QED  BY <1>1, <1>2, StoreInvariant, PTL DEF Spec

(* In commit order every write of an object was made against the version its *)
(* predecessor left: no order of racing handlers, lost acknowledgements and  *)
(* crashes loses an update.                                                  *)
THEOREM NoUpdateIsLost == Spec => []NoLostUpdate
<1>1. LogInv => NoLostUpdate
  BY DEF LogInv
<1>. QED  BY <1>1, LogInvariant, PTL

(* The rows are the newest entries of the operation log and its change       *)
(* numbers are distinct and bounded by the cursor.                          *)
THEOREM TheStoreIsLog == Spec => []StoreIsLog
<1>1. LogInv => StoreIsLog
  BY DEF LogInv
<1>. QED  BY <1>1, LogInvariant, PTL

-----------------------------------------------------------------------------
(* The change feed.  A reader's cursor runs behind the account's, and what   *)
(* is written later gets a number beyond it.                                *)

FeedInv == FeedComplete /\ \A r \in Readers : feed[r].cursor <= cursor

(* A page shows every row between the old cursor and the new one.           *)
LEMMA PageStep ==
  ASSUME StoreInv, StoreIsLog, FeedInv, NEW r \in Readers, ListObjects(r)
  PROVE  FeedInv'
<1> DEFINE after == feed[r].cursor
<1>1. PICK last \in {objects[o].seq : o \in {p \in Objects : objects[p] # None}} :
        /\ last > after
        /\ feed' = [feed EXCEPT ![r] =
             [cursor |-> last,
              seen |-> [o \in Objects |->
                IF /\ o \in FeedPage(after, last)
                   /\ ScopeAuthorized(r, objects[o].mutation.scope, "read")
                THEN objects[o].seq
                ELSE feed[r].seen[o]]]]
  BY DEF ListObjects
<1>2. UNCHANGED <<objects, operations, cursor>>
  BY DEF ListObjects, stored
<1>3. \A o \in Objects : objects[o] # None => objects[o].seq \in Nat /\ objects[o].seq <= cursor
  <2>. TAKE o \in Objects
  <2>1. objects[o] # None => objects[o].seq \in Nat /\ objects[o].mutation.op \in OperationIds
    BY MutationFields DEF StoreInv, TypeOK, Row
  <2>. QED  BY <2>1 DEF StoreIsLog, StoreInv, TypeOK
<1>4. last <= cursor /\ last \in Nat /\ after \in Nat
  BY <1>3 DEF StoreInv, TypeOK
<1>5. /\ feed'[r].cursor = last
      /\ \A o \in Objects : feed'[r].seen[o] =
           IF /\ o \in FeedPage(after, last)
              /\ ScopeAuthorized(r, objects[o].mutation.scope, "read")
           THEN objects[o].seq ELSE feed[r].seen[o]
      /\ \A q \in Readers \ {r} : feed'[q] = feed[q]
  BY <1>1 DEF StoreInv, TypeOK
<1>6. ASSUME NEW o \in Objects, objects[o] # None, objects[o].mutation.scope = "account",
             objects[o].seq <= last
      PROVE  feed'[r].seen[o] = objects[o].seq
  <2>1. CASE objects[o].seq <= after
    <3>1. feed[r].seen[o] = objects[o].seq
      BY <1>6, <2>1 DEF FeedInv, FeedComplete
    <3>. QED  BY <3>1, <1>5
  <2>2. CASE objects[o].seq > after
    BY <1>5, <1>6, <2>2 DEF FeedPage, ScopeAuthorized
  <2>. QED  BY <2>1, <2>2, <1>3, <1>4, <1>6
<1>. QED  BY <1>2, <1>4, <1>5, <1>6 DEF FeedInv, FeedComplete

(* A step that leaves the readers where they are keeps the feed complete.   *)
LEMMA FeedStep ==
  ASSUME StoreInv, StoreIsLog, FeedInv, [Next]_vars PROVE FeedInv'
<1>1. ASSUME NEW r \in Readers, ListObjects(r) PROVE FeedInv'
  BY <1>1, PageStep
<1>2. CASE UNCHANGED feed /\ UNCHANGED stored
  BY <1>2 DEF FeedInv, FeedComplete, stored
<1>3. CASE UNCHANGED feed /\ ~UNCHANGED stored
  <2>. PICK m \in Mutations, k \in StorageKeys : Writes(m, k)
    BY <1>3, OnlyWrites
  <2>1. /\ objects' = [objects EXCEPT ![m.object] =
                        [mutation |-> m, seq |-> cursor + 1, key |-> k]]
        /\ cursor' = cursor + 1
    BY DEF Writes, WriteRows
  <2>2. /\ objects'[m.object].seq = cursor + 1
        /\ \A o \in Objects \ {m.object} : objects'[o] = objects[o]
        /\ cursor \in Nat /\ \A r \in Readers : feed[r].cursor \in Nat
    BY <2>1, MutationFields DEF StoreInv, TypeOK
  <2>. QED  BY <1>3, <2>1, <2>2 DEF FeedInv, FeedComplete
<1>4. ASSUME NEW h \in Handlers, HandlerStep(h) \/ Crash(h) PROVE UNCHANGED feed
  BY <1>4 DEF HandlerStep, Crash, Authorize, Lookup, Precheck, Upload, UploadFails, Commit,
              CommitOutcomeUnknown, CommitRefused, CommitFails, Reconcile, Discard, Retire,
              DeleteAndReply
<1>. QED
  BY <1>1, <1>2, <1>3, <1>4 DEF Next, Receive, Resolve, ResolveCommitted, ResolveAborted, Revoke,
                                PutTopology, vars

(* A reader whose cursor passed the newest change of an account's object     *)
(* was shown it, however late the writes around it were resolved and however *)
(* small its pages are.                                                      *)
THEOREM FeedIsComplete == Spec => []FeedComplete
<1>1. Init => FeedInv
  BY DEF Init, FeedInv, FeedComplete
<1>2. StoreInv /\ StoreIsLog /\ FeedInv /\ [Next]_vars => FeedInv'
  BY FeedStep
<1>3. FeedInv => FeedComplete
  BY DEF FeedInv
<1>. QED  BY <1>1, <1>2, <1>3, StoreInvariant, TheStoreIsLog, PTL DEF Spec

-----------------------------------------------------------------------------
(* Retries.  A request whose operation had committed when it arrived never   *)
(* gets as far as the policy check: its record stays, and the lookup finds   *)
(* it.                                                                       *)

Spoken == {"ok", "forbidden", "unavailable"}

RetryInv ==
  \A h \in Handlers : replayDue[h] =>
    \/ pc[h] \in {"authorize", "lookup"} /\ reply[h] = None /\ RecordedAs(request[h].mutation)
    \/ pc[h] \in {"idle", "replied"} /\ (reply[h] # None => reply[h].status \in Spoken)

(* A recorded operation stays recorded as it is.                            *)
LEMMA RecordsStay ==
  ASSUME StoreInv, [Next]_vars, NEW m \in Mutations, RecordedAs(m)
  PROVE  RecordedAs(m)'
<1>1. CASE UNCHANGED stored
  BY <1>1 DEF RecordedAs, stored
<1>2. CASE ~UNCHANGED stored
  <2>. PICK n \in Mutations, k \in StorageKeys : Writes(n, k)
    BY <1>2, OnlyWrites
  <2>1. \A i \in OperationIds : operations[i] # None => operations'[i] = operations[i]
    BY MutationFields DEF Writes, WriteRows, StoreInv, TypeOK
  <2>. QED  BY <2>1, MutationFields DEF RecordedAs
<1>. QED  BY <1>1, <1>2

(* Another handler's step, or one of the surroundings, changes nothing that *)
(* a retry in progress depends on.                                          *)
LEMMA RetryStep ==
  ASSUME StoreInv, RetryInv, [Next]_vars PROVE RetryInv'
<1> DEFINE Due(h) ==
      replayDue[h] =>
        \/ pc[h] \in {"authorize", "lookup"} /\ reply[h] = None /\ RecordedAs(request[h].mutation)
        \/ pc[h] \in {"idle", "replied"} /\ (reply[h] # None => reply[h].status \in Spoken)
<1>1. ASSUME NEW h \in Handlers, pc'[h] = pc[h], reply'[h] = reply[h],
             request'[h] = request[h], replayDue'[h] = replayDue[h]
      PROVE  Due(h)'
  <2>1. CASE pc[h] \in {"authorize", "lookup"} /\ replayDue[h]
    <3>1. request[h].mutation \in Mutations /\ RecordedAs(request[h].mutation)
      BY <2>1, RequestFields DEF RetryInv, StoreInv, LocalsSet, InFlight
    <3>2. PICK m \in Mutations : m = request[h].mutation
      BY <3>1
    <3>3. RecordedAs(m)'
      BY <3>1, <3>2, RecordsStay
    <3>4. RecordedAs(request[h].mutation)'
      BY <1>1, <3>2, <3>3 DEF RecordedAs
    <3>. QED  BY <1>1, <2>1, <3>4 DEF RetryInv
  <2>2. CASE ~(pc[h] \in {"authorize", "lookup"} /\ replayDue[h])
    BY <1>1, <2>2 DEF RetryInv
  <2>. QED  BY <2>1, <2>2
<1>2. ASSUME NEW h \in Handlers, NEW d \in Devices, NEW m \in Mutations, Receive(h, d, m)
      PROVE  Due(h)'
  <2>1. /\ pc'[h] = "authorize" /\ reply'[h] = None /\ request'[h].mutation = m
        /\ replayDue'[h] = RecordedAs(m) /\ UNCHANGED operations
    BY <1>2 DEF Receive, Goto, stored, StoreInv, TypeOK
  <2>. QED  BY <2>1 DEF RecordedAs
<1>3. ASSUME NEW h \in Handlers, Crash(h) PROVE Due(h)'
  BY <1>3 DEF Crash, Goto, StoreInv, TypeOK
<1>4. ASSUME NEW h \in Handlers, HandlerStep(h) PROVE Due(h)'
  <2>1. UNCHANGED replayDue
    BY <1>4 DEF HandlerStep, Authorize, Lookup, Precheck, Upload, UploadFails, Commit,
                CommitOutcomeUnknown, CommitRefused, CommitFails, Reconcile, Discard, Retire,
                DeleteAndReply
  <2>2. CASE ~replayDue[h]
    BY <2>1, <2>2
  <2>3. CASE replayDue[h]
    <3>1. pc[h] \in {"authorize", "lookup", "idle", "replied"}
      BY <2>3 DEF RetryInv
    <3>2. CASE Authorize(h)
      <4>1. CASE Answer(h, Failure("forbidden"))
        BY <4>1 DEF Answer, Goto, Failure, Spoken, StoreInv, TypeOK
      <4>2. CASE Goto(h, "lookup") /\ UNCHANGED locals
        <5>1. UNCHANGED operations
          BY <3>2 DEF Authorize, stored
        <5>2. pc[h] = "authorize"
          BY <3>2 DEF Authorize
        <5>. QED  BY <2>3, <4>2, <5>1, <5>2 DEF Goto, locals, RetryInv, RecordedAs, StoreInv, TypeOK
      <4>. QED  BY <3>2, <4>1, <4>2 DEF Authorize
    <3>3. CASE Lookup(h)
      <4>1. RecordedAs(request[h].mutation)
        BY <2>3, <3>3 DEF Lookup, RetryInv
      <4>2. Answer(h, Outcome(operations[request[h].mutation.op]))
        BY <3>3, <4>1 DEF Lookup, RecordedAs, Conflicts
      <4>. QED  BY <4>2 DEF Answer, Goto, Outcome, Spoken, StoreInv, TypeOK
    <3>. QED  BY <1>4, <3>1, <3>2, <3>3
             DEF HandlerStep, Precheck, Upload, UploadFails, Commit, Committable,
                 CommitOutcomeUnknown, CommitRefused, CommitFails, Reconcile, Discard, Retire
  <2>. QED  BY <2>2, <2>3
<1>5. ASSUME NEW h \in Handlers, NEW g \in Handlers, g # h,
             \/ HandlerStep(g) \/ Crash(g)
             \/ \E d \in Devices, m \in Mutations : Receive(g, d, m)
      PROVE  /\ pc'[h] = pc[h] /\ reply'[h] = reply[h]
             /\ request'[h] = request[h] /\ replayDue'[h] = replayDue[h]
  BY <1>5 DEF HandlerStep, Crash, Receive, Authorize, Lookup, Precheck, Upload, UploadFails, Commit,
              CommitOutcomeUnknown, CommitRefused, CommitFails, Reconcile, ReconcileRecorded,
              Discard, Retire, DeleteAndReply, Answer, Prepare, Goto, Drop, locals, StoreInv, TypeOK
<1>6. CASE UNCHANGED <<pc, reply, request, replayDue>>
  BY <1>1, <1>6 DEF RetryInv
<1>. QED
  <2>1. \A h \in Handlers : Due(h)'
    BY <1>1, <1>2, <1>3, <1>4, <1>5, <1>6
       DEF Next, Resolve, ResolveCommitted, ResolveAborted, Revoke, PutTopology, ListObjects,
           locals, vars
  <2>. QED  BY <2>1 DEF RetryInv

(* A retry of an operation that had committed when it arrived is never      *)
(* refused as stale or conflicting.                                         *)
THEOREM RetriesReplayed == Spec => []RetryOfCommittedIsReplayed
<1>1. Init => RetryInv
  BY DEF Init, RetryInv
<1>2. StoreInv /\ RetryInv /\ [Next]_vars => RetryInv'
  BY RetryStep
<1>3. StoreInv /\ RetryInv => RetryOfCommittedIsReplayed
  BY DEF RetryInv, RetryOfCommittedIsReplayed, Spoken
<1>. QED  BY <1>1, <1>2, <1>3, StoreInvariant, PTL DEF Spec

-----------------------------------------------------------------------------
(* Clean-up.  While no failure has cut a clean-up short, every body in the   *)
(* blob store is current or some handler is still going to store or delete  *)
(* it.                                                                       *)

Owner(h, k) ==
  \/ pc[h] \in {"commit", "discard"} /\ candidate[h] = k
  \/ pc[h] = "retire" /\ previous[h] = k

Owned(k) ==
  \/ \E o \in Objects : objects[o] # None /\ objects[o].key = k
  \/ \E h \in Handlers : Owner(h, k)

OrphanInv ==
  ~faulted =>
    /\ indoubt = None
    /\ \A h \in Handlers : pc[h] # "reconcile"
    /\ \A k \in StorageKeys : blobs[k] # None => Owned(k)

(* One handler moves, writes no row and keeps or deletes the bodies it owns. *)
LEMMA OwnersKeep ==
  ASSUME OrphanInv, TypeOK, NEW h \in Handlers, ~faulted', ~faulted,
         UNCHANGED <<objects, indoubt>>, pc'[h] # "reconcile",
         \A g \in Handlers \ {h} :
           pc'[g] = pc[g] /\ candidate'[g] = candidate[g] /\ previous'[g] = previous[g],
         \A k \in StorageKeys : blobs'[k] # None =>
           (blobs[k] # None /\ (Owner(h, k) => Owner(h, k)')) \/ Owner(h, k)'
  PROVE  OrphanInv'
<1>1. ASSUME NEW k \in StorageKeys, blobs'[k] # None PROVE Owned(k)'
  <2>1. CASE Owner(h, k)'
    BY <2>1 DEF Owned
  <2>2. CASE blobs[k] # None /\ ~Owner(h, k)
    <3>1. Owned(k)
      BY <2>2 DEF OrphanInv
    <3>2. CASE \E o \in Objects : objects[o] # None /\ objects[o].key = k
      BY <3>2 DEF Owned
    <3>3. CASE \E g \in Handlers : Owner(g, k)
      BY <2>2, <3>3 DEF Owned, Owner
    <3>. QED  BY <3>1, <3>2, <3>3 DEF Owned
  <2>. QED  BY <1>1, <2>1, <2>2
<1>2. \A g \in Handlers : pc'[g] # "reconcile"
  BY DEF OrphanInv
<1>. QED  BY <1>1, <1>2 DEF OrphanInv

(* A commit makes its candidate current and takes over the replaced body.   *)
LEMMA CommitOwns ==
  ASSUME StoreInv, OrphanInv, NEW h \in Handlers, Commit(h)
  PROVE  OrphanInv'
<1> DEFINE m == request[h].mutation
<1>1. /\ pc[h] = "commit" /\ UNCHANGED <<blobs, faulted, indoubt>>
      /\ m \in Mutations /\ m.object \in Objects /\ candidate[h] \in StorageKeys
      /\ cursor + 1 \in Nat
  BY RequestFields DEF Commit, Committable, StoreInv, LocalsSet, InFlight, TypeOK
<1>2. objects' = [objects EXCEPT ![m.object] =
                    [mutation |-> m, seq |-> cursor + 1, key |-> candidate[h]]]
  BY DEF Commit, WriteRows
<1>3. [mutation |-> m, seq |-> cursor + 1, key |-> candidate[h]] # None
  <2>1. [mutation |-> m, seq |-> cursor + 1, key |-> candidate[h]] \in Row
    BY <1>1 DEF Row
  <2>. QED  BY <2>1
<1>4. /\ objects'[m.object] # None /\ objects'[m.object].key = candidate[h]
      /\ \A o \in Objects \ {m.object} : objects'[o] = objects[o]
  BY <1>1, <1>2, <1>3 DEF StoreInv, TypeOK
<1>5. objects[m.object] # None => pc'[h] = "retire" /\ previous'[h] = objects[m.object].key
  BY DEF Commit, Goto, StoreInv, TypeOK
<1>6. /\ pc'[h] \in {"retire", "replied"}
      /\ \A g \in Handlers \ {h} :
           pc'[g] = pc[g] /\ candidate'[g] = candidate[g] /\ previous'[g] = previous[g]
  BY DEF Commit, Goto, Drop, StoreInv, TypeOK
<1>7. ASSUME NEW k \in StorageKeys, Owned(k) PROVE Owned(k)'
  <2>1. ASSUME NEW o \in Objects, objects[o] # None, objects[o].key = k PROVE Owned(k)'
    <3>1. CASE o = m.object
      BY <2>1, <3>1, <1>5 DEF Owned, Owner
    <3>2. CASE o # m.object
      BY <2>1, <3>2, <1>4 DEF Owned
    <3>. QED  BY <3>1, <3>2
  <2>2. ASSUME NEW g \in Handlers, Owner(g, k) PROVE Owned(k)'
    <3>1. CASE g = h
      BY <2>2, <3>1, <1>1, <1>4 DEF Owned, Owner
    <3>2. CASE g # h
      BY <2>2, <3>2, <1>6 DEF Owned, Owner
    <3>. QED  BY <3>1, <3>2
  <2>. QED  BY <1>7, <2>1, <2>2 DEF Owned
<1>. QED  BY <1>1, <1>6, <1>7 DEF OrphanInv

(* Every other step of a handler, and the surroundings.                     *)
LEMMA OrphanStep ==
  ASSUME StoreInv, OrphanInv, [Next]_vars PROVE OrphanInv'
<1>. USE DEF StoreInv, TypeOK
<1>1. CASE faulted'
  BY <1>1 DEF OrphanInv
<1>2. CASE faulted
  <2>1. faulted'
    BY <1>2 DEF Next, HandlerStep, Receive, Resolve, ResolveCommitted, ResolveAborted, Revoke,
                PutTopology, ListObjects, Crash, Authorize, Lookup, Precheck, Upload, UploadFails,
                Commit, CommitOutcomeUnknown, CommitRefused, CommitFails, Reconcile, Discard,
                Retire, DeleteAndReply, vars
  <2>. QED  BY <2>1 DEF OrphanInv
<1>3. CASE ~faulted /\ ~faulted'
  <2>1. ASSUME NEW h \in Handlers, NEW d \in Devices, NEW m \in Mutations, Receive(h, d, m)
        PROVE  OrphanInv'
    BY <1>3, <2>1, OwnersKeep DEF Receive, Goto, Owner, stored
  <2>2. ASSUME NEW h \in Handlers, Authorize(h) \/ Lookup(h) \/ Precheck(h) PROVE OrphanInv'
    <3>1. /\ pc[h] \in {"authorize", "lookup", "precheck"}
          /\ UNCHANGED <<objects, indoubt, blobs>>
      BY <2>2 DEF Authorize, Lookup, Precheck, stored
    <3>2. CASE \E a : Answer(h, a)
      BY <1>3, <3>1, <3>2, OwnersKeep DEF Answer, Goto, Drop, Owner
    <3>3. CASE \E label \in {"lookup", "precheck", "upload"} : Goto(h, label) /\ UNCHANGED locals
      BY <1>3, <3>1, <3>3, OwnersKeep DEF Goto, locals, Owner
    <3>. QED  BY <2>2, <3>2, <3>3 DEF Authorize, Lookup, Precheck
  <2>3. ASSUME NEW h \in Handlers, Upload(h) PROVE OrphanInv'
    BY <1>3, <2>3, OwnersKeep DEF Upload, Goto, Owner, stored
  <2>4. ASSUME NEW h \in Handlers, Commit(h) PROVE OrphanInv'
    BY <2>4, CommitOwns
  <2>5. ASSUME NEW h \in Handlers, CommitRefused(h) \/ CommitFails(h) PROVE OrphanInv'
    <3>1. pc[h] = "commit" /\ UNCHANGED <<objects, indoubt, blobs>>
      BY <2>5 DEF CommitRefused, CommitFails, stored
    <3>2. PICK a : Prepare(h, a)
      BY <2>5 DEF CommitRefused, CommitFails
    <3>. QED  BY <1>3, <3>1, <3>2, OwnersKeep DEF Prepare, Goto, Owner
  <2>6. ASSUME NEW h \in Handlers, Discard(h) \/ Retire(h) PROVE OrphanInv'
    BY <1>3, <2>6, OwnersKeep DEF Discard, Retire, DeleteAndReply, Goto, Drop, Owner, stored
  <2>7. ASSUME NEW h \in Handlers, CommitOutcomeUnknown(h) \/ UploadFails(h) \/ Crash(h) PROVE FALSE
    BY <1>3, <2>7 DEF CommitOutcomeUnknown, UploadFails, Crash
  <2>8. ASSUME NEW h \in Handlers, Reconcile(h) PROVE FALSE
    BY <1>3, <2>8 DEF Reconcile, OrphanInv
  <2>9. CASE Resolve
    BY <1>3, <2>9 DEF Resolve, ResolveCommitted, ResolveAborted, OrphanInv
  <2>10. CASE UNCHANGED <<objects, indoubt, blobs, faulted, pc, candidate, previous>>
    BY <2>10 DEF OrphanInv, Owned, Owner
  <2>. QED
    BY <2>1, <2>2, <2>3, <2>4, <2>5, <2>6, <2>7, <2>8, <2>9, <2>10
       DEF Next, HandlerStep, Revoke, PutTopology, ListObjects, stored, locals, vars
<1>. QED  BY <1>1, <1>2, <1>3

(* When no handler runs and no failure cut a clean-up short, the blob store  *)
(* holds nothing but current bodies.                                        *)
THEOREM NothingIsOrphaned == Spec => []NoOrphanWithoutFault
<1>1. Init => OrphanInv
  BY DEF Init, OrphanInv
<1>2. StoreInv /\ OrphanInv /\ [Next]_vars => OrphanInv'
  BY OrphanStep
<1>3. OrphanInv => NoOrphanWithoutFault
  BY DEF OrphanInv, Owned, Owner, NoOrphanWithoutFault, Quiescent
<1>. QED  BY <1>1, <1>2, <1>3, StoreInvariant, PTL DEF Spec

-----------------------------------------------------------------------------
(* The handlers, blobs, locks and lost acknowledgements implement the atomic *)
(* store of VersionedObjects.                                               *)

(* A handler has no answer while it works towards one, and it works only on *)
(* a mutation that is bound to its upload.                                  *)
Working == {"authorize", "lookup", "precheck", "upload", "commit", "reconcile"}

AnswerOpen ==
  \A h \in Handlers : pc[h] \in Working =>
    reply[h] = None /\ request[h].mutation.revision <= MaxWireRevision

(* A handler that goes on without a request of its own keeps AnswerOpen.    *)
LEMMA AnswerOpenStep == StoreInv /\ AnswerOpen /\ [Next]_vars => AnswerOpen'
<1>. SUFFICES ASSUME StoreInv, AnswerOpen, [Next]_vars PROVE AnswerOpen'
  OBVIOUS
<1>. USE DEF StoreInv, TypeOK, AnswerOpen, Working
<1>1. ASSUME NEW h \in Handlers, NEW d \in Devices, NEW m \in Mutations, Receive(h, d, m)
      PROVE  AnswerOpen'
  <2>1. /\ pc' = [pc EXCEPT ![h] = "authorize"]
        /\ request' = [request EXCEPT ![h] = [device |-> d, mutation |-> m]]
        /\ reply' = [reply EXCEPT ![h] = None]
        /\ m.revision <= MaxWireRevision
    BY <1>1 DEF Receive, Goto, UploadBinding
  <2>. QED  BY <2>1
<1>2. ASSUME NEW h \in Handlers, NEW label, UNCHANGED <<request, reply>>,
             pc[h] \in Working, pc' = [pc EXCEPT ![h] = label]
      PROVE  AnswerOpen'
  BY <1>2
<1>3. ASSUME NEW h \in Handlers, NEW label, label \notin Working, UNCHANGED request,
             \A g \in Handlers \ {h} : reply'[g] = reply[g],
             pc' = [pc EXCEPT ![h] = label]
      PROVE  AnswerOpen'
  BY <1>3
<1>4. ASSUME NEW h \in Handlers, NEW a, Answer(h, a) \/ Prepare(h, a) PROVE AnswerOpen'
  <2>1. \A g \in Handlers \ {h} : reply'[g] = reply[g]
    BY <1>4 DEF Answer, Prepare
  <2>2. UNCHANGED request
    BY <1>4 DEF Answer, Prepare, Drop
  <2>3. pc' = [pc EXCEPT ![h] = "replied"] \/ pc' = [pc EXCEPT ![h] = "discard"]
    BY <1>4 DEF Answer, Prepare, Goto
  <2>. QED  BY <2>1, <2>2, <2>3, <1>3
<1>5. ASSUME NEW h \in Handlers, Authorize(h) \/ Lookup(h) \/ Precheck(h) \/ Upload(h)
                                 \/ CommitOutcomeUnknown(h)
      PROVE  AnswerOpen'
  <2>1. \/ \E a : Answer(h, a)
        \/ /\ pc[h] \in Working /\ UNCHANGED <<request, reply>>
           /\ \E label : pc' = [pc EXCEPT ![h] = label]
    BY <1>5 DEF Authorize, Lookup, Precheck, Upload, CommitOutcomeUnknown, Committable, Goto, locals
  <2>. QED  BY <2>1, <1>2, <1>4
<1>6. ASSUME NEW h \in Handlers, UploadFails(h) \/ CommitRefused(h) \/ CommitFails(h)
                                 \/ Reconcile(h)
      PROVE  AnswerOpen'
  <2>1. \E a : Answer(h, a) \/ Prepare(h, a)
    BY <1>6 DEF UploadFails, CommitRefused, CommitFails, Reconcile, ReconcileRecorded
  <2>. QED  BY <2>1, <1>4
<1>7. ASSUME NEW h \in Handlers, Commit(h) \/ Discard(h) \/ Retire(h) \/ Crash(h)
      PROVE  AnswerOpen'
  <2>1. UNCHANGED request /\ \A g \in Handlers \ {h} : reply'[g] = reply[g]
    BY <1>7 DEF Commit, Discard, Retire, DeleteAndReply, Crash, Drop
  <2>2. \E label \in {"replied", "retire", "idle"} : pc' = [pc EXCEPT ![h] = label]
    BY <1>7 DEF Commit, Discard, Retire, DeleteAndReply, Crash, Goto
  <2>. QED  BY <2>1, <2>2, <1>3
<1>8. CASE UNCHANGED <<pc, request, reply>>
  BY <1>8
<1>. QED
  BY <1>1, <1>5, <1>6, <1>7, <1>8
     DEF Next, HandlerStep, Resolve, ResolveCommitted, ResolveAborted, Revoke, PutTopology,
         ListObjects, locals, vars

-----------------------------------------------------------------------------
(* The conditions and effects of VersionedObjects, in terms of the tables.  *)

(* What clients see of a row is an entry, not None.                         *)
LEMMA Entries ==
  ASSUME TypeOK
  PROVE  /\ \A o \in Objects : objects[o] # None =>
              [mutation |-> objects[o].mutation, seq |-> objects[o].seq] # None
         /\ \A i \in OperationIds : operations[i] # None =>
              [mutation |-> operations[i].mutation, seq |-> operations[i].seq] # None
<1>1. \A o \in Objects : objects[o] # None =>
        [mutation |-> objects[o].mutation, seq |-> objects[o].seq] \in Entry
  BY DEF TypeOK, Row, Entry
<1>2. \A i \in OperationIds : operations[i] # None =>
        [mutation |-> operations[i].mutation, seq |-> operations[i].seq] \in Entry
  BY DEF TypeOK, OperationRow, Entry
<1>3. None \notin Entry
  BY NoneAssumption
<1>. QED  BY <1>1, <1>2, <1>3

(* The write policy of the code is the admission of the abstract store, for *)
(* the revisions the wire carries.                                          *)
LEMMA PolicyAdmits ==
  ASSUME TypeOK, NEW m \in Mutations
  PROVE  /\ WritePolicy(m, objects[m.object]) => Store!Admits(m)
         /\ Store!Admits(m) /\ m.revision <= MaxWireRevision => WritePolicy(m, objects[m.object])
<1> DEFINE row == objects[m.object]
           seen == [o \in Objects |->
                      IF objects[o] = None THEN None
                      ELSE [mutation |-> objects[o].mutation, seq |-> objects[o].seq]][m.object]
<1>1. m.object \in Objects
  BY MutationFields
<1>2. CASE row = None
  <2>1. seen = None
    BY <1>1, <1>2
  <2>2. Store!Admits(m) <=> m.pre = None
    BY <2>1 DEF Store!Admits
  <2>. QED  BY <1>2, <2>2 DEF WritePolicy, PreconditionHolds, RevisionAdvances
<1>3. CASE row # None
  <2>1. seen # None /\ seen.mutation = row.mutation
    <3>1. seen = [mutation |-> row.mutation, seq |-> row.seq]
      BY <1>1, <1>3
    <3>. QED  BY <3>1, <1>1, <1>3, Entries
  <2>2. Store!Admits(m) <=>
          /\ m.pre = [revision |-> row.mutation.revision, ciphertext |-> row.mutation.ciphertext]
          /\ m.revision > row.mutation.revision
    BY <2>1, Zenon DEF Store!Admits
  <2>. QED  BY <1>3, <2>2 DEF WritePolicy, PreconditionHolds, RevisionAdvances, VersionOf
<1>. QED  BY <1>2, <1>3

(* The abstract log has an entry where the operation table has a row.       *)
LEMMA LogEntry ==
  ASSUME TypeOK, NEW m \in Mutations
  PROVE  LET entry == [i \in OperationIds |->
                         IF operations[i] = None THEN None
                         ELSE [mutation |-> operations[i].mutation,
                               seq |-> operations[i].seq]][m.op]
         IN  /\ entry = None <=> operations[m.op] = None
             /\ operations[m.op] # None =>
                  entry.mutation = operations[m.op].mutation /\ entry.seq = operations[m.op].seq
<1> DEFINE entry == [i \in OperationIds |->
                       IF operations[i] = None THEN None
                       ELSE [mutation |-> operations[i].mutation,
                             seq |-> operations[i].seq]][m.op]
<1>1. m.op \in OperationIds
  BY MutationFields
<1>2. operations[m.op] = None => entry = None
  BY <1>1
<1>3. operations[m.op] # None =>
        entry = [mutation |-> operations[m.op].mutation, seq |-> operations[m.op].seq]
  BY <1>1
<1>. QED  BY <1>1, <1>2, <1>3, Entries

(* What the code may answer without having written is a refusal.            *)
LEMMA RefusalStatus ==
  ASSUME TypeOK, NEW m \in Mutations
  PROVE  /\ {"forbidden", "unavailable"} \subseteq Store!Refusals(m)
         /\ Conflicts(m) => "operation_conflict" \in Store!Refusals(m)
         /\ ~Store!Admits(m) => {"precondition_failed", "bad_request"} \subseteq Store!Refusals(m)
<1>1. Conflicts(m) => "operation_conflict" \in Store!Refusals(m)
  BY LogEntry, Zenon DEF Store!Refusals, Conflicts
<1>. QED  BY <1>1 DEF Store!Refusals

-----------------------------------------------------------------------------
(* Each step of the store is a step of the abstract one, or a stutter.      *)

(* A commit, acknowledged or resolved late, takes effect.                   *)
LEMMA WriteTakesEffect ==
  ASSUME TypeOK, NEW m \in Mutations, NEW k \in StorageKeys, Writes(m, k)
  PROVE  Store!TakeEffect(m)
<1> DEFINE entry == [mutation |-> m, seq |-> cursor + 1]
           current == [o \in Objects |->
             IF objects[o] = None THEN None
             ELSE [mutation |-> objects[o].mutation, seq |-> objects[o].seq]]
           log == [i \in OperationIds |->
             IF operations[i] = None THEN None
             ELSE [mutation |-> operations[i].mutation, seq |-> operations[i].seq]]
<1>1. m.op \in OperationIds /\ m.object \in Objects /\ cursor + 1 \in Nat
  BY MutationFields DEF TypeOK
<1>2. /\ [mutation |-> m, seq |-> cursor + 1, key |-> k] # None
      /\ [mutation |-> m, seq |-> cursor + 1, key |-> k,
          created |-> objects[m.object] = None] # None
  <2>1. [mutation |-> m, seq |-> cursor + 1, key |-> k] \in Row
    BY <1>1 DEF Row
  <2>2. [mutation |-> m, seq |-> cursor + 1, key |-> k,
         created |-> objects[m.object] = None] \in OperationRow
    BY <1>1 DEF OperationRow
  <2>3. None \notin Row /\ None \notin OperationRow
    BY NoneAssumption
  <2>. QED  BY <2>1, <2>2, <2>3
<1>3. current' = [current EXCEPT ![m.object] = entry]
  <2>1. objects' = [objects EXCEPT ![m.object] = [mutation |-> m, seq |-> cursor + 1, key |-> k]]
    BY DEF Writes, WriteRows
  <2>2. /\ objects'[m.object] = [mutation |-> m, seq |-> cursor + 1, key |-> k]
        /\ \A o \in Objects \ {m.object} : objects'[o] = objects[o]
    BY <2>1, <1>1 DEF TypeOK
  <2>3. current'[m.object] = entry
    BY <2>2, <1>1, <1>2
  <2>4. \A o \in Objects \ {m.object} : current'[o] = current[o]
    BY <2>2
  <2>. QED  BY <2>3, <2>4, <1>1
<1>4. log' = [log EXCEPT ![m.op] = entry]
  <2>1. operations' = [operations EXCEPT ![m.op] =
          [mutation |-> m, seq |-> cursor + 1, key |-> k, created |-> objects[m.object] = None]]
    BY DEF Writes, WriteRows
  <2>2. /\ operations'[m.op] = [mutation |-> m, seq |-> cursor + 1, key |-> k,
                                created |-> objects[m.object] = None]
        /\ \A i \in OperationIds \ {m.op} : operations'[i] = operations[i]
    BY <2>1, <1>1 DEF TypeOK
  <2>3. log'[m.op] = entry
    BY <2>2, <1>1, <1>2
  <2>4. \A i \in OperationIds \ {m.op} : log'[i] = log[i]
    BY <2>2
  <2>. QED  BY <2>3, <2>4, <1>1
<1>5. log[m.op] = None
  BY <1>1 DEF Writes
<1>6. Store!Admits(m) /\ cursor' = cursor + 1
  BY PolicyAdmits DEF Writes, WriteRows
<1>. QED  BY <1>3, <1>4, <1>5, <1>6, Zenon DEF Store!TakeEffect

(* A refusal that the code decides on without writing is an abstract one.   *)
LEMMA Refuses ==
  ASSUME TypeOK, NEW h \in Handlers, request[h] # None, reply[h] = None,
         NEW status \in Store!Refusals(request[h].mutation),
         reply' = [reply EXCEPT ![h] = Failure(status)], UNCHANGED <<stored, request>>
  PROVE  Store!Refuse(h)
<1> DEFINE asked == [g \in Handlers |->
                       IF request[g] = None THEN None ELSE request[g].mutation]
<1>1. asked[h] = request[h].mutation /\ asked[h] # None
  BY RequestFields, ObjectStoreAssumption
<1>2. UNCHANGED <<stored, request, asked>>
  OBVIOUS
<1>. QED  BY <1>1, <1>2 DEF Store!Refuse, Store!store, Failure, stored

(* An answer read from the operation table names the recorded write.        *)
LEMMA Replays ==
  ASSUME TypeOK, NEW h \in Handlers, request[h] # None, reply[h] = None,
         RecordedAs(request[h].mutation),
         reply' = [reply EXCEPT ![h] = Outcome(operations[request[h].mutation.op])],
         UNCHANGED <<stored, request>>
  PROVE  Store!Succeed(h)
<1> DEFINE m == request[h].mutation
           asked == [g \in Handlers |->
                       IF request[g] = None THEN None ELSE request[g].mutation]
           log == [i \in OperationIds |->
             IF operations[i] = None THEN None
             ELSE [mutation |-> operations[i].mutation, seq |-> operations[i].seq]]
<1>1. asked[h] = m /\ asked[h] # None
  BY RequestFields, ObjectStoreAssumption
<1>2. log[m.op] # None /\ log[m.op].mutation = m /\ log[m.op].seq = operations[m.op].seq
  BY RequestFields, LogEntry DEF RecordedAs
<1>3. UNCHANGED <<objects, operations, cursor, request>>
  BY DEF stored
<1>4. UNCHANGED Store!store
  BY <1>3 DEF Store!store
<1>5. log' = log /\ asked' = asked
  BY <1>3
<1>. HIDE DEF m
<1>. QED  BY <1>1, <1>2, <1>4, <1>5 DEF Store!Succeed, Outcome

(* An acknowledged commit takes effect and answers with what it wrote.      *)
LEMMA Commits ==
  ASSUME StoreInv, AnswerOpen, NEW c \in Handlers, Commit(c),
         NEW m \in Mutations, m = request[c].mutation
  PROVE  Store!Succeed(c)
<1> DEFINE asked == [h \in Handlers |->
                       IF request[h] = None THEN None ELSE request[h].mutation]
           log == [i \in OperationIds |->
             IF operations[i] = None THEN None
             ELSE [mutation |-> operations[i].mutation, seq |-> operations[i].seq]]
<1>1. TypeOK /\ request[c] # None /\ candidate[c] \in StorageKeys /\ reply[c] = None
  BY DEF Commit, Committable, StoreInv, LocalsSet, TypeOK, InFlight, AnswerOpen, Working
<1>2. m.op \in OperationIds /\ cursor + 1 \in Nat
  BY <1>1, MutationFields DEF TypeOK
<1>3. asked[c] = m /\ asked[c] # None
  BY <1>1, <1>2, ObjectStoreAssumption
<1>4. Store!TakeEffect(m)
  <2>. PICK k \in StorageKeys : k = candidate[c]
    BY <1>1
  <2>1. Writes(m, k)
    BY DEF Commit, Committable, Writes
  <2>. QED  BY <1>1, <2>1, WriteTakesEffect
<1>5. log'[m.op] = [mutation |-> m, seq |-> cursor + 1]
  BY <1>2, <1>4, Zenon DEF Store!TakeEffect
<1>6. log'[m.op] # None
  BY <1>2, <1>5, NoneAssumption DEF Entry
<1>7. UNCHANGED asked
  <2>1. UNCHANGED request
    BY DEF Commit, Drop
  <2>. QED  BY <2>1
<1>8. reply' = [reply EXCEPT ![c] = [status |-> "ok", seq |-> cursor + 1]]
  BY DEF Commit
<1>9. Store!TakeEffect(asked[c])
  <2>. HIDE DEF asked
  <2>. QED  BY <1>3, <1>4 DEF Store!TakeEffect, Store!Admits
<1>10. log'[asked[c].op] # None /\ log'[asked[c].op].mutation = asked[c]
  BY <1>3, <1>5, <1>6
<1>11. reply' = [reply EXCEPT ![c] = [status |-> "ok", seq |-> log'[asked[c].op].seq]]
  <2>1. log'[asked[c].op].seq = cursor + 1
    BY <1>3, <1>5
  <2>. QED  BY <1>8, <2>1
<1>. QED  BY <1>1, <1>3, <1>7, <1>9, <1>10, <1>11, Zenon DEF Store!Succeed

(* One disjunct of the code's next-state relation after the other.          *)
LEMMA StepImplements ==
  ASSUME StoreInv, AnswerOpen, Next
  PROVE  Store!AbstractNext \/ UNCHANGED Store!abstractVars
<1>. USE DEF Store!AbstractNext
<1>t. TypeOK
  BY DEF StoreInv
<1>0. ASSUME UNCHANGED <<stored, request, reply>>
      PROVE  UNCHANGED Store!abstractVars
  <2>1. UNCHANGED <<objects, operations, cursor, request, reply>>
    BY <1>0 DEF stored
  <2>. QED  BY <2>1 DEF Store!abstractVars
<1>r. ASSUME NEW h \in Handlers, pc[h] \in Working
      PROVE  /\ request[h] # None /\ reply[h] = None /\ request[h].mutation \in Mutations
             /\ request[h].mutation.revision <= MaxWireRevision
  BY <1>t, <1>r, RequestFields DEF Working, InFlight, StoreInv, LocalsSet, AnswerOpen
<1>1. ASSUME NEW h \in Handlers, NEW d \in Devices, NEW m \in Mutations, Receive(h, d, m)
      PROVE  Store!Ask(h, m)
  <2> DEFINE asked == [g \in Handlers |->
                         IF request[g] = None THEN None ELSE request[g].mutation]
  <2>1. /\ request' = [request EXCEPT ![h] = [device |-> d, mutation |-> m]]
        /\ reply' = [reply EXCEPT ![h] = None]
        /\ UNCHANGED <<objects, operations, cursor>>
    BY <1>1 DEF Receive, stored
  <2>2. [device |-> d, mutation |-> m] # None
    BY NoneAssumption DEF Request
  <2>3. asked' = [asked EXCEPT ![h] = m]
    <3>1. asked'[h] = m
      BY <1>t, <2>1, <2>2 DEF TypeOK
    <3>2. \A g \in Handlers \ {h} : asked'[g] = asked[g]
      BY <1>t, <2>1 DEF TypeOK
    <3>. QED  BY <3>1, <3>2
  <2>. QED  BY <2>1, <2>3 DEF Store!Ask, Store!store
<1>2. ASSUME NEW h \in Handlers, pc[h] \in Working, UNCHANGED <<stored, request>>,
             NEW status \in Store!Refusals(request[h].mutation),
             reply' = [reply EXCEPT ![h] = Failure(status)]
      PROVE  Store!AbstractNext
  BY <1>2, <1>t, <1>r, Refuses
<1>3. ASSUME NEW h \in Handlers, pc[h] \in Working, UNCHANGED <<stored, request>>,
             RecordedAs(request[h].mutation),
             reply' = [reply EXCEPT ![h] = Outcome(operations[request[h].mutation.op])]
      PROVE  Store!AbstractNext
  BY <1>3, <1>t, <1>r, Replays
<1>. HIDE DEF Store!AbstractNext
<1>4. ASSUME NEW h \in Handlers, Authorize(h)
      PROVE  Store!AbstractNext \/ UNCHANGED Store!abstractVars
  <2>1. pc[h] \in Working /\ UNCHANGED stored
    BY <1>4 DEF Authorize, Working
  <2>2. CASE Answer(h, Failure("forbidden"))
    BY <2>1, <2>2, <1>2, <1>r, <1>t, RefusalStatus DEF Answer, Drop
  <2>3. CASE UNCHANGED locals
    BY <2>1, <2>3, <1>0 DEF locals
  <2>. QED  BY <1>4, <2>2, <2>3 DEF Authorize
<1>5. ASSUME NEW h \in Handlers, Lookup(h)
      PROVE  Store!AbstractNext \/ UNCHANGED Store!abstractVars
  <2> DEFINE m == request[h].mutation
  <2>1. pc[h] \in Working /\ UNCHANGED stored
    BY <1>5 DEF Lookup, Working
  <2>2. CASE RecordedAs(m) /\ Answer(h, Outcome(operations[m.op]))
    BY <2>1, <2>2, <1>3 DEF Answer, Drop
  <2>3. CASE Conflicts(m) /\ Answer(h, Failure("operation_conflict"))
    BY <2>1, <2>3, <1>2, <1>r, <1>t, RefusalStatus DEF Answer, Drop
  <2>4. CASE UNCHANGED locals
    BY <2>1, <2>4, <1>0 DEF locals
  <2>. QED  BY <1>5, <2>2, <2>3, <2>4 DEF Lookup
<1>6. ASSUME NEW h \in Handlers, Precheck(h)
      PROVE  Store!AbstractNext \/ UNCHANGED Store!abstractVars
  <2> DEFINE m == request[h].mutation
  <2>1. pc[h] \in Working /\ UNCHANGED stored
    BY <1>6 DEF Precheck, Working
  <2>2. CASE ~WritePolicy(m, objects[m.object])
    <3>1. Answer(h, Failure(PolicyStatus(m, objects[m.object])))
      BY <1>6, <2>2 DEF Precheck
    <3>2. ~Store!Admits(m)
      BY <2>1, <2>2, <1>r, <1>t, PolicyAdmits
    <3>3. PolicyStatus(m, objects[m.object]) \in Store!Refusals(m)
      BY <2>1, <3>2, <1>r, <1>t, RefusalStatus DEF PolicyStatus
    <3>. QED  BY <2>1, <3>1, <3>3, <1>2 DEF Answer, Drop
  <2>3. CASE UNCHANGED locals
    BY <2>1, <2>3, <1>0 DEF locals
  <2>. QED  BY <1>6, <2>2, <2>3 DEF Precheck
<1>7. ASSUME NEW h \in Handlers, UploadFails(h) \/ CommitFails(h)
      PROVE  Store!AbstractNext
  <2>1. /\ pc[h] \in Working /\ UNCHANGED <<stored, request>>
        /\ reply' = [reply EXCEPT ![h] = Failure("unavailable")]
    BY <1>7 DEF UploadFails, CommitFails, Working, Answer, Prepare, Drop
  <2>. QED  BY <2>1, <1>2, <1>r, <1>t, RefusalStatus
<1>8. ASSUME NEW h \in Handlers, Commit(h)
      PROVE  Store!AbstractNext
  <2>1. pc[h] \in Working
    BY <1>8 DEF Commit, Committable, Working
  <2>. PICK m \in Mutations : m = request[h].mutation
    BY <2>1, <1>r
  <2>. QED  BY <1>8, Commits DEF Store!AbstractNext
<1>9. ASSUME NEW h \in Handlers, CommitRefused(h)
      PROVE  Store!AbstractNext
  <2> DEFINE m == request[h].mutation
  <2>1. pc[h] \in Working /\ UNCHANGED stored
    BY <1>9 DEF CommitRefused, Working
  <2>2. CASE Prepare(h, Failure("forbidden"))
    BY <2>1, <2>2, <1>2, <1>r, <1>t, RefusalStatus DEF Prepare
  <2>3. CASE RecordedAs(m) /\ Prepare(h, Outcome(operations[m.op]))
    BY <2>1, <2>3, <1>3 DEF Prepare
  <2>4. CASE Conflicts(m) /\ Prepare(h, Failure("operation_conflict"))
    BY <2>1, <2>4, <1>2, <1>r, <1>t, RefusalStatus DEF Prepare
  <2>5. CASE ~WritePolicy(m, objects[m.object]) /\ Prepare(h, Failure("precondition_failed"))
    <3>1. ~Store!Admits(m)
      BY <2>1, <2>5, <1>r, <1>t, PolicyAdmits
    <3>. QED  BY <2>1, <2>5, <3>1, <1>2, <1>r, <1>t, RefusalStatus DEF Prepare
  <2>. QED  BY <1>9, <2>2, <2>3, <2>4, <2>5 DEF CommitRefused
<1>10. ASSUME NEW h \in Handlers, Reconcile(h)
       PROVE  Store!AbstractNext
  <2> DEFINE m == request[h].mutation
  <2>1. pc[h] \in Working /\ UNCHANGED stored
    BY <1>10 DEF Reconcile, Working
  <2>2. CASE ReconcileRecorded(h)
    <3>1. /\ RecordedAs(m) /\ UNCHANGED request
          /\ reply' = [reply EXCEPT ![h] = Outcome(operations[m.op])]
      BY <2>2 DEF ReconcileRecorded, Answer, Prepare, Drop
    <3>. QED  BY <2>1, <3>1, <1>3
  <2>3. CASE Answer(h, Failure("unavailable"))
    BY <2>1, <2>3, <1>2, <1>r, <1>t, RefusalStatus DEF Answer, Drop
  <2>. QED  BY <1>10, <2>2, <2>3 DEF Reconcile
<1>11. ASSUME NEW h \in Handlers, Crash(h)
       PROVE  Store!AbstractNext
  <2>1. /\ reply' = [reply EXCEPT ![h] = None]
        /\ UNCHANGED <<objects, operations, cursor, request>>
    BY <1>11 DEF Crash, Drop, stored
  <2>2. Store!Lose(h)
    BY <2>1 DEF Store!Lose, Store!store
  <2>. QED  BY <2>2 DEF Store!AbstractNext
<1>12. CASE ResolveCommitted
  <2>1. PICK m \in Mutations, k \in StorageKeys : m = indoubt.mutation /\ k = indoubt.key
    BY <1>12, <1>t DEF ResolveCommitted, TypeOK, InDoubt
  <2>2. Writes(m, k)
    BY <2>1, <1>12 DEF ResolveCommitted, Writes, StoreInv, InDoubtApplicable
  <2>3. Store!TakeEffect(m)
    BY <1>t, <2>2, WriteTakesEffect
  <2>4. UNCHANGED <<request, reply>>
    BY <1>12 DEF ResolveCommitted, locals
  <2>. QED  BY <2>3, <2>4 DEF Store!AbstractNext
<1>13. ASSUME NEW h \in Handlers,
              Upload(h) \/ CommitOutcomeUnknown(h) \/ Discard(h) \/ Retire(h)
       PROVE  UNCHANGED Store!abstractVars
  <2>1. UNCHANGED <<stored, request, reply>>
    BY <1>13 DEF Upload, CommitOutcomeUnknown, Discard, Retire, DeleteAndReply, Drop, locals
  <2>. QED  BY <2>1, <1>0
<1>14. ASSUME \/ ResolveAborted
              \/ \E d \in Devices : Revoke(d)
              \/ \E t \in Topologies : PutTopology(t)
              \/ \E r \in Readers : ListObjects(r)
       PROVE  UNCHANGED Store!abstractVars
  <2>1. UNCHANGED <<stored, request, reply>>
    BY <1>14 DEF ResolveAborted, Revoke, PutTopology, ListObjects, locals
  <2>. QED  BY <2>1, <1>0
<1>15. ASSUME NEW h \in Handlers, NEW d \in Devices, NEW m \in Mutations, Receive(h, d, m)
       PROVE  Store!AbstractNext
  BY <1>15, <1>1 DEF Store!AbstractNext
<1>. QED
  BY <1>4, <1>5, <1>6, <1>7, <1>8, <1>9, <1>10, <1>11, <1>12, <1>13, <1>14, <1>15
     DEF Next, HandlerStep, Resolve

(* The store that put_object, its commit and its reconciliation make of two *)
(* storage systems is, to its clients, an atomic one: every answer is true  *)
(* of the instant it was decided at, a refused write had no effect, and an  *)
(* operation id takes effect at most once.                                  *)
THEOREM StoreImplementsVersionedObjects == Spec => ImplementsVersionedObjects
<1>1. Init => Store!AbstractInit /\ AnswerOpen
  BY DEF Init, Store!AbstractInit, AnswerOpen, Working
<1>2. StoreInv /\ AnswerOpen /\ [Next]_vars => [Store!AbstractNext]_(Store!abstractVars)
  <2>1. CASE UNCHANGED vars
    <3>1. UNCHANGED <<objects, operations, cursor, request, reply>>
      BY <2>1 DEF vars
    <3>. QED  BY <3>1 DEF Store!abstractVars
  <2>. QED  BY <2>1, StepImplements
<1>3. Spec => []AnswerOpen
  BY <1>1, AnswerOpenStep, StoreInvariant, PTL DEF Spec
<1>. QED
  BY <1>1, <1>2, <1>3, StoreInvariant, PTL
     DEF Spec, ImplementsVersionedObjects, Store!AbstractSpec

=============================================================================
