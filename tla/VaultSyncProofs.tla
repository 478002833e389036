--------------------------- MODULE VaultSyncProofs ---------------------------
(***************************************************************************)
(* Proofs about VaultSync, for every set of devices, items and cycles, any  *)
(* number of cycles of one device at the same time, and every bound.        *)
(***************************************************************************)
EXTENDS VaultSync, FiniteSetTheorems, SequenceTheorems, WellFoundedInduction, TLAPS

-----------------------------------------------------------------------------
(* The fields of a version that was made.                                  *)
LEMMA MadeTyped ==
  ASSUME TypeOK, NEW v \in 1..Len(made)
  PROVE  /\ made[v] \in Made /\ made[v].object \in Objects
         /\ made[v].revision \in Nat \ {0} /\ made[v].line \subseteq Version
<1>1. made[v] \in Made
  BY ElementOfSeq DEF TypeOK
<1>. QED  BY <1>1 DEF Made

(* Histories.                                                               *)

(* A version that exists descends from itself.                              *)
LEMMA DescendsItself ==
  ASSUME LineageSound, NEW o, NEW v, VersionOf(o, v)
  PROVE  Descends(v, v)
BY DEF LineageSound, VersionOf, Descends

(* What grew from something that grew from w grew from w.                    *)
LEMMA DescendsTransitive ==
  ASSUME LineageSound, NEW o, NEW v, VersionOf(o, v), NEW u, NEW w,
         Descends(v, u), Descends(u, w)
  PROVE  Descends(v, w)
BY DEF LineageSound, VersionOf, Descends

(* Of two versions a third one grew from, one grew from the other; and what  *)
(* it grew from has a smaller revision.                                     *)
LEMMA DescendsCompared ==
  ASSUME TypeOK, LineageSound, NEW o, NEW v, VersionOf(o, v), NEW u, NEW w,
         VersionOf(o, u), VersionOf(o, w), Descends(v, u), Descends(v, w),
         u = w \/ Revision(w) < Revision(u)
  PROVE  Descends(u, w)
<1>1. CASE w = 0
  BY <1>1 DEF Descends
<1>2. CASE u = 0 /\ w # 0
  <2>1. w \in 1..Len(made) /\ made[w].revision \in Nat
    BY <1>2, MadeTyped DEF VersionOf
  <2>. QED  BY <2>1, <1>2 DEF Revision
<1>3. CASE u # 0 /\ w # 0
  <2>1. /\ v \in 1..Len(made) /\ u \in 1..Len(made) /\ w \in 1..Len(made)
        /\ u \in made[v].line /\ w \in made[v].line
    BY <1>3 DEF VersionOf, Descends
  <2>2. u \in made[w].line \/ w \in made[u].line
    BY <2>1 DEF LineageSound
  <2>3. CASE u \in made[w].line
    <3>1. u = w \/ made[u].revision < made[w].revision
      BY <2>1, <2>3 DEF LineageSound
    <3>2. made[u].revision \in Nat /\ made[w].revision \in Nat
      BY <2>1, MadeTyped
    <3>3. u = w
      BY <3>1, <3>2, <1>3 DEF Revision
    <3>. QED  BY <3>3, <2>3, <1>3 DEF Descends
  <2>. QED  BY <2>2, <2>3, <1>3 DEF Descends
<1>. QED  BY <1>1, <1>2, <1>3

-----------------------------------------------------------------------------
(* What stays true while the system moves on.                               *)

(* Versions are only added; a vault, the server and a baseline move to       *)
(* descendants, a baseline that changes gets a new stamp, and no operation   *)
(* is forgotten.                                                            *)
Grows == \A v \in 1..Len(made) : v \in 1..Len(made') /\ made'[v] = made[v]

Forward ==
  /\ Grows
  /\ \A d \in Devices, o \in Objects :
       /\ DescendsNext(local'[d][o], local[d][o])
       /\ DescendsNext(ServerVersion(o)', ServerVersion(o))
       /\ DescendsNext(baseline'[d][o], baseline[d][o])
       /\ stamp[d][o] <= stamp'[d][o]
       /\ stamp'[d][o] = stamp[d][o] => baseline'[d][o] = baseline[d][o]
  /\ \A op \in Operation : log[op] # None => log'[op] # None
  /\ changes <= changes'

(* What the vaults and the server have are versions.                        *)
Versions ==
  /\ \A d \in Devices, o \in Objects : VersionOf(o, local[d][o])
  /\ \A o \in Objects : VersionOf(o, ServerVersion(o))

(* Versions stay what they are, and so do their ancestors.                 *)
LEMMA VersionLater ==
  ASSUME Grows, NEW o, NEW v, VersionOf(o, v)
  PROVE  VersionOf(o, v)'
BY DEF Grows, VersionOf

LEMMA DescendsLater ==
  ASSUME Grows, NEW o, NEW v, VersionOf(o, v), NEW u, Descends(v, u)
  PROVE  Descends(v, u)'
BY DEF Grows, VersionOf, Descends

(* A vault that has a version, or one that grew from it, always will.      *)
LEMMA HoldsLater ==
  ASSUME LineageSound', Versions', Versions, Forward,
         NEW d \in Devices, NEW o \in Objects, NEW x, Holds(d, o, x)
  PROVE  Holds(d, o, x)'
<1>1. VersionOf(o, x) /\ Descends(local[d][o], x)
  BY DEF Holds
<1>2. VersionOf(o, x)'
  BY <1>1, VersionLater DEF Forward
<1>3. DescendsNext(local'[d][o], local[d][o])
  BY DEF Forward
<1>4. VersionOf(o, local[d][o])' /\ VersionOf(o, local[d][o])
  BY DEF Versions
<1>5. CASE x = 0
  BY <1>2, <1>5 DEF Holds, Descends
<1>6. CASE x # 0
  <2>1. /\ local[d][o] # 0 /\ local[d][o] \in 1..Len(made)
        /\ x \in made[local[d][o]].line
    BY <1>1, <1>4, <1>6 DEF Descends, VersionOf
  <2>2. local[d][o] \in made'[local'[d][o]].line /\ local'[d][o] # 0
    BY <1>3, <2>1 DEF DescendsNext
  <2>3. made'[local[d][o]] = made[local[d][o]]
    BY <2>1 DEF Forward, Grows
  <2>4. local'[d][o] \in 1..Len(made')
    BY <1>4, <2>2 DEF VersionOf
  <2>5. x \in made'[local'[d][o]].line
    BY <2>1, <2>2, <2>3, <2>4 DEF LineageSound
  <2>. QED  BY <1>2, <2>5, <2>2 DEF Holds, Descends
<1>. QED  BY <1>5, <1>6

(* What the server has taken it has, or has a descendant of, ever since.   *)
LEMMA TakenLater ==
  ASSUME LineageSound', Versions', Versions, Forward,
         NEW d \in Devices, NEW o \in Objects, NEW x, Taken(o, x)
  PROVE  Taken(o, x)'
<1>1. VersionOf(o, x) /\ Descends(ServerVersion(o), x)
  BY DEF Taken
<1>2. VersionOf(o, x)'
  BY <1>1, VersionLater DEF Forward
<1>3. DescendsNext(ServerVersion(o)', ServerVersion(o))
  BY DEF Forward
<1>4. PICK v : v = ServerVersion(o)
  OBVIOUS
<1>5. PICK w : w = ServerVersion(o)'
  OBVIOUS
<1>6. VersionOf(o, v) /\ VersionOf(o, w)' /\ DescendsNext(w, v) /\ Descends(v, x)
  BY <1>1, <1>3, <1>4, <1>5 DEF Versions, VersionOf
<1>7. Descends(w, x)'
  <2>1. CASE x = 0
    BY <2>1 DEF Descends
  <2>2. CASE x # 0
    <3>1. v # 0 /\ v \in 1..Len(made) /\ x \in made[v].line
      BY <1>6, <2>2 DEF Descends, VersionOf
    <3>2. v \in made'[w].line /\ w # 0 /\ w \in 1..Len(made') /\ made'[v] = made[v]
      BY <1>6, <3>1 DEF DescendsNext, VersionOf, Forward, Grows
    <3>3. x \in made'[w].line
      BY <3>1, <3>2 DEF LineageSound
    <3>. QED  BY <3>2, <3>3 DEF Descends
  <2>. QED  BY <2>1, <2>2
<1>. QED  BY <1>2, <1>5, <1>7 DEF Taken, Descends

(* A baseline that may be committed still may, unless the stamp has moved. *)
LEMMA AdvancesLater ==
  ASSUME TypeOK, TypeOK', Forward, NEW d \in Devices, NEW o \in Objects,
         NEW x, VersionOf(o, x), NEW st \in Nat, Advances(d, o, x, st)
  PROVE  Advances(d, o, x, st)'
<1>1. stamp[d][o] \in Nat /\ stamp'[d][o] \in Nat
  BY DEF TypeOK
<1>2. st <= stamp'[d][o]
  BY <1>1 DEF Forward, Advances
<1>3. ASSUME st = stamp'[d][o] PROVE Descends(x, baseline[d][o])'
  <2>1. stamp'[d][o] = stamp[d][o] /\ baseline'[d][o] = baseline[d][o]
    BY <1>1, <1>3 DEF Forward, Advances
  <2>2. Descends(x, baseline[d][o])
    BY <1>3, <2>1 DEF Advances
  <2>3. PICK b : b = baseline[d][o]
    OBVIOUS
  <2>4. Descends(x, b)'
    BY <2>2, <2>3, DescendsLater DEF Forward
  <2>. QED  BY <2>1, <2>3, <2>4 DEF Descends
<1>. QED  BY <1>2, <1>3 DEF Advances

(* An upload stays true of the vault that queued it.                       *)
LEMMA UploadLater ==
  ASSUME TypeOK, LineageSound', Versions', Versions, Forward, NEW d \in Devices, NEW op,
         UploadSound(d, op)
  PROVE  UploadSound(d, op)'
<1>1. op.version \in 1..Len(made) /\ made[op.version].object \in Objects
  BY MadeTyped DEF UploadSound
<1>2. PICK o \in Objects : o = made[op.version].object
  BY <1>1
<1>3. VersionOf(o, op.baseline) /\ Descends(op.version, op.baseline) /\ Holds(d, o, op.version)
  BY <1>2 DEF UploadSound
<1>4. VersionOf(o, op.version)
  BY <1>1, <1>2 DEF VersionOf
<1>5. VersionOf(o, op.baseline)' /\ Descends(op.version, op.baseline)'
  BY <1>3, <1>4, VersionLater, DescendsLater DEF Forward
<1>6. Holds(d, o, op.version)'
  BY <1>3, HoldsLater
<1>7. op.version \in 1..Len(made') /\ made'[op.version].object = o
  BY <1>1, <1>2 DEF Forward, Grows
<1>. QED  BY <1>5, <1>6, <1>7 DEF UploadSound, VersionOf, Holds, Descends

LEMMA ItemLater ==
  ASSUME TypeOK, TypeOK', LineageSound', Versions', Versions, Forward, NEW d \in Devices,
         NEW o \in Objects, NEW r \in Locals, NEW v, VersionOf(o, v), ItemSound(r, d, o, v)
  PROVE  ItemSound(r, d, o, v)'
<1>1. r.stamp \in Nat
  BY DEF Locals
<1>2. r.at \in {"decide", "apply", "commit"} =>
        Taken(o, r.baseline)' /\ Advances(d, o, r.baseline, r.stamp)'
  BY <1>1, TakenLater, AdvancesLater DEF ItemSound, Taken
<1>3. r.at \in {"decide", "commit"} => Holds(d, o, r.baseline)'
  BY HoldsLater DEF ItemSound
<1>4. r.at = "apply" =>
        r.baseline = v /\ VersionOf(o, r.item)' /\ Descends(v, r.item)'
  BY VersionLater, DescendsLater DEF ItemSound, Forward
<1>. QED  BY <1>2, <1>3, <1>4 DEF ItemSound

(* Whatever the other actors do, what a cycle has read stays sound.         *)
LEMMA CycleLater ==
  ASSUME TypeOK, TypeOK', LineageSound', Versions', Versions, Forward,
         NEW d \in Devices, NEW r \in Locals, CycleSound(r, d)
  PROVE  CycleSound(r, d)'
<1>1. /\ r.page \in Seq(PageEntry) /\ r.batch \in Seq(Operation)
      /\ r.pending \subseteq Operation /\ r.todo \subseteq Objects
  BY DEF Locals
<1>2. ASSUME NEW i \in 1..Len(r.page)
      PROVE  Taken(r.page[i].object, r.page[i].version)' /\ r.page[i].seq <= changes'
  <2>1. r.page[i] \in PageEntry
    BY <1>1, ElementOfSeq
  <2>2. r.page[i].object \in Objects /\ r.page[i].seq \in Nat
    BY <2>1 DEF PageEntry
  <2>3. Taken(r.page[i].object, r.page[i].version) /\ r.page[i].seq <= changes
    BY DEF CycleSound
  <2>4. changes <= changes' /\ changes \in Nat /\ changes' \in Nat
    BY DEF Forward, TypeOK
  <2>5. r.page[i].seq <= changes'
    BY <2>2, <2>3, <2>4
  <2>. QED  BY <2>2, <2>3, <2>5, TakenLater
<1>3. ASSUME r.at \in {"state", "decide", "apply", "commit", "advance"}
      PROVE  r.page # <<>> /\ ItemSound(r, d, Head(r.page).object, Head(r.page).version)'
  <2>1. r.page # <<>> /\ ItemSound(r, d, Head(r.page).object, Head(r.page).version)
    BY <1>3 DEF CycleSound
  <2>2. Head(r.page) = r.page[1] /\ 1 \in 1..Len(r.page) /\ Head(r.page) \in PageEntry
    BY <1>1, <2>1
  <2>3. Head(r.page).object \in Objects
    BY <2>2 DEF PageEntry
  <2>4. VersionOf(Head(r.page).object, Head(r.page).version)
    BY <2>2 DEF CycleSound, Taken
  <2>. QED  BY <2>1, <2>3, <2>4, ItemLater
<1>4. ASSUME NEW op \in r.pending PROVE UploadSound(d, op)'
  BY UploadLater DEF CycleSound
<1>5. ASSUME NEW i \in 1..Len(r.batch) PROVE UploadSound(d, r.batch[i])'
  BY UploadLater DEF CycleSound
<1>6. ASSUME NEW o \in r.todo PROVE local'[d][o] # 0
  BY <1>1 DEF CycleSound, Forward, DescendsNext
<1>7. r.at = "enqueue" => r.item # 0 /\ \E o \in Objects : Holds(d, o, r.item)'
  BY HoldsLater DEF CycleSound
<1>8. ASSUME r.at = "ack" PROVE r.batch # <<>> /\ log'[Head(r.batch)] # None
  <2>1. r.batch # <<>> /\ log[Head(r.batch)] # None
    BY <1>8 DEF CycleSound
  <2>2. Head(r.batch) \in Operation
    BY <1>1, <2>1
  <2>. QED  BY <2>1, <2>2 DEF Forward
<1>. QED  BY <1>2, <1>3, <1>4, <1>5, <1>6, <1>7, <1>8 DEF CycleSound

-----------------------------------------------------------------------------
(* The invariant, with the values of the variables named, and what a step    *)
(* has to show to keep it.                                                  *)
Baselines == \A d \in Devices, o \in Objects : \A x \in {baseline[d][o]} :
               Holds(d, o, x) /\ Taken(o, x)
Outboxes == \A d \in Devices : \A queue \in {outbox[d]} : \A i \in 1..Len(queue) :
              UploadSound(d, queue[i])
CyclesSound == \A c \in Cycles : \A r \in {cycle[c]} : CycleSound(r, DeviceOf[c])

Inductive == TypeOK /\ LineageSound /\ Versions /\ Baselines /\ Outboxes /\ CyclesSound

LEMMA InductiveIsSyncInv == Inductive <=> SyncInv
BY DEF Inductive, SyncInv, Versions, Baselines, StoresSound, Outboxes, OutboxSound,
       CyclesSound

(* A step keeps the invariant if it moves forward and what it writes is sound. *)
LEMMA StepSound ==
  ASSUME Inductive, TypeOK', LineageSound', Versions', Forward,
         \A d \in Devices, o \in Objects : \A x \in {baseline'[d][o]} :
           x = baseline[d][o] \/ (Holds(d, o, x) /\ Taken(o, x)),
         \A d \in Devices : \A queue \in {outbox'[d]} : \A i \in 1..Len(queue) :
           queue[i] \in Range(outbox[d]) \/ UploadSound(d, queue[i]),
         \A c \in Cycles : \A s \in {cycle'[c]} :
           s = cycle[c] \/ CycleSound(s, DeviceOf[c]) \/ CycleSound(s, DeviceOf[c])'
  PROVE  Inductive'
<1>1. TypeOK /\ LineageSound /\ Versions
  BY DEF Inductive
<1>2. Baselines'
  <2>1. SUFFICES ASSUME NEW d \in Devices, NEW o \in Objects, NEW x, x = baseline'[d][o]
                 PROVE  Holds(d, o, x)' /\ Taken(o, x)'
    BY DEF Baselines
  <2>2. Holds(d, o, x) /\ Taken(o, x)
    BY <2>1 DEF Inductive, Baselines
  <2>. QED  BY <1>1, <2>2, HoldsLater, TakenLater
<1>3. Outboxes'
  <2>1. SUFFICES ASSUME NEW d \in Devices, NEW queue, queue = outbox'[d],
                        NEW i \in 1..Len(queue)
                 PROVE  UploadSound(d, queue[i])'
    BY DEF Outboxes
  <2>2. PICK old : old = outbox[d]
    OBVIOUS
  <2>3. old \in Seq(Operation)
    BY <1>1, <2>2 DEF TypeOK
  <2>4. \A j \in 1..Len(old) : UploadSound(d, old[j])
    BY <2>2 DEF Inductive, Outboxes
  <2>5. UploadSound(d, queue[i])
    <3>1. CASE queue[i] \in Range(old)
      <4>1. PICK j \in 1..Len(old) : queue[i] = old[j]
        BY <2>3, <3>1 DEF Range
      <4>. QED  BY <2>4, <4>1
    <3>. QED  BY <2>1, <2>2, <3>1
  <2>. QED  BY <1>1, <2>5, UploadLater
<1>4. CyclesSound'
  <2>1. SUFFICES ASSUME NEW c \in Cycles, NEW s, s = cycle'[c]
                 PROVE  CycleSound(s, DeviceOf[c])'
    BY DEF CyclesSound
  <2>2. s \in Locals /\ DeviceOf[c] \in Devices
    BY <2>1, VaultSyncAssumption DEF TypeOK
  <2>3. CASE CycleSound(s, DeviceOf[c])
    BY <1>1, <2>2, <2>3, CycleLater
  <2>4. CASE s = cycle[c]
    BY <2>3, <2>4 DEF Inductive, CyclesSound
  <2>. QED  BY <2>1, <2>3, <2>4
<1>. QED  BY <1>2, <1>3, <1>4 DEF Inductive

(* What does not change goes forward.                                       *)
LEMMA StaysForward ==
  ASSUME LineageSound, Grows, NEW o, NEW v, VersionOf(o, v)
  PROVE  DescendsNext(v, v)
BY DEF LineageSound, Grows, VersionOf, DescendsNext

LEMMA InductiveVersions ==
  ASSUME Inductive, NEW d \in Devices, NEW o \in Objects
  PROVE  /\ \A v \in {local[d][o], ServerVersion(o), baseline[d][o]} : VersionOf(o, v)
         /\ DeviceOf \in [Cycles -> Devices]
<1>1. VersionOf(o, local[d][o]) /\ VersionOf(o, ServerVersion(o))
  BY DEF Inductive, Versions
<1>2. PICK x : x = baseline[d][o]
  OBVIOUS
<1>3. VersionOf(o, x)
  BY <1>2 DEF Inductive, Baselines, Holds
<1>. QED  BY <1>1, <1>2, <1>3, VaultSyncAssumption DEF VersionOf

(* A step that leaves vaults and states alone moves forward with the server. *)
LEMMA QuietForward ==
  ASSUME Inductive, UNCHANGED <<made, local, state>>,
         \A o \in Objects : DescendsNext(ServerVersion(o)', ServerVersion(o)),
         \A op \in Operation : log[op] # None => log'[op] # None, changes <= changes'
  PROVE  Forward
<1>1. Grows
  BY DEF Grows
<1>2. ASSUME NEW d \in Devices, NEW o \in Objects
      PROVE  /\ DescendsNext(local'[d][o], local[d][o])
             /\ DescendsNext(baseline'[d][o], baseline[d][o])
             /\ stamp[d][o] <= stamp'[d][o]
             /\ stamp'[d][o] = stamp[d][o] => baseline'[d][o] = baseline[d][o]
  <2>1. \A v \in {local[d][o], baseline[d][o]} : VersionOf(o, v)
    BY InductiveVersions
  <2>2. \A v \in {local[d][o], baseline[d][o]} : DescendsNext(v, v)
    BY <1>1, <2>1, StaysForward DEF Inductive
  <2>3. stamp[d][o] \in Nat
    BY DEF Inductive, TypeOK
  <2>. QED  BY <2>2, <2>3 DEF state
<1>. QED  BY <1>1, <1>2 DEF Forward

(* Steps of a cycle that leave the vaults, the baselines and the server alone.*)
LEMMA DeviceStep ==
  ASSUME Inductive, UNCHANGED <<made, server, local, state>>, TypeOK',
         \A d \in Devices : \A queue \in {outbox'[d]} : \A i \in 1..Len(queue) :
           queue[i] \in Range(outbox[d]) \/ UploadSound(d, queue[i]),
         NEW c \in Cycles, NEW s \in Locals, CycleSound(s, DeviceOf[c]),
         cycle' = [cycle EXCEPT ![c] = s]
  PROVE  Inductive' /\ Forward
<1>1. LineageSound' /\ Versions'
  <2>1. LineageSound'
    BY DEF Inductive, LineageSound
  <2>2. Versions'
    BY DEF Inductive, Versions, VersionOf, ServerVersion, server
  <2>. QED  BY <2>1, <2>2
<1>2. \A o \in Objects : DescendsNext(ServerVersion(o)', ServerVersion(o))
  <2>1. TAKE o \in Objects
  <2>2. PICK v : v = ServerVersion(o)
    OBVIOUS
  <2>3. VersionOf(o, v)
    BY <2>2 DEF Inductive, Versions
  <2>4. DescendsNext(v, v)
    BY <2>3, StaysForward DEF Inductive, Grows
  <2>. QED  BY <2>2, <2>4 DEF ServerVersion, server
<1>3. Forward
  <2>1. changes <= changes'
    BY DEF server, Inductive, TypeOK
  <2>. QED  BY <1>2, <2>1, QuietForward DEF server
<1>4. \A k \in Cycles : cycle'[k] = cycle[k] \/ (k = c /\ cycle'[k] = s)
  BY DEF Inductive, TypeOK
<1>5. \A d \in Devices, o \in Objects : \A x \in {baseline'[d][o]} :
        x = baseline[d][o] \/ (Holds(d, o, x) /\ Taken(o, x))
  BY DEF state
<1>6. \A k \in Cycles : \A t \in {cycle'[k]} :
        t = cycle[k] \/ CycleSound(t, DeviceOf[k]) \/ CycleSound(t, DeviceOf[k])'
  BY <1>4
<1>. QED  BY <1>1, <1>3, <1>5, <1>6, StepSound

(* Steps that change nothing but the locals of one cycle.                   *)
Quiet == UNCHANGED <<made, server, local, state, outbox, cursor>>

LEMMA SameUploads ==
  ASSUME Inductive, UNCHANGED outbox
  PROVE  \A d \in Devices : \A queue \in {outbox'[d]} : \A i \in 1..Len(queue) :
           queue[i] \in Range(outbox[d]) \/ UploadSound(d, queue[i])
BY DEF Inductive, TypeOK, Range

LEMMA QuietStep ==
  ASSUME Inductive, Quiet, failures' \in 0..MaxFailures, NEW c \in Cycles, NEW s \in Locals,
         CycleSound(s, DeviceOf[c]), cycle' = [cycle EXCEPT ![c] = s]
  PROVE  Inductive' /\ Forward
<1>1. cycle' \in [Cycles -> Locals]
  BY DEF Inductive, TypeOK
<1>2. TypeOK'
  BY <1>1 DEF Inductive, TypeOK, Quiet, server, state
<1>. QED  BY <1>2, DeviceStep, SameUploads DEF Quiet

-----------------------------------------------------------------------------
(* The steps of a cycle.                                                    *)
LEMMA AtCycle ==
  ASSUME Inductive, NEW c \in Cycles, NEW r, r = cycle[c]
  PROVE  /\ r \in Locals /\ CycleSound(r, DeviceOf[c]) /\ DeviceOf[c] \in Devices
         /\ r.at \in Labels /\ r.page \in Seq(PageEntry) /\ r.batch \in Seq(Operation)
         /\ r.cursor \in Nat /\ r.stamp \in Nat /\ r.baseline \in Item /\ r.item \in Item
         /\ r.conflict \in Item /\ r.pending \subseteq Operation /\ r.todo \subseteq Objects
<1>1. r \in Locals /\ CycleSound(r, DeviceOf[c]) /\ DeviceOf[c] \in Devices
  BY VaultSyncAssumption DEF Inductive, TypeOK, CyclesSound
<1>. QED  BY <1>1 DEF Locals

(* The entry of the page that a cycle works on.                             *)
LEMMA AtPage ==
  ASSUME Inductive, NEW c \in Cycles, NEW r, r = cycle[c], r.page # <<>>
  PROVE  /\ Head(r.page) \in PageEntry /\ Head(r.page).object \in Objects
         /\ Head(r.page).version \in Version
         /\ Taken(Head(r.page).object, Head(r.page).version)
         /\ Head(r.page).seq \in Nat \ {0} /\ Head(r.page).seq <= changes
         /\ Tail(r.page) \in Seq(PageEntry) /\ Len(Tail(r.page)) = Len(r.page) - 1
         /\ \A i \in 1..Len(Tail(r.page)) : i + 1 \in 1..Len(r.page) /\ Tail(r.page)[i] = r.page[i + 1]
<1>1. r.page \in Seq(PageEntry) /\ CycleSound(r, DeviceOf[c])
  BY AtCycle
<1>2. /\ Head(r.page) \in PageEntry
      /\ Tail(r.page) \in Seq(PageEntry) /\ Len(Tail(r.page)) = Len(r.page) - 1
      /\ \A i \in 1..Len(Tail(r.page)) : Tail(r.page)[i] = r.page[i + 1]
  BY <1>1, HeadTailProperties
<1>3. Len(r.page) \in Nat
  BY <1>1, LenProperties
<1>4. Head(r.page) = r.page[1] /\ 1 \in 1..Len(r.page)
  BY <1>1
<1>5. Taken(Head(r.page).object, Head(r.page).version) /\ Head(r.page).seq <= changes
  BY <1>1, <1>4 DEF CycleSound
<1>. QED  BY <1>2, <1>3, <1>5 DEF PageEntry

LEMMA IdleSound ==
  ASSUME NEW d
  PROVE  Idle \in Locals /\ CycleSound(Idle, d)
<1>1. Idle \in Locals
  BY VaultSyncAssumption DEF Idle, Locals, Labels, Item
<1>2. CycleSound(Idle, d)
  BY DEF CycleSound, Idle
<1>. QED  BY <1>1, <1>2

LEMMA EndStep ==
  ASSUME Inductive, Quiet, failures' \in 0..MaxFailures, NEW c \in Cycles, End(c)
  PROVE  Inductive' /\ Forward
<1>1. cycle' = [cycle EXCEPT ![c] = Idle]
  BY DEF End
<1>. QED  BY <1>1, IdleSound, QuietStep

LEMMA StaysCounted ==
  ASSUME Inductive, UNCHANGED failures
  PROVE  failures' \in 0..MaxFailures
BY DEF Inductive, TypeOK

LEMMA AbortStep ==
  ASSUME Inductive, NEW c \in Cycles, Abort(c)
  PROVE  Inductive' /\ Forward
<1>1. failures' \in 0..MaxFailures
  BY VaultSyncAssumption DEF Abort, Fail, Inductive, TypeOK
<1>2. Quiet /\ End(c)
  BY DEF Abort, Fail, Quiet
<1>. QED  BY <1>1, <1>2, EndStep

(* The beginning of a sequence.                                             *)
LEMMA TakeProperties ==
  ASSUME NEW S, NEW s \in Seq(S), NEW limit \in Nat
  PROVE  /\ Take(s, limit) \in Seq(S)
         /\ Len(Take(s, limit)) <= limit /\ Len(Take(s, limit)) <= Len(s)
         /\ Len(Take(s, limit)) = limit \/ Len(Take(s, limit)) = Len(s)
         /\ Len(Take(s, limit)) \in Nat
         /\ \A i \in 1..Len(Take(s, limit)) : i \in 1..Len(s) /\ Take(s, limit)[i] = s[i]
<1>1. Len(s) \in Nat /\ \A i \in 1..Len(s) : s[i] \in S
  BY LenProperties, ElementOfSeq
<1>2. PICK n : n = Min({limit, Len(s)})
  OBVIOUS
<1>3. n \in {limit, Len(s)} /\ n <= limit /\ n <= Len(s)
  <2>1. \E x \in {limit, Len(s)} : \A y \in {limit, Len(s)} : x <= y
    BY <1>1
  <2>. QED  BY <1>2, <2>1 DEF Min
<1>4. n \in Nat /\ 1 \in Int
  BY <1>1, <1>3
<1>5. \A i \in 1..n : s[i] \in S
  BY <1>1, <1>3, <1>4
<1>6. /\ SubSeq(s, 1, n) \in Seq(S)
      /\ Len(SubSeq(s, 1, n)) = IF 1 <= n THEN n - 1 + 1 ELSE 0
      /\ \A i \in 1..(n - 1 + 1) : SubSeq(s, 1, n)[i] = s[1 + i - 1]
  BY <1>4, <1>5, SubSeqProperties
<1>7. Take(s, limit) = SubSeq(s, 1, n)
  BY <1>2 DEF Take
<1>8. Len(Take(s, limit)) = n
  BY <1>4, <1>6, <1>7
<1>. QED  BY <1>1, <1>3, <1>4, <1>6, <1>7, <1>8

(* The rows of a page are finitely many.                                    *)
RowsAfter(d) ==
  {[object |-> o, version |-> ServerVersion(o), seq |-> current[o].seq] :
     o \in {n \in Objects : current[n] # None /\ current[n].seq > cursor[d]}}

(* The rows that a page is taken from can be counted and sorted.           *)
LEMMA RowsFinite ==
  ASSUME NEW d
  PROVE  IsFiniteSet(RowsAfter(d)) /\ Cardinality(RowsAfter(d)) \in Nat
<1>. DEFINE due == {n \in Objects : current[n] # None /\ current[n].seq > cursor[d]}
            row == [o \in due |-> [object |-> o, version |-> ServerVersion(o), seq |-> current[o].seq]]
<1>1. IsFiniteSet(due)
  BY VaultSyncAssumption, FS_Subset
<1>2. row \in Surjection(due, RowsAfter(d))
  BY DEF RowsAfter, Surjection
<1>3. IsFiniteSet(RowsAfter(d))
  BY <1>1, <1>2, FS_Surjection
<1>. QED  BY <1>3, FS_CardinalityType

(* The fields of a row of the server.                                      *)
LEMMA CurrentTyped ==
  ASSUME TypeOK, NEW o \in Objects, current[o] # None
  PROVE  /\ current[o] \in Entry /\ current[o].seq \in Nat \ {0} /\ current[o].seq <= changes
         /\ ServerVersion(o) = current[o].mutation.ciphertext
         /\ ServerVersion(o) \in Version /\ ServerVersion(o) # 0
<1>1. current[o] \in Entry /\ current[o].seq <= changes
  BY DEF TypeOK
<1>2. current[o].seq \in Nat \ {0} /\ current[o].mutation.ciphertext \in Version
  BY <1>1 DEF Entry, Write
<1>. QED  BY <1>1, <1>2 DEF ServerVersion, Version

LEMMA ListPageStep ==
  ASSUME Inductive, NEW c \in Cycles, ListPage(c)
  PROVE  Inductive' /\ Forward
<1>. DEFINE d == DeviceOf[c]
<1>1. PICK sorted \in [1..Cardinality(RowsAfter(d)) -> RowsAfter(d)] :
        cycle' = [cycle EXCEPT
            ![c] = [Idle EXCEPT !.at = "page", !.cursor = cursor[d],
                                !.page = Take(sorted, PageLimit)]]
  BY DEF ListPage, RowsAfter
<1>2. PICK s : s = [Idle EXCEPT !.at = "page", !.cursor = cursor[d],
                                !.page = Take(sorted, PageLimit)]
  OBVIOUS
<1>3. \A row \in RowsAfter(d) :
        row \in PageEntry /\ Taken(row.object, row.version) /\ row.seq <= changes
  <2>1. TAKE row \in RowsAfter(d)
  <2>2. PICK o \in Objects : /\ current[o] # None
                             /\ row = [object |-> o, version |-> ServerVersion(o), seq |-> current[o].seq]
    BY DEF RowsAfter
  <2>3. row \in PageEntry
    BY <2>2, CurrentTyped DEF Inductive, PageEntry
  <2>4. PICK v : v = ServerVersion(o)
    OBVIOUS
  <2>5. VersionOf(o, v)
    BY <2>4 DEF Inductive, Versions
  <2>6. Taken(o, v)
    BY <2>4, <2>5, DescendsItself DEF Inductive, Taken
  <2>7. row.seq <= changes
    BY <2>2, CurrentTyped DEF Inductive
  <2>. QED  BY <2>2, <2>3, <2>4, <2>6, <2>7
<1>4. sorted \in Seq(PageEntry)
  BY <1>3, RowsFinite, IsASeq
<1>5. /\ Take(sorted, PageLimit) \in Seq(PageEntry)
      /\ \A i \in 1..Len(Take(sorted, PageLimit)) : i \in 1..Len(sorted) /\ Take(sorted, PageLimit)[i] = sorted[i]
  BY <1>4, TakeProperties, VaultSyncAssumption
<1>6. DeviceOf[c] \in Devices /\ cursor[d] \in Nat
  BY AtCycle DEF Inductive, TypeOK
<1>7. s \in Locals
  BY <1>2, <1>5, <1>6, IdleSound DEF Locals, Labels
<1>8. /\ s.at = "page" /\ s.page = Take(sorted, PageLimit) /\ s.pending = {}
      /\ s.todo = {} /\ s.batch = <<>>
  BY <1>2 DEF Idle
<1>9. ASSUME NEW i \in 1..Len(s.page)
      PROVE  Taken(s.page[i].object, s.page[i].version) /\ s.page[i].seq <= changes
  <2>1. i \in 1..Len(sorted) /\ s.page[i] = sorted[i]
    BY <1>5, <1>8
  <2>2. sorted[i] \in RowsAfter(d)
    BY <2>1, RowsFinite
  <2>. QED  BY <1>3, <2>1, <2>2
<1>10. CycleSound(s, d)
  BY <1>8, <1>9 DEF CycleSound
<1>. QED  BY <1>1, <1>2, <1>7, <1>10, QuietStep, StaysCounted DEF ListPage, Quiet

LEMMA GetObjectStep ==
  ASSUME Inductive, NEW c \in Cycles, GetObject(c)
  PROVE  Inductive' /\ Forward
<1>. PICK r : r = cycle[c]
  OBVIOUS
<1>1. Quiet /\ failures' \in 0..MaxFailures /\ r.page # <<>>
  BY StaysCounted DEF GetObject, Quiet
<1>2. CASE End(c)
  BY <1>1, <1>2, EndStep
<1>3. CASE Go(c, "state")
  <2>1. PICK s : s = [r EXCEPT !.at = "state"]
    OBVIOUS
  <2>2. cycle' = [cycle EXCEPT ![c] = s]
    BY <1>3, <2>1 DEF Go
  <2>3. s \in Locals /\ s = [r EXCEPT !.at = "state"] /\ CycleSound(r, DeviceOf[c])
    BY <2>1, AtCycle DEF Locals, Labels
  <2>4. /\ s.at = "state" /\ s.page = r.page /\ s.pending = r.pending
        /\ s.todo = r.todo /\ s.batch = r.batch
    BY <2>1, AtCycle DEF Locals
  <2>5. CycleSound(s, DeviceOf[c])
    BY <1>1, <2>3, <2>4 DEF CycleSound, ItemSound
  <2>. QED  BY <1>1, <2>2, <2>3, <2>5, QuietStep
<1>. QED  BY <1>2, <1>3 DEF GetObject

(* What is loaded is sound when it is loaded.                               *)
LEMMA LoadStateStep ==
  ASSUME Inductive, NEW c \in Cycles, LoadState(c)
  PROVE  Inductive' /\ Forward
<1>. PICK r : r = cycle[c]
  OBVIOUS
<1>. DEFINE d == DeviceOf[c]
            o == Head(r.page).object
<1>1. Quiet /\ failures' \in 0..MaxFailures /\ r.at = "state"
  BY StaysCounted DEF LoadState, Quiet
<1>2. r \in Locals /\ CycleSound(r, d) /\ d \in Devices
  BY AtCycle
<1>3. r.page # <<>>
  BY <1>1, <1>2 DEF CycleSound
<1>4. o \in Objects
  BY <1>3, AtPage
<1>5. PICK b : b = baseline[d][o]
  OBVIOUS
<1>6. b \in Item /\ stamp[d][o] \in Nat
  BY <1>2, <1>4, <1>5 DEF Inductive, TypeOK
<1>7. PICK s : s = [r EXCEPT !.at = "decide", !.stamp = stamp[d][o], !.baseline = b]
  OBVIOUS
<1>8. cycle' = [cycle EXCEPT ![c] = s]
  BY <1>5, <1>7 DEF LoadState
<1>9. /\ s \in Locals /\ s.at = "decide" /\ s.page = r.page /\ s.pending = r.pending
      /\ s.todo = r.todo /\ s.batch = r.batch /\ s.stamp = stamp[d][o] /\ s.baseline = b
  BY <1>2, <1>6, <1>7 DEF Locals, Labels
<1>10. Holds(d, o, b) /\ Taken(o, b)
  BY <1>2, <1>4, <1>5 DEF Inductive, Baselines
<1>11. Advances(d, o, b, stamp[d][o])
  <2>1. Descends(b, b)
    BY <1>10, DescendsItself DEF Inductive, Holds
  <2>2. Descends(b, baseline[d][o])
    BY <1>5, <2>1, Zenon
  <2>3. stamp[d][o] <= stamp[d][o]
    <3>. PICK n : n = stamp[d][o]
      OBVIOUS
    <3>1. n \in Nat => n <= n
      OBVIOUS
    <3>. QED  BY <1>6, <3>1
  <2>. QED  BY <2>2, <2>3, Zenon DEF Advances
<1>12. ItemSound(s, d, o, Head(r.page).version)
  BY <1>9, <1>10, <1>11 DEF ItemSound
<1>13. CycleSound(s, d)
  BY <1>2, <1>3, <1>9, <1>12 DEF CycleSound
<1>. QED  BY <1>1, <1>8, <1>9, <1>13, QuietStep

(* A pulled version that is not refused grew from the loaded baseline: both  *)
(* were taken by the server.                                                *)
LEMMA PulledGrewFromBaseline ==
  ASSUME TypeOK, LineageSound, Versions, NEW o \in Objects, NEW base, NEW remote \in Version,
         Taken(o, base), Taken(o, remote), ~Rejected(base, remote)
  PROVE  Descends(remote, base)
<1>1. PICK v : v = ServerVersion(o)
  OBVIOUS
<1>2. /\ VersionOf(o, v) /\ VersionOf(o, base) /\ VersionOf(o, remote)
      /\ Descends(v, base) /\ Descends(v, remote)
  BY <1>1 DEF Versions, Taken
<1>3. CASE base = 0
  BY <1>3 DEF Descends
<1>4. CASE base # 0
  <2>1. base \in 1..Len(made) /\ remote \in 1..Len(made)
    BY <1>2, <1>4 DEF VersionOf, Version
  <2>2. Revision(base) \in Nat /\ Revision(remote) \in Nat
    BY <2>1, MadeTyped DEF Revision
  <2>3. remote = base \/ Revision(base) < Revision(remote)
    BY <1>4, <2>2 DEF Rejected
  <2>. QED  BY <1>2, <2>3, DescendsCompared
<1>. QED  BY <1>3, <1>4

LEMMA DecideStep ==
  ASSUME Inductive, NEW c \in Cycles, Decide(c)
  PROVE  Inductive' /\ Forward
<1>. PICK r : r = cycle[c]
  OBVIOUS
<1>. DEFINE d == DeviceOf[c]
            head == Head(r.page)
            o == head.object
            b == r.baseline
<1>1. Quiet /\ failures' \in 0..MaxFailures /\ r.at = "decide"
  BY StaysCounted DEF Decide, Quiet
<1>2. r \in Locals /\ CycleSound(r, d) /\ d \in Devices
  BY AtCycle
<1>3. r.page # <<>> /\ ItemSound(r, d, o, head.version)
  BY <1>1, <1>2 DEF CycleSound
<1>4. o \in Objects /\ head.version \in Version /\ Taken(o, head.version)
  BY <1>3, AtPage
<1>5. Taken(o, b) /\ Advances(d, o, b, r.stamp) /\ Holds(d, o, b)
  BY <1>1, <1>3 DEF ItemSound
<1>6. PICK i : i = local[d][o]
  OBVIOUS
<1>7. i \in Item /\ VersionOf(o, i) /\ TypeOK /\ LineageSound /\ Versions
  BY <1>2, <1>4, <1>6 DEF Inductive, TypeOK, Versions
<1>. DEFINE decision == Reconcile(i, b, head.version)
            Next1(label, newBase, candidate) ==
              cycle' = [cycle EXCEPT ![c].at = label, ![c].item = i,
                                     ![c].baseline = newBase, ![c].conflict = candidate]
<1>8. \/ End(c)
      \/ decision = "apply_remote" /\ Next1("apply", head.version, 0)
      \/ decision = "unchanged" /\ Next1("commit", head.version, 0)
      \/ decision = "conflict" /\ Next1("commit", b, head.version)
      \/ decision = "keep_local" /\ Next1("advance", b, 0)
  <2>1. decision \in {"reject", "apply_remote", "unchanged", "conflict", "keep_local"}
    BY DEF Reconcile
  <2>2. PICK e : e = decision
    OBVIOUS
  <2>3. CASE e = "reject" \/ e = "apply_remote" \/ e = "unchanged"
    BY <1>6, <2>2, <2>3, Zenon DEF Decide
  <2>4. CASE e = "conflict" \/ e = "keep_local"
    BY <1>6, <2>2, <2>4, Zenon DEF Decide
  <2>. QED  BY <2>1, <2>2, <2>3, <2>4
<1>9. ASSUME NEW label \in Labels, NEW newBase \in Item, NEW candidate \in Item,
             Next1(label, newBase, candidate), label \in {"apply", "commit", "advance"},
             label # "advance" => Taken(o, newBase) /\ Advances(d, o, newBase, r.stamp),
             label = "commit" => Holds(d, o, newBase),
             label = "apply" => newBase = head.version /\ Descends(head.version, i)
      PROVE  Inductive' /\ Forward
  <2>1. PICK s : s = [r EXCEPT !.at = label, !.item = i, !.baseline = newBase,
                               !.conflict = candidate]
    OBVIOUS
  <2>2. cycle' = [cycle EXCEPT ![c] = s]
    BY <1>9, <2>1
  <2>3. /\ s \in Locals /\ s.at = label /\ s.page = r.page /\ s.pending = r.pending
        /\ s.todo = r.todo /\ s.batch = r.batch /\ s.stamp = r.stamp
        /\ s.baseline = newBase /\ s.item = i
    BY <1>2, <1>7, <2>1 DEF Locals
  <2>4. ItemSound(s, d, o, head.version)
    BY <1>7, <1>9, <2>3 DEF ItemSound
  <2>5. CycleSound(s, d)
    BY <1>2, <1>3, <1>9, <2>3, <2>4 DEF CycleSound
  <2>. QED  BY <1>1, <2>2, <2>3, <2>5, QuietStep
<1>10. CASE End(c)
  BY <1>1, <1>10, EndStep
<1>11. b \in Item /\ head.version \in Item /\ 0 \in Item
       /\ {"apply", "commit", "advance"} \subseteq Labels
  BY <1>4, AtCycle, VaultSyncAssumption DEF Item, Version, Labels
<1>12. ASSUME decision \in {"apply_remote", "unchanged"}
       PROVE  Descends(head.version, b) /\ Advances(d, o, head.version, r.stamp)
  <2>1. ~Rejected(b, head.version)
    BY <1>12 DEF Reconcile
  <2>2. Descends(head.version, b)
    BY <1>4, <1>5, <1>7, <2>1, PulledGrewFromBaseline
  <2>3. VersionOf(o, head.version)
    BY <1>4 DEF Taken
  <2>4. PICK old : old = baseline[d][o]
    OBVIOUS
  <2>5. r.stamp = stamp[d][o] => Descends(head.version, old)
    BY <1>5, <1>7, <2>2, <2>3, <2>4, DescendsTransitive DEF Advances
  <2>. QED  BY <1>5, <2>2, <2>4, <2>5 DEF Advances
<1>13. CASE decision = "apply_remote" /\ Next1("apply", head.version, 0)
  <2>1. i = b
    BY <1>13 DEF Reconcile
  <2>. QED  BY <1>4, <1>9, <1>11, <1>12, <1>13, <2>1
<1>14. CASE decision = "unchanged" /\ Next1("commit", head.version, 0)
  <2>1. i = head.version
    BY <1>14 DEF Reconcile
  <2>2. Holds(d, o, head.version)
    BY <1>6, <1>7, <2>1, DescendsItself DEF Holds
  <2>. QED  BY <1>4, <1>9, <1>11, <1>12, <1>14, <2>2
<1>15. CASE decision = "conflict" /\ Next1("commit", b, head.version)
  BY <1>5, <1>9, <1>11, <1>15
<1>16. CASE decision = "keep_local" /\ Next1("advance", b, 0)
  BY <1>9, <1>11, <1>16
<1>. QED  BY <1>8, <1>10, <1>13, <1>14, <1>15, <1>16

(* The vault takes the pulled version only in place of the one that was      *)
(* compared, from which it grew.                                            *)
LEMMA ApplyRemoteStep ==
  ASSUME Inductive, NEW c \in Cycles, ApplyRemote(c)
  PROVE  Inductive' /\ Forward
<1>. PICK r : r = cycle[c]
  OBVIOUS
<1>. DEFINE d == DeviceOf[c]
            o == Head(r.page).object
            v == Head(r.page).version
<1>1. r \in Locals /\ CycleSound(r, d) /\ d \in Devices /\ r.at = "apply"
  BY AtCycle DEF ApplyRemote
<1>2. r.page # <<>> /\ ItemSound(r, d, o, v)
  BY <1>1 DEF CycleSound
<1>3. o \in Objects /\ v \in Version /\ Taken(o, v)
  BY <1>2, AtPage
<1>4. /\ Taken(o, r.baseline) /\ Advances(d, o, r.baseline, r.stamp) /\ r.baseline = v
      /\ VersionOf(o, r.item) /\ Descends(v, r.item)
  BY <1>1, <1>2 DEF ItemSound
<1>5. CASE End(c) /\ UNCHANGED local
  BY <1>5, StaysCounted, EndStep DEF ApplyRemote, Quiet
<1>6. CASE /\ local[d][o] = r.item
           /\ local' = [local EXCEPT ![d][o] = v]
           /\ Go(c, "commit")
  <2>1. /\ TypeOK /\ LineageSound /\ Versions /\ Baselines /\ Outboxes /\ CyclesSound
    BY DEF Inductive
  <2>2. UNCHANGED <<made, current, log, changes, baseline, conflict, stamp, outbox, cursor, failures>>
    BY DEF ApplyRemote, server, state
  <2>3. PICK s : s = [r EXCEPT !.at = "commit"]
    OBVIOUS
  <2>4. cycle' = [cycle EXCEPT ![c] = s]
    BY <1>6, <2>3 DEF Go
  <2>5. /\ s \in Locals /\ s.at = "commit" /\ s.page = r.page /\ s.pending = r.pending
        /\ s.todo = r.todo /\ s.batch = r.batch /\ s.stamp = r.stamp /\ s.baseline = r.baseline
    BY <1>1, <2>3 DEF Locals, Labels
  <2>6. \A d2 \in Devices, o2 \in Objects :
          local'[d2][o2] = IF d2 = d /\ o2 = o THEN v ELSE local[d2][o2]
    BY <1>1, <1>3, <1>6, <2>1 DEF TypeOK
  <2>7. local' \in [Devices -> [Objects -> Item]]
    BY <1>1, <1>3, <1>6, <2>1 DEF TypeOK, Item, Version
  <2>8. cycle' \in [Cycles -> Locals]
    BY <2>1, <2>4, <2>5 DEF TypeOK
  <2>9. TypeOK'
    BY <2>1, <2>2, <2>7, <2>8 DEF TypeOK
  <2>10. LineageSound'
    BY <2>1, <2>2 DEF LineageSound
  <2>11. Versions'
    <3>1. \A o2 \in Objects : VersionOf(o2, ServerVersion(o2))'
      BY <2>1, <2>2 DEF Versions, VersionOf, ServerVersion
    <3>2. VersionOf(o, v)
      BY <1>3 DEF Taken
    <3>3. \A d2 \in Devices, o2 \in Objects : VersionOf(o2, local[d2][o2])'
      BY <2>1, <2>2, <2>6, <3>2 DEF Versions, VersionOf
    <3>. QED  BY <3>1, <3>3 DEF Versions
  <2>12. Forward
    <3>1. Grows /\ changes <= changes'
      BY <2>1, <2>2 DEF Grows, TypeOK
    <3>2. ASSUME NEW d2 \in Devices, NEW o2 \in Objects
          PROVE  /\ DescendsNext(local'[d2][o2], local[d2][o2])
                 /\ DescendsNext(ServerVersion(o2)', ServerVersion(o2))
                 /\ DescendsNext(baseline'[d2][o2], baseline[d2][o2])
      <4>1. \A w \in {local[d2][o2], ServerVersion(o2), baseline[d2][o2]} : DescendsNext(w, w)
        BY <2>1, <3>1, InductiveVersions, StaysForward
      <4>2. DescendsNext(v, r.item)
        BY <1>4, <2>2 DEF Descends, DescendsNext
      <4>3. ServerVersion(o2)' = ServerVersion(o2)
        BY <2>2 DEF ServerVersion
      <4>. QED  BY <1>6, <2>2, <2>6, <4>1, <4>2, <4>3
    <3>3. \A d2 \in Devices, o2 \in Objects : stamp[d2][o2] \in Nat
      BY <2>1 DEF TypeOK
    <3>. QED  BY <2>2, <3>1, <3>2, <3>3 DEF Forward
  <2>13. CycleSound(s, d)'
    <3>1. CycleSound(r, d)' /\ Taken(o, v)' /\ Advances(d, o, v, r.stamp)'
      BY <1>1, <1>3, <1>4, <2>1, <2>9, <2>10, <2>11, <2>12, CycleLater, TakenLater,
         AdvancesLater, AtCycle DEF Taken
    <3>2. Holds(d, o, v)'
      <4>1. VersionOf(o, v) /\ local'[d][o] = v
        BY <1>1, <1>3, <2>6 DEF Taken
      <4>2. VersionOf(o, v)' /\ Descends(v, v)'
        BY <2>1, <2>12, <4>1, VersionLater, DescendsLater, DescendsItself DEF Forward
      <4>. QED  BY <4>1, <4>2 DEF Holds, Descends
    <3>3. ItemSound(s, d, o, v)'
      BY <1>4, <2>5, <3>1, <3>2 DEF ItemSound
    <3>. QED  BY <1>2, <2>5, <3>1, <3>3 DEF CycleSound
  <2>14. \A k \in Cycles : \A t \in {cycle'[k]} :
           t = cycle[k] \/ CycleSound(t, DeviceOf[k]) \/ CycleSound(t, DeviceOf[k])'
    BY <2>1, <2>4, <2>13 DEF TypeOK
  <2>15. \A d2 \in Devices : \A queue \in {outbox'[d2]} : \A i \in 1..Len(queue) :
           queue[i] \in Range(outbox[d2]) \/ UploadSound(d2, queue[i])
    BY <2>1, <2>2 DEF TypeOK, Range
  <2>. QED  BY <2>2, <2>9, <2>10, <2>11, <2>12, <2>14, <2>15, StepSound
<1>. QED  BY <1>5, <1>6 DEF ApplyRemote

(* A baseline that is committed against the stamp it was loaded with grew    *)
(* from the stored one.                                                     *)
LEMMA CommitStateStep ==
  ASSUME Inductive, NEW c \in Cycles, CommitState(c)
  PROVE  Inductive' /\ Forward
<1>. PICK r : r = cycle[c]
  OBVIOUS
<1>. DEFINE d == DeviceOf[c]
            o == Head(r.page).object
            v == Head(r.page).version
            b == r.baseline
<1>1. /\ r \in Locals /\ CycleSound(r, d) /\ d \in Devices /\ r.at = "commit"
      /\ b \in Item /\ r.conflict \in Item
  BY AtCycle DEF CommitState
<1>2. r.page # <<>> /\ ItemSound(r, d, o, v)
  BY <1>1 DEF CycleSound
<1>3. o \in Objects
  BY <1>2, AtPage
<1>4. Taken(o, b) /\ Advances(d, o, b, r.stamp) /\ Holds(d, o, b)
  BY <1>1, <1>2 DEF ItemSound
<1>5. CASE End(c) /\ UNCHANGED state
  BY <1>5, StaysCounted, EndStep DEF CommitState, Quiet
<1>6. CASE /\ stamp[d][o] = r.stamp
           /\ baseline' = [baseline EXCEPT ![d][o] = b]
           /\ conflict' = [conflict EXCEPT ![d][o] = r.conflict]
           /\ stamp' = [stamp EXCEPT ![d][o] = @ + 1]
           /\ Go(c, "advance")
  <2>1. /\ TypeOK /\ LineageSound /\ Versions /\ Baselines /\ Outboxes /\ CyclesSound
    BY DEF Inductive
  <2>2. UNCHANGED <<made, current, log, changes, local, outbox, cursor, failures>>
    BY DEF CommitState, server
  <2>3. PICK s : s = [r EXCEPT !.at = "advance"]
    OBVIOUS
  <2>4. cycle' = [cycle EXCEPT ![c] = s]
    BY <1>6, <2>3 DEF Go
  <2>5. /\ s \in Locals /\ s.at = "advance" /\ s.page = r.page /\ s.pending = r.pending
        /\ s.todo = r.todo /\ s.batch = r.batch
    BY <1>1, <2>3 DEF Locals, Labels
  <2>6. \A d2 \in Devices, o2 \in Objects :
          /\ baseline'[d2][o2] = IF d2 = d /\ o2 = o THEN b ELSE baseline[d2][o2]
          /\ stamp'[d2][o2] = IF d2 = d /\ o2 = o THEN stamp[d2][o2] + 1 ELSE stamp[d2][o2]
    BY <1>1, <1>3, <1>6, <2>1 DEF TypeOK
  <2>7. /\ baseline' \in [Devices -> [Objects -> Item]]
        /\ conflict' \in [Devices -> [Objects -> Item]]
        /\ stamp' \in [Devices -> [Objects -> Nat]]
    <3>1. /\ baseline' = [baseline EXCEPT ![d][o] = b]
          /\ conflict' = [conflict EXCEPT ![d][o] = r.conflict]
          /\ stamp' = [stamp EXCEPT ![d][o] = @ + 1]
      BY <1>6
    <3>2. /\ baseline \in [Devices -> [Objects -> Item]]
          /\ conflict \in [Devices -> [Objects -> Item]]
          /\ stamp \in [Devices -> [Objects -> Nat]]
      BY <2>1 DEF TypeOK
    <3>. HIDE DEF d, o, b
    <3>3. baseline' \in [Devices -> [Objects -> Item]]
      BY <1>1, <1>3, <3>1, <3>2
    <3>4. conflict' \in [Devices -> [Objects -> Item]]
      BY <1>1, <1>3, <3>1, <3>2
    <3>5. stamp' \in [Devices -> [Objects -> Nat]]
      BY <1>1, <1>3, <3>1, <3>2
    <3>. QED
      BY <3>3, <3>4, <3>5
  <2>8. cycle' \in [Cycles -> Locals]
    BY <2>1, <2>4, <2>5 DEF TypeOK
  <2>9. TypeOK'
    BY <2>1, <2>2, <2>7, <2>8 DEF TypeOK
  <2>10. LineageSound'
    BY <2>1, <2>2 DEF LineageSound
  <2>11. Versions'
    BY <2>1, <2>2 DEF Versions, VersionOf, ServerVersion
  <2>12. Forward
    <3>1. Grows /\ changes <= changes'
      BY <2>1, <2>2 DEF Grows, TypeOK
    <3>2. ASSUME NEW d2 \in Devices, NEW o2 \in Objects
          PROVE  /\ DescendsNext(local'[d2][o2], local[d2][o2])
                 /\ DescendsNext(ServerVersion(o2)', ServerVersion(o2))
                 /\ DescendsNext(baseline'[d2][o2], baseline[d2][o2])
      <4>1. \A w \in {local[d2][o2], ServerVersion(o2), baseline[d2][o2]} : DescendsNext(w, w)
        BY <2>1, <3>1, InductiveVersions, StaysForward
      <4>2. DescendsNext(b, baseline[d][o])
        BY <1>4, <1>6, <2>2 DEF Advances, Descends, DescendsNext
      <4>3. ServerVersion(o2)' = ServerVersion(o2)
        BY <2>2 DEF ServerVersion
      <4>. QED  BY <2>2, <2>6, <4>1, <4>2, <4>3
    <3>3. \A d2 \in Devices, o2 \in Objects :
            /\ stamp[d2][o2] <= stamp'[d2][o2]
            /\ stamp'[d2][o2] = stamp[d2][o2] => baseline'[d2][o2] = baseline[d2][o2]
      <4>1. \A d2 \in Devices, o2 \in Objects : stamp[d2][o2] \in Nat
        BY <2>1 DEF TypeOK
      <4>. QED  BY <2>6, <4>1
    <3>. QED  BY <2>2, <3>1, <3>2, <3>3 DEF Forward
  <2>13. CycleSound(s, d)
    BY <1>1, <1>2, <2>5 DEF CycleSound, ItemSound
  <2>14. \A k \in Cycles : \A t \in {cycle'[k]} :
           t = cycle[k] \/ CycleSound(t, DeviceOf[k]) \/ CycleSound(t, DeviceOf[k])'
    BY <2>1, <2>4, <2>13 DEF TypeOK
  <2>15. \A d2 \in Devices, o2 \in Objects : \A x \in {baseline'[d2][o2]} :
           x = baseline[d2][o2] \/ (Holds(d2, o2, x) /\ Taken(o2, x))
    BY <1>4, <2>6
  <2>. QED  BY <2>1, <2>2, <2>9, <2>10, <2>11, <2>12, <2>14, <2>15, StepSound, SameUploads
<1>. QED  BY <1>5, <1>6 DEF CommitState

LEMMA AdvanceStep ==
  ASSUME Inductive, NEW c \in Cycles, Advance(c)
  PROVE  Inductive' /\ Forward
<1>. PICK r : r = cycle[c]
  OBVIOUS
<1>. DEFINE d == DeviceOf[c]
            seq == Head(r.page).seq
<1>1. r \in Locals /\ CycleSound(r, d) /\ d \in Devices /\ r.at = "advance"
  BY AtCycle DEF Advance
<1>2. r.page # <<>>
  BY <1>1 DEF CycleSound
<1>3. /\ seq \in Nat /\ seq <= changes /\ Tail(r.page) \in Seq(PageEntry)
      /\ \A i \in 1..Len(Tail(r.page)) : i + 1 \in 1..Len(r.page) /\ Tail(r.page)[i] = r.page[i + 1]
  BY <1>2, AtPage
<1>4. CASE End(c) /\ UNCHANGED cursor
  BY <1>4, StaysCounted, EndStep DEF Advance, Quiet
<1>5. CASE /\ cursor' = [cursor EXCEPT ![d] = seq]
           /\ cycle' = [cycle EXCEPT
                ![c] = [Idle EXCEPT !.at = "page", !.cursor = seq, !.page = Tail(r.page)]]
  <2>1. PICK s : s = [Idle EXCEPT !.at = "page", !.cursor = seq, !.page = Tail(r.page)]
    OBVIOUS
  <2>2. s \in Locals
    BY <1>3, <2>1, IdleSound DEF Locals, Labels
  <2>3. /\ s.at = "page" /\ s.page = Tail(r.page) /\ s.pending = {}
        /\ s.todo = {} /\ s.batch = <<>>
    BY <2>1 DEF Idle
  <2>4. ASSUME NEW i \in 1..Len(s.page)
        PROVE  Taken(s.page[i].object, s.page[i].version) /\ s.page[i].seq <= changes
    BY <1>1, <1>3, <2>3 DEF CycleSound
  <2>5. CycleSound(s, d)
    BY <2>3, <2>4 DEF CycleSound
  <2>6. cycle' = [cycle EXCEPT ![c] = s]
    BY <1>5, <2>1
  <2>7. TypeOK'
    <3>1. UNCHANGED <<made, current, log, changes, local, baseline, conflict, stamp, outbox, failures>>
      BY DEF Advance, server, state
    <3>2. cycle' \in [Cycles -> Locals]
      BY <2>2, <2>6 DEF Inductive, TypeOK
    <3>3. cursor' \in [Devices -> 0..changes]
      <4>1. cursor \in [Devices -> 0..changes] /\ changes \in Nat
        BY DEF Inductive, TypeOK
      <4>2. seq \in 0..changes
        BY <1>3, <4>1
      <4>. QED  BY <1>5, <4>1, <4>2
    <3>. QED  BY <3>1, <3>2, <3>3 DEF Inductive, TypeOK
  <2>. QED  BY <2>2, <2>5, <2>6, <2>7, DeviceStep, SameUploads DEF Advance
<1>. QED  BY <1>4, <1>5 DEF Advance

LEMMA StartHarvestStep ==
  ASSUME Inductive, NEW c \in Cycles, StartHarvest(c)
  PROVE  Inductive' /\ Forward
<1>. PICK r : r = cycle[c]
  OBVIOUS
<1>. PICK queue : queue = outbox[DeviceOf[c]]
  OBVIOUS
<1>. DEFINE d == DeviceOf[c]
            todo == {o \in Objects : local[d][o] # 0}
<1>1. /\ r \in Locals /\ CycleSound(r, d) /\ d \in Devices /\ r.at = "page" /\ r.page = <<>>
      /\ r.batch \in Seq(Operation)
  BY AtCycle DEF StartHarvest
<1>2. queue \in Seq(Operation)
  BY <1>1 DEF Inductive, TypeOK
<1>3. Range(queue) \subseteq Operation /\ todo \subseteq Objects
  BY <1>2 DEF Range
<1>4. PICK s : s = [r EXCEPT !.at = "harvest", !.pending = Range(queue), !.todo = todo]
  OBVIOUS
<1>5. /\ s \in Locals /\ s.at = "harvest" /\ s.page = r.page /\ s.pending = Range(queue)
      /\ s.todo = todo /\ s.batch = r.batch
  BY <1>1, <1>3, <1>4 DEF Locals, Labels
<1>6. cycle' = [cycle EXCEPT ![c] = s]
  BY <1>4 DEF StartHarvest
<1>7. \A op \in Range(queue) : UploadSound(d, op)
  <2>1. \A i \in 1..Len(queue) : UploadSound(d, queue[i])
    BY <1>1 DEF Inductive, Outboxes
  <2>. QED  BY <1>2, <2>1 DEF Range
<1>8. CycleSound(s, d)
  BY <1>1, <1>5, <1>7 DEF CycleSound
<1>. QED  BY <1>5, <1>6, <1>8, QuietStep, StaysCounted DEF StartHarvest, Quiet

LEMMA LoadItemStep ==
  ASSUME Inductive, NEW c \in Cycles, LoadItem(c)
  PROVE  Inductive' /\ Forward
<1>. PICK r : r = cycle[c]
  OBVIOUS
<1>. DEFINE d == DeviceOf[c]
<1>1. /\ r \in Locals /\ CycleSound(r, d) /\ d \in Devices /\ r.at = "harvest"
      /\ r.todo \subseteq Objects
  BY AtCycle DEF LoadItem
<1>2. PICK o \in r.todo :
        cycle' = [cycle EXCEPT ![c].at = "enqueue", ![c].todo = @ \ {o}, ![c].item = local[d][o]]
  BY DEF LoadItem
<1>3. PICK i : i = local[d][o]
  OBVIOUS
<1>4. o \in Objects /\ i \in Item /\ i # 0
  BY <1>1, <1>3 DEF Inductive, TypeOK, CycleSound
<1>5. PICK s : s = [r EXCEPT !.at = "enqueue", !.todo = r.todo \ {o}, !.item = i]
  OBVIOUS
<1>6. /\ s \in Locals /\ s.at = "enqueue" /\ s.page = r.page /\ s.pending = r.pending
      /\ s.todo = r.todo \ {o} /\ s.batch = r.batch /\ s.item = i
  BY <1>1, <1>4, <1>5 DEF Locals, Labels
<1>7. cycle' = [cycle EXCEPT ![c] = s]
  BY <1>2, <1>3, <1>5
<1>8. Holds(d, o, i)
  <2>1. VersionOf(o, i)
    BY <1>1, <1>3, <1>4 DEF Inductive, Versions
  <2>. QED  BY <1>3, <2>1, DescendsItself DEF Inductive, Holds
<1>9. CycleSound(s, d)
  BY <1>1, <1>4, <1>6, <1>8 DEF CycleSound
<1>. QED  BY <1>6, <1>7, <1>9, QuietStep, StaysCounted DEF LoadItem, Quiet

(* A queued chain leads from the baseline nowhere but to what is queued.     *)
LEMMA AdvanceQueuedLeads ==
  ASSUME NEW base, NEW queued
  PROVE  \/ AdvanceQueued(base, queued) \in {None, base}
         \/ \E op \in queued : AdvanceQueued(base, queued) = op.version
<1>. DEFINE reached(chain, k) == IF k = 0 THEN base ELSE chain[k].version
            remaining(chain, k) == {op \in queued : \A i \in 0..k : op.version # reached(chain, i)}
            Consumes(chain) ==
              /\ \A k \in 1..Len(chain) :
                   {op \in remaining(chain, k - 1) : op.baseline = reached(chain, k - 1)} = {chain[k]}
              /\ remaining(chain, Len(chain)) = {}
            all == UNION {[1..n -> queued] : n \in 0..Cardinality(queued)}
            chains == {chain \in all : Consumes(chain)}
<1>1. AdvanceQueued(base, queued) =
        IF chains = {} THEN None
        ELSE LET chain == CHOOSE chain \in chains : TRUE IN reached(chain, Len(chain))
  BY DEF AdvanceQueued
<1>. HIDE DEF Consumes
<1>2. CASE chains # {}
  <2>1. PICK chain : chain = CHOOSE x \in chains : TRUE
    OBVIOUS
  <2>2. chain \in chains
    BY <1>2, <2>1
  <2>3. PICK n \in 0..Cardinality(queued) : chain \in [1..n -> queued]
    BY <2>2
  <2>4. Len(chain) = n /\ n \in Nat
    BY <2>3
  <2>5. AdvanceQueued(base, queued) = reached(chain, n)
    BY <1>1, <1>2, <2>1, <2>4
  <2>6. n # 0 => chain[n] \in queued
    BY <2>3, <2>4
  <2>. QED  BY <2>5, <2>6
<1>. QED  BY <1>1, <1>2

(* The baseline of a harvested upload is one the vault has grown from.       *)
LEMMA QueuedHeld ==
  ASSUME TypeOK, Baselines, NEW d \in Devices, NEW o \in Objects,
         NEW pending \in SUBSET Operation, \A op \in pending : UploadSound(d, op),
         NEW queued \in SUBSET pending, \A op \in queued : made[op.version].object = o,
         NEW base, base = AdvanceQueued(baseline[d][o], queued), base # None
  PROVE  base \in Item /\ Holds(d, o, base)
<1>1. PICK b : b = baseline[d][o]
  OBVIOUS
<1>2. b \in Item /\ Holds(d, o, b)
  BY <1>1 DEF TypeOK, Baselines
<1>3. base = AdvanceQueued(b, queued)
  BY <1>1
<1>4. base = b \/ \E op \in queued : base = op.version
  BY <1>3, AdvanceQueuedLeads
<1>5. ASSUME NEW op \in queued, base = op.version PROVE base \in Item /\ Holds(d, o, base)
  <2>1. op \in Operation /\ UploadSound(d, op) /\ made[op.version].object = o
    OBVIOUS
  <2>2. base \in Item
    BY <1>5, <2>1 DEF Operation, Item, Version
  <2>3. Holds(d, o, base)
    BY <1>5, <2>1 DEF UploadSound, Holds, VersionOf
  <2>. QED  BY <2>2, <2>3
<1>. QED  BY <1>2, <1>4, <1>5

(* Of two versions of the vault's history the newer one grew from the other.*)
LEMMA HarvestedSound ==
  ASSUME TypeOK, LineageSound, Versions, NEW d \in Devices, NEW o \in Objects,
         NEW item \in Item, item # 0, Holds(d, o, item),
         NEW base \in Item, Holds(d, o, base), Revision(item) > Revision(base),
         NEW op, op = [version |-> item, baseline |-> base]
  PROVE  op \in Operation /\ UploadSound(d, op)
<1>1. VersionOf(o, item) /\ VersionOf(o, base)
  BY DEF Holds
<1>2. item \in 1..Len(made) /\ made[item].object = o
  BY <1>1 DEF VersionOf
<1>3. op \in Operation /\ op.version = item /\ op.baseline = base
  <2>1. item \in Version
    BY DEF Item, Version
  <2>. QED  BY <2>1 DEF Operation
<1>4. PICK l : l = local[d][o]
  OBVIOUS
<1>5. VersionOf(o, l) /\ Descends(l, item) /\ Descends(l, base)
  BY <1>4 DEF Versions, Holds
<1>6. Revision(item) \in Nat
  BY <1>2, MadeTyped DEF Revision
<1>7. Revision(base) \in Nat
  BY <1>1, MadeTyped DEF Revision, VersionOf
<1>8. Revision(base) < Revision(item)
  BY <1>6, <1>7
<1>9. Descends(item, base)
  BY <1>1, <1>5, <1>8, DescendsCompared
<1>10. UploadSound(d, op)
  BY <1>1, <1>2, <1>3, <1>9 DEF UploadSound, Holds, VersionOf
<1>. QED  BY <1>3, <1>10

(* The outbox with one more sound upload.                                   *)
LEMMA AppendUpload ==
  ASSUME TypeOK, NEW d \in Devices, NEW op \in Operation, UploadSound(d, op),
         Len(outbox[d]) < OutboxLimit, outbox' = [outbox EXCEPT ![d] = Append(@, op)]
  PROVE  /\ outbox' \in [Devices -> Seq(Operation)]
         /\ \A k \in Devices : Len(outbox'[k]) <= OutboxLimit
         /\ \A k \in Devices : \A queue \in {outbox'[k]} : \A i \in 1..Len(queue) :
              queue[i] \in Range(outbox[k]) \/ UploadSound(k, queue[i])
<1>1. PICK old : old = outbox[d]
  OBVIOUS
<1>2. PICK new : new = Append(old, op)
  OBVIOUS
<1>3. old \in Seq(Operation) /\ Len(old) \in Nat /\ Len(old) < OutboxLimit
  BY <1>1, LenProperties DEF TypeOK
<1>4. /\ new \in Seq(Operation) /\ Len(new) = Len(old) + 1 /\ new[Len(old) + 1] = op
      /\ \A i \in 1..Len(old) : new[i] = old[i]
  BY <1>2, <1>3, AppendProperties
<1>5. outbox' = [outbox EXCEPT ![d] = new]
  BY <1>1, <1>2
<1>6. outbox' \in [Devices -> Seq(Operation)]
  BY <1>4, <1>5 DEF TypeOK
<1>7. \A k \in Devices : outbox'[k] = IF k = d THEN new ELSE outbox[k]
  BY <1>5 DEF TypeOK
<1>8. Len(new) <= OutboxLimit
  BY <1>3, <1>4, VaultSyncAssumption
<1>9. \A k \in Devices : Len(outbox'[k]) <= OutboxLimit
  BY <1>7, <1>8 DEF TypeOK
<1>10. ASSUME NEW k \in Devices, NEW queue, queue = outbox'[k], NEW i \in 1..Len(queue)
       PROVE  queue[i] \in Range(outbox[k]) \/ UploadSound(k, queue[i])
  <2>1. CASE k # d
    BY <1>7, <1>10, <2>1 DEF TypeOK, Range
  <2>2. CASE k = d
    <3>1. i \in 1..(Len(old) + 1) /\ queue = new
      BY <1>4, <1>7, <1>10, <2>2
    <3>2. CASE i = Len(old) + 1
      BY <1>4, <2>2, <3>1, <3>2
    <3>3. CASE i \in 1..Len(old)
      BY <1>1, <1>3, <1>4, <2>2, <3>1, <3>3 DEF Range
    <3>. QED  BY <1>3, <3>1, <3>2, <3>3
  <2>. QED  BY <2>1, <2>2
<1>. QED  BY <1>6, <1>9, <1>10

(* An upload is built against a baseline the vault has grown from.          *)
LEMMA EnqueueStep ==
  ASSUME Inductive, NEW c \in Cycles, Enqueue(c)
  PROVE  Inductive' /\ Forward
<1>. PICK r : r = cycle[c]
  OBVIOUS
<1>. DEFINE d == DeviceOf[c]
            item == r.item
<1>1. PICK o : o = made[item].object
  OBVIOUS
<1>2. /\ r \in Locals /\ CycleSound(r, d) /\ d \in Devices /\ r.at = "enqueue"
      /\ r.item \in Item /\ r.pending \in SUBSET Operation
      /\ TypeOK /\ LineageSound /\ Versions /\ Baselines
  BY AtCycle DEF Enqueue, Inductive
<1>3. /\ item # 0 /\ o \in Objects /\ Holds(d, o, item)
  <2>1. item # 0 /\ \E n \in Objects : Holds(d, n, item)
    BY <1>2 DEF CycleSound
  <2>. QED  BY <1>1, <2>1 DEF Holds, VersionOf
<1>4. PICK queued : queued = {op \in r.pending : made[op.version].object = o}
  OBVIOUS
<1>5. PICK base : base = AdvanceQueued(baseline[d][o], queued)
  OBVIOUS
<1>6. PICK op : op = [version |-> item, baseline |-> base]
  OBVIOUS
<1>. DEFINE due == base # None /\ Revision(item) > Revision(base)
            full == Len(outbox[d]) >= OutboxLimit
<1>7. \/ UNCHANGED outbox
      \/ due /\ ~full /\ outbox' = [outbox EXCEPT ![d] = Append(@, op)]
  <2>1. outbox' = IF /\ /\ conflict[d][o] = 0 /\ base # None /\ base # item
                        /\ Revision(item) > Revision(base)
                        /\ op \notin Range(outbox[d])
                     /\ ~full
                  THEN [outbox EXCEPT ![d] = Append(@, op)] ELSE outbox
    BY <1>1, <1>4, <1>5, <1>6, Zenon DEF Enqueue
  <2>. QED  BY <2>1, Zenon
<1>8. PICK s \in Locals : cycle' = [cycle EXCEPT ![c] = s] /\ CycleSound(s, d)
  <2>1. CASE End(c)
    BY <2>1, IdleSound DEF End
  <2>2. CASE Go(c, "harvest")
    <3>1. PICK s : s = [r EXCEPT !.at = "harvest"]
      OBVIOUS
    <3>2. /\ s \in Locals /\ s.at = "harvest" /\ s.page = r.page /\ s.pending = r.pending
          /\ s.todo = r.todo /\ s.batch = r.batch
      BY <1>2, <3>1 DEF Locals, Labels
    <3>3. CycleSound(s, d)
      BY <1>2, <3>2 DEF CycleSound
    <3>. QED  BY <2>2, <3>1, <3>2, <3>3 DEF Go
  <2>. QED  BY <2>1, <2>2 DEF Enqueue
<1>9. UNCHANGED <<made, current, log, changes, local, baseline, conflict, stamp, cursor, failures>>
  BY DEF Enqueue, server, state
<1>10. cycle' \in [Cycles -> Locals]
  BY <1>2, <1>8 DEF TypeOK
<1>11. CASE UNCHANGED outbox
  <2>1. TypeOK'
    BY <1>2, <1>9, <1>10, <1>11 DEF TypeOK
  <2>. QED  BY <1>8, <1>9, <1>11, <2>1, DeviceStep, SameUploads DEF server, state
<1>12. CASE due /\ ~full /\ outbox' = [outbox EXCEPT ![d] = Append(@, op)]
  <2>1. base \in Item /\ Holds(d, o, base)
    <3>1. \A q \in r.pending : UploadSound(d, q)
      BY <1>2 DEF CycleSound
    <3>2. queued \in SUBSET r.pending /\ \A q \in queued : made[q.version].object = o
      BY <1>4
    <3>. QED  BY <1>2, <1>3, <1>5, <1>12, <3>1, <3>2, QueuedHeld
  <2>2. op \in Operation /\ UploadSound(d, op)
    BY <1>2, <1>3, <1>6, <1>12, <2>1, HarvestedSound
  <2>3. Len(outbox[d]) < OutboxLimit
    <3>1. Len(outbox[d]) \in Nat
      BY <1>2, LenProperties DEF TypeOK
    <3>. QED  BY <1>12, <3>1, VaultSyncAssumption
  <2>4. /\ outbox' \in [Devices -> Seq(Operation)]
        /\ \A k \in Devices : Len(outbox'[k]) <= OutboxLimit
        /\ \A k \in Devices : \A queue \in {outbox'[k]} : \A i \in 1..Len(queue) :
             queue[i] \in Range(outbox[k]) \/ UploadSound(k, queue[i])
    BY <1>2, <1>12, <2>2, <2>3, AppendUpload
  <2>5. TypeOK'
    BY <1>2, <1>9, <1>10, <2>4 DEF TypeOK
  <2>. QED  BY <1>8, <1>9, <2>4, <2>5, DeviceStep DEF server, state
<1>. QED  BY <1>7, <1>11, <1>12

LEMMA StartFlushStep ==
  ASSUME Inductive, NEW c \in Cycles, StartFlush(c)
  PROVE  Inductive' /\ Forward
<1>. DEFINE d == DeviceOf[c]
<1>1. PICK queue : queue = outbox[d]
  OBVIOUS
<1>2. d \in Devices
  BY AtCycle
<1>3. queue \in Seq(Operation) /\ \A i \in 1..Len(queue) : UploadSound(d, queue[i])
  BY <1>1, <1>2 DEF Inductive, TypeOK, Outboxes
<1>4. PICK batch : batch = Take(queue, FlushLimit)
  OBVIOUS
<1>5. batch \in Seq(Operation) /\ \A i \in 1..Len(batch) : i \in 1..Len(queue) /\ batch[i] = queue[i]
  BY <1>3, <1>4, TakeProperties, VaultSyncAssumption
<1>6. PICK s : s = [Idle EXCEPT !.at = "push", !.batch = batch]
  OBVIOUS
<1>7. s \in Locals
  BY <1>5, <1>6, IdleSound DEF Locals, Labels
<1>8. s.at = "push" /\ s.page = <<>> /\ s.pending = {} /\ s.todo = {} /\ s.batch = batch
  BY <1>6 DEF Idle
<1>9. CycleSound(s, d)
  BY <1>3, <1>5, <1>8 DEF CycleSound
<1>10. cycle' = [cycle EXCEPT ![c] = s]
  BY <1>1, <1>4, <1>6 DEF StartFlush
<1>. QED  BY <1>7, <1>9, <1>10, QuietStep, StaysCounted DEF StartFlush, Quiet

(* What is uploaded and what the server has taken it for.                   *)
LEMMA MutationTyped ==
  ASSUME TypeOK, NEW d \in Devices, NEW op \in Operation, UploadSound(d, op)
  PROVE  /\ Mutation(op) \in Write /\ Mutation(op).op = op
         /\ Mutation(op).object = made[op.version].object
         /\ made[op.version].object \in Objects
         /\ Mutation(op).ciphertext = op.version
         /\ Mutation(op).pre = IF op.baseline = 0 THEN None ELSE Header(op.baseline)
<1>1. op.version \in 1..Len(made) /\ op.version \in Version /\ op.version # 0 /\ op.baseline \in Item
  BY DEF UploadSound, Operation, Version
<1>2. made[op.version].object \in Objects /\ Revision(op.version) \in Nat
  BY <1>1, MadeTyped DEF Revision
<1>3. op.baseline # 0 => op.baseline \in 1..Len(made)
  BY DEF UploadSound, VersionOf
<1>4. Revision(op.baseline) \in Nat
  BY <1>3, MadeTyped DEF Revision
<1>5. Header(op.baseline) \in Headers
  BY <1>1, <1>4 DEF Header, Headers
<1>. QED  BY <1>1, <1>2, <1>5 DEF Mutation, Write

(* A write that is admitted replaces the version it was built on.           *)
LEMMA AdmittedBaseline ==
  ASSUME TypeOK, NEW d \in Devices, NEW op \in Operation, UploadSound(d, op),
         Server!Admits(Mutation(op))
  PROVE  ServerVersion(made[op.version].object) = op.baseline
<1>1. PICK o \in Objects : o = made[op.version].object
  BY MutationTyped
<1>2. PICK m : m = Mutation(op)
  OBVIOUS
<1>3. m.object = o /\ m.pre = IF op.baseline = 0 THEN None ELSE Header(op.baseline)
  BY <1>1, <1>2, MutationTyped
<1>4. op.baseline # 0 => Header(op.baseline) # None
  <2>1. ASSUME op.baseline # 0 PROVE Header(op.baseline) \in Headers
    <3>1. op.baseline \in 1..Len(made) /\ op.baseline \in Item
      BY <2>1 DEF UploadSound, VersionOf, Operation
    <3>2. Revision(op.baseline) \in Nat
      BY <3>1, MadeTyped DEF Revision
    <3>. QED  BY <3>1, <3>2 DEF Header, Headers
  <2>. QED  BY <2>1, NoneAssumption
<1>5. IF current[o] = None THEN m.pre = None
      ELSE m.pre = [revision |-> current[o].mutation.revision,
                    ciphertext |-> current[o].mutation.ciphertext]
  BY <1>2, <1>3 DEF Server!Admits
<1>6. CASE current[o] = None
  BY <1>1, <1>3, <1>4, <1>5, <1>6 DEF ServerVersion
<1>7. CASE current[o] # None
  <2>1. current[o].mutation.revision \in Nat /\ current[o].mutation.ciphertext \in Item
    <3>1. current[o] \in Entry
      BY <1>7, CurrentTyped
    <3>. QED  BY <3>1 DEF Entry, Write, Item, Version
  <2>2. m.pre # None
    BY <1>5, <1>7, <2>1, NoneAssumption DEF Headers
  <2>3. Header(op.baseline).ciphertext = current[o].mutation.ciphertext
    BY <1>3, <1>5, <1>7, <2>2
  <2>. QED  BY <1>1, <1>7, <2>3 DEF Header, ServerVersion
<1>. QED  BY <1>6, <1>7

(* The server takes an upload, or has taken it: it moves to a descendant.    *)
LEMMA AcceptedServer ==
  ASSUME Inductive, UNCHANGED made, NEW d \in Devices, NEW op \in Operation, UploadSound(d, op),
         Server!TakeEffect(Mutation(op)) \/ (log[op] # None /\ UNCHANGED server)
  PROVE  /\ changes' \in Nat /\ changes <= changes'
         /\ current' \in [Objects -> Entry \cup {None}]
         /\ log' \in [Operation -> Entry \cup {None}]
         /\ \A o \in Objects : current'[o] # None =>
              current'[o].mutation.object = o /\ current'[o].seq <= changes'
         /\ \A o \in Objects : \A v \in {ServerVersion(o)'} :
              VersionOf(o, v) /\ DescendsNext(v, ServerVersion(o))
         /\ log'[op] # None
         /\ \A q \in Operation : log[q] # None => log'[q] # None
<1>1. /\ changes \in Nat /\ current \in [Objects -> Entry \cup {None}]
      /\ log \in [Operation -> Entry \cup {None}]
      /\ \A o \in Objects : current[o] # None =>
           current[o].mutation.object = o /\ current[o].seq <= changes
      /\ TypeOK /\ LineageSound /\ Versions
  BY DEF Inductive, TypeOK
<1>2. Grows
  BY DEF Grows
<1>3. \A o \in Objects : \A v \in {ServerVersion(o)} : VersionOf(o, v) /\ DescendsNext(v, v)
  BY <1>1, <1>2, StaysForward DEF Versions
<1>4. CASE log[op] # None /\ UNCHANGED server
  <2>1. \A o \in Objects : ServerVersion(o)' = ServerVersion(o)
    BY <1>4 DEF ServerVersion, server
  <2>. QED  BY <1>1, <1>3, <1>4, <2>1 DEF server
<1>5. CASE Server!TakeEffect(Mutation(op))
  <2>1. PICK m : m = Mutation(op)
    OBVIOUS
  <2>2. PICK n : n = made[op.version].object
    OBVIOUS
  <2>3. m \in Write /\ m.op = op /\ m.object = n /\ n \in Objects /\ m.ciphertext = op.version
    BY <1>1, <2>1, <2>2, MutationTyped
  <2>4. PICK e : e = [mutation |-> m, seq |-> changes + 1]
    OBVIOUS
  <2>5. /\ changes' = changes + 1
        /\ current' = [current EXCEPT ![n] = e]
        /\ log' = [log EXCEPT ![op] = e]
        /\ Server!Admits(Mutation(op))
    BY <1>5, <2>1, <2>3, <2>4 DEF Server!TakeEffect
  <2>6. e \in Entry /\ e # None /\ e.mutation = m /\ e.seq = changes + 1
    <3>1. e \in Entry
      BY <1>1, <2>3, <2>4 DEF Entry
    <3>. QED  BY <2>4, <3>1, NoneAssumption
  <2>7. /\ changes' \in Nat /\ changes <= changes'
        /\ current' \in [Objects -> Entry \cup {None}]
        /\ log' \in [Operation -> Entry \cup {None}]
        /\ log'[op] # None /\ \A q \in Operation : log[q] # None => log'[q] # None
    <3>1. changes' \in Nat /\ changes <= changes'
      BY <1>1, <2>5
    <3>2. current' \in [Objects -> Entry \cup {None}]
      BY <1>1, <2>3, <2>5, <2>6
    <3>3. log' \in [Operation -> Entry \cup {None}]
      BY <1>1, <2>5, <2>6
    <3>4. \A q \in Operation : log'[q] = IF q = op THEN e ELSE log[q]
      BY <1>1, <2>5
    <3>. QED  BY <2>6, <3>1, <3>2, <3>3, <3>4
  <2>8. \A o \in Objects : current'[o] = IF o = n THEN e ELSE current[o]
    BY <1>1, <2>3, <2>5
  <2>9. \A o \in Objects : current'[o] # None =>
          current'[o].mutation.object = o /\ current'[o].seq <= changes'
    <3>1. TAKE o \in Objects
    <3>2. CASE o = n
      BY <1>1, <2>3, <2>5, <2>6, <2>8, <3>2
    <3>3. CASE o # n
      <4>1. current'[o] = current[o]
        BY <2>8, <3>3
      <4>2. current[o] # None => current[o].seq \in Nat
        BY <1>1, CurrentTyped
      <4>. QED  BY <1>1, <2>5, <4>1, <4>2
    <3>. QED  BY <3>2, <3>3
  <2>10. ASSUME NEW o \in Objects
         PROVE  \A v \in {ServerVersion(o)'} : VersionOf(o, v) /\ DescendsNext(v, ServerVersion(o))
    <3>1. CASE o = n
      <4>1. ServerVersion(o)' = op.version
        BY <2>3, <2>6, <2>8, <3>1 DEF ServerVersion
      <4>2. ServerVersion(o) = op.baseline
        BY <1>1, <2>2, <2>5, <3>1, AdmittedBaseline
      <4>3. VersionOf(o, op.version) /\ DescendsNext(op.version, op.baseline)
        BY <2>2, <3>1 DEF UploadSound, VersionOf, Descends, DescendsNext
      <4>. QED  BY <4>1, <4>2, <4>3
    <3>2. CASE o # n
      <4>1. ServerVersion(o)' = ServerVersion(o)
        BY <2>8, <3>2 DEF ServerVersion
      <4>. QED  BY <1>3, <4>1
    <3>. QED  BY <3>1, <3>2
  <2>. QED  BY <2>7, <2>9, <2>10
<1>. QED  BY <1>4, <1>5

LEMMA AcceptedStep ==
  ASSUME Inductive, NEW c \in Cycles, Accepted(c), failures' \in 0..MaxFailures,
         End(c) \/ Go(c, "ack")
  PROVE  Inductive' /\ Forward
<1>. PICK r : r = cycle[c]
  OBVIOUS
<1>. DEFINE d == DeviceOf[c]
<1>1. /\ r \in Locals /\ CycleSound(r, d) /\ d \in Devices /\ r.at = "push" /\ r.batch # <<>>
      /\ r.batch \in Seq(Operation)
  BY AtCycle DEF Accepted
<1>2. PICK op : op = Head(r.batch)
  OBVIOUS
<1>3. op \in Operation /\ UploadSound(d, op)
  <2>1. op = r.batch[1] /\ 1 \in 1..Len(r.batch) /\ op \in Operation
    BY <1>1, <1>2
  <2>. QED  BY <1>1, <2>1 DEF CycleSound
<1>4. /\ changes' \in Nat /\ changes <= changes'
      /\ current' \in [Objects -> Entry \cup {None}]
      /\ log' \in [Operation -> Entry \cup {None}]
      /\ \A o \in Objects : current'[o] # None =>
           current'[o].mutation.object = o /\ current'[o].seq <= changes'
      /\ \A o \in Objects : \A v \in {ServerVersion(o)'} :
           VersionOf(o, v) /\ DescendsNext(v, ServerVersion(o))
      /\ log'[op] # None
      /\ \A q \in Operation : log[q] # None => log'[q] # None
  <2>1. Server!TakeEffect(Mutation(op)) \/ (log[op] # None /\ UNCHANGED server)
    BY <1>2 DEF Accepted
  <2>2. UNCHANGED made
    BY DEF Accepted
  <2>. QED  BY <1>1, <1>3, <2>1, <2>2, AcceptedServer
<1>5. UNCHANGED <<made, local, baseline, conflict, stamp, outbox, cursor>>
  BY DEF Accepted, state
<1>6. TypeOK /\ LineageSound /\ Versions
  BY DEF Inductive
<1>7. PICK s : s = IF End(c) THEN Idle ELSE [r EXCEPT !.at = "ack"]
  OBVIOUS
<1>8. s \in Locals /\ cycle' = [cycle EXCEPT ![c] = s]
  <2>1. CASE End(c)
    BY <1>7, <2>1, IdleSound DEF End
  <2>2. CASE ~End(c)
    <3>1. s = [r EXCEPT !.at = "ack"]
      BY <1>7, <2>2
    <3>. QED  BY <1>1, <2>2, <3>1 DEF Go, Locals, Labels
  <2>. QED  BY <2>1, <2>2
<1>9. TypeOK'
  <2>1. cycle' \in [Cycles -> Locals]
    BY <1>6, <1>8 DEF TypeOK
  <2>2. cursor' \in [Devices -> 0..changes']
    <3>1. cursor \in [Devices -> 0..changes] /\ changes \in Nat
      BY <1>6 DEF TypeOK
    <3>2. 0..changes \subseteq 0..changes'
      BY <1>4, <3>1
    <3>. QED  BY <1>5, <3>1, <3>2
  <2>. QED  BY <1>4, <1>5, <1>6, <2>1, <2>2 DEF TypeOK
<1>10. LineageSound'
  BY <1>5, <1>6 DEF LineageSound
<1>11. Versions'
  <2>1. \A o \in Objects : VersionOf(o, ServerVersion(o))'
    BY <1>4, <1>5 DEF VersionOf
  <2>. QED  BY <1>5, <1>6, <2>1 DEF Versions, VersionOf
<1>12. Forward
  BY <1>4, <1>5, QuietForward DEF state
<1>13. CycleSound(s, d)'
  <2>1. CASE End(c)
    <3>1. s = Idle
      BY <1>7, <2>1
    <3>. QED  BY <3>1 DEF CycleSound, Idle
  <2>2. CASE ~End(c)
    <3>1. s = [r EXCEPT !.at = "ack"]
      BY <1>7, <2>2
    <3>2. /\ s.at = "ack" /\ s.page = r.page /\ s.pending = r.pending
          /\ s.todo = r.todo /\ s.batch = r.batch
      BY <1>1, <3>1 DEF Locals
    <3>3. CycleSound(r, d)'
      BY <1>1, <1>6, <1>9, <1>10, <1>11, <1>12, CycleLater
    <3>. QED  BY <1>1, <1>2, <1>4, <3>2, <3>3 DEF CycleSound
  <2>. QED  BY <2>1, <2>2
<1>14. \A k \in Cycles : \A t \in {cycle'[k]} :
         t = cycle[k] \/ CycleSound(t, DeviceOf[k]) \/ CycleSound(t, DeviceOf[k])'
  BY <1>6, <1>8, <1>13 DEF TypeOK
<1>15. \A k \in Devices, o \in Objects : \A x \in {baseline'[k][o]} :
         x = baseline[k][o] \/ (Holds(k, o, x) /\ Taken(o, x))
  BY <1>5
<1>. QED  BY <1>5, <1>9, <1>10, <1>11, <1>12, <1>14, <1>15, StepSound, SameUploads

LEMMA PushStep ==
  ASSUME Inductive, NEW c \in Cycles, Push(c) \/ PushLost(c)
  PROVE  Inductive' /\ Forward
<1>1. Accepted(c) /\ (End(c) \/ Go(c, "ack"))
  BY DEF Push, PushLost, Fail
<1>2. failures' \in 0..MaxFailures
  BY VaultSyncAssumption DEF Push, PushLost, Fail, Inductive, TypeOK
<1>. QED  BY <1>1, <1>2, AcceptedStep

LEMMA FinishStep ==
  ASSUME Inductive, NEW c \in Cycles, Finish(c) \/ PushRefused(c)
  PROVE  Inductive' /\ Forward
BY StaysCounted, EndStep DEF Finish, PushRefused, Quiet

(* A set of numbers has a smallest one.                                     *)
LEMMA SmallestNumber ==
  ASSUME NEW T \in SUBSET Nat, T # {}
  PROVE  \E x \in T : \A y \in T : x <= y
<1>. DEFINE less == {p \in Nat \X Nat : p[1] < p[2]}
<1>1. IsWellFoundedOn(less, Nat)
  BY NatLessThanWellFounded DEF OpToRel
<1>. HIDE DEF less
<1>2. PICK x \in T : \A y \in T : ~(<<y, x>> \in less)
  BY <1>1, WFMin
<1>3. \A y \in T : ~(y < x)
  BY <1>2 DEF less
<1>. QED  BY <1>3

(* The elements of a sequence without the one at place n.                   *)
LEMMA RemoveAtProperties ==
  ASSUME NEW S, NEW s \in Seq(S), NEW n \in 1..Len(s)
  PROVE  /\ RemoveAt(s, n) \in Seq(S) /\ Len(RemoveAt(s, n)) = Len(s) - 1
         /\ \A i \in 1..Len(RemoveAt(s, n)) : RemoveAt(s, n)[i] = IF i < n THEN s[i] ELSE s[i + 1]
<1>1. Len(s) \in Nat /\ n \in Nat /\ n <= Len(s) /\ 1 <= n /\ \A i \in 1..Len(s) : s[i] \in S
  BY LenProperties, ElementOfSeq
<1>2. PICK a : a = SubSeq(s, 1, n - 1)
  OBVIOUS
<1>3. PICK b : b = SubSeq(s, n + 1, Len(s))
  OBVIOUS
<1>4. a \in Seq(S) /\ Len(a) = n - 1 /\ \A i \in 1..(n - 1) : a[i] = s[i]
  <2>1. \A i \in 1..(n - 1) : s[i] \in S
    BY <1>1
  <2>2. /\ SubSeq(s, 1, n - 1) \in Seq(S)
        /\ Len(SubSeq(s, 1, n - 1)) = IF 1 <= n - 1 THEN (n - 1) - 1 + 1 ELSE 0
        /\ \A i \in 1..((n - 1) - 1 + 1) : SubSeq(s, 1, n - 1)[i] = s[1 + i - 1]
    BY <1>1, <2>1, SubSeqProperties
  <2>. QED  BY <1>1, <1>2, <2>2
<1>5. b \in Seq(S) /\ Len(b) = Len(s) - n /\ \A i \in 1..(Len(s) - n) : b[i] = s[n + i]
  <2>1. \A i \in (n + 1)..Len(s) : s[i] \in S
    BY <1>1
  <2>2. /\ SubSeq(s, n + 1, Len(s)) \in Seq(S)
        /\ Len(SubSeq(s, n + 1, Len(s))) = IF n + 1 <= Len(s) THEN Len(s) - (n + 1) + 1 ELSE 0
        /\ \A i \in 1..(Len(s) - (n + 1) + 1) : SubSeq(s, n + 1, Len(s))[i] = s[(n + 1) + i - 1]
    BY <1>1, <2>1, SubSeqProperties
  <2>. QED  BY <1>1, <1>3, <2>2
<1>6. RemoveAt(s, n) = a \o b
  BY <1>2, <1>3 DEF RemoveAt
<1>7. /\ a \o b \in Seq(S) /\ Len(a \o b) = Len(a) + Len(b)
      /\ \A i \in 1..Len(a) + Len(b) : (a \o b)[i] = IF i <= Len(a) THEN a[i] ELSE b[i - Len(a)]
  BY <1>4, <1>5, ConcatProperties
<1>8. Len(a \o b) = Len(s) - 1
  BY <1>1, <1>4, <1>5, <1>7
<1>9. ASSUME NEW i \in 1..Len(a \o b) PROVE (a \o b)[i] = IF i < n THEN s[i] ELSE s[i + 1]
  <2>1. i \in Nat /\ 1 <= i /\ i <= Len(s) - 1
    BY <1>1, <1>8
  <2>2. (a \o b)[i] = IF i <= n - 1 THEN a[i] ELSE b[i - (n - 1)]
    BY <1>4, <1>7
  <2>3. CASE i < n
    BY <1>1, <1>4, <2>1, <2>2, <2>3
  <2>4. CASE ~(i < n)
    <3>1. i - (n - 1) \in 1..(Len(s) - n) /\ n + (i - (n - 1)) = i + 1 /\ ~(i <= n - 1)
      BY <1>1, <2>1, <2>4
    <3>. QED  BY <1>5, <2>2, <2>4, <3>1
  <2>. QED  BY <2>3, <2>4
<1>. QED  BY <1>6, <1>7, <1>8, <1>9

(* What is left of the outbox when an entry is removed.                     *)
LEMMA RemoveFirstProperties ==
  ASSUME NEW S, NEW s \in Seq(S), NEW e
  PROVE  /\ RemoveFirst(s, e) \in Seq(S) /\ Len(RemoveFirst(s, e)) <= Len(s)
         /\ \A i \in 1..Len(RemoveFirst(s, e)) : RemoveFirst(s, e)[i] \in Range(s)
         /\ \A i \in 1..Len(s) : s[i] # e => s[i] \in Range(RemoveFirst(s, e))
<1>1. Len(s) \in Nat /\ DOMAIN s = 1..Len(s)
  BY LenProperties
<1>2. CASE ~\E i \in 1..Len(s) : s[i] = e
  <2>1. RemoveFirst(s, e) = s
    BY <1>2 DEF RemoveFirst
  <2>. QED  BY <1>1, <2>1 DEF Range
<1>3. CASE \E i \in 1..Len(s) : s[i] = e
  <2>. DEFINE I == {i \in 1..Len(s) : s[i] = e}
  <2>1. PICK n : n = SelectInSeq(s, LAMBDA v : v = e)
    OBVIOUS
  <2>2. n \in 1..Len(s) /\ s[n] = e
    <3>1. n = Min(I)
      BY <1>3, <2>1 DEF SelectInSeq
    <3>2. I \in SUBSET Nat /\ I # {}
      BY <1>1, <1>3
    <3>3. \E x \in I : \A y \in I : x <= y
      BY <3>2, SmallestNumber
    <3>. QED  BY <3>1, <3>3 DEF Min
  <2>3. RemoveFirst(s, e) = RemoveAt(s, n)
    BY <1>3, <2>1 DEF RemoveFirst
  <2>4. PICK t : t = RemoveAt(s, n)
    OBVIOUS
  <2>5. /\ t \in Seq(S) /\ Len(t) = Len(s) - 1
        /\ \A i \in 1..Len(t) : t[i] = IF i < n THEN s[i] ELSE s[i + 1]
    BY <2>2, <2>4, RemoveAtProperties
  <2>6. DOMAIN t = 1..Len(t)
    BY <2>5, LenProperties
  <2>7. ASSUME NEW i \in 1..Len(t) PROVE t[i] \in Range(s)
    <3>1. i \in 1..Len(s) /\ i + 1 \in 1..Len(s)
      BY <1>1, <2>5
    <3>. QED  BY <1>1, <2>5, <3>1 DEF Range
  <2>8. ASSUME NEW i \in 1..Len(s), s[i] # e PROVE s[i] \in Range(t)
    <3>1. CASE i < n
      <4>1. i \in 1..Len(t)
        BY <1>1, <2>2, <2>5, <3>1
      <4>. QED  BY <2>5, <2>6, <3>1, <4>1 DEF Range
    <3>2. CASE i > n
      <4>1. i - 1 \in 1..Len(t) /\ ~(i - 1 < n) /\ (i - 1) + 1 = i
        BY <1>1, <2>2, <2>5, <3>2
      <4>. QED  BY <2>5, <2>6, <4>1 DEF Range
    <3>. QED  BY <1>1, <2>2, <2>8, <3>1, <3>2
  <2>9. Len(t) <= Len(s)
    BY <1>1, <2>5
  <2>. QED  BY <2>3, <2>4, <2>5, <2>7, <2>8, <2>9
<1>. QED  BY <1>2, <1>3

LEMMA AcknowledgeStep ==
  ASSUME Inductive, NEW c \in Cycles, Acknowledge(c)
  PROVE  Inductive' /\ Forward
<1>. PICK r : r = cycle[c]
  OBVIOUS
<1>. DEFINE d == DeviceOf[c]
<1>1. /\ r \in Locals /\ CycleSound(r, d) /\ d \in Devices /\ r.at = "ack"
      /\ r.batch \in Seq(Operation) /\ TypeOK
  BY AtCycle DEF Acknowledge, Inductive
<1>2. r.batch # <<>>
  BY <1>1 DEF CycleSound
<1>3. PICK old : old = outbox[d]
  OBVIOUS
<1>4. PICK new : new = RemoveFirst(old, Head(r.batch))
  OBVIOUS
<1>5. old \in Seq(Operation) /\ Len(old) \in Nat /\ Len(old) <= OutboxLimit
  BY <1>1, <1>3, LenProperties DEF TypeOK
<1>6. /\ new \in Seq(Operation) /\ Len(new) <= Len(old) /\ Len(new) \in Nat
      /\ \A i \in 1..Len(new) : new[i] \in Range(old)
  BY <1>4, <1>5, RemoveFirstProperties, LenProperties
<1>7. outbox' = [outbox EXCEPT ![d] = new]
  BY <1>3, <1>4 DEF Acknowledge
<1>8. outbox' \in [Devices -> Seq(Operation)]
  BY <1>1, <1>6, <1>7 DEF TypeOK
<1>9. \A k \in Devices : outbox'[k] = IF k = d THEN new ELSE outbox[k]
  BY <1>1, <1>7 DEF TypeOK
<1>10. \A k \in Devices : Len(outbox'[k]) <= OutboxLimit
  <2>1. Len(new) <= OutboxLimit
    BY <1>5, <1>6, VaultSyncAssumption
  <2>. QED  BY <1>1, <1>9, <2>1 DEF TypeOK
<1>11. \A k \in Devices : \A queue \in {outbox'[k]} : \A i \in 1..Len(queue) :
         queue[i] \in Range(outbox[k]) \/ UploadSound(k, queue[i])
  <2>1. TAKE k \in Devices
  <2>2. CASE k = d
    BY <1>3, <1>6, <1>9, <2>2
  <2>3. CASE k # d
    BY <1>1, <1>9, <2>3 DEF TypeOK, Range
  <2>. QED  BY <2>2, <2>3
<1>12. PICK tail : tail = Tail(r.batch)
  OBVIOUS
<1>13. /\ tail \in Seq(Operation)
       /\ \A i \in 1..Len(tail) : i + 1 \in 1..Len(r.batch) /\ tail[i] = r.batch[i + 1]
  <2>1. /\ tail \in Seq(Operation) /\ Len(tail) = Len(r.batch) - 1
        /\ \A i \in 1..Len(tail) : tail[i] = r.batch[i + 1]
    BY <1>1, <1>2, <1>12, HeadTailProperties
  <2>2. Len(r.batch) \in Nat
    BY <1>1, LenProperties
  <2>. QED  BY <2>1, <2>2
<1>14. PICK s : s = [r EXCEPT !.at = "push", !.batch = tail]
  OBVIOUS
<1>15. /\ s \in Locals /\ s.at = "push" /\ s.page = r.page /\ s.pending = r.pending
       /\ s.todo = r.todo /\ s.batch = tail
  BY <1>1, <1>13, <1>14 DEF Locals, Labels
<1>16. cycle' = [cycle EXCEPT ![c] = s]
  BY <1>12, <1>14 DEF Acknowledge
<1>17. CycleSound(s, d)
  BY <1>1, <1>13, <1>15 DEF CycleSound
<1>18. TypeOK'
  <2>1. cycle' \in [Cycles -> Locals]
    BY <1>1, <1>15, <1>16 DEF TypeOK
  <2>2. UNCHANGED <<made, current, log, changes, local, baseline, conflict, stamp, cursor, failures>>
    BY DEF Acknowledge, server, state
  <2>. QED  BY <1>1, <1>8, <1>10, <2>1, <2>2 DEF TypeOK
<1>. QED  BY <1>11, <1>15, <1>16, <1>17, <1>18, DeviceStep DEF Acknowledge

-----------------------------------------------------------------------------
(* The user's edits.                                                        *)

(* A new version of item o, written on top of `from', extends the history.   *)
LEMMA NewVersion ==
  ASSUME TypeOK, LineageSound, NEW o \in Objects, NEW from \in Item, VersionOf(o, from),
         NEW v, v = Len(made) + 1, v <= MaxVersions,
         NEW line, line = IF from = 0 THEN {v} ELSE made[from].line \cup {v},
         made' = Append(made, [object |-> o, revision |-> Revision(from) + 1, line |-> line])
  PROVE  /\ made' \in Seq(Made) /\ Len(made') = v /\ v \in Version
         /\ Grows /\ LineageSound'
         /\ VersionOf(o, v)' /\ DescendsNext(v, v) /\ DescendsNext(v, from)
<1>1. made \in Seq(Made) /\ Len(made) \in Nat
  BY LenProperties DEF TypeOK
<1>2. v \in Version /\ v \in Nat \ {0}
  BY <1>1, VaultSyncAssumption DEF Version
<1>3. from # 0 => from \in 1..Len(made) /\ made[from].object = o
  BY DEF VersionOf
<1>4. Revision(from) \in Nat
  BY <1>3, MadeTyped DEF Revision
<1>5. PICK e : e = [object |-> o, revision |-> Revision(from) + 1, line |-> line]
  OBVIOUS
<1>6. /\ e \in Made /\ e.object = o /\ e.line = line
      /\ e.revision = Revision(from) + 1 /\ e.revision \in Nat \ {0}
  <2>1. line \subseteq Version
    BY <1>2, <1>3, MadeTyped
  <2>. QED  BY <1>4, <1>5, <2>1 DEF Made
<1>7. /\ made' \in Seq(Made) /\ Len(made') = v /\ made'[v] = e
      /\ \A w \in 1..Len(made) : made'[w] = made[w]
  BY <1>1, <1>5, <1>6, AppendProperties
<1>8. \A w : w \in 1..Len(made') <=> w = v \/ w \in 1..Len(made)
  BY <1>1, <1>7
<1>9. Grows
  BY <1>7, <1>8 DEF Grows
<1>10. ASSUME NEW u \in line, u # v
       PROVE  /\ from # 0 /\ u \in made[from].line /\ u \in 1..from /\ u \in 1..Len(made)
              /\ made[u].object = o /\ made[u].line \subseteq made[from].line
              /\ made[u].revision < e.revision
  <2>1. from # 0 /\ u \in made[from].line
    BY <1>10
  <2>2. /\ u \in 1..from /\ made[u].object = o /\ made[u].line \subseteq made[from].line
        /\ (u = from \/ made[u].revision < made[from].revision)
    BY <1>3, <2>1 DEF LineageSound
  <2>3. u \in 1..Len(made)
    BY <1>1, <1>3, <2>1, <2>2
  <2>4. made[u].revision \in Nat /\ made[from].revision \in Nat
    BY <1>3, <2>1, <2>3, MadeTyped
  <2>5. e.revision = made[from].revision + 1
    BY <1>6, <2>1 DEF Revision
  <2>. QED  BY <2>1, <2>2, <2>3, <2>4, <2>5
<1>11. LineageSound'
  <2>1. SUFFICES ASSUME NEW w \in 1..Len(made')
                 PROVE  /\ w \in made'[w].line
                        /\ \A u \in made'[w].line :
                             /\ u \in 1..w
                             /\ made'[u].object = made'[w].object
                             /\ made'[u].line \subseteq made'[w].line
                             /\ u = w \/ made'[u].revision < made'[w].revision
                        /\ \A u, x \in made'[w].line : u \in made'[x].line \/ x \in made'[u].line
    BY DEF LineageSound
  <2>2. CASE w \in 1..Len(made)
    <3>1. \A u \in made[w].line : u \in 1..Len(made) /\ made'[u] = made[u]
      <4>1. \A u \in made[w].line : u \in 1..w
        BY <2>2 DEF LineageSound
      <4>. QED  BY <1>1, <1>7, <2>2, <4>1
    <3>2. made'[w] = made[w]
      BY <1>7, <2>2
    <3>3. /\ w \in made[w].line
          /\ \A u \in made[w].line :
               /\ u \in 1..w /\ made[u].object = made[w].object
               /\ made[u].line \subseteq made[w].line
               /\ u = w \/ made[u].revision < made[w].revision
          /\ \A u, x \in made[w].line : u \in made[x].line \/ x \in made[u].line
      BY <2>2 DEF LineageSound
    <3>4. \A u \in made'[w].line :
            /\ u \in 1..w
            /\ made'[u].object = made'[w].object
            /\ made'[u].line \subseteq made'[w].line
            /\ u = w \/ made'[u].revision < made'[w].revision
      BY <3>1, <3>2, <3>3
    <3>5. \A u, x \in made'[w].line : u \in made'[x].line \/ x \in made'[u].line
      BY <3>1, <3>2, <3>3
    <3>. QED  BY <3>2, <3>3, <3>4, <3>5
  <2>3. CASE w = v
    <3>1. made'[w].line = line /\ v \in line /\ made'[w] = e
      BY <1>6, <1>7, <2>3
    <3>2. ASSUME NEW u \in made'[w].line
          PROVE  /\ u \in 1..w
                 /\ made'[u].object = made'[w].object
                 /\ made'[u].line \subseteq made'[w].line
                 /\ u = w \/ made'[u].revision < made'[w].revision
      <4>. u \in line
        BY <3>1
      <4>1. CASE u = v
        BY <1>2, <1>6, <2>3, <3>1, <4>1
      <4>2. CASE u # v
        <5>1. /\ from # 0 /\ u \in 1..Len(made) /\ made[u].object = o
              /\ made[u].line \subseteq made[from].line /\ made[u].revision < e.revision
          BY <1>10, <4>2
        <5>2. made'[u] = made[u]
          BY <1>7, <5>1
        <5>3. made'[u].line \subseteq made'[w].line
          BY <3>1, <5>1, <5>2
        <5>. QED  BY <1>1, <1>6, <2>3, <3>1, <5>1, <5>2, <5>3
      <4>. QED  BY <4>1, <4>2
    <3>3. ASSUME NEW u \in made'[w].line, NEW x \in made'[w].line
          PROVE  u \in made'[x].line \/ x \in made'[u].line
      <4>. u \in line /\ x \in line
        BY <3>1
      <4>1. CASE u = v \/ x = v
        BY <2>3, <3>1, <4>1
      <4>2. CASE u # v /\ x # v
        <5>1. /\ from \in 1..Len(made) /\ u \in made[from].line /\ x \in made[from].line
              /\ u \in 1..Len(made) /\ x \in 1..Len(made)
          BY <1>3, <1>10, <4>2
        <5>. QED  BY <1>7, <5>1 DEF LineageSound
      <4>. QED  BY <4>1, <4>2
    <3>. QED  BY <2>3, <3>1, <3>2, <3>3
  <2>. QED  BY <1>8, <2>1, <2>2, <2>3
<1>12. v \in line /\ (from # 0 => from \in line)
  BY <1>3 DEF LineageSound
<1>. QED  BY <1>2, <1>6, <1>7, <1>8, <1>9, <1>11, <1>12 DEF VersionOf, DescendsNext

LEMMA SaveStep ==
  ASSUME Inductive, NEW d \in Devices, NEW o \in Objects, NEW from, from = local[d][o],
         Save(d, o, from)
  PROVE  Inductive' /\ Forward
<1>1. /\ TypeOK /\ LineageSound /\ Versions /\ Baselines /\ Outboxes /\ CyclesSound
  BY DEF Inductive
<1>2. from \in Item /\ VersionOf(o, from)
  BY <1>1 DEF TypeOK, Versions
<1>3. PICK v : v = Len(made) + 1
  OBVIOUS
<1>4. /\ v <= MaxVersions
      /\ made' = Append(made, [object |-> o, revision |-> Revision(from) + 1,
                              line |-> IF from = 0 THEN {v} ELSE made[from].line \cup {v}])
      /\ local' = [local EXCEPT ![d][o] = v]
  BY <1>3 DEF Save
<1>5. /\ made' \in Seq(Made) /\ Len(made') = v /\ v \in Version
      /\ Grows /\ LineageSound'
      /\ VersionOf(o, v)' /\ DescendsNext(v, v) /\ DescendsNext(v, from)
  BY <1>1, <1>2, <1>3, <1>4, NewVersion
<1>6. UNCHANGED <<current, log, changes, baseline, conflict, stamp, outbox, cursor, cycle, failures>>
  BY DEF Save, server, state
<1>7. /\ local' \in [Devices -> [Objects -> Item]]
      /\ \A k \in Devices, n \in Objects : local'[k][n] = IF k = d /\ n = o THEN v ELSE local[k][n]
  <2>1. v \in Item
    BY <1>5 DEF Version, Item
  <2>. QED  BY <1>1, <1>4, <2>1 DEF TypeOK
<1>8. TypeOK'
  BY <1>1, <1>4, <1>5, <1>6, <1>7 DEF TypeOK
<1>9. Versions'
  <2>1. ASSUME NEW n \in Objects PROVE VersionOf(n, ServerVersion(n))'
    <3>1. VersionOf(n, ServerVersion(n)) /\ ServerVersion(n)' = ServerVersion(n)
      BY <1>1, <1>6 DEF Versions, ServerVersion
    <3>. QED  BY <1>5, <3>1 DEF VersionOf, Grows
  <2>2. ASSUME NEW k \in Devices, NEW n \in Objects PROVE VersionOf(n, local[k][n])'
    <3>1. VersionOf(n, local[k][n])
      BY <1>1 DEF Versions
    <3>2. CASE k = d /\ n = o
      BY <1>5, <1>7, <3>2 DEF VersionOf
    <3>3. CASE ~(k = d /\ n = o)
      BY <1>5, <1>7, <3>1, <3>3 DEF VersionOf, Grows
    <3>. QED  BY <3>2, <3>3
  <2>. QED  BY <2>1, <2>2 DEF Versions
<1>10. Forward
  <2>1. ASSUME NEW k \in Devices, NEW n \in Objects
        PROVE  /\ DescendsNext(local'[k][n], local[k][n])
               /\ DescendsNext(ServerVersion(n)', ServerVersion(n))
               /\ DescendsNext(baseline'[k][n], baseline[k][n])
    <3>1. \A w \in {local[k][n], ServerVersion(n), baseline[k][n]} : DescendsNext(w, w)
      BY <1>1, <1>5, InductiveVersions, StaysForward
    <3>2. ServerVersion(n)' = ServerVersion(n)
      BY <1>6 DEF ServerVersion
    <3>. QED  BY <1>5, <1>6, <1>7, <3>1, <3>2
  <2>2. \A k \in Devices, n \in Objects : stamp[k][n] \in Nat
    BY <1>1 DEF TypeOK
  <2>3. changes <= changes'
    BY <1>1, <1>6 DEF TypeOK
  <2>. QED  BY <1>5, <1>6, <2>1, <2>2, <2>3 DEF Forward
<1>. QED  BY <1>5, <1>6, <1>8, <1>9, <1>10, StepSound, SameUploads

LEMMA CreateStep ==
  ASSUME Inductive, NEW d \in Devices, NEW o \in Objects, Create(d, o)
  PROVE  Inductive' /\ Forward
<1>1. local[d][o] = 0
  BY DEF Create, Inductive, Versions, VersionOf
<1>. QED  BY <1>1, SaveStep DEF Create

-----------------------------------------------------------------------------
(* The invariant, and what every step may do.                               *)
LEMMA InitInductive == Init => Inductive
<1>. SUFFICES ASSUME Init PROVE Inductive
  OBVIOUS
<1>1. /\ made = <<>> /\ changes = 0
      /\ current = [o \in Objects |-> None] /\ log = [op \in Operation |-> None]
      /\ local = [d \in Devices |-> [o \in Objects |-> 0]]
      /\ baseline = local /\ conflict = local /\ stamp = local
      /\ outbox = [d \in Devices |-> <<>>]
      /\ cursor = [d \in Devices |-> 0]
      /\ cycle = [c \in Cycles |-> Idle]
      /\ failures = 0
  BY DEF Init, Server!AbstractInit
<1>2. TypeOK
  <2>1. 0 \in Item /\ 0 \in 0..MaxFailures /\ 0 <= OutboxLimit /\ 0 <= MaxVersions
    BY VaultSyncAssumption DEF Item
  <2>2. /\ made \in Seq(Made) /\ Len(made) <= MaxVersions
        /\ outbox \in [Devices -> Seq(Operation)]
        /\ \A d \in Devices : Len(outbox[d]) <= OutboxLimit
    BY <1>1, <2>1
  <2>3. cycle \in [Cycles -> Locals]
    BY <1>1, IdleSound
  <2>4. /\ changes \in Nat /\ current \in [Objects -> Entry \cup {None}]
        /\ log \in [Operation -> Entry \cup {None}]
        /\ \A o \in Objects : current[o] = None
        /\ cursor \in [Devices -> 0..changes] /\ failures \in 0..MaxFailures
    BY <1>1, <2>1
  <2>5. /\ local \in [Devices -> [Objects -> Item]] /\ baseline \in [Devices -> [Objects -> Item]]
        /\ conflict \in [Devices -> [Objects -> Item]] /\ stamp \in [Devices -> [Objects -> Nat]]
    BY <1>1, <2>1
  <2>. QED  BY <2>2, <2>3, <2>4, <2>5 DEF TypeOK
<1>3. LineageSound
  BY <1>1 DEF LineageSound
<1>4. \A o \in Objects : ServerVersion(o) = 0
  BY <1>1 DEF ServerVersion
<1>5. Versions
  BY <1>1, <1>4 DEF Versions, VersionOf
<1>6. Baselines
  BY <1>1, <1>4 DEF Baselines, Holds, Taken, VersionOf, Descends
<1>7. Outboxes
  BY <1>1 DEF Outboxes
<1>8. CyclesSound
  BY <1>1, IdleSound DEF CyclesSound
<1>. QED  BY <1>2, <1>3, <1>5, <1>6, <1>7, <1>8 DEF Inductive

LEMMA NextSound ==
  ASSUME Inductive, Next
  PROVE  Inductive' /\ Forward
<1>1. ASSUME NEW d \in Devices, NEW o \in Objects, Create(d, o) \/ Edit(d, o)
      PROVE  Inductive' /\ Forward
  BY <1>1, CreateStep, SaveStep DEF Edit
<1>2. ASSUME NEW c \in Cycles, CycleStep(c) \/ PushLost(c) \/ Abort(c)
      PROVE  Inductive' /\ Forward
  BY <1>2, ListPageStep, GetObjectStep, LoadStateStep, DecideStep, ApplyRemoteStep,
     CommitStateStep, AdvanceStep, StartHarvestStep, LoadItemStep, EnqueueStep,
     StartFlushStep, PushStep, FinishStep, AcknowledgeStep, AbortStep DEF CycleStep
<1>. QED  BY <1>1, <1>2 DEF Next

LEMMA Stutter ==
  ASSUME Inductive, UNCHANGED vars
  PROVE  Inductive'
<1>1. Quiet /\ UNCHANGED <<cycle, failures, state>>
  BY DEF vars, Quiet, server, state
<1>2. TypeOK'
  BY <1>1 DEF Inductive, TypeOK, Quiet, server, state
<1>3. LineageSound'
  BY <1>1 DEF Inductive, LineageSound, Quiet
<1>4. Versions'
  BY <1>1 DEF Inductive, Versions, VersionOf, ServerVersion, Quiet, server
<1>5. Forward
  <2>1. \A o \in Objects : DescendsNext(ServerVersion(o)', ServerVersion(o))
    <3>1. TAKE o \in Objects
    <3>2. PICK v : v = ServerVersion(o)
      OBVIOUS
    <3>3. VersionOf(o, v)
      BY <3>2 DEF Inductive, Versions
    <3>4. DescendsNext(v, v)
      BY <1>1, <3>3, StaysForward DEF Inductive, Grows, Quiet
    <3>. QED  BY <1>1, <3>2, <3>4 DEF ServerVersion, Quiet, server
  <2>2. changes <= changes'
    BY <1>1 DEF Inductive, TypeOK, Quiet, server
  <2>. QED  BY <1>1, <2>1, <2>2, QuietForward DEF Quiet, server
<1>. QED  BY <1>1, <1>2, <1>3, <1>4, <1>5, StepSound, SameUploads DEF Quiet, state

(* What the devices store and what their cycles and outboxes hold fits the   *)
(* server and the vaults at all times: every baseline was taken by the server *)
(* and is in the vault's history, and every upload says what its author had  *)
(* seen, for any number of overlapping cycles.                              *)
THEOREM SyncInvariant == Spec => []SyncInv
<1>1. Inductive /\ [Next]_vars => Inductive'
  BY Stutter, NextSound
<1>2. Inductive <=> SyncInv
  BY InductiveIsSyncInv
<1>. QED  BY <1>1, <1>2, InitInductive, PTL DEF Spec

(* The vault of a device only moves to what was written on top of it: no edit *)
(* is overwritten between the loading of an item and the compare-and-swap.   *)
THEOREM LocalOnlyFastForwards == Spec => LocalFastForwards
<1>1. SyncInv /\ [Next]_vars =>
        [\A d \in Devices, o \in Objects :
           local'[d][o] # local[d][o] => DescendsNext(local'[d][o], local[d][o])]_vars
  BY InductiveIsSyncInv, NextSound DEF Forward
<1>. QED  BY <1>1, SyncInvariant, PTL DEF Spec, LocalFastForwards

(* The server only moves to what was written on top of what it had, however  *)
(* an upload was harvested, queued and repeated.                            *)
THEOREM ServerOnlyFastForwards == Spec => ServerFastForwards
<1>1. SyncInv /\ [Next]_vars =>
        [\A o \in Objects :
           ServerVersion(o)' # ServerVersion(o) => DescendsNext(ServerVersion(o)', ServerVersion(o))]_vars
  <2>1. SUFFICES ASSUME SyncInv, Next
                 PROVE  \A o \in Objects : DescendsNext(ServerVersion(o)', ServerVersion(o))
    OBVIOUS
  <2>2. PICK d : d \in Devices
    <3>1. Devices # {}
      BY <2>1, VaultSyncAssumption DEF Next
    <3>. QED  BY <3>1
  <2>3. Forward
    BY <2>1, InductiveIsSyncInv, NextSound
  <2>. QED  BY <2>2, <2>3 DEF Forward
<1>. QED  BY <1>1, SyncInvariant, PTL DEF Spec, ServerFastForwards

(* Two cycles that commit what they read in either order never move a        *)
(* baseline back.                                                           *)
THEOREM BaselineOnlyAdvances == Spec => BaselineAdvances
<1>1. SyncInv /\ [Next]_vars =>
        [\A d \in Devices, o \in Objects :
           baseline'[d][o] # baseline[d][o] => DescendsNext(baseline'[d][o], baseline[d][o])]_vars
  BY InductiveIsSyncInv, NextSound DEF Forward
<1>. QED  BY <1>1, SyncInvariant, PTL DEF Spec, BaselineAdvances

(* An entry leaves the outbox when its own upload is recorded, never because  *)
(* a cycle gave up on it.                                                   *)
THEOREM AcknowledgedEntriesTookEffect == Spec => AcknowledgedTookEffect
<1>1. SyncInv /\ [Next]_vars =>
        [\A d \in Devices : \A op \in Range(outbox[d]) \ Range(outbox'[d]) : log'[op] # None]_vars
  <2>1. SUFFICES ASSUME Inductive, Next, NEW d \in Devices,
                        NEW op \in Range(outbox[d]) \ Range(outbox'[d])
                 PROVE  log'[op] # None
    BY InductiveIsSyncInv
  <2>2. PICK old : old = outbox[d]
    OBVIOUS
  <2>3. PICK new : new = outbox'[d]
    OBVIOUS
  <2>4. old \in Seq(Operation) /\ op \in Range(old) /\ op \notin Range(new)
    BY <2>1, <2>2, <2>3 DEF Inductive, TypeOK
  <2>5. PICK i \in 1..Len(old) : op = old[i]
    BY <2>4 DEF Range
  <2>6. outbox' # outbox
    BY <2>1
  <2>7. PICK c \in Cycles : Enqueue(c) \/ Acknowledge(c)
    <3>1. ASSUME NEW k \in Devices, NEW o \in Objects, Create(k, o) \/ Edit(k, o)
          PROVE  outbox' = outbox
      BY <3>1 DEF Create, Edit, Save
    <3>2. ASSUME NEW c \in Cycles, PushLost(c) \/ Abort(c) \/ Push(c)
          PROVE  outbox' = outbox
      BY <3>2 DEF PushLost, Abort, Push, Accepted
    <3>3. ASSUME NEW c \in Cycles, ListPage(c) \/ GetObject(c) \/ LoadState(c) \/ Decide(c)
                                    \/ ApplyRemote(c) \/ CommitState(c) \/ Advance(c)
          PROVE  outbox' = outbox
      BY <3>3 DEF ListPage, GetObject, LoadState, Decide, ApplyRemote, CommitState, Advance
    <3>4. ASSUME NEW c \in Cycles, StartHarvest(c) \/ LoadItem(c) \/ StartFlush(c)
                                    \/ PushRefused(c) \/ Finish(c)
          PROVE  outbox' = outbox
      BY <3>4 DEF StartHarvest, LoadItem, StartFlush, PushRefused, Finish
    <3>. QED  BY <2>1, <2>6, <3>1, <3>2, <3>3, <3>4 DEF Next, CycleStep
  <2>8. CASE Acknowledge(c)
    <3>1. PICK r : r = cycle[c]
      OBVIOUS
    <3>2. /\ r.at = "ack" /\ CycleSound(r, DeviceOf[c])
          /\ outbox' = [outbox EXCEPT ![DeviceOf[c]] = RemoveFirst(@, Head(r.batch))]
          /\ UNCHANGED log
      BY <2>1, <2>8, <3>1, AtCycle DEF Acknowledge, server
    <3>3. log[Head(r.batch)] # None
      BY <3>2 DEF CycleSound
    <3>4. new = IF d = DeviceOf[c] THEN RemoveFirst(old, Head(r.batch)) ELSE old
      BY <2>1, <2>2, <2>3, <3>2 DEF Inductive, TypeOK
    <3>5. op = Head(r.batch)
      BY <2>4, <2>5, <3>4, RemoveFirstProperties
    <3>. QED  BY <3>2, <3>3, <3>5
  <2>9. CASE Enqueue(c)
    <3>1. PICK e : outbox' = [outbox EXCEPT ![DeviceOf[c]] = Append(@, e)]
      BY <2>6, <2>9, Zenon DEF Enqueue
    <3>2. new = IF d = DeviceOf[c] THEN Append(old, e) ELSE old
      BY <2>1, <2>2, <2>3, <3>1 DEF Inductive, TypeOK
    <3>3. new = Append(old, e)
      BY <2>4, <3>2
    <3>4. new[i] = old[i] /\ i \in DOMAIN new
      BY <2>4, <2>5, <3>3
    <3>. QED  BY <2>4, <2>5, <3>4 DEF Range
  <2>. QED  BY <2>7, <2>8, <2>9
<1>. QED  BY <1>1, SyncInvariant, PTL DEF Spec, AcknowledgedTookEffect

-----------------------------------------------------------------------------
(* The pull cursor, when a device runs one cycle at a time.                 *)
OneCyclePerDevice == \A c, k \in Cycles : DeviceOf[c] = DeviceOf[k] => c = k

(* No two rows have the same sequence number.                               *)
Numbered ==
  \A o, p \in Objects :
    current[o] # None /\ current[p] # None /\ current[o].seq = current[p].seq => o = p

(* The rest of a page lists, in order, every row after the cursor up to its  *)
(* last one that has not changed since; a row that has changed is further on.*)
Paging == {"page", "state", "decide", "apply", "commit", "advance"}

PageFits(r, d) ==
  /\ r.cursor = cursor[d]
  /\ \A i \in 1..Len(r.page) :
       /\ r.cursor < r.page[i].seq
       /\ current[r.page[i].object] # None
       /\ r.page[i].seq <= current[r.page[i].object].seq
       /\ r.page[i].seq = current[r.page[i].object].seq =>
            r.page[i].version = ServerVersion(r.page[i].object)
  /\ \A i, j \in 1..Len(r.page) : i < j => r.page[i].seq < r.page[j].seq
  /\ \A o \in Objects, i \in 1..Len(r.page) :
       current[o] # None /\ r.cursor < current[o].seq /\ current[o].seq <= r.page[i].seq =>
         \E j \in 1..Len(r.page) : r.page[j].object = o /\ r.page[j].seq = current[o].seq

(* Before the cursor passes version v of item o, the vault has it or it is   *)
(* the conflict candidate.                                                  *)
Dealt(r, d, o, v) ==
  /\ r.at = "commit" => Descends(local[d][o], v) \/ r.conflict = v
  /\ r.at = "advance" => Descends(local[d][o], v) \/ conflict[d][o] = v

Fits(r, d) ==
  r.at \in Paging =>
    PageFits(r, d) /\ (r.page # <<>> => Dealt(r, d, Head(r.page).object, Head(r.page).version))

CyclesFit == \A c \in Cycles : \A r \in {cycle[c]} : Fits(r, DeviceOf[c])

CursorInv == CursorComplete /\ Numbered /\ CyclesFit

(* A row that changes gets the next number.                                 *)
ServerAppends ==
  /\ \A o \in Objects : current'[o] # current[o] =>
       current'[o] # None /\ current'[o].seq = changes + 1
  /\ \A o, p \in Objects : current'[o] # current[o] /\ current'[p] # current[p] => o = p

(* An accepted upload is the one new row, and gets the highest number.     *)
LEMMA AcceptedAppends ==
  ASSUME Inductive, NEW c \in Cycles, Accepted(c)
  PROVE  ServerAppends
<1>. PICK r : r = cycle[c]
  OBVIOUS
<1>. PICK op : op = Head(r.batch)
  OBVIOUS
<1>1. CASE UNCHANGED server
  BY <1>1 DEF ServerAppends, server
<1>2. CASE Server!TakeEffect(Mutation(op))
  <2>1. /\ r \in Locals /\ CycleSound(r, DeviceOf[c]) /\ DeviceOf[c] \in Devices
        /\ r.batch # <<>> /\ r.batch \in Seq(Operation) /\ TypeOK
    BY AtCycle DEF Accepted, Inductive
  <2>2. op = r.batch[1] /\ 1 \in 1..Len(r.batch) /\ op \in Operation
    BY <2>1
  <2>3. UploadSound(DeviceOf[c], op)
    BY <2>1, <2>2 DEF CycleSound
  <2>4. PICK m : m = Mutation(op)
    OBVIOUS
  <2>5. m \in Write /\ m.object \in Objects
    BY <2>1, <2>2, <2>3, <2>4, MutationTyped
  <2>6. PICK e : e = [mutation |-> m, seq |-> changes + 1]
    OBVIOUS
  <2>7. current' = [current EXCEPT ![m.object] = e]
    BY <1>2, <2>4, <2>6 DEF Server!TakeEffect
  <2>8. e # None /\ e.seq = changes + 1
    <3>1. e \in Entry
      BY <2>1, <2>5, <2>6 DEF Entry, TypeOK
    <3>. QED  BY <2>6, <3>1, NoneAssumption
  <2>9. \A o \in Objects : current'[o] = IF o = m.object THEN e ELSE current[o]
    BY <2>1, <2>7 DEF TypeOK
  <2>. QED  BY <2>8, <2>9 DEF ServerAppends
<1>. QED  BY <1>1, <1>2 DEF Accepted

(* What fitted still fits when the server and the vaults move on.           *)
LEMMA FitsLater ==
  ASSUME Inductive, Inductive', Forward, ServerAppends, NEW d \in Devices,
         cursor'[d] = cursor[d], conflict'[d] = conflict[d],
         NEW r \in Locals, CycleSound(r, d), Fits(r, d)
  PROVE  Fits(r, d)'
<1>. SUFFICES ASSUME r.at \in Paging
              PROVE  /\ PageFits(r, d)'
                     /\ (r.page # <<>> =>
                           Dealt(r, d, Head(r.page).object, Head(r.page).version)')
  BY DEF Fits
<1>1. r.page \in Seq(PageEntry) /\ PageFits(r, d) /\ changes \in Nat /\ r.cursor \in Nat
  BY DEF Fits, Locals, Inductive, TypeOK
<1>2. ASSUME NEW i \in 1..Len(r.page)
      PROVE  /\ r.page[i].object \in Objects /\ r.page[i].seq \in Nat /\ r.page[i].seq <= changes
  <2>1. r.page[i] \in PageEntry
    BY <1>1, ElementOfSeq
  <2>. QED  BY <2>1 DEF PageEntry, CycleSound
<1>3. ASSUME NEW o \in Objects, current'[o] # current[o]
      PROVE  current'[o] # None /\ current'[o].seq = changes + 1
  BY <1>3 DEF ServerAppends
<1>4. PageFits(r, d)'
  <2>1. ASSUME NEW i \in 1..Len(r.page)
        PROVE  /\ r.cursor < r.page[i].seq
               /\ current'[r.page[i].object] # None
               /\ r.page[i].seq <= current'[r.page[i].object].seq
               /\ r.page[i].seq = current'[r.page[i].object].seq =>
                    r.page[i].version = ServerVersion(r.page[i].object)'
    <3>1. PICK o \in Objects : o = r.page[i].object
      BY <1>2
    <3>2. /\ r.cursor < r.page[i].seq
          /\ current[o] # None
          /\ r.page[i].seq <= current[o].seq
          /\ r.page[i].seq = current[o].seq => r.page[i].version = ServerVersion(o)
      BY <1>1, <3>1 DEF PageFits
    <3>3. CASE current'[o] = current[o]
      BY <3>1, <3>2, <3>3 DEF ServerVersion
    <3>4. CASE current'[o] # current[o]
      <4>1. r.page[i].seq < current'[o].seq /\ current'[o] # None
        BY <1>1, <1>2, <1>3, <3>4
      <4>2. current'[o].seq \in Nat
        BY <1>1, <1>3, <3>4
      <4>. QED  BY <1>2, <3>1, <3>2, <4>1, <4>2
    <3>. QED  BY <3>3, <3>4
  <2>2. ASSUME NEW o \in Objects, NEW i \in 1..Len(r.page),
               current'[o] # None /\ r.cursor < current'[o].seq /\ current'[o].seq <= r.page[i].seq
        PROVE  \E j \in 1..Len(r.page) : r.page[j].object = o /\ r.page[j].seq = current'[o].seq
    <3>1. current'[o] = current[o]
      BY <1>1, <1>2, <1>3, <2>2
    <3>. QED  BY <1>1, <2>2, <3>1 DEF PageFits
  <2>3. \A i, j \in 1..Len(r.page) : i < j => r.page[i].seq < r.page[j].seq
    BY <1>1 DEF PageFits
  <2>4. r.cursor = cursor'[d]
    BY <1>1 DEF PageFits
  <2>. QED  BY <2>1, <2>2, <2>3, <2>4 DEF PageFits
<1>5. ASSUME r.page # <<>>
      PROVE  Dealt(r, d, Head(r.page).object, Head(r.page).version)'
  <2>1. Head(r.page) = r.page[1] /\ 1 \in 1..Len(r.page)
    BY <1>1, <1>5
  <2>2. PICK o \in Objects : o = Head(r.page).object
    BY <1>2, <2>1
  <2>3. PICK v : v = Head(r.page).version
    OBVIOUS
  <2>4. VersionOf(o, v) /\ Dealt(r, d, o, v)
    BY <1>5, <2>1, <2>2, <2>3 DEF CycleSound, Taken, Fits
  <2>5. Descends(local[d][o], v) => Descends(local[d][o], v)'
    BY <2>4, HoldsLater DEF Holds, Inductive
  <2>. QED  BY <2>2, <2>3, <2>4, <2>5 DEF Dealt
<1>. QED  BY <1>4, <1>5

(* What a step has to show to keep the cursors complete.                    *)
LEMMA CursorLater ==
  ASSUME Inductive, Inductive', Forward, ServerAppends, CursorInv, UNCHANGED <<cursor, conflict>>,
         \A c \in Cycles : \A s \in {cycle'[c]} : s = cycle[c] \/ Fits(s, DeviceOf[c])'
  PROVE  CursorInv'
<1>1. changes \in Nat /\ cursor \in [Devices -> 0..changes] /\ TypeOK
  BY DEF Inductive, TypeOK
<1>2. ASSUME NEW o \in Objects, current'[o] # current[o]
      PROVE  current'[o] # None /\ current'[o].seq = changes + 1
  BY <1>2 DEF ServerAppends
<1>3. CursorComplete'
  <2>1. SUFFICES ASSUME NEW d \in Devices, NEW o \in Objects,
                        current'[o] # None, current'[o].seq <= cursor'[d]
                 PROVE  Descends(local[d][o], ServerVersion(o))'
                        \/ conflict'[d][o] = ServerVersion(o)'
    BY DEF CursorComplete
  <2>2. cursor[d] \in Nat /\ cursor[d] <= changes /\ cursor'[d] = cursor[d]
    BY <1>1
  <2>3. current'[o] = current[o]
    BY <1>1, <1>2, <2>1, <2>2
  <2>4. PICK v : v = ServerVersion(o)
    OBVIOUS
  <2>5. v = ServerVersion(o)' /\ VersionOf(o, v)
    BY <2>3, <2>4 DEF ServerVersion, Inductive, Versions
  <2>6. Descends(local[d][o], v) \/ conflict[d][o] = v
    BY <2>1, <2>2, <2>3, <2>4 DEF CursorInv, CursorComplete
  <2>7. Descends(local[d][o], v) => Descends(local[d][o], v)'
    BY <2>5, HoldsLater DEF Holds, Inductive
  <2>. QED  BY <2>5, <2>6, <2>7 DEF Descends
<1>4. Numbered'
  <2>1. SUFFICES ASSUME NEW o \in Objects, NEW p \in Objects, current'[o] # None,
                        current'[p] # None, current'[o].seq = current'[p].seq
                 PROVE  o = p
    BY DEF Numbered
  <2>2. \A q \in {o, p} : current[q] # None => current[q].seq \in Nat /\ current[q].seq <= changes
    BY <1>1, CurrentTyped
  <2>3. CASE current'[o] = current[o] /\ current'[p] = current[p]
    BY <2>1, <2>3 DEF CursorInv, Numbered
  <2>4. CASE current'[o] # current[o] /\ current'[p] # current[p]
    BY <2>4 DEF ServerAppends
  <2>5. CASE current'[o] # current[o] /\ current'[p] = current[p]
    BY <1>1, <1>2, <2>1, <2>2, <2>5
  <2>6. CASE current'[o] = current[o] /\ current'[p] # current[p]
    BY <1>1, <1>2, <2>1, <2>2, <2>6
  <2>. QED  BY <2>3, <2>4, <2>5, <2>6
<1>5. CyclesFit'
  <2>1. SUFFICES ASSUME NEW c \in Cycles, NEW s, s = cycle'[c]
                 PROVE  Fits(s, DeviceOf[c])'
    BY DEF CyclesFit
  <2>2. CASE s = cycle[c]
    <3>1. s \in Locals /\ CycleSound(s, DeviceOf[c]) /\ DeviceOf[c] \in Devices
      BY <2>2, AtCycle
    <3>2. Fits(s, DeviceOf[c])
      BY <2>2 DEF CursorInv, CyclesFit
    <3>. QED  BY <3>1, <3>2, FitsLater
  <2>. QED  BY <2>1, <2>2
<1>. QED  BY <1>3, <1>4, <1>5 DEF CursorInv

(* Steps that change only the locals of a cycle.                            *)
LEMMA SameServer ==
  ASSUME UNCHANGED server
  PROVE  ServerAppends
BY DEF server, ServerAppends

LEMMA SameFits ==
  ASSUME UNCHANGED <<made, server, local, conflict, cursor>>, NEW d, NEW r, Fits(r, d)
  PROVE  Fits(r, d)'
<1>1. \A o : ServerVersion(o)' = ServerVersion(o)
  BY DEF ServerVersion, server
<1>2. PageFits(r, d) => PageFits(r, d)'
  BY <1>1 DEF PageFits, server
<1>3. \A o, v : Dealt(r, d, o, v) => Dealt(r, d, o, v)'
  BY DEF Dealt, Descends
<1>. QED  BY <1>2, <1>3 DEF Fits

LEMMA QuietCursorStep ==
  ASSUME Inductive, Inductive', Forward, CursorInv, Quiet, NEW c \in Cycles, NEW s,
         cycle' = [cycle EXCEPT ![c] = s], Fits(s, DeviceOf[c])
  PROVE  CursorInv'
<1>1. UNCHANGED <<made, server, local, conflict, cursor>>
  BY DEF Quiet, state
<1>2. Fits(s, DeviceOf[c])'
  BY <1>1, SameFits
<1>3. \A k \in Cycles : \A t \in {cycle'[k]} : t = cycle[k] \/ Fits(t, DeviceOf[k])'
  BY <1>2 DEF Inductive, TypeOK
<1>. QED  BY <1>1, <1>3, SameServer, CursorLater

(* Of a cycle that does not run nothing is required.                       *)
LEMMA IdleFits ==
  ASSUME NEW d
  PROVE  Fits(Idle, d)
BY DEF Fits, Idle, Paging

LEMMA EndCursor ==
  ASSUME Inductive, Inductive', Forward, CursorInv, Quiet, NEW c \in Cycles, End(c)
  PROVE  CursorInv'
BY IdleFits, QuietCursorStep DEF End

(* A page lists the rows after the cursor, in order.                        *)
LEMMA SortedRows ==
  ASSUME TypeOK, NEW d \in Devices,
         NEW sorted \in [1..Cardinality(RowsAfter(d)) -> RowsAfter(d)],
         \A i, j \in DOMAIN sorted : i < j => sorted[i].seq < sorted[j].seq,
         NEW o \in Objects, current[o] # None, cursor[d] < current[o].seq
  PROVE  \E j \in DOMAIN sorted :
           sorted[j] = [object |-> o, version |-> ServerVersion(o), seq |-> current[o].seq]
<1>1. PICK n : n = Cardinality(RowsAfter(d))
  OBVIOUS
<1>2. n \in Nat /\ IsFiniteSet(RowsAfter(d)) /\ DOMAIN sorted = 1..n
  BY <1>1, RowsFinite
<1>3. \A k \in 1..n : sorted[k].seq \in Nat
  <2>1. TAKE k \in 1..n
  <2>2. sorted[k] \in RowsAfter(d)
    BY <1>1
  <2>3. PICK p \in Objects : /\ current[p] # None
                             /\ sorted[k] = [object |-> p, version |-> ServerVersion(p), seq |-> current[p].seq]
    BY <2>2 DEF RowsAfter
  <2>. QED  BY <2>3, CurrentTyped
<1>4. ASSUME NEW i \in 1..n, NEW j \in 1..n, sorted[i] = sorted[j]
      PROVE  i = j
  <2>1. ~(i < j) /\ ~(j < i)
    BY <1>2, <1>3, <1>4
  <2>. QED  BY <1>2, <2>1
<1>5. sorted \in Injection(1..n, RowsAfter(d))
  BY <1>1, <1>4 DEF Injection, IsInjective
<1>6. Cardinality(1..n) = n
  <2>1. Cardinality(1..n) = IF 1 > n THEN 0 ELSE n - 1 + 1
    BY <1>2, FS_Interval
  <2>. QED  BY <1>2, <2>1
<1>7. sorted \in Surjection(1..n, RowsAfter(d))
  BY <1>1, <1>2, <1>5, <1>6, FS_Injection
<1>8. [object |-> o, version |-> ServerVersion(o), seq |-> current[o].seq] \in RowsAfter(d)
  <2>1. cursor[d] \in Nat /\ current[o].seq \in Nat
    BY CurrentTyped DEF TypeOK
  <2>. QED  BY <2>1 DEF RowsAfter
<1>. QED  BY <1>2, <1>7, <1>8 DEF Surjection

LEMMA ListPageCursor ==
  ASSUME Inductive, Inductive', Forward, CursorInv, NEW c \in Cycles, ListPage(c)
  PROVE  CursorInv'
<1>. DEFINE d == DeviceOf[c]
<1>1. PICK sorted \in [1..Cardinality(RowsAfter(d)) -> RowsAfter(d)] :
        /\ \A i, j \in DOMAIN sorted : i < j => sorted[i].seq < sorted[j].seq
        /\ cycle' = [cycle EXCEPT
            ![c] = [Idle EXCEPT !.at = "page", !.cursor = cursor[d],
                                !.page = Take(sorted, PageLimit)]]
  BY DEF ListPage, RowsAfter
<1>2. PICK s : s = [Idle EXCEPT !.at = "page", !.cursor = cursor[d],
                                !.page = Take(sorted, PageLimit)]
  OBVIOUS
<1>3. PICK page : page = s.page
  OBVIOUS
<1>4. /\ s.at = "page" /\ s.cursor = cursor[d] /\ page = Take(sorted, PageLimit)
  BY <1>2, <1>3 DEF Idle
<1>5. d \in Devices /\ cursor[d] \in Nat /\ TypeOK
  BY AtCycle DEF Inductive, TypeOK
<1>6. PICK n : n = Cardinality(RowsAfter(d))
  OBVIOUS
<1>7. n \in Nat /\ DOMAIN sorted = 1..n /\ sorted \in Seq(RowsAfter(d)) /\ Len(sorted) = n
  BY <1>6, RowsFinite, IsASeq
<1>8. /\ Len(page) \in Nat /\ Len(page) <= n
      /\ \A i \in 1..Len(page) : i \in 1..n /\ page[i] = sorted[i]
  <2>1. PageLimit \in Nat
    BY VaultSyncAssumption
  <2>2. /\ Len(Take(sorted, PageLimit)) \in Nat
        /\ Len(Take(sorted, PageLimit)) <= Len(sorted)
        /\ \A i \in 1..Len(Take(sorted, PageLimit)) :
              i \in 1..Len(sorted) /\ Take(sorted, PageLimit)[i] = sorted[i]
    BY <1>7, <2>1, TakeProperties
  <2>. QED  BY <1>4, <1>7, <2>2
<1>9. ASSUME NEW k \in 1..n
      PROVE  \E p \in Objects :
               /\ current[p] # None /\ cursor[d] < current[p].seq /\ current[p].seq \in Nat
               /\ sorted[k] = [object |-> p, version |-> ServerVersion(p), seq |-> current[p].seq]
  <2>1. sorted[k] \in RowsAfter(d)
    BY <1>6
  <2>2. PICK p \in Objects : /\ current[p] # None /\ current[p].seq > cursor[d]
                             /\ sorted[k] = [object |-> p, version |-> ServerVersion(p), seq |-> current[p].seq]
    BY <2>1 DEF RowsAfter
  <2>3. current[p].seq \in Nat
    BY <1>5, <2>2, CurrentTyped
  <2>. QED  BY <1>5, <2>2, <2>3
<1>10. ASSUME NEW i \in 1..Len(page)
       PROVE  /\ cursor[d] < page[i].seq
              /\ current[page[i].object] # None
              /\ page[i].seq <= current[page[i].object].seq
              /\ page[i].version = ServerVersion(page[i].object)
  <2>1. i \in 1..n /\ page[i] = sorted[i]
    BY <1>8
  <2>2. PICK p \in Objects :
               /\ current[p] # None /\ cursor[d] < current[p].seq /\ current[p].seq \in Nat
               /\ sorted[i] = [object |-> p, version |-> ServerVersion(p), seq |-> current[p].seq]
    BY <1>9, <2>1
  <2>. QED  BY <2>1, <2>2
<1>11. \A i, j \in 1..Len(page) : i < j => page[i].seq < page[j].seq
  BY <1>1, <1>7, <1>8
<1>12. ASSUME NEW o \in Objects, NEW i \in 1..Len(page),
              current[o] # None, cursor[d] < current[o].seq, current[o].seq <= page[i].seq
       PROVE  \E j \in 1..Len(page) : page[j].object = o /\ page[j].seq = current[o].seq
  <2>1. PICK j \in 1..n :
          sorted[j] = [object |-> o, version |-> ServerVersion(o), seq |-> current[o].seq]
    BY <1>1, <1>5, <1>7, <1>12, SortedRows
  <2>2. sorted[j].object = o /\ sorted[j].seq = current[o].seq /\ current[o].seq \in Nat
    BY <1>5, <1>12, <2>1, CurrentTyped
  <2>3. i \in 1..n /\ page[i] = sorted[i]
    BY <1>8
  <2>. PICK p \in Objects :
         /\ current[p] # None /\ cursor[d] < current[p].seq /\ current[p].seq \in Nat
         /\ sorted[i] = [object |-> p, version |-> ServerVersion(p), seq |-> current[p].seq]
    BY <1>9, <2>3
  <2>. sorted[i].seq \in Nat
    OBVIOUS
  <2>4. ~(i < j)
    BY <1>1, <1>7, <1>12, <2>2, <2>3
  <2>5. j \in 1..Len(page)
    BY <1>7, <1>8, <2>4
  <2>. QED  BY <1>8, <2>2, <2>5
<1>13. PageFits(s, d)
  BY <1>3, <1>4, <1>10, <1>11, <1>12 DEF PageFits
<1>14. Fits(s, d)
  BY <1>4, <1>13 DEF Fits, Dealt
<1>. QED  BY <1>1, <1>2, <1>14, QuietCursorStep DEF ListPage, Quiet

(* A cycle that goes on with its page.                                      *)
LEMMA SamePageFits ==
  ASSUME NEW d, NEW r, Fits(r, d), r.at \in Paging, NEW s, s.page = r.page, s.cursor = r.cursor,
         r.page # <<>> => Dealt(s, d, Head(r.page).object, Head(r.page).version)
  PROVE  Fits(s, d)
<1>1. PageFits(s, d)
  BY DEF Fits, PageFits
<1>. QED  BY <1>1 DEF Fits

LEMMA GetObjectCursor ==
  ASSUME Inductive, Inductive', Forward, CursorInv, NEW c \in Cycles, GetObject(c)
  PROVE  CursorInv'
<1>. PICK r : r = cycle[c]
  OBVIOUS
<1>1. Quiet /\ r.at = "page" /\ r \in Locals /\ Fits(r, DeviceOf[c])
  BY AtCycle DEF GetObject, Quiet, CursorInv, CyclesFit
<1>2. CASE End(c)
  BY <1>1, <1>2, EndCursor
<1>3. CASE Go(c, "state")
  <2>1. PICK s : s = [r EXCEPT !.at = "state"]
    OBVIOUS
  <2>2. cycle' = [cycle EXCEPT ![c] = s]
    BY <1>3, <2>1 DEF Go
  <2>3. s.at = "state" /\ s.page = r.page /\ s.cursor = r.cursor
    BY <1>1, <2>1 DEF Locals
  <2>4. Fits(s, DeviceOf[c])
    BY <1>1, <2>3, SamePageFits DEF Dealt, Paging
  <2>. QED  BY <1>1, <2>2, <2>4, QuietCursorStep
<1>. QED  BY <1>2, <1>3 DEF GetObject

LEMMA LoadStateCursor ==
  ASSUME Inductive, Inductive', Forward, CursorInv, NEW c \in Cycles, LoadState(c)
  PROVE  CursorInv'
<1>. PICK r : r = cycle[c]
  OBVIOUS
<1>1. Quiet /\ r.at = "state" /\ r \in Locals /\ Fits(r, DeviceOf[c])
  BY AtCycle DEF LoadState, Quiet, CursorInv, CyclesFit
<1>2. PICK s : s = [r EXCEPT !.at = "decide",
                             !.stamp = stamp[DeviceOf[c]][Head(r.page).object],
                             !.baseline = baseline[DeviceOf[c]][Head(r.page).object]]
  OBVIOUS
<1>3. cycle' = [cycle EXCEPT ![c] = s]
  BY <1>2 DEF LoadState
<1>4. s.at = "decide" /\ s.page = r.page /\ s.cursor = r.cursor
  BY <1>1, <1>2 DEF Locals
<1>5. Fits(s, DeviceOf[c])
  BY <1>1, <1>4, SamePageFits DEF Dealt, Paging
<1>. QED  BY <1>1, <1>3, <1>5, QuietCursorStep

(* The decision keeps the pulled version, one way or the other.             *)
LEMMA DecideCursor ==
  ASSUME Inductive, Inductive', Forward, CursorInv, NEW c \in Cycles, Decide(c)
  PROVE  CursorInv'
<1>. PICK r : r = cycle[c]
  OBVIOUS
<1>. DEFINE d == DeviceOf[c]
            head == Head(r.page)
            o == head.object
            b == r.baseline
<1>1. Quiet /\ r.at = "decide"
  BY DEF Decide, Quiet
<1>2. r \in Locals /\ CycleSound(r, d) /\ d \in Devices /\ Fits(r, d)
  BY AtCycle DEF CursorInv, CyclesFit
<1>3. r.page # <<>> /\ ItemSound(r, d, o, head.version)
  BY <1>1, <1>2 DEF CycleSound
<1>4. o \in Objects /\ Taken(o, head.version) /\ Holds(d, o, b)
  BY <1>1, <1>3, AtPage DEF ItemSound
<1>5. PICK i : i = local[d][o]
  OBVIOUS
<1>. DEFINE decision == Reconcile(i, b, head.version)
            Next1(label, newBase, candidate) ==
              cycle' = [cycle EXCEPT ![c].at = label, ![c].item = i,
                                     ![c].baseline = newBase, ![c].conflict = candidate]
<1>6. \/ End(c)
      \/ decision = "apply_remote" /\ Next1("apply", head.version, 0)
      \/ decision = "unchanged" /\ Next1("commit", head.version, 0)
      \/ decision = "conflict" /\ Next1("commit", b, head.version)
      \/ decision = "keep_local" /\ Next1("advance", b, 0)
  <2>1. decision \in {"reject", "apply_remote", "unchanged", "conflict", "keep_local"}
    BY DEF Reconcile
  <2>2. PICK e : e = decision
    OBVIOUS
  <2>3. CASE e = "reject" \/ e = "apply_remote" \/ e = "unchanged"
    BY <1>5, <2>2, <2>3, Zenon DEF Decide
  <2>4. CASE e = "conflict" \/ e = "keep_local"
    BY <1>5, <2>2, <2>4, Zenon DEF Decide
  <2>. QED  BY <2>1, <2>2, <2>3, <2>4
<1>7. ASSUME NEW label \in {"apply", "commit", "advance"}, NEW newBase \in {b, head.version},
             NEW candidate \in {0, head.version}, Next1(label, newBase, candidate),
             label = "commit" => Descends(i, head.version) \/ candidate = head.version,
             label = "advance" => Descends(i, head.version)
      PROVE  CursorInv'
  <2>1. PICK s : s = [r EXCEPT !.at = label, !.item = i, !.baseline = newBase,
                               !.conflict = candidate]
    OBVIOUS
  <2>2. cycle' = [cycle EXCEPT ![c] = s]
    BY <1>7, <2>1
  <2>3. s.at = label /\ s.page = r.page /\ s.cursor = r.cursor /\ s.conflict = candidate
    BY <1>2, <2>1 DEF Locals
  <2>4. Dealt(s, d, o, head.version)
    BY <1>5, <1>7, <2>3 DEF Dealt
  <2>5. Fits(s, d)
    BY <1>1, <1>2, <2>3, <2>4, SamePageFits DEF Paging
  <2>. QED  BY <1>1, <2>2, <2>5, QuietCursorStep
<1>8. CASE End(c)
  BY <1>1, <1>8, EndCursor
<1>9. CASE decision = "apply_remote" /\ Next1("apply", head.version, 0)
  BY <1>7, <1>9
<1>10. CASE decision = "unchanged" /\ Next1("commit", head.version, 0)
  <2>1. i = head.version
    BY <1>10 DEF Reconcile
  <2>2. Descends(i, head.version)
    BY <1>4, <2>1, DescendsItself DEF Inductive, Taken
  <2>. QED  BY <1>7, <1>10, <2>2
<1>11. CASE decision = "conflict" /\ Next1("commit", b, head.version)
  BY <1>7, <1>11
<1>12. CASE decision = "keep_local" /\ Next1("advance", b, 0)
  <2>1. b = head.version
    BY <1>12 DEF Reconcile
  <2>2. Descends(i, head.version)
    BY <1>4, <1>5, <2>1 DEF Holds
  <2>. QED  BY <1>7, <1>12, <2>2
<1>. QED  BY <1>6, <1>8, <1>9, <1>10, <1>11, <1>12

LEMMA ApplyRemoteCursor ==
  ASSUME Inductive, Inductive', Forward, CursorInv, NEW c \in Cycles, ApplyRemote(c)
  PROVE  CursorInv'
<1>. PICK r : r = cycle[c]
  OBVIOUS
<1>. DEFINE d == DeviceOf[c]
            o == Head(r.page).object
            v == Head(r.page).version
<1>1. r \in Locals /\ CycleSound(r, d) /\ d \in Devices /\ r.at = "apply" /\ Fits(r, d)
  BY AtCycle DEF ApplyRemote, CursorInv, CyclesFit
<1>2. r.page # <<>>
  BY <1>1 DEF CycleSound
<1>3. o \in Objects /\ VersionOf(o, v)
  BY <1>2, AtPage DEF Taken
<1>4. CASE End(c) /\ UNCHANGED local
  BY <1>4, EndCursor DEF ApplyRemote, Quiet
<1>5. CASE local' = [local EXCEPT ![d][o] = v] /\ Go(c, "commit")
  <2>1. UNCHANGED <<made, server, conflict, cursor>>
    BY DEF ApplyRemote, state
  <2>2. PICK s : s = [r EXCEPT !.at = "commit"]
    OBVIOUS
  <2>3. cycle' = [cycle EXCEPT ![c] = s]
    BY <1>5, <2>2 DEF Go
  <2>4. s.at = "commit" /\ s.page = r.page /\ s.cursor = r.cursor
    BY <1>1, <2>2 DEF Locals
  <2>5. local'[d][o] = v
    BY <1>1, <1>3, <1>5 DEF Inductive, TypeOK
  <2>6. Descends(v, v)'
    BY <1>3, DescendsItself, DescendsLater DEF Inductive, Forward
  <2>7. Dealt(s, d, o, v)'
    BY <2>4, <2>5, <2>6 DEF Dealt, Descends
  <2>8. Fits(r, d)'
    BY <1>1, <2>1, SameServer, FitsLater
  <2>9. Fits(s, d)'
    <3>1. PageFits(s, d)'
      BY <1>1, <2>4, <2>8 DEF Fits, PageFits, Paging
    <3>. QED  BY <2>4, <2>7, <3>1 DEF Fits
  <2>10. \A k \in Cycles : \A t \in {cycle'[k]} : t = cycle[k] \/ Fits(t, DeviceOf[k])'
    BY <2>3, <2>9 DEF Inductive, TypeOK
  <2>. QED  BY <2>1, <2>10, SameServer, CursorLater
<1>. QED  BY <1>4, <1>5 DEF ApplyRemote

(* The state that is committed is about a row the cursor has not passed.    *)
LEMMA CommitStateCursor ==
  ASSUME OneCyclePerDevice, Inductive, Inductive', Forward, CursorInv,
         NEW c \in Cycles, CommitState(c)
  PROVE  CursorInv'
<1>. PICK r : r = cycle[c]
  OBVIOUS
<1>. DEFINE d == DeviceOf[c]
            o == Head(r.page).object
            v == Head(r.page).version
<1>1. r \in Locals /\ CycleSound(r, d) /\ d \in Devices /\ r.at = "commit" /\ Fits(r, d)
  BY AtCycle DEF CommitState, CursorInv, CyclesFit
<1>2. r.page # <<>>
  BY <1>1 DEF CycleSound
<1>3. /\ o \in Objects /\ VersionOf(o, v) /\ PageFits(r, d) /\ Dealt(r, d, o, v)
      /\ Head(r.page).seq \in Nat
  BY <1>1, <1>2, AtPage DEF Taken, Fits, Paging
<1>4. CASE End(c) /\ UNCHANGED state
  BY <1>4, EndCursor DEF CommitState, Quiet
<1>5. CASE conflict' = [conflict EXCEPT ![d][o] = r.conflict] /\ Go(c, "advance")
  <2>1. UNCHANGED <<made, current, log, changes, local, cursor>> /\ TypeOK
    BY DEF CommitState, server, Inductive
  <2>2. PICK s : s = [r EXCEPT !.at = "advance"]
    OBVIOUS
  <2>3. cycle' = [cycle EXCEPT ![c] = s]
    BY <1>5, <2>2 DEF Go
  <2>4. s.at = "advance" /\ s.page = r.page /\ s.cursor = r.cursor
    BY <1>1, <2>2 DEF Locals
  <2>5. \A k \in Devices, p \in Objects :
          conflict'[k][p] = IF k = d /\ p = o THEN r.conflict ELSE conflict[k][p]
    BY <1>1, <1>3, <1>5, <2>1 DEF TypeOK
  <2>6. \A p : ServerVersion(p)' = ServerVersion(p)
    BY <2>1 DEF ServerVersion
  <2>7. ASSUME NEW k, PageFits(r, k)
        PROVE  PageFits(r, k)'
    BY <2>1, <2>6, <2>7 DEF PageFits
  <2>8. Fits(s, d)'
    <3>. PageFits(r, d)'
      BY <1>3, <2>7
    <3>1. PageFits(s, d)'
      BY <2>4 DEF PageFits
    <3>2. Dealt(s, d, o, v)'
      BY <1>1, <1>3, <2>1, <2>4, <2>5 DEF Dealt, Descends
    <3>. QED  BY <2>4, <3>1, <3>2 DEF Fits
  <2>9. CursorComplete'
    <3>1. SUFFICES ASSUME NEW k \in Devices, NEW p \in Objects,
                          current[p] # None, current[p].seq <= cursor[k]
                   PROVE  Descends(local[k][p], ServerVersion(p))
                          \/ conflict'[k][p] = ServerVersion(p)
      BY <2>1, <2>6 DEF CursorComplete, Descends
    <3>2. ~(k = d /\ p = o)
      <4>1. Head(r.page) = r.page[1] /\ 1 \in 1..Len(r.page)
        BY <1>1, <1>2 DEF Locals
      <4>2. cursor[d] < Head(r.page).seq /\ Head(r.page).seq <= current[o].seq
            /\ current[o] # None
        BY <1>3, <4>1 DEF PageFits
      <4>3. cursor[d] \in Nat /\ current[o].seq \in Nat /\ Head(r.page).seq \in Nat
        BY <1>1, <1>3, <2>1, <4>2, CurrentTyped DEF TypeOK
      <4>4. ~(current[o].seq <= cursor[d])
        BY <4>2, <4>3
      <4>. QED  BY <3>1, <4>4, Zenon
    <3>. QED  BY <2>5, <3>1, <3>2 DEF CursorInv, CursorComplete
  <2>10. Numbered'
    BY <2>1 DEF CursorInv, Numbered
  <2>11. ASSUME NEW k \in Cycles, k # c, NEW t, t = cycle[k]
         PROVE  Fits(t, DeviceOf[k])'
    <3>1. DeviceOf[k] # d /\ DeviceOf[k] \in Devices
      BY <2>11, AtCycle DEF OneCyclePerDevice
    <3>2. conflict'[DeviceOf[k]] = conflict[DeviceOf[k]]
      BY <1>1, <1>5, <2>1, <3>1 DEF TypeOK
    <3>3. t \in Locals /\ CycleSound(t, DeviceOf[k]) /\ Fits(t, DeviceOf[k])
      BY <2>11, AtCycle DEF CursorInv, CyclesFit
    <3>4. ServerAppends
      BY <2>1 DEF ServerAppends
    <3>. QED  BY <2>1, <3>1, <3>2, <3>3, <3>4, FitsLater
  <2>12. CyclesFit'
    BY <2>1, <2>3, <2>8, <2>11 DEF CyclesFit, TypeOK
  <2>. QED  BY <2>9, <2>10, <2>12 DEF CursorInv
<1>. QED  BY <1>4, <1>5 DEF CommitState

(* The cursor passes the one row that the cycle has dealt with: what the page *)
(* does not list has changed since and is further on.                       *)
LEMMA AdvanceCursor ==
  ASSUME OneCyclePerDevice, Inductive, Inductive', Forward, CursorInv,
         NEW c \in Cycles, Advance(c)
  PROVE  CursorInv'
<1>. PICK r : r = cycle[c]
  OBVIOUS
<1>. DEFINE d == DeviceOf[c]
            seq == Head(r.page).seq
<1>1. r \in Locals /\ CycleSound(r, d) /\ d \in Devices /\ r.at = "advance" /\ Fits(r, d)
  BY AtCycle DEF Advance, CursorInv, CyclesFit
<1>2. r.page # <<>>
  BY <1>1 DEF CycleSound
<1>3. /\ PageFits(r, d) /\ Dealt(r, d, Head(r.page).object, Head(r.page).version)
      /\ r.page \in Seq(PageEntry)
  BY <1>1, <1>2 DEF Fits, Paging, Locals
<1>4. /\ seq \in Nat /\ Tail(r.page) \in Seq(PageEntry) /\ Len(Tail(r.page)) = Len(r.page) - 1
      /\ Len(r.page) \in Nat
      /\ \A i \in 1..Len(Tail(r.page)) : i + 1 \in 1..Len(r.page) /\ Tail(r.page)[i] = r.page[i + 1]
  BY <1>2, <1>3, AtPage, LenProperties
<1>5. Head(r.page) = r.page[1] /\ 1 \in 1..Len(r.page)
  BY <1>2, <1>3
<1>6. \A i \in 1..Len(r.page) : r.page[i].seq \in Nat /\ r.page[i] \in PageEntry
  <2>1. \A i \in 1..Len(r.page) : r.page[i] \in PageEntry
    BY <1>3, ElementOfSeq
  <2>. QED  BY <2>1 DEF PageEntry
<1>7. CASE End(c) /\ UNCHANGED cursor
  BY <1>7, EndCursor DEF Advance, Quiet
<1>8. CASE /\ cursor' = [cursor EXCEPT ![d] = seq]
           /\ cycle' = [cycle EXCEPT
                ![c] = [Idle EXCEPT !.at = "page", !.cursor = seq, !.page = Tail(r.page)]]
  <2>1. /\ UNCHANGED <<made, current, log, changes, local, baseline, conflict>> /\ TypeOK
        /\ CursorComplete /\ Numbered
    BY DEF Advance, server, state, Inductive, CursorInv
  <2>2. \A k \in Devices : cursor'[k] = IF k = d THEN seq ELSE cursor[k]
    BY <1>1, <1>8, <2>1 DEF TypeOK
  <2>3. \A p : ServerVersion(p)' = ServerVersion(p)
    BY <2>1 DEF ServerVersion
  <2>4. PICK s : s = [Idle EXCEPT !.at = "page", !.cursor = seq, !.page = Tail(r.page)]
    OBVIOUS
  <2>5. PICK page : page = Tail(r.page)
    OBVIOUS
  <2>6. s.at = "page" /\ s.cursor = seq /\ s.page = page /\ cycle' = [cycle EXCEPT ![c] = s]
    BY <1>8, <2>4, <2>5 DEF Idle
  <2>7. \A i \in 1..Len(page) : i \in Nat /\ 1 < i + 1 /\ i + 1 \in 1..Len(r.page) /\ page[i] = r.page[i + 1]
    BY <1>4, <2>5
  <2>8. ASSUME NEW i \in 1..Len(page)
        PROVE  /\ seq < page[i].seq /\ current[page[i].object] # None
               /\ page[i].seq <= current[page[i].object].seq
               /\ page[i].seq = current[page[i].object].seq =>
                    page[i].version = ServerVersion(page[i].object)
    BY <1>3, <1>5, <2>7 DEF PageFits
  <2>9. ASSUME NEW i \in 1..Len(page), NEW j \in 1..Len(page), i < j
        PROVE  page[i].seq < page[j].seq
    <3>1. i + 1 \in 1..Len(r.page) /\ j + 1 \in 1..Len(r.page) /\ i + 1 < j + 1
      BY <2>7, <2>9
    <3>2. r.page[i + 1].seq < r.page[j + 1].seq
      BY <1>3, <3>1 DEF PageFits
    <3>. QED  BY <2>7, <3>2
  <2>10. r.cursor \in Nat /\ cursor[d] = r.cursor /\ r.cursor < seq
    BY <1>1, <1>3, <1>5 DEF PageFits, Locals
  <2>11. ASSUME NEW o \in Objects, NEW i \in 1..Len(page),
                current[o] # None, seq < current[o].seq, current[o].seq <= page[i].seq
         PROVE  \E j \in 1..Len(page) : page[j].object = o /\ page[j].seq = current[o].seq
    <3>1. current[o].seq \in Nat
      BY <2>1, <2>11, CurrentTyped
    <3>2. PICK j \in 1..Len(r.page) : r.page[j].object = o /\ r.page[j].seq = current[o].seq
      <4>1. i + 1 \in 1..Len(r.page) /\ current[o].seq <= r.page[i + 1].seq
        BY <2>7, <2>11
      <4>2. r.cursor < current[o].seq
        BY <1>4, <2>10, <2>11, <3>1
      <4>. QED  BY <1>3, <2>11, <4>1, <4>2 DEF PageFits
    <3>3. j # 1
      BY <1>4, <1>5, <2>11, <3>1, <3>2
    <3>4. j - 1 \in 1..Len(page) /\ (j - 1) + 1 = j
      BY <1>4, <2>5, <3>3
    <3>. QED  BY <2>7, <3>2, <3>4
  <2>12. Fits(s, d)'
    <3>1. PageFits(s, d)'
      BY <1>1, <2>1, <2>2, <2>3, <2>6, <2>8, <2>9, <2>11 DEF PageFits
    <3>. QED  BY <2>6, <3>1 DEF Fits, Dealt
  <2>13. CursorComplete'
    <3>1. SUFFICES ASSUME NEW k \in Devices, NEW o \in Objects,
                          current[o] # None, current[o].seq <= cursor'[k]
                   PROVE  Descends(local[k][o], ServerVersion(o))
                          \/ conflict[k][o] = ServerVersion(o)
      BY <2>1, <2>3 DEF CursorComplete, Descends
    <3>2. CASE current[o].seq <= cursor[k]
      BY <2>1, <3>1, <3>2 DEF CursorComplete
    <3>3. CASE ~(current[o].seq <= cursor[k])
      <4>1. k = d /\ current[o].seq <= seq /\ r.cursor < current[o].seq /\ current[o].seq \in Nat
        <5>1. k = d /\ current[o].seq <= seq
          BY <2>2, <3>1, <3>3
        <5>2. current[o].seq \in Nat
          BY <2>1, <3>1, CurrentTyped
        <5>. QED  BY <2>10, <3>3, <5>1, <5>2
      <4>2. PICK j \in 1..Len(r.page) : r.page[j].object = o /\ r.page[j].seq = current[o].seq
        BY <1>3, <1>5, <3>1, <4>1 DEF PageFits
      <4>3. j = 1
        <5>1. 1 < j => r.page[1].seq < r.page[j].seq
          BY <1>3, <1>5 DEF PageFits
        <5>2. ~(1 < j)
          BY <1>4, <1>5, <4>1, <4>2, <5>1
        <5>. QED  BY <1>4, <5>2
      <4>4. o = Head(r.page).object /\ ServerVersion(o) = Head(r.page).version
        BY <1>3, <1>5, <4>2, <4>3 DEF PageFits
      <4>. QED  BY <1>1, <1>3, <4>1, <4>4 DEF Dealt
    <3>. QED  BY <3>2, <3>3
  <2>14. Numbered'
    BY <2>1 DEF Numbered
  <2>15. ASSUME NEW k \in Cycles, k # c, NEW t, t = cycle[k]
         PROVE  Fits(t, DeviceOf[k])'
    <3>1. DeviceOf[k] # d /\ DeviceOf[k] \in Devices
      BY <2>15, AtCycle DEF OneCyclePerDevice
    <3>2. cursor'[DeviceOf[k]] = cursor[DeviceOf[k]]
      BY <2>2, <3>1
    <3>3. t \in Locals /\ CycleSound(t, DeviceOf[k]) /\ Fits(t, DeviceOf[k])
      BY <2>15, AtCycle DEF CursorInv, CyclesFit
    <3>4. ServerAppends
      BY <2>1 DEF ServerAppends
    <3>. QED  BY <2>1, <3>1, <3>2, <3>3, <3>4, FitsLater
  <2>16. CyclesFit'
    BY <2>1, <2>6, <2>12, <2>15 DEF CyclesFit, TypeOK
  <2>. QED  BY <2>13, <2>14, <2>16 DEF CursorInv
<1>. QED  BY <1>7, <1>8 DEF Advance

(* The steps that do not work on a page.                                    *)
LEMMA OffPageCursor ==
  ASSUME Inductive, Inductive', Forward, CursorInv, ServerAppends, UNCHANGED <<cursor, conflict>>,
         NEW c \in Cycles, NEW s, s.at \notin Paging, cycle' = [cycle EXCEPT ![c] = s]
  PROVE  CursorInv'
<1>1. Fits(s, DeviceOf[c])'
  BY DEF Fits
<1>2. \A k \in Cycles : \A t \in {cycle'[k]} : t = cycle[k] \/ Fits(t, DeviceOf[k])'
  BY <1>1 DEF Inductive, TypeOK
<1>. QED  BY <1>2, CursorLater

LEMMA HarvestCursor ==
  ASSUME Inductive, Inductive', Forward, CursorInv, NEW c \in Cycles,
         StartHarvest(c) \/ LoadItem(c) \/ Enqueue(c)
  PROVE  CursorInv'
<1>. PICK r : r = cycle[c]
  OBVIOUS
<1>1. UNCHANGED <<server, cursor, conflict>>
  BY DEF StartHarvest, LoadItem, Enqueue, state
<1>2. r \in Locals
  BY AtCycle
<1>3. CASE StartHarvest(c)
  <2>1. PICK s : s = [r EXCEPT !.at = "harvest", !.pending = Range(outbox[DeviceOf[c]]),
                               !.todo = {o \in Objects : local[DeviceOf[c]][o] # 0}]
    OBVIOUS
  <2>2. cycle' = [cycle EXCEPT ![c] = s]
    BY <1>3, <2>1 DEF StartHarvest
  <2>3. s.at \notin Paging
    BY <1>2, <2>1 DEF Locals, Paging
  <2>. QED  BY <1>1, <2>2, <2>3, SameServer, OffPageCursor
<1>4. CASE LoadItem(c)
  <2>1. PICK o : cycle' = [cycle EXCEPT ![c].at = "enqueue", ![c].todo = @ \ {o},
                                        ![c].item = local[DeviceOf[c]][o]]
    BY <1>4 DEF LoadItem
  <2>2. PICK s : s = [r EXCEPT !.at = "enqueue", !.todo = @ \ {o},
                               !.item = local[DeviceOf[c]][o]]
    OBVIOUS
  <2>3. cycle' = [cycle EXCEPT ![c] = s]
    BY <2>1, <2>2
  <2>4. s.at \notin Paging
    BY <1>2, <2>2 DEF Locals, Paging
  <2>. QED  BY <1>1, <2>3, <2>4, SameServer, OffPageCursor
<1>5. CASE Enqueue(c)
  <2>1. End(c) \/ Go(c, "harvest")
    BY <1>5, Zenon DEF Enqueue
  <2>2. PICK s : s = IF End(c) THEN Idle ELSE [r EXCEPT !.at = "harvest"]
    OBVIOUS
  <2>3. cycle' = [cycle EXCEPT ![c] = s]
    BY <2>1, <2>2 DEF End, Go
  <2>4. s.at \notin Paging
    BY <1>2, <2>2 DEF Locals, Paging, Idle
  <2>. QED  BY <1>1, <2>3, <2>4, SameServer, OffPageCursor
<1>. QED  BY <1>3, <1>4, <1>5

LEMMA FlushCursor ==
  ASSUME Inductive, Inductive', Forward, CursorInv, NEW c \in Cycles,
         StartFlush(c) \/ Push(c) \/ PushLost(c) \/ PushRefused(c) \/ Acknowledge(c)
           \/ Finish(c) \/ Abort(c)
  PROVE  CursorInv'
<1>. PICK r : r = cycle[c]
  OBVIOUS
<1>1. r \in Locals
  BY AtCycle
<1>2. CASE PushRefused(c) \/ Finish(c) \/ Abort(c)
  BY <1>2, EndCursor DEF PushRefused, Finish, Abort, Fail, Quiet
<1>3. CASE Push(c) \/ PushLost(c)
  <2>1. Accepted(c) /\ (End(c) \/ Go(c, "ack"))
    BY <1>3 DEF Push, PushLost, Fail
  <2>2. ServerAppends /\ UNCHANGED <<cursor, conflict>>
    BY <2>1, AcceptedAppends DEF Accepted, state
  <2>3. PICK s : s = IF End(c) THEN Idle ELSE [r EXCEPT !.at = "ack"]
    OBVIOUS
  <2>4. cycle' = [cycle EXCEPT ![c] = s]
    BY <2>1, <2>3 DEF End, Go
  <2>5. s.at \notin Paging
    BY <1>1, <2>3 DEF Locals, Paging, Idle
  <2>. QED  BY <2>2, <2>4, <2>5, OffPageCursor
<1>4. CASE StartFlush(c)
  <2>1. UNCHANGED <<server, cursor, conflict>>
    BY <1>4 DEF StartFlush, state
  <2>2. PICK s : s = [Idle EXCEPT !.at = "push", !.batch = Take(outbox[DeviceOf[c]], FlushLimit)]
    OBVIOUS
  <2>3. cycle' = [cycle EXCEPT ![c] = s]
    BY <1>4, <2>2 DEF StartFlush
  <2>4. s.at \notin Paging
    BY <2>2 DEF Paging, Idle
  <2>. QED  BY <2>1, <2>3, <2>4, SameServer, OffPageCursor
<1>5. CASE Acknowledge(c)
  <2>1. UNCHANGED <<server, cursor, conflict>>
    BY <1>5 DEF Acknowledge, state
  <2>2. PICK s : s = [r EXCEPT !.at = "push", !.batch = Tail(@)]
    OBVIOUS
  <2>3. cycle' = [cycle EXCEPT ![c] = s]
    BY <1>5, <2>2 DEF Acknowledge
  <2>4. s.at \notin Paging
    BY <1>1, <2>2 DEF Locals, Paging
  <2>. QED  BY <2>1, <2>3, <2>4, SameServer, OffPageCursor
<1>. QED  BY <1>2, <1>3, <1>4, <1>5

LEMMA EditCursor ==
  ASSUME Inductive, Inductive', Forward, CursorInv, NEW d \in Devices, NEW o \in Objects,
         Create(d, o) \/ Edit(d, o)
  PROVE  CursorInv'
<1>1. UNCHANGED <<server, cursor, conflict, cycle>>
  BY DEF Create, Edit, Save, state
<1>. QED  BY <1>1, SameServer, CursorLater

LEMMA NextCursor ==
  ASSUME OneCyclePerDevice, Inductive, CursorInv, Next
  PROVE  CursorInv'
<1>1. Inductive' /\ Forward
  BY NextSound
<1>2. ASSUME NEW c \in Cycles, CycleStep(c) \/ PushLost(c) \/ Abort(c)
      PROVE  CursorInv'
  BY <1>1, <1>2, ListPageCursor, GetObjectCursor, LoadStateCursor, DecideCursor,
     ApplyRemoteCursor, CommitStateCursor, AdvanceCursor, HarvestCursor, FlushCursor
     DEF CycleStep
<1>. QED  BY <1>1, <1>2, EditCursor DEF Next

LEMMA InitCursor == Init => CursorInv
<1>. SUFFICES ASSUME Init PROVE CursorInv
  OBVIOUS
<1>1. current = [o \in Objects |-> None] /\ cycle = [c \in Cycles |-> Idle]
  BY DEF Init, Server!AbstractInit
<1>2. CyclesFit
  BY <1>1, IdleFits DEF CyclesFit
<1>. QED  BY <1>1, <1>2 DEF CursorInv, CursorComplete, Numbered

(* The pull cursor of a device passes a change only when the version is in   *)
(* its vault or kept as the conflict candidate, whatever the user, the other *)
(* devices and failures do meanwhile.  It needs that a device runs one cycle *)
(* at a time.                                                               *)
THEOREM CursorNeverPassesUnseen == OneCyclePerDevice => (Spec => []CursorComplete)
<1>. SUFFICES ASSUME OneCyclePerDevice PROVE Spec => []CursorComplete
  OBVIOUS
<1>1. SyncInv /\ CursorInv /\ [Next]_vars => CursorInv'
  <2>1. ASSUME UNCHANGED vars, CursorInv PROVE CursorInv'
    <3>1. UNCHANGED <<made, server, local, conflict, cursor, cycle>>
      BY <2>1 DEF vars, server, state
    <3>2. \A o : ServerVersion(o)' = ServerVersion(o)
      BY <3>1 DEF ServerVersion, server
    <3>3. CursorComplete' /\ Numbered'
      BY <2>1, <3>1, <3>2 DEF CursorInv, CursorComplete, Numbered, Descends, server
    <3>4. CyclesFit'
      BY <2>1, <3>1, SameFits DEF CursorInv, CyclesFit
    <3>. QED  BY <3>3, <3>4 DEF CursorInv
  <2>. QED  BY <2>1, NextCursor, InductiveIsSyncInv
<1>2. CursorInv => CursorComplete
  BY DEF CursorInv
<1>. QED  BY <1>1, <1>2, InitCursor, SyncInvariant, PTL DEF Spec

=============================================================================
