--------------------------- MODULE HouseholdProofs ---------------------------
(***************************************************************************)
(* What the contract of a household guarantees of any valid topology, and  *)
(* that the transactions of the server keep its topologies in one line.    *)
(***************************************************************************)
EXTENDS HouseholdTopology, FiniteSetTheorems, TLAPS

(***************************************************************************)
(* The contract.                                                           *)
(***************************************************************************)

(* No valid topology locks everyone out: the devices of its active owner may *)
(* manage it (validate: MissingActiveOwner, EmptyCollection).               *)
THEOREM SomeoneManages ==
  ASSUME NEW t, IsTopology(t), Valid(t)
  PROVE  \E a \in Accounts, d \in Devices : MayManage(t, a, d)
<1>1. PICK m \in DOMAIN t.memberships :
        t.memberships[m].role = "owner" /\ t.memberships[m].state = "active"
  BY DEF Valid, ValidMemberships, ActiveOwners
<1> DEFINE a == t.memberships[m].account
<1>2. a \in DOMAIN t.accounts
  BY DEF Valid, ValidMemberships
<1>3. PICK d \in t.accounts[a] : TRUE
  BY <1>2 DEF Valid, ValidAccounts, ValidAccount
<1>4. a \in Accounts /\ d \in Devices
  BY <1>2, <1>3 DEF IsTopology
<1>5. AuthorizesHousehold(t, a, "manage")
  BY <1>1 DEF AuthorizesHousehold, RolesFor
<1>. QED
  BY <1>2, <1>3, <1>4, <1>5 DEF MayManage, AuthorizesDeviceScope

(* Whoever may manage a scope may write it, and whoever may write it may read *)
(* it (authorizes_device_scope).                                            *)
THEOREM ActionsNest ==
  ASSUME NEW t, NEW a, NEW d, NEW scope \in Scope
  PROVE  /\ AuthorizesDeviceScope(t, a, d, scope, "manage") =>
              AuthorizesDeviceScope(t, a, d, scope, "write")
         /\ AuthorizesDeviceScope(t, a, d, scope, "write") =>
              AuthorizesDeviceScope(t, a, d, scope, "read")
<1>1. RolesFor("manage") = RolesFor("write") /\ RolesFor("write") \subseteq RolesFor("read")
  BY DEF RolesFor, Role
<1>2. AccessFor("manage") \subseteq AccessFor("write") /\ AccessFor("write") \subseteq AccessFor("read")
  BY DEF AccessFor, Access
<1>3. /\ AuthorizesHousehold(t, a, "manage") => AuthorizesHousehold(t, a, "write")
      /\ AuthorizesHousehold(t, a, "write") => AuthorizesHousehold(t, a, "read")
  BY <1>1 DEF AuthorizesHousehold
<1>4. ASSUME NEW s
      PROVE  /\ AuthorizesSpace(t, a, d, s, "manage") => AuthorizesSpace(t, a, d, s, "write")
             /\ AuthorizesSpace(t, a, d, s, "write") => AuthorizesSpace(t, a, d, s, "read")
  BY <1>2 DEF AuthorizesSpace
<1>. QED
  BY <1>3, <1>4 DEF AuthorizesDeviceScope, Scope

(* A private space is readable from the devices of one account only          *)
(* (InvalidPrivateSpaceMembership).                                         *)
THEOREM PrivateToOneAccount ==
  ASSUME NEW t, IsTopology(t), Valid(t), NEW s \in DOMAIN t.spaces, t.spaces[s].kind = "private",
         NEW a, NEW b, NEW d, NEW e,
         AuthorizesSpace(t, a, d, s, "read"), AuthorizesSpace(t, b, e, s, "read")
  PROVE  a = b
<1>1. Cardinality(ReadableBy(t, s)) = 1
  BY DEF Valid, ValidSpaces
<1>2. IsFiniteSet(ReadableBy(t, s))
  <2>1. IsFiniteSet(Spaces \X Devices)
    BY FS_Product, ContractAssumption
  <2>2. {j \in DOMAIN t.members : j[1] = s} \subseteq Spaces \X Devices
    BY DEF IsTopology
  <2>3. IsFiniteSet({j \in DOMAIN t.members : j[1] = s})
    BY <2>1, <2>2, FS_Subset
  <2> DEFINE J == {j \in DOMAIN t.members : j[1] = s}
             f == [j \in J |-> t.members[j].membership]
  <2>4. f \in Surjection(J, ReadableBy(t, s))
    BY DEF Surjection, ReadableBy
  <2>. QED
    BY <2>3, <2>4, FS_Surjection
<1>3. PICK m : ReadableBy(t, s) = {m}
  BY <1>1, <1>2, FS_Singleton
<1>4. t.members[<<s, d>>].membership = m /\ t.members[<<s, e>>].membership = m
  BY <1>3 DEF ReadableBy, AuthorizesSpace
<1>. QED
  BY <1>4 DEF AuthorizesSpace

(* The topology a local vault starts with is accepted as the first of its     *)
(* household, and the migration to it is valid exactly when its objects are   *)
(* not too many, distinct and none of those the topology names               *)
(* (SingleOwnerMigrationV1::new and validate).                               *)
THEOREM MigrationStarts ==
  ASSUME NEW a \in Accounts, NEW d \in Devices, NEW m \in Memberships, NEW s \in Spaces,
         NEW Objects, NEW objects \in Seq(Objects), NEW named, 1 <= MaxWireInteger
  PROVE  /\ Bootstraps(SingleOwner(a, d, m, s), a, d)
         /\ ValidMigration(Migration(SingleOwner(a, d, m, s), named, s, objects))
              <=> MayMigrate(objects, named)
<1> DEFINE t == SingleOwner(a, d, m, s)
<1>1. /\ t.revision = 0
      /\ DOMAIN t.accounts = {a} /\ t.accounts[a] = {d}
      /\ DOMAIN t.memberships = {m} /\ t.memberships[m].account = a
      /\ t.memberships[m].role = "owner" /\ t.memberships[m].state = "active"
      /\ DOMAIN t.spaces = {s} /\ t.spaces[s].kind = "private" /\ t.spaces[s].generation = 1
      /\ DOMAIN t.members = {<<s, d>>} /\ t.members[<<s, d>>].membership = m
      /\ t.members[<<s, d>>].access = "manage" /\ t.members[<<s, d>>].generation = 1
  BY DEF SingleOwner
<1> HIDE DEF t
<1>2. Cardinality({a}) = 1 /\ Cardinality({d}) = 1 /\ Cardinality({m}) = 1
  BY FS_Singleton
<1>3. ReadableBy(t, s) = {m}
  BY <1>1 DEF ReadableBy
<1>4. ValidAccounts(t)
  <2>1. ValidAccount(t.accounts[a])
    BY <1>1, <1>2, ContractAssumption DEF ValidAccount
  <2>2. \A x \in DOMAIN t.accounts : x = a
    BY <1>1
  <2>3. DOMAIN t.accounts # {} /\ Cardinality(DOMAIN t.accounts) <= MaxAccounts
    BY <1>1, <1>2, ContractAssumption
  <2>. QED
    BY <2>1, <2>2, <2>3 DEF ValidAccounts
<1>5. ValidHousehold(t) /\ ValidMemberships(t)
  <2>1. ActiveOwners(t) = {m}
    BY <1>1 DEF ActiveOwners
  <2>2. 0 <= MaxWireInteger
    BY ContractAssumption
  <2>. QED
    BY <1>1, <2>1, <2>2 DEF ValidHousehold, ValidMemberships
<1>6. ValidMember(t, s, d)
  BY <1>1 DEF ValidMember
<1>7. ValidSpaces(t)
  <2>1. ValidGeneration(t.spaces[s].generation)
    BY <1>1 DEF ValidGeneration
  <2>2. Cardinality(ReadableBy(t, s)) = 1
    BY <1>2, <1>3
  <2>3. \A k \in DOMAIN t.members : ValidMember(t, k[1], k[2])
    BY <1>1, <1>6
  <2>. QED
    BY <1>1, <2>1, <2>2, <2>3 DEF ValidSpaces
<1>8. Valid(t)
  BY <1>4, <1>5, <1>7 DEF Valid
<1>9. MayManage(t, a, d)
  BY <1>1, <1>8 DEF MayManage, AuthorizesDeviceScope, AuthorizesHousehold, RolesFor
<1>10. Bootstraps(t, a, d)
  BY <1>1, <1>9 DEF Bootstraps
<1>11. ValidMigration(Migration(t, named, s, objects)) <=> MayMigrate(objects, named)
  <2>1. PICK n \in Nat : n = Len(objects) /\ DOMAIN objects = 1..n
    OBVIOUS
  <2>2. PICK assigned : assigned = [i \in 1..n |-> [object |-> objects[i], space |-> s]]
    OBVIOUS
  <2>3. PICK g : g = Migration(t, named, s, objects)
    OBVIOUS
  <2>4. g.topology = t /\ g.named = named /\ g.private = s /\ g.assignments = assigned
    BY <2>1, <2>2, <2>3 DEF Migration
  <2>5. DOMAIN assigned = 1..n /\ \A i \in 1..n : assigned[i].object = objects[i] /\ assigned[i].space = s
    BY <2>2
  <2>6. [i \in DOMAIN assigned |-> assigned[i].object] = objects
    BY <2>1, <2>5
  <2>7. ValidMigration(g) <=> MayMigrate(objects, named)
    BY <1>1, <1>8, <2>4, <2>5, <2>6 DEF ValidMigration
  <2>. QED
    BY <2>3, <2>7
<1>. QED
  BY <1>10, <1>11 DEF t
(***************************************************************************)
(* The transactions.  A step of one handler leaves what the others decided: *)
(* the topology changes only under its lock, or from None.                 *)
(***************************************************************************)
LEMMA OthersStand ==
  ASSUME TypeOK, NEW g \in Handlers, DecisionStands(g),
         call'[g] = call[g], at'[g] = at[g], seen'[g] = seen[g], locks'[g] = locks[g],
         \/ topology' = topology
         \/ topology = None
         \/ <<Household, "exclusive">> \notin locks[g] /\ <<Household, "share">> \notin locks[g]
  PROVE  DecisionStands(g)'
BY DEF DecisionStands, UpdateStands, WriteStands, Running, Judged, Candidate, Caller, MayWrite

(* A transaction that ends, having changed nothing.                         *)
LEMMA EndInv ==
  ASSUME TopologyInv, NEW h \in Handlers, Commits(h), UNCHANGED <<device, topology>>
  PROVE  TopologyInv'
<1>1. TypeOK'
  BY DEF TopologyInv, TypeOK, Commits, Running, Steps
<1>2. \A g \in Handlers : locks'[g] \subseteq locks[g]
  BY DEF TopologyInv, TypeOK, Commits
<1>3. LocksExclude' /\ DevicesHeld'
  BY <1>2 DEF TopologyInv, LocksExclude, DevicesHeld, Conflicts, Locked
<1>4. ASSUME NEW g \in Handlers PROVE DecisionStands(g)'
  <2>1. CASE g = h
    BY <2>1 DEF TopologyInv, TypeOK, Commits, DecisionStands, Running
  <2>2. CASE g # h
    BY <2>2, OthersStand DEF TopologyInv, TypeOK, Commits
  <2>. QED
    BY <2>1, <2>2
<1>. QED
  BY <1>1, <1>3, <1>4 DEF TopologyInv

(* A transaction that takes one more lock.                                  *)
LEMMA LockInv ==
  ASSUME TopologyInv, NEW h \in Handlers, NEW row \in Rows, NEW mode \in Modes, NEW next \in Steps,
         Lock(h, row, mode, next), UNCHANGED <<device, topology, call>>, Running(h),
         row \in Devices => device[row] = "active",
         \A g \in Handlers : g # h => seen'[g] = seen[g], DOMAIN seen' = Handlers,
         DecisionStands(h)'
  PROVE  TopologyInv'
<1>1. TypeOK'
  BY DEF TopologyInv, TypeOK, Lock, Running
<1>2. locks' = [locks EXCEPT ![h] = @ \cup {<<row, mode>>}] /\ Grantable(h, row, mode)
  BY DEF Lock
<1>3. LocksExclude'
  <2> SUFFICES ASSUME NEW g \in Handlers, NEW l \in locks'[g], NEW k \in Handlers,
                      Conflicts(g, l[1], l[2], k)'
               PROVE  FALSE
    BY DEF LocksExclude
  <2>1. PICK m \in Modes : k # g /\ <<l[1], m>> \in locks'[k] /\ "exclusive" \in {m, l[2]}
    BY DEF Conflicts
  <2>2. /\ \A i \in Handlers \ {h} : locks'[i] = locks[i]
        /\ locks'[h] = locks[h] \cup {<<row, mode>>}
    BY <1>2 DEF TopologyInv, TypeOK
  <2>3. l \in Rows \X Modes
    BY <1>1 DEF TypeOK
  <2>4. CASE l \in locks[g] /\ <<l[1], m>> \in locks[k]
    BY <2>1, <2>4 DEF TopologyInv, LocksExclude, Conflicts
  <2>5. CASE g = h /\ l = <<row, mode>>
    <3>1. Conflicts(h, row, mode, k)
      BY <2>1, <2>2, <2>5 DEF Conflicts
    <3>. QED
      BY <3>1, <1>2 DEF Grantable
  <2>6. CASE k = h /\ <<l[1], m>> = <<row, mode>>
    <3>1. l \in locks[g] /\ l = <<l[1], l[2]>> /\ l[2] \in Modes
      BY <2>1, <2>2, <2>3, <2>6
    <3>2. Conflicts(h, row, mode, g)
      BY <2>1, <2>6, <3>1 DEF Conflicts
    <3>. QED
      BY <3>2, <1>2 DEF Grantable
  <2>. QED
    BY <2>1, <2>2, <2>4, <2>5, <2>6
<1>4. DevicesHeld'
  BY <1>2 DEF TopologyInv, TypeOK, DevicesHeld, Locked
<1>5. ASSUME NEW g \in Handlers, g # h PROVE DecisionStands(g)'
  BY <1>5, OthersStand DEF TopologyInv, TypeOK, Lock
<1>. QED
  BY <1>1, <1>3, <1>4, <1>5 DEF TopologyInv

(* A transaction that goes on without a lock.                               *)
LEMMA GoOnInv ==
  ASSUME TopologyInv, NEW h \in Handlers, NEW next \in Steps, Running(h),
         at' = [at EXCEPT ![h] = next], UNCHANGED <<device, topology, call, locks>>,
         \A g \in Handlers : g # h => seen'[g] = seen[g], DOMAIN seen' = Handlers,
         DecisionStands(h)'
  PROVE  TopologyInv'
<1>1. TypeOK'
  BY DEF TopologyInv, TypeOK, Running
<1>2. LocksExclude' /\ DevicesHeld'
  BY DEF TopologyInv, LocksExclude, DevicesHeld, Conflicts, Locked
<1>3. ASSUME NEW g \in Handlers, g # h PROVE DecisionStands(g)'
  BY <1>3, OthersStand DEF TopologyInv, TypeOK
<1>. QED
  BY <1>1, <1>2, <1>3 DEF TopologyInv

LEMMA ReceiveInv ==
  ASSUME TopologyInv, NEW h \in Handlers, NEW c \in Calls, Receive(h, c)
  PROVE  TopologyInv'
<1>1. TypeOK'
  BY DEF TopologyInv, TypeOK, Receive, Running, First, Steps
<1>2. LocksExclude' /\ DevicesHeld'
  BY DEF TopologyInv, LocksExclude, DevicesHeld, Conflicts, Locked, Receive
<1>3. DecisionStands(h)'
  BY DEF TopologyInv, TypeOK, Receive, First, DecisionStands, UpdateStands, WriteStands, Candidate
<1>4. ASSUME NEW g \in Handlers, g # h PROVE DecisionStands(g)'
  BY <1>4, OthersStand DEF TopologyInv, TypeOK, Receive
<1>. QED
  BY <1>1, <1>2, <1>3, <1>4 DEF TopologyInv, Receive

LEMMA LockHouseholdInv ==
  ASSUME TopologyInv, NEW h \in Handlers, Running(h), call[h].op = "put", LockHousehold(h)
  PROVE  TopologyInv'
<1>1. CASE Judged(h, topology) # "updated"
  BY <1>1, EndInv DEF LockHousehold, RollsBack
<1>2. CASE Judged(h, topology) = "updated"
  <2>1. /\ seen' = [seen EXCEPT ![h] = topology] /\ at' = [at EXCEPT ![h] = "accounts"]
        /\ UNCHANGED <<device, topology, call>>
    BY <1>2 DEF LockHousehold, Lock
  <2>2. Valid(Candidate(h))
    BY DEF TopologyInv, DecisionStands, UpdateStands
  <2>3. seen'[h] = topology /\ Judged(h, seen[h])' = "updated" /\ Valid(Candidate(h))'
    BY <1>2, <2>1, <2>2 DEF TopologyInv, TypeOK, Judged, Candidate, Caller
  <2>4. CASE topology = None
    <3>1. DecisionStands(h)'
      BY <2>1, <2>3, <2>4 DEF DecisionStands, UpdateStands
    <3>. QED
      BY <1>2, <2>1, <2>4, <3>1, GoOnInv DEF LockHousehold, TopologyInv, TypeOK, Steps
  <2>5. CASE topology # None
    <3>1. Lock(h, Household, "exclusive", "accounts")
      BY <1>2, <2>5 DEF LockHousehold
    <3>2. <<Household, "exclusive">> \in locks'[h]
      BY <3>1 DEF Lock, TopologyInv, TypeOK
    <3>3. DecisionStands(h)'
      BY <2>1, <2>3, <3>2 DEF DecisionStands, UpdateStands
    <3>4. Household \in Rows /\ "exclusive" \in Modes /\ Household \notin Devices
      BY CallsAssumption DEF Rows, Modes
    <3>. QED
      BY <2>1, <3>1, <3>3, <3>4, LockInv DEF TopologyInv, TypeOK, Steps
  <2>. QED
    BY <2>4, <2>5
<1>. QED
  BY <1>1, <1>2

(* A PUT that locks the rows of accounts or of active devices.              *)
LEMMA LockNextInv ==
  ASSUME TopologyInv, NEW h \in Handlers, Running(h), call[h].op = "put",
         NEW rows \in SUBSET Rows, NEW here \in Steps, NEW next \in Steps,
         here # "household", LockNext(h, rows, here, next),
         \A d \in rows \cap Devices : device[d] = "active"
  PROVE  TopologyInv'
<1>1. UpdateStands(h) /\ at[h] = here
  BY DEF TopologyInv, DecisionStands, LockNext
<1>2. UNCHANGED <<device, topology, call, seen>>
  BY DEF LockNext
<1>3. ASSUME locks[h] \subseteq locks'[h] PROVE DecisionStands(h)'
  BY <1>1, <1>2, <1>3 DEF DecisionStands, UpdateStands, Judged, Candidate, Caller
<1>4. CASE rows \ Locked(h) = {}
  <2>1. at' = [at EXCEPT ![h] = next] /\ UNCHANGED locks
    BY <1>4 DEF LockNext
  <2>. QED
    BY <1>2, <1>3, <2>1, GoOnInv DEF TopologyInv, TypeOK
<1>5. CASE rows \ Locked(h) # {}
  <2>1. PICK r \in rows \ Locked(h) : Lock(h, r, "share", here)
    BY <1>5 DEF LockNext
  <2>2. locks[h] \subseteq locks'[h]
    BY <2>1 DEF Lock, TopologyInv, TypeOK
  <2>. QED
    BY <1>2, <1>3, <2>1, <2>2, LockInv DEF TopologyInv, TypeOK, Modes
<1>. QED
  BY <1>4, <1>5

LEMMA LockRowsInv ==
  ASSUME TopologyInv, NEW h \in Handlers, Running(h), call[h].op = "put",
         LockAccounts(h) \/ LockDevices(h)
  PROVE  TopologyInv'
<1>1. CASE LockAccounts(h)
  <2>1. AccountRows(h) \in SUBSET Rows /\ AccountRows(h) \cap Devices = {}
    BY CallsAssumption DEF AccountRows, Rows
  <2>. QED
    BY <1>1, <2>1, LockNextInv DEF LockAccounts, Steps
<1>2. CASE LockDevices(h)
  <2>1. IsTopology(Candidate(h))
    BY CallsAssumption DEF TopologyInv, TypeOK, Candidate
  <2>2. DeviceRows(h) \in SUBSET Rows
    <3>1. PICK as \in SUBSET Accounts : Candidate(h).accounts \in [as -> SUBSET Devices]
      BY <2>1 DEF IsTopology
    <3>2. \A d \in Listed(Candidate(h)) : d \in Devices
      BY <3>1 DEF Listed
    <3>. QED
      BY <3>2 DEF DeviceRows, Rows
  <2>3. \A d \in DeviceRows(h) \cap Devices : device[d] = "active"
    BY DEF DeviceRows
  <2>. QED
    BY <1>2, <2>2, <2>3, LockNextInv DEF LockDevices, Steps
<1>. QED
  BY <1>1, <1>2

LEMMA WriteTopologyInv ==
  ASSUME TopologyInv, NEW h \in Handlers, Running(h), call[h].op = "put", WriteTopology(h)
  PROVE  TopologyInv'
<1>1. CASE UNCHANGED topology
  BY <1>1, EndInv DEF WriteTopology, RollsBack
<1>2. CASE ~UNCHANGED topology
  <2>1. /\ topology' = Candidate(h) /\ Commits(h) /\ UNCHANGED device
        /\ seen[h] # None \/ topology = None
    BY <1>2 DEF WriteTopology
  <2>2. UpdateStands(h) /\ at[h] # "household"
    BY DEF TopologyInv, DecisionStands, WriteTopology
  <2>3. IsTopology(topology') /\ Valid(topology')
    BY <2>1, <2>2, CallsAssumption DEF TopologyInv, TypeOK, Candidate, UpdateStands
  <2>4. TypeOK'
    BY <2>1, <2>3 DEF TopologyInv, TypeOK, Commits, Running, Steps
  <2>5. \A g \in Handlers : locks'[g] \subseteq locks[g]
    BY <2>1 DEF TopologyInv, TypeOK, Commits
  <2>6. LocksExclude' /\ DevicesHeld'
    BY <2>1, <2>5 DEF TopologyInv, LocksExclude, DevicesHeld, Conflicts, Locked
  <2>7. DecisionStands(h)'
    BY <2>1 DEF TopologyInv, TypeOK, Commits, DecisionStands, Running
  <2>8. ASSUME NEW g \in Handlers, g # h PROVE DecisionStands(g)'
    <3>1. CASE topology = None
      BY <2>1, <2>8, <3>1, OthersStand DEF TopologyInv, TypeOK, Commits
    <3>2. CASE topology # None
      <4>1. <<Household, "exclusive">> \in locks[h]
        BY <2>1, <2>2, <3>2 DEF UpdateStands
      <4>2. \A m \in Modes : <<Household, m>> \notin locks[g]
        BY <2>8, <4>1 DEF TopologyInv, LocksExclude, Conflicts
      <4>. QED
        BY <2>1, <2>8, <4>2, OthersStand DEF TopologyInv, TypeOK, Commits, Modes
    <3>. QED
      BY <3>1, <3>2
  <2>. QED
    BY <2>3, <2>4, <2>6, <2>7, <2>8 DEF TopologyInv
<1>. QED
  BY <1>1, <1>2

LEMMA OtherStepInv ==
  ASSUME TopologyInv, NEW h \in Handlers, Running(h), OtherStep(h)
  PROVE  TopologyInv'
<1>1. call[h] \in Calls /\ call[h].op # "put" /\ Caller(h) \in Devices
  BY CallsAssumption DEF OtherStep, TopologyInv, TypeOK, Caller, Put, Commit, Revoke
<1>2. CASE LockAccount(h)
  <2> DEFINE next == IF call[h].op = "commit" THEN "scope" ELSE "devices"
  <2>1. /\ Lock(h, Owner[Caller(h)], "exclusive", next)
        /\ UNCHANGED <<device, topology, call, seen>>
    BY <1>2 DEF LockAccount
  <2>2. Owner[Caller(h)] \in Rows /\ Owner[Caller(h)] \notin Devices
    BY <1>1, CallsAssumption DEF Rows
  <2>3. DecisionStands(h)'
    BY <1>1, <2>1 DEF Lock, DecisionStands, WriteStands, TopologyInv, TypeOK
  <2>. QED
    BY <2>1, <2>2, <2>3, LockInv DEF TopologyInv, TypeOK, Steps, Modes
<1>3. CASE LockScope(h)
  <2>1. CASE ~MayWrite(h, topology)
    BY <1>3, <2>1, EndInv DEF LockScope, RollsBack
  <2>2. CASE MayWrite(h, topology)
    <3>1. Lock(h, Household, "share", "write") /\ UNCHANGED <<device, topology, call, seen>>
      BY <1>3, <2>2 DEF LockScope
    <3>2. Household \in Rows /\ Household \notin Devices
      BY CallsAssumption DEF Rows
    <3>3. <<Household, "share">> \in locks'[h]
      BY <3>1 DEF Lock, TopologyInv, TypeOK
    <3>4. DecisionStands(h)'
      BY <1>1, <2>2, <3>1, <3>3 DEF DecisionStands, WriteStands, MayWrite, Caller
    <3>. QED
      BY <3>1, <3>2, <3>4, LockInv DEF TopologyInv, TypeOK, Steps, Modes
  <2>. QED
    BY <2>1, <2>2
<1>4. CASE WriteObject(h)
  BY <1>4, EndInv DEF WriteObject
<1>5. CASE RevokeDevice(h)
  <2>1. CASE UNCHANGED device
    BY <1>5, <2>1, EndInv DEF RevokeDevice, RollsBack
  <2>2. CASE ~UNCHANGED device
    <3> DEFINE d == call[h].target
    <3>1. /\ Grantable(h, d, "exclusive") /\ device' = [device EXCEPT ![d] = "revoked"]
          /\ Commits(h) /\ UNCHANGED topology
      BY <1>5, <2>2 DEF RevokeDevice
    <3>2. TypeOK'
      BY <3>1 DEF TopologyInv, TypeOK, Commits, Running, Steps
    <3>3. /\ locks'[h] = {} /\ \A g \in Handlers : locks'[g] \subseteq locks[g]
      BY <3>1 DEF TopologyInv, TypeOK, Commits
    <3>4. LocksExclude'
      BY <3>3 DEF TopologyInv, LocksExclude, Conflicts
    <3>5. ASSUME NEW g \in Handlers, g # h PROVE d \notin Locked(g)
      <4>1. \A m \in Modes : <<d, m>> \notin locks[g]
        BY <3>1, <3>5 DEF Grantable, Conflicts
      <4>. QED
        BY <4>1 DEF TopologyInv, TypeOK, Locked
    <3>6. DevicesHeld'
      BY <3>1, <3>3, <3>5 DEF TopologyInv, TypeOK, DevicesHeld, Locked
    <3>7. DecisionStands(h)'
      BY <3>1 DEF TopologyInv, TypeOK, Commits, DecisionStands, Running
    <3>8. ASSUME NEW g \in Handlers, g # h PROVE DecisionStands(g)'
      BY <3>1, <3>8, OthersStand DEF TopologyInv, TypeOK, Commits
    <3>. QED
      BY <3>1, <3>2, <3>4, <3>6, <3>7, <3>8 DEF TopologyInv
  <2>. QED
    BY <2>1, <2>2
<1>. QED
  BY <1>2, <1>3, <1>4, <1>5 DEF OtherStep

LEMMA StepInv ==
  ASSUME TopologyInv, [Next]_vars
  PROVE  TopologyInv'
<1>1. CASE UNCHANGED vars
  <2>1. TypeOK'
    BY <1>1 DEF vars, TopologyInv, TypeOK, Running
  <2>2. topology' # None => Valid(topology')
    BY <1>1 DEF vars, TopologyInv
  <2>3. LocksExclude' /\ DevicesHeld'
    BY <1>1 DEF vars, TopologyInv, LocksExclude, DevicesHeld, Conflicts, Locked
  <2>4. ASSUME NEW h \in Handlers PROVE DecisionStands(h)'
    BY <1>1 DEF vars, TopologyInv, DecisionStands, UpdateStands, WriteStands, Running, Judged,
       Candidate, Caller, MayWrite, Locked
  <2>. QED
    BY <2>1, <2>2, <2>3, <2>4 DEF TopologyInv
<1>2. ASSUME NEW h \in Handlers, NEW c \in Calls, Receive(h, c) PROVE TopologyInv'
  BY <1>2, ReceiveInv
<1>3. ASSUME NEW h \in Handlers, Step(h) PROVE TopologyInv'
  <2>1. Running(h)
    BY <1>3 DEF Step, PutStep, OtherStep, LockHousehold, LockAccounts, LockDevices, LockNext,
       WriteTopology, LockAccount, LockScope, WriteObject, RevokeDevice, Running
  <2>. QED
    BY <1>3, <2>1, LockHouseholdInv, LockRowsInv, WriteTopologyInv, OtherStepInv DEF Step, PutStep
<1>4. ASSUME NEW h \in Handlers, DetectDeadlock(h) \/ Disconnect(h) PROVE TopologyInv'
  BY <1>4, EndInv DEF DetectDeadlock, Disconnect, RollsBack
<1>. QED
  BY <1>1, <1>2, <1>3, <1>4 DEF Next

(* The decisions of every transaction stand, for any number of requests,     *)
(* accounts, devices and topologies: put_household_topology, commit_object   *)
(* and revoke_device lock what they judge by.                               *)
THEOREM TopologyInvariant == Spec => []TopologyInv
<1>1. Init => TopologyInv
  BY CallsAssumption DEF Init, TopologyInv, TypeOK, LocksExclude, DevicesHeld, DecisionStands,
     Running, Locked, Steps
<1>. QED
  BY <1>1, StepInv, PTL DEF Spec

(* The topologies of a household form one line, each stored by a request of a *)
(* device that manages the one before, and list active devices only          *)
(* (put_household_topology).                                                *)
THEOREM TopologiesInLine == Spec => HouseholdLine
<1> DEFINE Line == topology' # topology =>
       /\ IF topology = None THEN topology'.revision = 0 /\ Cardinality(DOMAIN topology'.accounts) = 1
          ELSE topology'.revision = topology.revision + 1
       /\ \E h \in Handlers :
            /\ Stores(h)
            /\ MayManage(IF topology = None THEN topology' ELSE topology,
                         Owner[Caller(h)], Caller(h))
       /\ \A a \in DOMAIN topology'.accounts : \A d \in topology'.accounts[a] :
            device[d] = "active" /\ Owner[d] = a
<1>1. ASSUME TopologyInv, [Next]_vars, topology' # topology PROVE Line
  <2>1. PICK h \in Handlers : PutStep(h) /\ WriteTopology(h)
    BY <1>1 DEF Next, vars, Step, PutStep, OtherStep, Receive, LockHousehold, LockAccounts,
       LockDevices, LockNext, LockAccount, LockScope, WriteObject, RevokeDevice, DetectDeadlock,
       Disconnect
  <2>2. topology' = Candidate(h) /\ PrincipalsMatch(h) /\ (seen[h] # None \/ topology = None)
    BY <1>1, <2>1 DEF WriteTopology
  <2>3. call[h] \in Calls /\ call[h].op = "put" /\ UpdateStands(h) /\ at[h] = "write"
    BY <1>1, <2>1 DEF TopologyInv, TypeOK, DecisionStands, PutStep, WriteTopology, Running
  <2>4. Caller(h) \in Devices /\ IsTopology(Candidate(h))
    BY <2>3, CallsAssumption DEF Caller, Candidate, Put, Commit, Revoke
  <2>5. Judged(h, seen[h]) = "updated" /\ seen[h] = topology
    BY <2>2, <2>3 DEF UpdateStands
  <2>6. ASSUME NEW a \in DOMAIN topology'.accounts, NEW d \in topology'.accounts[a]
        PROVE  device[d] = "active" /\ Owner[d] = a
    <3>1. d \in Listed(Candidate(h))
      BY <2>2, <2>6 DEF Listed
    <3>2. d \in Devices
      BY <2>2, <2>4, <2>6 DEF IsTopology
    <3>3. d \in Locked(h)
      BY <2>2, <3>1 DEF PrincipalsMatch
    <3>. QED
      BY <1>1, <2>2, <2>6, <3>2, <3>3 DEF TopologyInv, DevicesHeld, PrincipalsMatch
  <2>7. Stores(h)
    <3>1. at'[h] = "done"
      BY <1>1, <2>1, <2>2 DEF WriteTopology, Commits, TopologyInv, TypeOK
    <3>2. call[h] # None
      BY <2>1 DEF PutStep
    <3>. QED
      BY <2>2, <2>3, <3>1, <3>2 DEF Stores
  <2>8. CASE topology = None
    <3>1. Bootstraps(Candidate(h), Owner[Caller(h)], Caller(h))
      BY <2>5, <2>8 DEF Judged
    <3>2. Cardinality(DOMAIN topology'.accounts) = 1
      BY <2>2, <3>1, FS_Singleton DEF Bootstraps
    <3>. QED
      BY <2>2, <2>6, <2>8, <2>7, <3>1, <3>2 DEF Bootstraps
  <2>9. CASE topology # None
    <3>1. MayManage(topology, Owner[Caller(h)], Caller(h)) /\ UpdateOutcome(topology, Candidate(h)) = "updated"
      BY <2>5, <2>9 DEF Judged
    <3>2. topology'.revision = topology.revision + 1
      BY <2>2, <3>1 DEF UpdateOutcome
    <3>. QED
      BY <2>6, <2>9, <2>7, <3>1, <3>2
  <2>. QED
    BY <2>8, <2>9
<1>2. TopologyInv /\ [Next]_vars => [Line]_vars
  BY <1>1
<1>. QED
  BY <1>2, TopologyInvariant, PTL DEF Spec, HouseholdLine
=============================================================================
