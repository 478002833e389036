------------------------- MODULE HouseholdTopology -------------------------
(***************************************************************************)
(* The transactions of the sync server that meet at a household: a PUT of  *)
(* its topology (put_household_topology), a PUT of an object in one of its *)
(* scopes (commit_object) and the revocation of a device (revoke_device),  *)
(* with every row lock they take and the order they take them in.          *)
(*                                                                         *)
(* commit_object locks an account and then the household, a topology the   *)
(* household and then its accounts: they can wait for each other, and      *)
(* PostgreSQL then aborts one.  What commit_object and revoke_device write *)
(* besides is modelled in ObjectStore and DeviceRegistry.                  *)
(***************************************************************************)
EXTENDS HouseholdContract

CONSTANTS
  Handlers,     \* requests, one call each
  Calls,        \* what clients may ask for
  Registered,   \* accounts with a row
  Owner,        \* the account a device is registered for
  Initial,      \* the stored topology the requests find, or None
  Household     \* the row of the household

Put == [op : {"put"}, device : Devices, topology : {c.topology : c \in {k \in Calls : k.op = "put"}}]
Commit == [op : {"commit"}, device : Devices, scope : Scope]
Revoke == [op : {"revoke"}, device : Devices, target : Devices]

ASSUME CallsAssumption ==
  /\ Calls \subseteq Put \cup Commit \cup Revoke
  /\ \A c \in Calls : c.op = "put" => IsTopology(c.topology)
  /\ Registered \subseteq Accounts /\ Owner \in [Devices -> Registered]
  /\ \A t \in Initial : t = None \/ (IsTopology(t) /\ Valid(t))
  /\ Household \notin Accounts \cup Devices /\ Accounts \cap Devices = {}

VARIABLES
  device,     \* registration of every device
  topology,   \* the row of household_topologies, or None
  call,       \* the request of a handler
  at,         \* what its transaction does next
  seen,       \* the topology a PUT has read
  locks       \* the row locks of every transaction

vars == <<device, topology, call, at, seen, locks>>

Rows == {Household} \cup Accounts \cup Devices
Modes == {"share", "exclusive"}
Steps == {"idle", "household", "accounts", "devices", "account", "scope", "write", "done"}

Running(h) == at[h] \notin {"idle", "done"}

TypeOK ==
  /\ device \in [Devices -> {"active", "revoked"}]
  /\ topology = None \/ IsTopology(topology)
  /\ call \in [Handlers -> Calls \cup {None}]
  /\ at \in [Handlers -> Steps]
  /\ \A h \in Handlers : Running(h) => call[h] \in Calls
  /\ DOMAIN seen = Handlers
  /\ locks \in [Handlers -> SUBSET (Rows \X Modes)]

Init ==
  /\ device = [d \in Devices |-> "active"]
  /\ topology \in Initial
  /\ call = [h \in Handlers |-> None]
  /\ at = [h \in Handlers |-> "idle"]
  /\ seen = [h \in Handlers |-> None]
  /\ locks = [h \in Handlers |-> {}]

-----------------------------------------------------------------------------
(* Row locks: SELECT ... FOR SHARE and FOR UPDATE.                          *)

Conflicts(h, row, mode, g) ==
  /\ g # h
  /\ \E m \in Modes : <<row, m>> \in locks[g] /\ "exclusive" \in {m, mode}

Grantable(h, row, mode) == \A g \in Handlers : ~Conflicts(h, row, mode, g)

Locked(h) == {l[1] : l \in locks[h]}

(* The transaction waits, or goes on with one more lock.                    *)
Lock(h, row, mode, next) ==
  /\ Grantable(h, row, mode)
  /\ locks' = [locks EXCEPT ![h] = @ \cup {<<row, mode>>}]
  /\ at' = [at EXCEPT ![h] = next]

(* COMMIT releases every lock, and so does the roll-back of a transaction    *)
(* that is dropped.                                                         *)
Commits(h) ==
  /\ at' = [at EXCEPT ![h] = "done"]
  /\ call' = [call EXCEPT ![h] = None]
  /\ seen' = [seen EXCEPT ![h] = None]
  /\ locks' = [locks EXCEPT ![h] = {}]

(* Mutant: a transaction that is refused keeps what it locked.              *)
RollBackNothing(h) ==
  /\ at' = [at EXCEPT ![h] = "done"]
  /\ call' = [call EXCEPT ![h] = None]
  /\ seen' = [seen EXCEPT ![h] = None]
  /\ UNCHANGED locks

RollsBack(h) == Commits(h)

-----------------------------------------------------------------------------
(* The handlers authenticate the device, and the PUT of a topology validates *)
(* it, before their transactions begin.                                     *)
First(c) == CASE c.op = "put" -> "household" [] OTHER -> "account"

Receive(h, c) ==
  /\ at[h] = "idle"
  /\ device[c.device] = "active"
  /\ c.op = "put" => Valid(c.topology)
  /\ call' = [call EXCEPT ![h] = c]
  /\ at' = [at EXCEPT ![h] = First(c)]
  /\ UNCHANGED <<device, topology, seen, locks>>

(***************************************************************************)
(* put_household_topology.                                                 *)
(***************************************************************************)
Candidate(h) == call[h].topology
Caller(h) == call[h].device

(* Mutant: who may bootstrap is asked, who may manage is not.               *)
JudgedUnchecked(h, current) ==
  IF current = None
  THEN IF Bootstraps(Candidate(h), Owner[Caller(h)], Caller(h)) THEN "updated" ELSE "unauthorized"
  ELSE UpdateOutcome(current, Candidate(h))

Judged(h, current) ==
  IF current = None
  THEN IF Bootstraps(Candidate(h), Owner[Caller(h)], Caller(h)) THEN "updated" ELSE "unauthorized"
  ELSE IF ~MayManage(current, Owner[Caller(h)], Caller(h)) THEN "unauthorized"
  ELSE UpdateOutcome(current, Candidate(h))

(* Without a row there is nothing to lock.                                  *)
LockHousehold(h) ==
  /\ at[h] = "household"
  /\ topology # None => Grantable(h, Household, "exclusive")
  /\ IF Judged(h, topology) = "updated"
     THEN /\ seen' = [seen EXCEPT ![h] = topology]
          /\ IF topology = None THEN at' = [at EXCEPT ![h] = "accounts"] /\ UNCHANGED locks
             ELSE Lock(h, Household, "exclusive", "accounts")
          /\ UNCHANGED call
     ELSE RollsBack(h)
  /\ UNCHANGED <<device, topology>>

(* The rows are locked in the order of their ids.                           *)
LockNext(h, rows, here, next) ==
  LET todo == rows \ Locked(h) IN
  /\ at[h] = here
  /\ IF todo = {} THEN at' = [at EXCEPT ![h] = next] /\ UNCHANGED locks
     ELSE \E r \in todo : (\A q \in todo : r <= q) /\ Lock(h, r, "share", here)
  /\ UNCHANGED <<device, topology, call, seen>>

AccountRows(h) == DOMAIN Candidate(h).accounts \cap Registered
DeviceRows(h) == {d \in Listed(Candidate(h)) : device[d] = "active"}

LockAccounts(h) == LockNext(h, AccountRows(h), "accounts", "devices")
LockDevices(h) == LockNext(h, DeviceRows(h), "devices", "write")

(* principal_sets_match: what was locked is what the topology lists.        *)
PrincipalsMatch(h) ==
  LET t == Candidate(h) IN
  /\ DOMAIN t.accounts \subseteq Registered
  /\ Listed(t) \subseteq Locked(h)
  /\ \A a \in DOMAIN t.accounts : \A d \in t.accounts[a] : Owner[d] = a

(* UPDATE, or INSERT, which fails when another first topology was faster.   *)
WriteTopology(h) ==
  /\ at[h] = "write"
  /\ IF ~PrincipalsMatch(h) \/ (seen[h] = None /\ topology # None)
     THEN UNCHANGED topology /\ RollsBack(h)
     ELSE topology' = Candidate(h) /\ Commits(h)
  /\ UNCHANGED device

(***************************************************************************)
(* commit_object in a scope of the household: the account, then the        *)
(* household, then whatever it writes.                                     *)
(***************************************************************************)
LockAccount(h) ==
  /\ at[h] = "account"
  /\ Lock(h, Owner[Caller(h)], "exclusive", IF call[h].op = "commit" THEN "scope" ELSE "devices")
  /\ UNCHANGED <<device, topology, call, seen>>

MayWrite(h, t) ==
  t # None /\ AuthorizesDeviceScope(t, Owner[Caller(h)], Caller(h), call[h].scope, "write")

(* Mutant: the topology is read without FOR SHARE.                          *)
ReadScope(h) ==
  /\ at[h] = "scope"
  /\ IF MayWrite(h, topology)
     THEN at' = [at EXCEPT ![h] = "write"] /\ UNCHANGED <<locks, call, seen>>
     ELSE RollsBack(h)
  /\ UNCHANGED <<device, topology>>

LockScope(h) ==
  /\ at[h] = "scope"
  /\ topology # None => Grantable(h, Household, "share")
  /\ IF MayWrite(h, topology)
     THEN Lock(h, Household, "share", "write") /\ UNCHANGED <<call, seen>>
     ELSE RollsBack(h)
  /\ UNCHANGED <<device, topology>>

WriteObject(h) ==
  /\ at[h] = "write"
  /\ Commits(h)
  /\ UNCHANGED <<device, topology>>

(***************************************************************************)
(* revoke_device: never the last active device; the UPDATE of the row      *)
(* waits for its locks.                                                    *)
(***************************************************************************)
Active(a) == {d \in Devices : Owner[d] = a /\ device[d] = "active"}

RevokeDevice(h) ==
  LET a == Owner[Caller(h)]
      d == call[h].target
  IN
  /\ at[h] = "devices"
  /\ IF d \notin Active(a) \/ Cardinality(Active(a)) <= 1
     THEN UNCHANGED device /\ RollsBack(h)
     ELSE /\ Grantable(h, d, "exclusive")
          /\ device' = [device EXCEPT ![d] = "revoked"]
          /\ Commits(h)
  /\ UNCHANGED topology

(***************************************************************************)
(* Failures.  A transaction that is in a circle of waiting ones is aborted *)
(* by PostgreSQL; any may lose its connection.                             *)
(***************************************************************************)
LeastOf(rows) == {r \in rows : \A q \in rows : r <= q}

Wanted(h) ==
  CASE at[h] = "household" /\ topology # None -> {<<Household, "exclusive">>}
    [] at[h] = "accounts" -> LeastOf(AccountRows(h) \ Locked(h)) \X {"share"}
    [] at[h] = "devices" /\ call[h].op = "put" -> LeastOf(DeviceRows(h) \ Locked(h)) \X {"share"}
    [] at[h] = "devices" /\ call[h].op = "revoke" -> {<<call[h].target, "exclusive">>}
    [] at[h] = "account" -> {<<Owner[Caller(h)], "exclusive">>}
    [] at[h] = "scope" /\ topology # None -> {<<Household, "share">>}
    [] OTHER -> {}

WaitsFor(h, g) == \E w \in Wanted(h) : Conflicts(h, w[1], w[2], g)

InCircle(h) ==
  \E g \in Handlers : WaitsFor(h, g) /\
  \E n \in 2..Cardinality(Handlers) : \E p \in [1..n -> Handlers] :
    p[1] = h /\ \A i \in 1..n : WaitsFor(p[i], p[(i % n) + 1])

DetectDeadlock(h) ==
  /\ Running(h) /\ InCircle(h)
  /\ RollsBack(h)
  /\ UNCHANGED <<device, topology>>

Disconnect(h) ==
  /\ Running(h)
  /\ RollsBack(h)
  /\ UNCHANGED <<device, topology>>

-----------------------------------------------------------------------------
PutStep(h) ==
  /\ call[h] # None /\ call[h].op = "put"
  /\ LockHousehold(h) \/ LockAccounts(h) \/ LockDevices(h) \/ WriteTopology(h)
OtherStep(h) ==
  /\ call[h] # None /\ call[h].op # "put"
  /\ LockAccount(h) \/ LockScope(h) \/ WriteObject(h) \/ RevokeDevice(h)

Step(h) == PutStep(h) \/ OtherStep(h)

Next ==
  \E h \in Handlers :
    \/ \E c \in Calls : Receive(h, c)
    \/ Step(h) \/ DetectDeadlock(h) \/ Disconnect(h)

Spec == Init /\ [][Next]_vars

(* Handlers run on; PostgreSQL looks for deadlocks after deadlock_timeout.  *)
FairSpec ==
  Spec /\ \A h \in Handlers : WF_vars(Step(h)) /\ WF_vars(DetectDeadlock(h))

-----------------------------------------------------------------------------
(* What a transaction has decided on still holds when it writes: the         *)
(* topology it replaces is the one it was judged by, and the scope of an     *)
(* object is still the caller's to write.                                   *)
UpdateStands(h) ==
  /\ Valid(Candidate(h))
  /\ at[h] # "household" =>
       /\ Judged(h, seen[h]) = "updated"
       /\ seen[h] # None => topology = seen[h] /\ <<Household, "exclusive">> \in locks[h]

WriteStands(h) ==
  at[h] = "write" => MayWrite(h, topology) /\ <<Household, "share">> \in locks[h]

DecisionStands(h) ==
  Running(h) => /\ call[h].op = "put" => UpdateStands(h)
                /\ call[h].op = "commit" => WriteStands(h)

LocksExclude ==
  \A h \in Handlers : \A l \in locks[h] : \A g \in Handlers : ~Conflicts(h, l[1], l[2], g)

DevicesHeld == \A h \in Handlers : \A d \in Devices \cap Locked(h) : device[d] = "active"

(* The inductive invariant: rows are shared or owned, a locked device is     *)
(* active, the stored topology is valid and every decision stands.          *)
TopologyInv ==
  /\ TypeOK
  /\ topology # None => Valid(topology)
  /\ LocksExclude
  /\ DevicesHeld
  /\ \A h \in Handlers : DecisionStands(h)

(* The request whose step this is put the topology that is now stored.      *)
Stores(h) ==
  /\ at'[h] # at[h]
  /\ call[h] # None /\ call[h].op = "put" /\ topology' = Candidate(h)

(* The topologies of a household form one line: each has the next revision,  *)
(* and the device whose request stored it could manage the one it replaced,  *)
(* whatever was stored since it was asked; the first came from a device of   *)
(* its only account; and every device a topology lists was active, and       *)
(* registered for that account, when it was stored.                         *)
HouseholdLine ==
  [][topology' # topology =>
       /\ IF topology = None THEN topology'.revision = 0 /\ Cardinality(DOMAIN topology'.accounts) = 1
          ELSE topology'.revision = topology.revision + 1
       /\ \E h \in Handlers :
            /\ Stores(h)
            /\ MayManage(IF topology = None THEN topology' ELSE topology,
                         Owner[Caller(h)], Caller(h))
       /\ \A a \in DOMAIN topology'.accounts : \A d \in topology'.accounts[a] :
            device[d] = "active" /\ Owner[d] = a]_vars

(* Every transaction ends, although their lock orders cross.                *)
TransactionsEnd == \A h \in Handlers : Running(h) ~> at[h] = "done"
=============================================================================
