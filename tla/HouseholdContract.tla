-------------------------- MODULE HouseholdContract --------------------------
(***************************************************************************)
(* The household topology of crates/vault-sync: who belongs to a household, *)
(* which devices they use, which spaces it has and who holds their keys;   *)
(* when a topology is valid, what it authorizes, how it is replaced, and   *)
(* the topology a local vault of a single owner starts with.               *)
(*                                                                         *)
(* Collections that must be free of duplicates are functions from their    *)
(* ids; the ids of encrypted objects, households and formats, which only   *)
(* have to be well formed, are left out of a topology.                     *)
(***************************************************************************)
EXTENDS Integers, FiniteSets, Sequences

CONSTANTS
  Accounts, Devices,     \* account and device ids, ordered as the database does
  Memberships, Spaces,
  MaxAccounts,           \* MAX_ACCOUNTS_PER_HOUSEHOLD
  MaxDevices,            \* MAX_DEVICES_PER_ACCOUNT
  MaxWireInteger,        \* MAX_WIRE_INTEGER
  MaxMigratedObjects,    \* MAX_MIGRATED_OBJECTS
  None

ASSUME ContractAssumption ==
  /\ Accounts \subseteq Nat /\ Devices \subseteq Nat
  /\ IsFiniteSet(Devices) /\ IsFiniteSet(Spaces)
  /\ MaxAccounts \in Nat \ {0} /\ MaxDevices \in Nat \ {0} /\ MaxWireInteger \in Nat
  /\ MaxMigratedObjects \in Nat

Role == {"owner", "organizer", "member", "full", "partial", "legacy"}
State == {"invited", "active", "revoked"}
Access == {"read", "edit", "manage"}
Action == {"read", "write", "manage"}

Membership == [account : Accounts, role : Role, state : State]
Space == [kind : {"private", "shared", "purpose"}, generation : Nat]
SpaceMember == [membership : Memberships, access : Access, generation : Nat]

IsTopology(t) ==
  /\ DOMAIN t = {"revision", "accounts", "memberships", "spaces", "members"}
  /\ t.revision \in Nat
  /\ \E as \in SUBSET Accounts : t.accounts \in [as -> SUBSET Devices]
  /\ \E ms \in SUBSET Memberships : t.memberships \in [ms -> Membership]
  /\ \E ss \in SUBSET Spaces : t.spaces \in [ss -> Space]
  /\ \E ks \in SUBSET (Spaces \X Devices) : t.members \in [ks -> SpaceMember]

Listed(t) == UNION {t.accounts[a] : a \in DOMAIN t.accounts}

(***************************************************************************)
(* HouseholdTopologyV1::validate, in its parts.                            *)
(***************************************************************************)
ValidAccount(devices) == devices # {} /\ Cardinality(devices) <= MaxDevices

ValidAccounts(t) ==
  /\ DOMAIN t.accounts # {} /\ Cardinality(DOMAIN t.accounts) <= MaxAccounts
  /\ \A a \in DOMAIN t.accounts : ValidAccount(t.accounts[a])
  /\ \A a, b \in DOMAIN t.accounts : a # b => t.accounts[a] \cap t.accounts[b] = {}

ValidHousehold(t) ==
  t.revision <= MaxWireInteger /\ DOMAIN t.memberships # {} /\ DOMAIN t.spaces # {}

ActiveOwners(t) ==
  {m \in DOMAIN t.memberships :
     t.memberships[m].role = "owner" /\ t.memberships[m].state = "active"}

ValidMemberships(t) ==
  /\ ActiveOwners(t) # {}
  /\ \A m \in DOMAIN t.memberships : t.memberships[m].account \in DOMAIN t.accounts

ValidGeneration(n) == n # 0 /\ n <= MaxWireInteger

ValidMember(t, s, d) ==
  LET k == t.members[<<s, d>>]
      m == t.memberships[k.membership]
  IN
  /\ s \in DOMAIN t.spaces /\ k.membership \in DOMAIN t.memberships
  /\ m.state = "active" /\ d \in t.accounts[m.account]
  /\ k.generation = t.spaces[s].generation
  /\ m.role # "legacy"
  /\ k.access = "manage" => m.role \in {"owner", "organizer"}

ReadableBy(t, s) == {t.members[k].membership : k \in {j \in DOMAIN t.members : j[1] = s}}

ValidSpaces(t) ==
  /\ \A s \in DOMAIN t.spaces :
       /\ ValidGeneration(t.spaces[s].generation)
       /\ t.spaces[s].kind = "private" => Cardinality(ReadableBy(t, s)) = 1
  /\ \A k \in DOMAIN t.members : ValidMember(t, k[1], k[2])

Valid(t) ==
  ValidAccounts(t) /\ ValidHousehold(t) /\ ValidMemberships(t) /\ ValidSpaces(t)

(***************************************************************************)
(* authorizes_device_scope.  A scope is of an account, of the household or *)
(* of one of its spaces.                                                   *)
(***************************************************************************)
Scope == [kind : {"account", "household"}, account : Accounts]
           \cup [kind : {"space"}, account : Accounts, space : Spaces]

RolesFor(action) ==
  IF action = "read" THEN Role \ {"legacy"} ELSE {"owner", "organizer"}

AccessFor(action) ==
  CASE action = "read"  -> Access
    [] action = "write" -> {"edit", "manage"}
    [] OTHER            -> {"manage"}

AuthorizesHousehold(t, a, action) ==
  \E m \in DOMAIN t.memberships :
    /\ t.memberships[m].account = a /\ t.memberships[m].state = "active"
    /\ t.memberships[m].role \in RolesFor(action)

AuthorizesSpace(t, a, d, s, action) ==
  /\ <<s, d>> \in DOMAIN t.members
  /\ LET k == t.members[<<s, d>>] IN
     /\ k.membership \in DOMAIN t.memberships
     /\ t.memberships[k.membership].account = a
     /\ t.memberships[k.membership].state = "active"
     /\ k.access \in AccessFor(action)

AuthorizesDeviceScope(t, a, d, scope, action) ==
  /\ Valid(t)
  /\ a \in DOMAIN t.accounts /\ d \in t.accounts[a] /\ scope.account = a
  /\ CASE scope.kind = "account"   -> TRUE
       [] scope.kind = "household" -> AuthorizesHousehold(t, a, action)
       [] OTHER                    -> AuthorizesSpace(t, a, d, scope.space, action)

(* Managing the household itself: what a new topology needs.                *)
MayManage(t, a, d) ==
  AuthorizesDeviceScope(t, a, d, [kind |-> "household", account |-> a], "manage")

(***************************************************************************)
(* topology_update_outcome, and the first topology of a household.         *)
(***************************************************************************)
UpdateOutcome(current, candidate) ==
  IF candidate = current THEN "replayed"
  ELSE IF current.revision + 1 = candidate.revision THEN "updated"
  ELSE "precondition_failed"

Bootstraps(t, a, d) ==
  DOMAIN t.accounts = {a} /\ t.revision = 0 /\ MayManage(t, a, d)

(***************************************************************************)
(* SingleOwnerMigrationV1: one owner, one device, one private space, and    *)
(* the objects of the local vault, as the caller lists them, assigned to    *)
(* that space.  A topology names encrypted objects of its own: the profile, *)
(* the manifests of its spaces and the envelopes of their keys.            *)
(***************************************************************************)
SingleOwner(a, d, m, s) ==
  [revision |-> 0,
   accounts |-> [x \in {a} |-> {d}],
   memberships |-> [x \in {m} |-> [account |-> a, role |-> "owner", state |-> "active"]],
   spaces |-> [x \in {s} |-> [kind |-> "private", generation |-> 1]],
   members |-> [k \in {<<s, d>>} |-> [membership |-> m, access |-> "manage", generation |-> 1]]]

Migration(t, named, s, objects) ==
  [topology |-> t, named |-> named, private |-> s,
   assignments |-> [i \in 1..Len(objects) |-> [object |-> objects[i], space |-> s]]]

(* Ids without two equal ones and without an id the topology names.         *)
MayMigrate(ids, named) ==
  /\ Len(ids) <= MaxMigratedObjects
  /\ \A i, j \in DOMAIN ids : ids[i] = ids[j] => i = j
  /\ \A i \in DOMAIN ids : ids[i] \notin named

ValidMigration(g) ==
  /\ Valid(g.topology)
  /\ MayMigrate([i \in DOMAIN g.assignments |-> g.assignments[i].object], g.named)
  /\ g.private \in DOMAIN g.topology.spaces
  /\ g.topology.spaces[g.private].kind = "private"
  /\ \A i \in DOMAIN g.assignments : g.assignments[i].space = g.private
=============================================================================
