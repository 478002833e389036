---------------------------- MODULE DeviceRegistry ----------------------------
(***************************************************************************)
(* Accounts, their devices and the enrollment of further devices           *)
(* (apps/api/src/store.rs, sync.rs, migrations/0006).                      *)
(*                                                                         *)
(* Each call authenticates its device, begins a transaction, takes its     *)
(* locks one after the other (the account row, then advisory locks on the  *)
(* request id and on the device id), reads, and commits.  PostgreSQL's     *)
(* now() is the time the transaction began, before it waited for a lock.   *)
(* The answer of a call changes nothing here and may be lost: a call that  *)
(* is repeated is a call like any other, with the same ids and secret.      *)
(***************************************************************************)
EXTENDS Integers, FiniteSets, Sequences

CONSTANTS
  Accounts,     \* account ids (fresh UUIDs of the server)
  DeviceIds,    \* device ids (chosen by clients)
  Requests,     \* enrollment request ids (chosen by clients; may be device ids)
  Secrets,      \* the keys and the bearer token of an enrollment, as one value
  Calls,        \* what clients may ask for
  Handlers,     \* concurrent executions of the handlers
  MaxDevices,   \* MAX_DEVICES_PER_ACCOUNT
  TimeToLive,   \* DEVICE_ENROLLMENT_TTL_SECONDS
  MaxClock,     \* bound: the last instant of a run
  None

(* What each operation carries.                                             *)
Call ==
  [op : {"create_account", "create_device", "revoke"},
   device : DeviceIds, request : {None}, secret : {None}]
  \cup [op : {"prepare"}, device : DeviceIds, request : Requests, secret : Secrets]
  \cup [op : {"activate"}, device : {None}, request : Requests, secret : Secrets]
  \cup [op : {"cancel"}, device : {None}, request : Requests, secret : {None}]

ASSUME RegistryAssumption ==
  /\ Calls \subseteq Call
  /\ IsFiniteSet(DeviceIds) /\ IsFiniteSet(Requests)
  /\ MaxDevices \in Nat \ {0}
  /\ TimeToLive \in Nat \ {0}
  /\ MaxClock \in Nat
  /\ None \notin Accounts \cup DeviceIds \cup Requests \cup Secrets

VARIABLES
  devices,      \* DeviceIds -> row or None
  enrollments,  \* device_enrollments: Requests -> row or None
  events,       \* device_enrollment_events: Requests -> the types recorded
  clock,        \* the database's clock
  at,           \* Handlers -> where the handler is
  call,         \* Handlers -> its call, with the calling device and its account
  now,          \* Handlers -> now() of its transaction
  held,         \* Handlers -> how many of its locks it holds
  due           \* history: Handlers -> the call had been done when it arrived

tables == <<devices, enrollments, events>>
vars == <<tables, clock, at, call, now, held, due>>

Device == [account : Accounts, secret : Secrets \cup {None}, revoked : BOOLEAN]

(* `late' is history: the approver had been revoked when the row was made.  *)
Enrollment == [account : Accounts, approver : DeviceIds, device : DeviceIds,
               secret : Secrets, expires : Nat,
               status : {"pending", "activated", "cancelled"}, late : BOOLEAN]

(* A running call: what it carries, who calls and for which account.        *)
Running ==
  [op : {"create_account"}, device : DeviceIds, request : {None}, secret : {None},
   actor : {None}, account : Accounts]
  \cup [op : {"create_device", "revoke"}, device : DeviceIds, request : {None},
        secret : {None}, actor : DeviceIds, account : Accounts]
  \cup [op : {"prepare"}, device : DeviceIds, request : Requests, secret : Secrets,
        actor : DeviceIds, account : Accounts]
  \cup [op : {"activate"}, device : DeviceIds, request : Requests, secret : Secrets,
        actor : {None}, account : Accounts]
  \cup [op : {"cancel"}, device : {None}, request : Requests, secret : {None},
        actor : DeviceIds, account : Accounts]

ASSUME NoneAssumption == None \notin Device \cup Enrollment \cup Running

(* TypeOK types the tables, the clock and the transactions.                 *)
TypeOK ==
  /\ devices \in [DeviceIds -> Device \cup {None}]
  /\ enrollments \in [Requests -> Enrollment \cup {None}]
  /\ events \in [Requests -> Seq({"activated", "cancelled"})]
  /\ clock \in Nat
  /\ at \in [Handlers -> {"idle", "begin", "locking", "write"}]
  /\ call \in [Handlers -> Running \cup {None}]
  /\ now \in [Handlers -> Nat]
  /\ held \in [Handlers -> 0..3]
  /\ due \in [Handlers -> BOOLEAN]

Init ==
  /\ devices = [d \in DeviceIds |-> None]
  /\ enrollments = [r \in Requests |-> None]
  /\ events = [r \in Requests |-> <<>>]
  /\ clock = 0
  /\ at = [h \in Handlers |-> "idle"]
  /\ call = [h \in Handlers |-> None]
  /\ now = [h \in Handlers |-> 0]
  /\ held = [h \in Handlers |-> 0]
  /\ due = [h \in Handlers |-> FALSE]

-----------------------------------------------------------------------------
(* The rows a transaction reads.                                            *)

IsActive(d) == devices[d] # None /\ ~devices[d].revoked
Active(a) == {d \in DeviceIds : IsActive(d) /\ devices[d].account = a}

IsPending(r) == enrollments[r] # None /\ enrollments[r].status = "pending"
Expired(r, t) == enrollments[r].expires <= t

(* Active devices and the enrollments that may still become active.         *)
Reserved(a, t) ==
  Cardinality(Active(a)) +
  Cardinality({r \in Requests : IsPending(r) /\ enrollments[r].account = a /\ ~Expired(r, t)})

HasEnrollment(d) == \E r \in Requests : enrollments[r] # None /\ enrollments[r].device = d

(* Tokens the server generates are not among the secrets: they are fresh.    *)
SecretInUse(s) == s # None /\ \E d \in DeviceIds : devices[d] # None /\ devices[d].secret = s

Known(a) == \E d \in DeviceIds : devices[d] # None /\ devices[d].account = a

(* The enrollment asked for is the one recorded under its request id.       *)
SameEnrollment(c) ==
  LET e == enrollments[c.request] IN
  /\ e.account = c.account /\ e.approver = c.actor
  /\ e.device = c.device /\ e.secret = c.secret

-----------------------------------------------------------------------------
(* Arrival and locks.                                                       *)

InFlight == {"begin", "locking", "write"}

(* The call of actor (a device, or nobody) arrives; done says whether it     *)
(* has been done before.                                                    *)
Arrive(h, running, done) ==
  /\ at[h] = "idle"
  /\ at' = [at EXCEPT ![h] = "begin"]
  /\ call' = [call EXCEPT ![h] = running]
  /\ due' = [due EXCEPT ![h] = done]
  /\ UNCHANGED <<tables, clock, now, held>>

RunningFor(c, actor, account, device) ==
  [op |-> c.op, device |-> device, request |-> c.request, secret |-> c.secret,
   actor |-> actor, account |-> account]

(* A new account gets a fresh random id.                                    *)
ReceiveCreateAccount(h, c, a) ==
  /\ c.op = "create_account"
  /\ ~Known(a)
  /\ \A g \in Handlers : at[g] \in InFlight => call[g].account # a
  /\ Arrive(h, RunningFor(c, None, a, c.device), FALSE)

(* authenticate_device: the calling device must be active.                  *)
Receive(h, c, d) ==
  LET running == RunningFor(c, d, devices[d].account, c.device) IN
  /\ c.op \in {"create_device", "prepare", "cancel", "revoke"}
  /\ IsActive(d)
  /\ Arrive(h, running,
            /\ c.op = "prepare"
            /\ enrollments[c.request] # None
            /\ SameEnrollment(running)
            /\ enrollments[c.request].status # "cancelled")

(* An activation carries the secret of the enrollment; its account and       *)
(* device are read before the transaction.                                  *)
ReceiveActivate(h, c) ==
  LET e == enrollments[c.request] IN
  /\ c.op = "activate"
  /\ e # None
  /\ Arrive(h, RunningFor(c, None, e.account, e.device),
            e.status = "activated" /\ e.secret = c.secret)

(* transaction.begin: now() is fixed.                                       *)
Begin(h) ==
  /\ at[h] = "begin"
  /\ at' = [at EXCEPT ![h] = "locking"]
  /\ now' = [now EXCEPT ![h] = clock]
  /\ UNCHANGED <<tables, clock, call, held, due>>

(* Mutants: the device id is locked first by an activation, or devices are   *)
(* revoked without the account row.                                         *)
LocksDeviceFirst(c) ==
  CASE c.op = "create_account" -> << <<"id", c.device>> >>
    [] c.op = "create_device"  -> << <<"account", c.account>>, <<"id", c.device>> >>
    [] c.op = "activate"       -> << <<"id", c.device>>, <<"account", c.account>> >>
    [] c.op = "prepare"        -> << <<"account", c.account>>, <<"id", c.request>>,
                                     <<"id", c.device>> >>
    [] OTHER                   -> << <<"account", c.account>> >>

LocksRevokeUnlocked(c) ==
  CASE c.op = "create_account" -> << <<"id", c.device>> >>
    [] c.op \in {"create_device", "activate"} ->
         << <<"account", c.account>>, <<"id", c.device>> >>
    [] c.op = "prepare" -> << <<"account", c.account>>, <<"id", c.request>>,
                              <<"id", c.device>> >>
    [] c.op = "cancel"  -> << <<"account", c.account>> >>
    [] c.op = "revoke"  -> <<>>

(* The locks of a call in the order it takes them: the row of the account,   *)
(* then advisory locks on hashes of ids.  Request ids and device ids are     *)
(* hashed alike, so one id is one lock whichever of the two it names.        *)
Locks(c) ==
  CASE c.op = "create_account" -> << <<"id", c.device>> >>
    [] c.op \in {"create_device", "activate"} ->
         << <<"account", c.account>>, <<"id", c.device>> >>
    [] c.op = "prepare" -> << <<"account", c.account>>, <<"id", c.request>>,
                              <<"id", c.device>> >>
    [] c.op \in {"cancel", "revoke"} -> << <<"account", c.account>> >>

Holds(h, lock) ==
  at[h] \in InFlight /\ \E i \in 1..held[h] : Locks(call[h])[i] = lock

Wanted(h) == Locks(call[h])[held[h] + 1]

(* Mutant: the account row is read without FOR UPDATE.                      *)
AcquireShared(h) ==
  /\ at[h] = "locking"
  /\ held[h] < Len(Locks(call[h]))
  /\ Wanted(h)[1] = "account" \/ \A g \in Handlers \ {h} : ~Holds(g, Wanted(h))
  /\ held' = [held EXCEPT ![h] = @ + 1]
  /\ UNCHANGED <<tables, clock, at, call, now, due>>

(* A lock is refused while another transaction holds it; its own holder gets  *)
(* it once more.                                                            *)
Acquire(h) ==
  /\ at[h] = "locking"
  /\ held[h] < Len(Locks(call[h]))
  /\ \A g \in Handlers \ {h} : ~Holds(g, Wanted(h))
  /\ held' = [held EXCEPT ![h] = @ + 1]
  /\ UNCHANGED <<tables, clock, at, call, now, due>>

-----------------------------------------------------------------------------
(* What a transaction decides from the rows it reads.  "ok" goes on to write; *)
(* "done" commits without writing: the call had been done before.           *)

JudgeCreateDevice(c, t) ==
  IF Reserved(c.account, t) >= MaxDevices THEN "limit_reached"
  ELSE IF HasEnrollment(c.device) THEN "identifier_conflict"
  ELSE "ok"

(* Mutant: a retry is checked like a first attempt.                         *)
JudgePrepareAgain(c, t) ==
  IF devices[c.device] # None \/ SecretInUse(c.secret) THEN "identifier_conflict"
  ELSE IF Reserved(c.account, t) >= MaxDevices THEN "limit_reached"
  ELSE IF enrollments[c.request] # None
       THEN IF SameEnrollment(c) THEN "done" ELSE "operation_conflict"
  ELSE "ok"

JudgePrepare(c, t) ==
  IF enrollments[c.request] # None
  THEN IF ~SameEnrollment(c) THEN "operation_conflict"
       ELSE IF enrollments[c.request].status = "cancelled" THEN "cancelled"
       ELSE IF IsPending(c.request) /\ Expired(c.request, t) THEN "expired"
       ELSE "done"
  ELSE IF devices[c.device] # None \/ SecretInUse(c.secret) THEN "identifier_conflict"
  ELSE IF Reserved(c.account, t) >= MaxDevices THEN "limit_reached"
  ELSE "ok"

JudgeActivate(c, t) ==
  IF enrollments[c.request].secret # c.secret THEN "unauthorized"
  ELSE IF enrollments[c.request].status = "cancelled" THEN "cancelled"
  ELSE IF enrollments[c.request].status = "activated" THEN "done"
  ELSE IF Expired(c.request, t) THEN "expired"
  ELSE IF Cardinality(Active(c.account)) >= MaxDevices THEN "limit_reached"
  ELSE "ok"

JudgeCancel(c, t) ==
  IF IsPending(c.request) /\ enrollments[c.request].account = c.account
     /\ ~Expired(c.request, t)
  THEN "ok" ELSE "not_found"

JudgeRevoke(c) ==
  IF c.device \notin Active(c.account) THEN "not_found"
  ELSE IF Cardinality(Active(c.account)) <= 1 THEN "last_active_device"
  ELSE "ok"

Judge(c, t) ==
  CASE c.op = "create_account" -> IF HasEnrollment(c.device) THEN "identifier_conflict" ELSE "ok"
    [] c.op = "create_device"  -> JudgeCreateDevice(c, t)
    [] c.op = "prepare"        -> JudgePrepare(c, t)
    [] c.op = "activate"       -> JudgeActivate(c, t)
    [] c.op = "cancel"         -> JudgeCancel(c, t)
    [] c.op = "revoke"         -> JudgeRevoke(c)

(* The handler answers; its transaction is over and its locks are released.  *)
End(h) ==
  /\ at' = [at EXCEPT ![h] = "idle"]
  /\ call' = [call EXCEPT ![h] = None]
  /\ now' = [now EXCEPT ![h] = 0]
  /\ held' = [held EXCEPT ![h] = 0]
  /\ due' = [due EXCEPT ![h] = FALSE]

Deciding(h) == at[h] = "locking" /\ held[h] = Len(Locks(call[h]))

Verdict(h) == Judge(call[h], now[h])

Decide(h) ==
  /\ Deciding(h)
  /\ IF Verdict(h) = "ok"
     THEN at' = [at EXCEPT ![h] = "write"] /\ UNCHANGED <<call, now, held, due>>
     ELSE End(h)
  /\ UNCHANGED <<tables, clock>>

-----------------------------------------------------------------------------
(* What a transaction writes.                                               *)

InsertDevice(d, account, secret) ==
  devices' = [devices EXCEPT ![d] = [account |-> account, secret |-> secret, revoked |-> FALSE]]

CreateDevice(c) ==
  /\ InsertDevice(c.device, c.account, None)
  /\ UNCHANGED <<enrollments, events>>

(* Expired enrollments of the same identity become terminal first.          *)
MakesTerminal(c, t, r) ==
  /\ IsPending(r) /\ Expired(r, t)
  /\ enrollments[r].device = c.device \/ enrollments[r].secret = c.secret

PrepareEnrollment(c, t) ==
  /\ enrollments' = [r \in Requests |->
       IF r = c.request
       THEN [account |-> c.account, approver |-> c.actor, device |-> c.device,
             secret |-> c.secret, expires |-> t + TimeToLive, status |-> "pending",
             late |-> ~IsActive(c.actor)]
       ELSE IF MakesTerminal(c, t, r) THEN [enrollments[r] EXCEPT !.status = "cancelled"]
       ELSE enrollments[r]]
  /\ UNCHANGED <<devices, events>>

ActivateEnrollment(c) ==
  /\ InsertDevice(c.device, c.account, c.secret)
  /\ enrollments' = [enrollments EXCEPT ![c.request].status = "activated"]
  /\ events' = [events EXCEPT ![c.request] = Append(@, "activated")]

CancelEnrollment(c) ==
  /\ enrollments' = [enrollments EXCEPT ![c.request].status = "cancelled"]
  /\ events' = [events EXCEPT ![c.request] = Append(@, "cancelled")]
  /\ UNCHANGED devices

(* Mutant: the enrollments of a revoked device stay.                        *)
RevokeDeviceOnly(c) ==
  /\ devices' = [devices EXCEPT ![c.device].revoked = TRUE]
  /\ UNCHANGED <<enrollments, events>>

(* The enrollments the revoked device approved are cancelled with it.       *)
RevokeDevice(c) ==
  LET cancelled == {r \in Requests : IsPending(r) /\ enrollments[r].approver = c.device} IN
  /\ devices' = [devices EXCEPT ![c.device].revoked = TRUE]
  /\ enrollments' = [r \in Requests |->
       IF r \in cancelled THEN [enrollments[r] EXCEPT !.status = "cancelled"]
       ELSE enrollments[r]]
  /\ events' = [r \in Requests |->
       IF r \in cancelled THEN Append(events[r], "cancelled") ELSE events[r]]

(* Mutant: the index of pending enrollments is not unique.                  *)
DuplicateDevice(c, t) ==
  CASE c.op \in {"create_account", "create_device"} -> devices[c.device] # None
    [] c.op = "activate" -> devices[c.device] # None \/ SecretInUse(c.secret)
    [] OTHER             -> FALSE

(* A unique index is violated: another row has the device id or the secret.  *)
Duplicate(c, t) ==
  CASE c.op \in {"create_account", "create_device"} -> devices[c.device] # None
    [] c.op = "activate" -> devices[c.device] # None \/ SecretInUse(c.secret)
    [] c.op = "prepare"  -> \E r \in Requests :
                              /\ IsPending(r) /\ ~MakesTerminal(c, t, r)
                              /\ enrollments[r].device = c.device \/ enrollments[r].secret = c.secret
    [] OTHER             -> FALSE

Effect(c, t) ==
  CASE c.op \in {"create_account", "create_device"} -> CreateDevice(c)
    [] c.op = "prepare"  -> PrepareEnrollment(c, t)
    [] c.op = "activate" -> ActivateEnrollment(c)
    [] c.op = "cancel"   -> CancelEnrollment(c)
    [] c.op = "revoke"   -> RevokeDevice(c)

(* An enrollment being activated or cancelled is locked (FOR UPDATE, UPDATE): *)
(* it is not made terminal meanwhile.                                        *)
RowLocked(h, g) ==
  /\ call[h].op = "prepare"
  /\ at[g] = "write" /\ call[g].op \in {"activate", "cancel"}
  /\ MakesTerminal(call[h], now[h], call[g].request)

Write(h) ==
  /\ at[h] = "write"
  /\ \A g \in Handlers : ~RowLocked(h, g)
  /\ IF Duplicate(call[h], now[h]) THEN UNCHANGED tables ELSE Effect(call[h], now[h])
  /\ End(h)
  /\ UNCHANGED clock

(* A database error, a dropped connection or a stopped server: rolled back.  *)
Abort(h) ==
  /\ at[h] \in InFlight
  /\ End(h)
  /\ UNCHANGED <<tables, clock>>

Tick ==
  /\ clock < MaxClock
  /\ clock' = clock + 1
  /\ UNCHANGED <<tables, at, call, now, held, due>>

HandlerStep(h) == Begin(h) \/ Acquire(h) \/ Decide(h) \/ Write(h)

Next ==
  \/ \E h \in Handlers, c \in Calls :
       \/ \E a \in Accounts : ReceiveCreateAccount(h, c, a)
       \/ \E d \in DeviceIds : Receive(h, c, d)
       \/ ReceiveActivate(h, c)
  \/ \E h \in Handlers : HandlerStep(h) \/ Abort(h)
  \/ Tick

Spec == Init /\ [][Next]_vars

-----------------------------------------------------------------------------
(* Safety.                                                                  *)

(* An account never has more active devices than the limit, whether they     *)
(* come from create_device or from enrollments that were prepared when there *)
(* was room, or that expired for others while they waited for a lock.        *)
ActiveLimit == \A a \in Accounts : Cardinality(Active(a)) <= MaxDevices

(* Nobody is locked out: an account that has had a device has an active one,  *)
(* also when two devices revoke each other at the same time.                 *)
NeverLockedOut == \A a \in Accounts : Known(a) => Active(a) # {}

(* The inductive invariant behind the two: what a transaction decided on     *)
(* still holds when it writes, because the account row lets one transaction  *)
(* of an account at a time read and write, and a new account is nobody       *)
(* else's.                                                                   *)
CallKnown(h) ==
  at[h] \in InFlight =>
    /\ call[h] # None
    /\ call[h].op # "create_account" => Known(call[h].account)
    /\ call[h].op = "activate" => enrollments[call[h].request] # None
    /\ call[h].op = "create_account" =>
         /\ ~Known(call[h].account)
         /\ \A g \in Handlers \ {h} :
              at[g] \in InFlight => call[g].account # call[h].account

EnrollmentKnown(r) == enrollments[r] # None => Known(enrollments[r].account)

AccountsKnown ==
  /\ \A r \in Requests : EnrollmentKnown(r)
  /\ \A h \in Handlers : CallKnown(h)

HasAccountLock(h) ==
  at[h] \in {"locking", "write"} /\ held[h] > 0 /\ call[h].op # "create_account"

AccountSerialised ==
  /\ \A g, h \in Handlers :
       HasAccountLock(g) /\ HasAccountLock(h) /\ call[g].account = call[h].account => g = h
  /\ \A h \in Handlers :
       /\ at[h] \in {"idle", "begin"} => held[h] = 0
       /\ at[h] = "write" => held[h] > 0

DecisionStands(h) ==
  at[h] = "write" =>
    LET active == Active(call[h].account) IN
    /\ call[h].op \in {"create_device", "activate"} => Cardinality(active) < MaxDevices
    /\ call[h].op = "revoke" => call[h].device \in active /\ Cardinality(active) > 1
    /\ call[h].op = "cancel" => enrollments[call[h].request] # None

DecisionsStand == \A h \in Handlers : DecisionStands(h)

RegistryInv ==
  /\ TypeOK
  /\ AccountsKnown
  /\ AccountSerialised
  /\ DecisionsStand
  /\ ActiveLimit
  /\ NeverLockedOut

(* A pending enrollment keeps its identity to itself: no device of any        *)
(* account has its device id, and no other pending enrollment its device id  *)
(* or its secret.                                                            *)
PendingIdentityReserved ==
  \A r \in Requests : IsPending(r) =>
    /\ devices[enrollments[r].device] = None
    /\ \A q \in Requests \ {r} : IsPending(q) =>
         /\ enrollments[q].device # enrollments[r].device
         /\ enrollments[q].secret # enrollments[r].secret

(* No enrollment survives the revocation of the device that approved it,     *)
(* except one whose approver was still active when the call arrived and was   *)
(* revoked before it committed.                                             *)
RevocationCancels ==
  \A r \in Requests : IsPending(r) /\ ~enrollments[r].late => IsActive(enrollments[r].approver)

(* The audit events tell what happened to every enrollment, once: an         *)
(* activated one has its device, a cancelled one never had.                  *)
AuditMatches ==
  \A r \in Requests :
    LET e == enrollments[r] IN
    IF e = None \/ IsPending(r) THEN events[r] = <<>>
    ELSE IF e.status = "activated"
    THEN /\ events[r] = <<"activated">>
         /\ devices[e.device] # None
         /\ devices[e.device].account = e.account /\ devices[e.device].secret = e.secret
    ELSE events[r] \in {<<>>, <<"cancelled">>}

(* What an enrollment reserves, and what is recorded of its end, agree with   *)
(* the devices, whichever calls meet over its ids.                          *)
EnrollmentsSound == PendingIdentityReserved /\ AuditMatches

(* A call that is repeated after it was done is never taken for a conflict    *)
(* with what it did itself, nor refused for want of room: to retry a prepare *)
(* or an activation whose answer was lost is safe.                           *)
RetriesReplayed ==
  \A h \in Handlers : Deciding(h) /\ due[h] =>
    \/ Verdict(h) = "done"
    \/ call[h].op = "prepare" /\ Verdict(h) \in {"cancelled", "expired"}

(* The ids are the clients' to choose.  Two prepares of different accounts     *)
(* are crossed when the one is left to lock as its device id what the other  *)
(* holds as its request id.                                                 *)
WaitsFor(h, g) ==
  \/ /\ at[h] = "locking" /\ held[h] < Len(Locks(call[h]))
     /\ g # h /\ Holds(g, Wanted(h))
  \/ at[h] = "write" /\ RowLocked(h, g)

Crossed(h, g) ==
  /\ \A f \in {g, h} : at[f] = "locking" /\ call[f].op = "prepare" /\ held[f] = 2
  /\ call[h].account # call[g].account
  /\ call[h].device = call[g].request

(* Transactions wait for each other in a circle only over crossed prepares:   *)
(* no other mix of calls, whichever ids they share, comes to a standstill.   *)
NoLockCycle ==
  \A waiting \in (SUBSET Handlers) \ {{}} :
    (\A h \in waiting : \E g \in waiting : WaitsFor(h, g)) =>
      \E g, h \in waiting : Crossed(h, g)

=============================================================================
