------------------------- MODULE DeviceRegistryProofs -------------------------
(***************************************************************************)
(* Proofs about DeviceRegistry, for any number of accounts, devices,        *)
(* requests and handlers: an account never has more active devices than     *)
(* the limit, and never loses its last one; its enrollments, devices and     *)
(* audit events agree, and transactions wait in a circle only over prepares *)
(* whose ids cross.                                                         *)
(***************************************************************************)
EXTENDS DeviceRegistry, FiniteSetTheorems, TLAPS

USE RegistryAssumption, NoneAssumption

(* What each operation carries, field by field.                             *)
LEMMA RunningFields ==
  ASSUME NEW c \in Running
  PROVE  /\ c.op \in {"create_account", "create_device", "revoke", "prepare", "activate", "cancel"}
         /\ c.account \in Accounts
         /\ c.op # "cancel" => c.device \in DeviceIds
         /\ c.op \in {"prepare", "activate", "cancel"} => c.request \in Requests
         /\ c.op \in {"prepare", "activate"} => c.secret \in Secrets
         /\ c.op = "prepare" => c.actor \in DeviceIds
BY DEF Running

(* The call a handler starts with is one its operation may carry.           *)
LEMMA ReceivedTyped ==
  ASSUME NEW c \in Calls, NEW a \in Accounts, NEW d \in DeviceIds
  PROVE  /\ c.op = "create_account" => RunningFor(c, None, a, c.device) \in Running
         /\ c.op \in {"create_device", "prepare", "cancel", "revoke"} =>
              RunningFor(c, d, a, c.device) \in Running
         /\ c.op = "activate" => RunningFor(c, None, a, d) \in Running
         /\ c.op \in {"prepare", "activate", "cancel"} => c.request \in Requests
<1>1. c \in Call
  OBVIOUS
<1>. QED  BY <1>1 DEF Call, Running, RunningFor

(* A call takes between one and three locks; the account row comes first.   *)
LEMMA LocksShape ==
  ASSUME NEW c \in Running
  PROVE  /\ Len(Locks(c)) \in 1..3
         /\ c.op # "create_account" => Locks(c)[1] = <<"account", c.account>>
<1>. c.op \in {"create_account", "create_device", "revoke", "prepare", "activate", "cancel"}
  BY RunningFields
<1>1. CASE c.op = "create_account"
  BY <1>1 DEF Locks
<1>2. CASE c.op \in {"create_device", "activate"}
  BY <1>2 DEF Locks
<1>3. CASE c.op = "prepare"
  BY <1>3 DEF Locks
<1>4. CASE c.op \in {"cancel", "revoke"}
  BY <1>4 DEF Locks
<1>. QED  BY <1>1, <1>2, <1>3, <1>4

(* Active devices are finitely many.                                        *)
LEMMA ActiveFinite ==
  ASSUME NEW a
  PROVE  IsFiniteSet(Active(a)) /\ Cardinality(Active(a)) \in Nat
<1>1. Active(a) \subseteq DeviceIds
  BY DEF Active
<1>. QED  BY <1>1, FS_Subset, FS_CardinalityType

(* A device that is inserted becomes active in its account and nowhere else. *)
LEMMA Inserted ==
  ASSUME TypeOK, NEW d \in DeviceIds, NEW a \in Accounts, NEW s \in Secrets \cup {None},
         devices[d] = None, InsertDevice(d, a, s)
  PROVE  /\ devices' \in [DeviceIds -> Device \cup {None}]
         /\ Active(a)' = Active(a) \cup {d}
         /\ Cardinality(Active(a)') = Cardinality(Active(a)) + 1
         /\ \A b \in Accounts \ {a} : Active(b)' = Active(b)
         /\ \A b \in Accounts : Known(b)' <=> (Known(b) \/ b = a)
<1> DEFINE row == [account |-> a, secret |-> s, revoked |-> FALSE]
<1>0. row \in Device
  BY Zenon DEF Device
<1>1. row \in Device /\ row # None
  BY <1>0
<1>2. devices' = [devices EXCEPT ![d] = row]
  BY DEF InsertDevice
<1>3. /\ devices' \in [DeviceIds -> Device \cup {None}]
      /\ devices'[d] = row
      /\ \A e \in DeviceIds \ {d} : devices'[e] = devices[e]
  BY <1>1, <1>2 DEF TypeOK
<1>4. Active(a)' = Active(a) \cup {d}
  BY <1>1, <1>3 DEF Active, IsActive
<1>5. d \notin Active(a)
  BY DEF Active, IsActive
<1>6. Cardinality(Active(a)') = Cardinality(Active(a)) + 1
  BY <1>4, <1>5, ActiveFinite, FS_AddElement
<1>7. \A b \in Accounts \ {a} : Active(b)' = Active(b)
  BY <1>1, <1>3 DEF Active, IsActive
<1>8. \A b \in Accounts : Known(b)' <=> (Known(b) \/ b = a)
  BY <1>1, <1>3 DEF Known
<1>. QED  BY <1>3, <1>4, <1>6, <1>7, <1>8

(* A revoked row is a row of the same account.                              *)
LEMMA RevokedRow ==
  ASSUME NEW r \in Device
  PROVE  /\ [r EXCEPT !.revoked = TRUE] \in Device
         /\ [r EXCEPT !.revoked = TRUE] # None
         /\ [r EXCEPT !.revoked = TRUE].account = r.account
         /\ [r EXCEPT !.revoked = TRUE].revoked
<1>1. [r EXCEPT !.revoked = TRUE] \in Device
  BY Zenon DEF Device
<1>2. [r EXCEPT !.revoked = TRUE].account = r.account
  BY DEF Device
<1>3. [r EXCEPT !.revoked = TRUE].revoked
  BY DEF Device
<1>. QED  BY <1>1, <1>2, <1>3

(* A device that is revoked leaves the active devices of its account.        *)
LEMMA Revoked ==
  ASSUME TypeOK, NEW a \in Accounts, NEW d \in Active(a),
         devices' = [devices EXCEPT ![d].revoked = TRUE]
  PROVE  /\ devices' \in [DeviceIds -> Device \cup {None}]
         /\ Active(a)' = Active(a) \ {d}
         /\ Cardinality(Active(a)') = Cardinality(Active(a)) - 1
         /\ \A b \in Accounts \ {a} : Active(b)' = Active(b)
         /\ \A b \in Accounts : Known(b)' <=> Known(b)
<1>1. d \in DeviceIds /\ devices[d] # None /\ devices[d] \in Device /\ devices[d].account = a
  BY DEF Active, IsActive, TypeOK
<1> DEFINE row == [devices[d] EXCEPT !.revoked = TRUE]
<1>2. row \in Device /\ row # None /\ row.account = a /\ row.revoked
  BY <1>1, RevokedRow
<1>3. /\ devices' \in [DeviceIds -> Device \cup {None}]
      /\ devices'[d] = row
      /\ \A e \in DeviceIds \ {d} : devices'[e] = devices[e]
  <2>1. devices' = [devices EXCEPT ![d] = row]
    OBVIOUS
  <2>. QED  BY <1>1, <1>2, <2>1 DEF TypeOK
<1>4. Active(a)' = Active(a) \ {d}
  BY <1>1, <1>2, <1>3 DEF Active, IsActive
<1>5. Cardinality(Active(a)') = Cardinality(Active(a)) - 1
  BY <1>4, ActiveFinite, FS_RemoveElement
<1>6. \A b \in Accounts \ {a} : Active(b)' = Active(b)
  BY <1>1, <1>2, <1>3 DEF Active, IsActive
<1>7. \A b \in Accounts : Known(b)' <=> Known(b)
  BY <1>1, <1>2, <1>3 DEF Known
<1>. QED  BY <1>3, <1>4, <1>5, <1>6, <1>7

(* A changed status keeps an enrollment an enrollment of its account.        *)
LEMMA StatusSet ==
  ASSUME NEW e \in Enrollment, NEW status \in {"pending", "activated", "cancelled"}
  PROVE  /\ [e EXCEPT !.status = status] \in Enrollment
         /\ [e EXCEPT !.status = status] # None
         /\ [e EXCEPT !.status = status].account = e.account
<1>1. [e EXCEPT !.status = status] \in Enrollment
  BY DEF Enrollment
<1>2. [e EXCEPT !.status = status].account = e.account
  BY DEF Enrollment
<1>. QED  BY <1>1, <1>2

(* Nothing is registered and nobody runs at the start.                      *)
LEMMA InitInv == Init => RegistryInv
<1>. SUFFICES ASSUME Init PROVE RegistryInv
  OBVIOUS
<1>1. TypeOK
  BY DEF Init, TypeOK
<1>2. \A a : Active(a) = {} /\ ~Known(a)
  BY DEF Init, Active, IsActive, Known
<1>3. AccountsKnown /\ AccountSerialised /\ DecisionsStand
  BY DEF Init, AccountsKnown, EnrollmentKnown, CallKnown, AccountSerialised, DecisionsStand,
         DecisionStands, HasAccountLock, InFlight
<1>4. ActiveLimit
  BY <1>2, FS_EmptySet DEF ActiveLimit
<1>5. NeverLockedOut
  BY <1>2 DEF NeverLockedOut
<1>. QED  BY <1>1, <1>3, <1>4, <1>5 DEF RegistryInv

(* While the tables stay, so do the accounts, their limits and their last    *)
(* devices.                                                                 *)
LEMMA TablesStay ==
  ASSUME RegistryInv, UNCHANGED tables
  PROVE  /\ ActiveLimit' /\ NeverLockedOut'
         /\ \A a : Active(a)' = Active(a) /\ (Known(a)' <=> Known(a))
BY DEF RegistryInv, ActiveLimit, NeverLockedOut, Active, IsActive, Known, tables

(* An arriving call that names a known account, or a new one nobody else is  *)
(* creating.                                                                *)
LEMMA ArriveStep ==
  ASSUME RegistryInv, NEW h \in Handlers, NEW running \in Running, NEW done \in BOOLEAN,
         Arrive(h, running, done),
         running.op # "create_account" => Known(running.account),
         running.op = "create_account" =>
           /\ ~Known(running.account)
           /\ \A g \in Handlers : at[g] \in InFlight => call[g].account # running.account,
         running.op = "activate" => enrollments[running.request] # None
  PROVE  RegistryInv'
<1>1. UNCHANGED tables
  BY DEF Arrive
<1>2. /\ at' = [at EXCEPT ![h] = "begin"] /\ call' = [call EXCEPT ![h] = running]
      /\ due' = [due EXCEPT ![h] = done]
      /\ UNCHANGED <<clock, now, held>>
      /\ at[h] = "idle"
  BY DEF Arrive
<1>3. TypeOK'
  BY <1>1, <1>2 DEF RegistryInv, TypeOK, tables
<1>4. /\ at'[h] = "begin" /\ call'[h] = running
      /\ \A g \in Handlers \ {h} : at'[g] = at[g] /\ call'[g] = call[g]
  BY <1>2 DEF RegistryInv, TypeOK
<1>5. AccountsKnown'
  <2>1. ASSUME NEW r \in Requests PROVE EnrollmentKnown(r)'
    BY <1>1 DEF RegistryInv, AccountsKnown, EnrollmentKnown, Known, tables
  <2>2. CallKnown(h)'
    BY <1>1, <1>4 DEF CallKnown, Known, tables, InFlight
  <2>3. ASSUME NEW g \in Handlers \ {h} PROVE CallKnown(g)'
    <3>1. CallKnown(g)
      BY DEF RegistryInv, AccountsKnown
    <3>. QED  BY <1>1, <1>4, <3>1 DEF CallKnown, Known, tables, InFlight
  <2>. QED  BY <2>1, <2>2, <2>3 DEF AccountsKnown
<1>6. AccountSerialised'
  BY <1>2 DEF RegistryInv, TypeOK, AccountSerialised, HasAccountLock
<1>7. DecisionsStand'
  <2>1. ASSUME NEW g \in Handlers PROVE DecisionStands(g)'
    BY <1>1, <1>4 DEF RegistryInv, DecisionsStand, DecisionStands, Active, IsActive, tables
  <2>. QED  BY <2>1 DEF DecisionsStand
<1>. QED  BY <1>1, <1>3, <1>5, <1>6, <1>7, TablesStay DEF RegistryInv

(* A transaction that ends leaves the decisions of the others standing, if    *)
(* what it wrote leaves their accounts alone.                               *)
LEMMA EndStep ==
  ASSUME RegistryInv, NEW h \in Handlers, End(h), UNCHANGED clock,
         devices' \in [DeviceIds -> Device \cup {None}],
         enrollments' \in [Requests -> Enrollment \cup {None}],
         events' \in [Requests -> Seq({"activated", "cancelled"})],
         \A a \in Accounts : Known(a) => Known(a)',
         \A a \in Accounts : Known(a)' =>
           Known(a) \/ (at[h] \in InFlight /\ call[h].op = "create_account" /\ a = call[h].account),
         \A r \in Requests : enrollments[r] # None => enrollments'[r] # None,
         \A r \in Requests : EnrollmentKnown(r)',
         \A g \in Handlers \ {h} :
           at[g] = "write" /\ call[g].op # "create_account" =>
             Active(call[g].account)' = Active(call[g].account),
         ActiveLimit', NeverLockedOut'
  PROVE  RegistryInv'
<1>1. /\ at' = [at EXCEPT ![h] = "idle"] /\ call' = [call EXCEPT ![h] = None]
      /\ now' = [now EXCEPT ![h] = 0] /\ held' = [held EXCEPT ![h] = 0]
      /\ due' = [due EXCEPT ![h] = FALSE]
  BY DEF End
<1>2. TypeOK'
  BY <1>1 DEF RegistryInv, TypeOK
<1>3. /\ at'[h] = "idle" /\ held'[h] = 0
      /\ \A g \in Handlers \ {h} : at'[g] = at[g] /\ call'[g] = call[g] /\ held'[g] = held[g]
  BY <1>1 DEF RegistryInv, TypeOK
<1>4. AccountsKnown'
  <2>1. CallKnown(h)'
    BY <1>3 DEF CallKnown, InFlight
  <2>2. ASSUME NEW g \in Handlers \ {h} PROVE CallKnown(g)'
    <3>1. CallKnown(g)
      BY DEF RegistryInv, AccountsKnown
    <3>2. CASE at[g] \notin InFlight
      BY <1>3, <3>2 DEF CallKnown, InFlight
    <3>3. CASE at[g] \in InFlight
      <4>1. call[g] \in Running /\ call[g].account \in Accounts /\ call[g] # None
        BY <3>1, <3>3, RunningFields DEF RegistryInv, TypeOK, CallKnown
      <4>2. \A a \in Accounts : a = call[g].account =>
              /\ call[g].op # "create_account" => Known(a)'
              /\ call[g].op = "create_account" => ~Known(a)'
        <5>1. call[g].op = "create_account" =>
                ~(at[h] \in InFlight /\ call[h].account = call[g].account)
          BY <3>1, <3>3 DEF CallKnown
        <5>. QED  BY <3>1, <3>3, <5>1 DEF CallKnown
      <4>3. call[g].op = "create_account" =>
              \A f \in Handlers \ {g} : at'[f] \in InFlight => call'[f].account # call[g].account
        BY <1>3, <3>1, <3>3 DEF CallKnown, InFlight
      <4>4. call[g].op = "activate" => enrollments'[call[g].request] # None
        BY <3>1, <3>3, <4>1, RunningFields DEF CallKnown
      <4>. QED  BY <1>3, <3>3, <4>1, <4>2, <4>3, <4>4 DEF CallKnown, Known
    <3>. QED  BY <3>2, <3>3
  <2>. QED  BY <2>1, <2>2 DEF AccountsKnown
<1>5. AccountSerialised'
  BY <1>3 DEF RegistryInv, AccountSerialised, HasAccountLock
<1>6. DecisionsStand'
  <2>1. DecisionStands(h)'
    BY <1>3 DEF DecisionStands
  <2>2. ASSUME NEW g \in Handlers \ {h}, at[g] = "write" PROVE DecisionStands(g)'
    <3>1. DecisionStands(g) /\ at'[g] = at[g] /\ call'[g] = call[g]
      BY <1>3 DEF RegistryInv, DecisionsStand
    <3>2. call[g] \in Running
      BY <2>2 DEF RegistryInv, TypeOK, AccountsKnown, CallKnown, InFlight
    <3>3. call[g].op \in {"activate", "cancel"} => call[g].request \in Requests
      BY <3>2, RunningFields
    <3>. QED  BY <2>2, <3>1, <3>3 DEF DecisionStands, Active, IsActive
  <2>3. ASSUME NEW g \in Handlers \ {h}, at[g] # "write" PROVE DecisionStands(g)'
    BY <1>3, <2>3 DEF DecisionStands
  <2>. QED  BY <2>1, <2>2, <2>3 DEF DecisionsStand
<1>. QED  BY <1>2, <1>4, <1>5, <1>6 DEF RegistryInv

(* A handler in flight has a call.                                          *)
LEMMA InFlightTyped ==
  ASSUME RegistryInv, NEW h \in Handlers, at[h] \in InFlight
  PROVE  call[h] \in Running /\ call[h] # None /\ CallKnown(h)
BY DEF RegistryInv, TypeOK, AccountsKnown, CallKnown

(* A transaction begins: it holds nothing yet.                              *)
LEMMA BeginStep ==
  ASSUME RegistryInv, NEW h \in Handlers, Begin(h)
  PROVE  RegistryInv'
<1>1. /\ at[h] = "begin" /\ at' = [at EXCEPT ![h] = "locking"] /\ now' = [now EXCEPT ![h] = clock]
      /\ UNCHANGED <<tables, clock, call, held, due>>
  BY DEF Begin
<1>2. TypeOK'
  BY <1>1 DEF RegistryInv, TypeOK, tables
<1>3. at'[h] = "locking" /\ \A g \in Handlers \ {h} : at'[g] = at[g]
  BY <1>1 DEF RegistryInv, TypeOK
<1>4. AccountsKnown'
  BY <1>1, <1>3 DEF RegistryInv, AccountsKnown, EnrollmentKnown, CallKnown, Known, InFlight, tables
<1>5. AccountSerialised'
  BY <1>1, <1>3 DEF RegistryInv, AccountSerialised, HasAccountLock
<1>6. DecisionsStand'
  BY <1>1, <1>3 DEF RegistryInv, DecisionsStand, DecisionStands, Active, IsActive, tables
<1>. QED  BY <1>1, <1>2, <1>4, <1>5, <1>6, TablesStay DEF RegistryInv

(* A lock is granted: the account row, which nobody else then holds, or a     *)
(* later lock.                                                              *)
LEMMA AcquireStep ==
  ASSUME RegistryInv, NEW h \in Handlers, Acquire(h)
  PROVE  RegistryInv'
<1>1. /\ at[h] = "locking" /\ held[h] < Len(Locks(call[h]))
      /\ \A g \in Handlers \ {h} : ~Holds(g, Locks(call[h])[held[h] + 1])
      /\ held' = [held EXCEPT ![h] = @ + 1]
      /\ UNCHANGED <<tables, clock, at, call, now, due>>
  BY DEF Acquire, Wanted
<1>2. call[h] \in Running
  BY <1>1, InFlightTyped DEF InFlight
<1>3. held[h] \in 0..3 /\ Len(Locks(call[h])) \in 1..3 /\ held[h] + 1 \in 1..3
  <2>1. held[h] \in 0..3
    BY DEF RegistryInv, TypeOK
  <2>2. Len(Locks(call[h])) \in 1..3
    BY <1>2, LocksShape
  <2>3. held[h] < Len(Locks(call[h]))
    BY <1>1
  <2>4. PICK n \in 1..3 : n = Len(Locks(call[h]))
    BY <2>2
  <2>5. held[h] < n
    BY <2>3, <2>4
  <2>6. held[h] + 1 \in 1..3
    BY <2>1, <2>5
  <2>. QED  BY <2>1, <2>2, <2>6
<1>4. held'[h] = held[h] + 1 /\ \A g \in Handlers \ {h} : held'[g] = held[g]
  BY <1>1 DEF RegistryInv, TypeOK
<1>5. TypeOK'
  BY <1>1, <1>3 DEF RegistryInv, TypeOK, tables
<1>6. AccountsKnown'
  BY <1>1 DEF RegistryInv, AccountsKnown, EnrollmentKnown, CallKnown, Known, tables
<1>7. ASSUME NEW g \in Handlers \ {h}, HasAccountLock(g), call[h].op # "create_account",
             call[g].account = call[h].account
      PROVE  held[h] # 0
  <2>1. call[g] \in Running /\ at[g] \in InFlight
    BY <1>7, InFlightTyped DEF HasAccountLock, InFlight
  <2>2. Locks(call[g])[1] = Locks(call[h])[1]
    BY <1>2, <1>7, <2>1, LocksShape DEF HasAccountLock
  <2>3. 1 \in 1..held[g]
    <3>1. held[g] \in 0..3
      BY DEF RegistryInv, TypeOK
    <3>2. held[g] > 0
      BY <1>7 DEF HasAccountLock
    <3>. QED  BY <3>1, <3>2
  <2>4. Holds(g, Locks(call[h])[1])
    BY <2>1, <2>2, <2>3 DEF Holds
  <2>. QED  BY <1>1, <2>4
<1>8. AccountSerialised'
  <2>1. ASSUME NEW g \in Handlers
        PROVE  /\ HasAccountLock(g)' => (HasAccountLock(g) \/ (g = h /\ held[h] = 0))
               /\ g = h => (HasAccountLock(g)' => call[h].op # "create_account")
    BY <1>1, <1>3, <1>4 DEF HasAccountLock, RegistryInv, TypeOK
  <2>2. ASSUME NEW f \in Handlers, NEW g \in Handlers,
               HasAccountLock(f)', HasAccountLock(g)', call[f].account = call[g].account
        PROVE  f = g
    BY <1>7, <2>1, <2>2 DEF RegistryInv, AccountSerialised
  <2>3. \A g \in Handlers :
          /\ at'[g] \in {"idle", "begin"} => held'[g] = 0
          /\ at'[g] = "write" => held'[g] > 0
    BY <1>1, <1>4 DEF RegistryInv, AccountSerialised
  <2>. QED  BY <1>1, <2>2, <2>3 DEF AccountSerialised
<1>9. DecisionsStand'
  BY <1>1 DEF RegistryInv, DecisionsStand, DecisionStands, Active, IsActive, tables
<1>. QED  BY <1>1, <1>5, <1>6, <1>8, <1>9, TablesStay DEF RegistryInv

(* A handler that rolls back or only answers leaves everything standing.     *)
LEMMA AnswerStep ==
  ASSUME RegistryInv, NEW h \in Handlers, End(h), UNCHANGED <<tables, clock>>
  PROVE  RegistryInv'
<1>1. UNCHANGED tables /\ UNCHANGED clock
  OBVIOUS
<1>2. \A a \in Accounts : Known(a)' <=> Known(a)
  BY <1>1, TablesStay
<1>3. \A r \in Requests : EnrollmentKnown(r)'
  BY <1>1 DEF RegistryInv, AccountsKnown, EnrollmentKnown, Known, tables
<1>4. \A g \in Handlers : Active(call[g].account)' = Active(call[g].account) \/ g = h
  BY <1>1 DEF End, Active, IsActive, tables, RegistryInv, TypeOK
<1>5. /\ devices' \in [DeviceIds -> Device \cup {None}]
      /\ enrollments' \in [Requests -> Enrollment \cup {None}]
      /\ events' \in [Requests -> Seq({"activated", "cancelled"})]
      /\ \A r \in Requests : enrollments[r] # None => enrollments'[r] # None
  BY <1>1 DEF RegistryInv, TypeOK, tables
<1>6. ActiveLimit' /\ NeverLockedOut'
  BY <1>1, TablesStay
<1>. QED  BY <1>1, <1>2, <1>3, <1>4, <1>5, <1>6, EndStep

(* A transaction that may write has checked the rows it read.               *)
LEMMA VerdictStands ==
  ASSUME RegistryInv, NEW h \in Handlers, at[h] = "locking", Verdict(h) = "ok"
  PROVE  LET active == Active(call[h].account) IN
         /\ call[h].op \in {"create_device", "activate"} => Cardinality(active) < MaxDevices
         /\ call[h].op = "revoke" => call[h].device \in active /\ Cardinality(active) > 1
         /\ call[h].op = "cancel" => enrollments[call[h].request] # None
<1>0. call[h] \in Running
  BY InFlightTyped DEF InFlight
<1> DEFINE c == call[h]
           active == Active(c.account)
           waiting == {r \in Requests : IsPending(r) /\ enrollments[r].account = c.account
                                        /\ ~Expired(r, now[h])}
<1>1. Cardinality(active) \in Nat
  BY ActiveFinite
<1>2. Cardinality(waiting) \in Nat
  <2>1. waiting \subseteq Requests
    OBVIOUS
  <2>. QED  BY <2>1, FS_Subset, FS_CardinalityType
<1>3. ASSUME c.op = "create_device" PROVE Cardinality(active) < MaxDevices
  <2>1. ~(Reserved(c.account, now[h]) >= MaxDevices)
    BY <1>3 DEF Verdict, Judge, JudgeCreateDevice
  <2>2. Reserved(c.account, now[h]) = Cardinality(active) + Cardinality(waiting)
    BY DEF Reserved
  <2>. QED  BY <1>1, <1>2, <2>1, <2>2
<1>4. ASSUME c.op = "activate" PROVE Cardinality(active) < MaxDevices
  <2>1. ~(Cardinality(active) >= MaxDevices)
    BY <1>4 DEF Verdict, Judge, JudgeActivate
  <2>. QED  BY <1>1, <2>1
<1>5. ASSUME c.op = "revoke" PROVE c.device \in active /\ Cardinality(active) > 1
  <2>1. c.device \in active /\ ~(Cardinality(active) <= 1)
    BY <1>5 DEF Verdict, Judge, JudgeRevoke
  <2>. QED  BY <1>1, <2>1
<1>6. ASSUME c.op = "cancel" PROVE enrollments[c.request] # None
  BY <1>6 DEF Verdict, Judge, JudgeCancel, IsPending
<1>. QED  BY <1>3, <1>4, <1>5, <1>6

(* A transaction decides, under its locks.                                  *)
LEMMA DecideStep ==
  ASSUME RegistryInv, NEW h \in Handlers, Decide(h)
  PROVE  RegistryInv'
<1>1. at[h] = "locking" /\ held[h] = Len(Locks(call[h])) /\ UNCHANGED <<tables, clock>>
  BY DEF Decide, Deciding
<1>2. CASE Verdict(h) # "ok"
  BY <1>1, <1>2, AnswerStep DEF Decide
<1>3. CASE Verdict(h) = "ok"
  <2>1. at' = [at EXCEPT ![h] = "write"] /\ UNCHANGED <<tables, clock, call, now, held, due>>
    BY <1>1, <1>3 DEF Decide
  <2>2. call[h] \in Running /\ held[h] > 0
    BY <1>1, InFlightTyped, LocksShape DEF InFlight
  <2>3. TypeOK'
    BY <2>1 DEF RegistryInv, TypeOK, tables
  <2>4. at'[h] = "write" /\ \A g \in Handlers \ {h} : at'[g] = at[g]
    BY <2>1 DEF RegistryInv, TypeOK
  <2>5. AccountsKnown'
    BY <1>1, <2>1, <2>4
       DEF RegistryInv, AccountsKnown, EnrollmentKnown, CallKnown, Known, InFlight, tables
  <2>6. AccountSerialised'
    <3>1. \A g \in Handlers : HasAccountLock(g)' <=> HasAccountLock(g)
      BY <1>1, <2>1, <2>2, <2>4 DEF HasAccountLock
    <3>. QED  BY <2>1, <2>2, <2>4, <3>1 DEF RegistryInv, AccountSerialised
  <2>7. DecisionsStand'
    <3>1. DecisionStands(h)'
      BY <1>1, <1>3, <2>1, VerdictStands DEF DecisionStands, Active, IsActive, tables
    <3>2. ASSUME NEW g \in Handlers \ {h} PROVE DecisionStands(g)'
      BY <2>1, <2>4 DEF RegistryInv, DecisionsStand, DecisionStands, Active, IsActive, tables
    <3>. QED  BY <3>1, <3>2 DEF DecisionsStand
  <2>. QED  BY <2>1, <2>3, <2>5, <2>6, <2>7, TablesStay DEF RegistryInv
<1>. QED  BY <1>2, <1>3

(* While one transaction of an account writes, no other transaction of the    *)
(* account does.                                                            *)
LEMMA WritesAlone ==
  ASSUME RegistryInv, NEW h \in Handlers, NEW g \in Handlers \ {h},
         at[h] = "write", at[g] = "write", call[g].op # "create_account"
  PROVE  call[g].account # call[h].account
<1>1. CASE call[h].op = "create_account"
  BY <1>1, InFlightTyped DEF CallKnown, InFlight
<1>2. CASE call[h].op # "create_account"
  <2>1. HasAccountLock(g) /\ HasAccountLock(h)
    BY <1>2 DEF HasAccountLock, RegistryInv, AccountSerialised
  <2>. QED  BY <2>1 DEF RegistryInv, AccountSerialised
<1>. QED  BY <1>1, <1>2

(* The enrollments that stay, or change their status, keep their account.    *)
LEMMA EnrollmentsKept ==
  ASSUME RegistryInv, NEW r \in Requests,
         \A a \in Accounts : Known(a) => Known(a)',
         enrollments'[r] = enrollments[r] \/
           (enrollments[r] # None /\ enrollments'[r].account = enrollments[r].account)
  PROVE  EnrollmentKnown(r)'
<1>1. CASE enrollments[r] = None
  BY <1>1 DEF EnrollmentKnown
<1>2. CASE enrollments[r] # None
  <2>1. enrollments[r].account \in Accounts /\ Known(enrollments[r].account)
    BY <1>2 DEF RegistryInv, TypeOK, AccountsKnown, EnrollmentKnown, Enrollment
  <2>2. \A a \in Accounts : a = enrollments[r].account => Known(a)'
    BY <2>1
  <2>. QED  BY <2>1, <2>2 DEF EnrollmentKnown, Known
<1>. QED  BY <1>1, <1>2

(* A device inserted by a transaction that has room for it, or that creates   *)
(* its account.                                                             *)
LEMMA InsertStep ==
  ASSUME RegistryInv, NEW h \in Handlers, at[h] = "write",
         call[h].op \in {"create_account", "create_device", "activate"},
         NEW s \in Secrets \cup {None},
         devices[call[h].device] = None,
         InsertDevice(call[h].device, call[h].account, s)
  PROVE  /\ devices' \in [DeviceIds -> Device \cup {None}]
         /\ \A a \in Accounts : Known(a) => Known(a)'
         /\ \A a \in Accounts : Known(a)' =>
              Known(a) \/ (call[h].op = "create_account" /\ a = call[h].account)
         /\ \A a \in Accounts \ {call[h].account} : Active(a)' = Active(a)
         /\ ActiveLimit' /\ NeverLockedOut'
<1>1. call[h] \in Running /\ CallKnown(h) /\ at[h] \in InFlight
  BY InFlightTyped DEF InFlight
<1>2. call[h].device \in DeviceIds /\ call[h].account \in Accounts
  BY <1>1, RunningFields
<1> DEFINE d == call[h].device
           acc == call[h].account
<1>3. PICK b \in Accounts : b = acc
  BY <1>2
<1>4. /\ devices' \in [DeviceIds -> Device \cup {None}]
      /\ Active(b)' = Active(b) \cup {d}
      /\ Cardinality(Active(b)') = Cardinality(Active(b)) + 1
      /\ \A a \in Accounts \ {b} : Active(a)' = Active(a)
      /\ \A a \in Accounts : Known(a)' <=> (Known(a) \/ a = b)
  BY <1>2, <1>3, Inserted DEF RegistryInv
<1>5. call[h].op # "create_account" => Known(b)
  BY <1>1, <1>3 DEF CallKnown
<1>6. Cardinality(Active(b)) < MaxDevices
  <2>1. CASE call[h].op = "create_account"
    <3>1. ~Known(b)
      BY <1>1, <1>3, <2>1 DEF CallKnown
    <3>2. Active(b) = {}
      BY <3>1 DEF Known, Active, IsActive
    <3>. QED  BY <3>2, FS_EmptySet
  <2>2. CASE call[h].op # "create_account"
    BY <1>3, <2>2 DEF RegistryInv, DecisionsStand, DecisionStands
  <2>. QED  BY <2>1, <2>2
<1>7. ActiveLimit'
  <2>1. Cardinality(Active(b)') <= MaxDevices
    BY <1>4, <1>6, ActiveFinite
  <2>2. \A a \in Accounts \ {b} : Cardinality(Active(a)') <= MaxDevices
    BY <1>4 DEF RegistryInv, ActiveLimit
  <2>. QED  BY <2>1, <2>2 DEF ActiveLimit
<1>8. NeverLockedOut'
  <2>1. Active(b)' # {}
    BY <1>4
  <2>2. \A a \in Accounts \ {b} : Known(a)' => Active(a)' # {}
    BY <1>4 DEF RegistryInv, NeverLockedOut
  <2>. QED  BY <2>1, <2>2 DEF NeverLockedOut
<1>. QED  BY <1>3, <1>4, <1>5, <1>7, <1>8

(* A write that leaves the other accounts' devices alone leaves the decisions *)
(* of their transactions alone.                                             *)
LEMMA OthersAlone ==
  ASSUME RegistryInv, NEW h \in Handlers, at[h] = "write", End(h),
         \A a \in Accounts \ {call[h].account} : Active(a)' = Active(a),
         NEW g \in Handlers \ {h}, at[g] = "write", call[g].op # "create_account"
  PROVE  Active(call[g].account)' = Active(call[g].account)
<1>1. call'[g] = call[g]
  BY DEF End, RegistryInv, TypeOK
<1>2. call[g] \in Running /\ call[g].account \in Accounts
  BY InFlightTyped, RunningFields DEF InFlight
<1>3. PICK b \in Accounts : b = call[g].account
  BY <1>2
<1>4. Active(b)' = Active(b)
  BY <1>3, WritesAlone
<1>. QED  BY <1>1, <1>3, <1>4 DEF Active

(* A device created, first or further.                                      *)
LEMMA CreateStep ==
  ASSUME RegistryInv, NEW h \in Handlers, at[h] = "write", End(h), UNCHANGED clock,
         call[h].op \in {"create_account", "create_device"},
         ~Duplicate(call[h], now[h]), CreateDevice(call[h])
  PROVE  RegistryInv'
<1>1. devices[call[h].device] = None
  BY DEF Duplicate
<1>2. InsertDevice(call[h].device, call[h].account, None) /\ UNCHANGED <<enrollments, events>>
  BY DEF CreateDevice
<1>3. /\ devices' \in [DeviceIds -> Device \cup {None}]
      /\ \A a \in Accounts : Known(a) => Known(a)'
      /\ \A a \in Accounts : Known(a)' =>
           Known(a) \/ (call[h].op = "create_account" /\ a = call[h].account)
      /\ \A a \in Accounts \ {call[h].account} : Active(a)' = Active(a)
      /\ ActiveLimit' /\ NeverLockedOut'
  BY <1>1, <1>2, InsertStep
<1>4. \A r \in Requests : EnrollmentKnown(r)'
  BY <1>2, <1>3, EnrollmentsKept
<1>5. /\ enrollments' \in [Requests -> Enrollment \cup {None}]
      /\ events' \in [Requests -> Seq({"activated", "cancelled"})]
      /\ \A r \in Requests : enrollments[r] # None => enrollments'[r] # None
  BY <1>2 DEF RegistryInv, TypeOK
<1>. QED  BY <1>3, <1>4, <1>5, OthersAlone, EndStep DEF InFlight

(* An enrollment activated: its device is inserted.                          *)
LEMMA ActivateStep ==
  ASSUME RegistryInv, NEW h \in Handlers, at[h] = "write", End(h), UNCHANGED clock,
         call[h].op = "activate",
         ~Duplicate(call[h], now[h]), ActivateEnrollment(call[h])
  PROVE  RegistryInv'
<1>1. devices[call[h].device] = None
  BY DEF Duplicate
<1> DEFINE q == call[h].request
<1>2. /\ InsertDevice(call[h].device, call[h].account, call[h].secret)
      /\ enrollments' = [enrollments EXCEPT ![q] = [enrollments[q] EXCEPT !.status = "activated"]]
      /\ events' = [events EXCEPT ![q] = Append(events[q], "activated")]
  BY DEF ActivateEnrollment
<1>3. call[h] \in Running /\ CallKnown(h)
  BY InFlightTyped DEF InFlight
<1>4. q \in Requests /\ call[h].secret \in Secrets /\ enrollments[q] # None
  BY <1>3, RunningFields DEF CallKnown, InFlight
<1>5. /\ devices' \in [DeviceIds -> Device \cup {None}]
      /\ \A a \in Accounts : Known(a) => Known(a)'
      /\ \A a \in Accounts : Known(a)' =>
           Known(a) \/ (call[h].op = "create_account" /\ a = call[h].account)
      /\ \A a \in Accounts \ {call[h].account} : Active(a)' = Active(a)
      /\ ActiveLimit' /\ NeverLockedOut'
  BY <1>1, <1>2, <1>4, InsertStep
<1>6. enrollments[q] \in Enrollment
  BY <1>4 DEF RegistryInv, TypeOK
<1>7. /\ [enrollments[q] EXCEPT !.status = "activated"] \in Enrollment
      /\ [enrollments[q] EXCEPT !.status = "activated"] # None
      /\ [enrollments[q] EXCEPT !.status = "activated"].account = enrollments[q].account
  BY <1>6, StatusSet
<1>8. /\ enrollments' \in [Requests -> Enrollment \cup {None}]
      /\ enrollments'[q] # None /\ enrollments'[q].account = enrollments[q].account
      /\ \A r \in Requests \ {q} : enrollments'[r] = enrollments[r]
  BY <1>2, <1>4, <1>7 DEF RegistryInv, TypeOK
<1>9. events' \in [Requests -> Seq({"activated", "cancelled"})]
  BY <1>2, <1>4 DEF RegistryInv, TypeOK
<1>10. \A r \in Requests : EnrollmentKnown(r)'
  BY <1>4, <1>5, <1>8, EnrollmentsKept
<1>11. \A r \in Requests : enrollments[r] # None => enrollments'[r] # None
  BY <1>8
<1>. QED  BY <1>5, <1>8, <1>9, <1>10, <1>11, OthersAlone, EndStep DEF InFlight

(* What a write leaves of the devices when it leaves them alone.             *)
LEMMA DevicesStay ==
  ASSUME RegistryInv, UNCHANGED devices
  PROVE  /\ devices' \in [DeviceIds -> Device \cup {None}]
         /\ \A a : Active(a)' = Active(a) /\ (Known(a)' <=> Known(a))
         /\ ActiveLimit' /\ NeverLockedOut'
<1>1. devices' \in [DeviceIds -> Device \cup {None}]
  BY DEF RegistryInv, TypeOK
<1>2. \A a : Active(a)' = Active(a) /\ (Known(a)' <=> Known(a))
  BY DEF Active, IsActive, Known
<1>3. ActiveLimit' /\ NeverLockedOut'
  BY DEF RegistryInv, ActiveLimit, NeverLockedOut, Active, IsActive, Known
<1>. QED  BY <1>1, <1>2, <1>3

(* An enrollment cancelled.                                                 *)
LEMMA CancelStep ==
  ASSUME RegistryInv, NEW h \in Handlers, at[h] = "write", End(h), UNCHANGED clock,
         call[h].op = "cancel", CancelEnrollment(call[h])
  PROVE  RegistryInv'
<1> DEFINE q == call[h].request
<1>1. /\ UNCHANGED devices
      /\ enrollments' = [enrollments EXCEPT ![q] = [enrollments[q] EXCEPT !.status = "cancelled"]]
      /\ events' = [events EXCEPT ![q] = Append(events[q], "cancelled")]
  BY DEF CancelEnrollment
<1>2. q \in Requests /\ enrollments[q] # None
  BY InFlightTyped, RunningFields DEF RegistryInv, DecisionsStand, DecisionStands, InFlight
<1>3. enrollments[q] \in Enrollment
  BY <1>2 DEF RegistryInv, TypeOK
<1>4. /\ [enrollments[q] EXCEPT !.status = "cancelled"] \in Enrollment
      /\ [enrollments[q] EXCEPT !.status = "cancelled"] # None
      /\ [enrollments[q] EXCEPT !.status = "cancelled"].account = enrollments[q].account
  BY <1>3, StatusSet
<1>5. /\ enrollments' \in [Requests -> Enrollment \cup {None}]
      /\ enrollments'[q] # None /\ enrollments'[q].account = enrollments[q].account
      /\ \A r \in Requests \ {q} : enrollments'[r] = enrollments[r]
  BY <1>1, <1>2, <1>4 DEF RegistryInv, TypeOK
<1>6. events' \in [Requests -> Seq({"activated", "cancelled"})]
  BY <1>1, <1>2 DEF RegistryInv, TypeOK
<1>7. \A r \in Requests : EnrollmentKnown(r)'
  BY <1>1, <1>2, <1>5, DevicesStay, EnrollmentsKept
<1>8. \A r \in Requests : enrollments[r] # None => enrollments'[r] # None
  BY <1>5
<1>. QED  BY <1>1, <1>5, <1>6, <1>7, <1>8, DevicesStay, OthersAlone, EndStep

(* An enrollment prepared: a row of the same account, and expired ones that   *)
(* become terminal.                                                         *)
LEMMA PrepareStep ==
  ASSUME RegistryInv, NEW h \in Handlers, at[h] = "write", End(h), UNCHANGED clock,
         call[h].op = "prepare", PrepareEnrollment(call[h], now[h])
  PROVE  RegistryInv'
<1> DEFINE c == call[h]
           row == [account |-> c.account, approver |-> c.actor, device |-> c.device,
                   secret |-> c.secret, expires |-> now[h] + TimeToLive, status |-> "pending",
                   late |-> ~IsActive(c.actor)]
<1>1. UNCHANGED devices /\ UNCHANGED events
  BY DEF PrepareEnrollment
<1>2. c \in Running /\ CallKnown(h)
  BY InFlightTyped DEF InFlight
<1>3. /\ c.account \in Accounts /\ c.actor \in DeviceIds /\ c.device \in DeviceIds
      /\ c.secret \in Secrets /\ c.request \in Requests
  BY <1>2, RunningFields
<1>4. now[h] + TimeToLive \in Nat
  BY DEF RegistryInv, TypeOK
<1>5. row \in Enrollment /\ row # None /\ row.account = c.account
  <2>1. (~IsActive(c.actor)) \in BOOLEAN
    OBVIOUS
  <2>2. row \in Enrollment
    BY Zenon, <1>3, <1>4, <2>1 DEF Enrollment
  <2>. QED  BY <2>2
<1>6. Known(c.account)
  BY <1>2 DEF CallKnown, InFlight
<1>7. ASSUME NEW r \in Requests
      PROVE  /\ enrollments'[r] \in Enrollment \cup {None}
             /\ enrollments[r] # None => enrollments'[r] # None
             /\ EnrollmentKnown(r)'
  <2>1. CASE r = c.request
    <3>1. enrollments'[r] = row
      BY <2>1 DEF PrepareEnrollment
    <3>. QED  BY <1>1, <1>5, <1>6, <3>1 DEF EnrollmentKnown, Known
  <2>2. CASE r # c.request /\ MakesTerminal(c, now[h], r)
    <3>1. enrollments'[r] = [enrollments[r] EXCEPT !.status = "cancelled"]
      BY <2>2 DEF PrepareEnrollment
    <3>2. enrollments[r] # None /\ enrollments[r] \in Enrollment
      BY <2>2 DEF MakesTerminal, IsPending, RegistryInv, TypeOK
    <3>3. /\ enrollments'[r] \in Enrollment /\ enrollments'[r] # None
          /\ enrollments'[r].account = enrollments[r].account
      BY <3>1, <3>2, StatusSet
    <3>. QED  BY <1>1, <3>2, <3>3, DevicesStay, EnrollmentsKept
  <2>3. CASE r # c.request /\ ~MakesTerminal(c, now[h], r)
    <3>1. enrollments'[r] = enrollments[r]
      BY <2>3 DEF PrepareEnrollment
    <3>. QED  BY <1>1, <3>1, DevicesStay, EnrollmentsKept DEF RegistryInv, TypeOK
  <2>. QED  BY <2>1, <2>2, <2>3
<1>8. enrollments' \in [Requests -> Enrollment \cup {None}]
  <2>1. enrollments' = [r \in Requests |-> enrollments'[r]]
    BY DEF PrepareEnrollment
  <2>. QED  BY <1>7, <2>1
<1>9. events' \in [Requests -> Seq({"activated", "cancelled"})]
  BY <1>1 DEF RegistryInv, TypeOK
<1>. QED  BY <1>1, <1>7, <1>8, <1>9, DevicesStay, OthersAlone, EndStep

(* A device revoked, with the enrollments it approved.                       *)
LEMMA RevokeStep ==
  ASSUME RegistryInv, NEW h \in Handlers, at[h] = "write", End(h), UNCHANGED clock,
         call[h].op = "revoke", RevokeDevice(call[h])
  PROVE  RegistryInv'
<1> DEFINE c == call[h]
           cancelled == {r \in Requests : IsPending(r) /\ enrollments[r].approver = c.device}
<1>1. c \in Running /\ c.account \in Accounts
  BY InFlightTyped, RunningFields DEF InFlight
<1>2. PICK b \in Accounts : b = c.account
  BY <1>1
<1>3. c.device \in Active(b) /\ Cardinality(Active(b)) > 1
  BY <1>2 DEF RegistryInv, DecisionsStand, DecisionStands
<1>4. /\ devices' \in [DeviceIds -> Device \cup {None}]
      /\ Active(b)' = Active(b) \ {c.device}
      /\ Cardinality(Active(b)') = Cardinality(Active(b)) - 1
      /\ \A a \in Accounts \ {b} : Active(a)' = Active(a)
      /\ \A a \in Accounts : Known(a)' <=> Known(a)
  BY <1>3, Revoked DEF RevokeDevice, RegistryInv
<1>5. ActiveLimit'
  <2>1. Cardinality(Active(b)) <= MaxDevices /\ Cardinality(Active(b)) \in Nat
    BY ActiveFinite DEF RegistryInv, ActiveLimit
  <2>2. Cardinality(Active(b)') <= MaxDevices
    BY <1>4, <2>1
  <2>3. \A a \in Accounts \ {b} : Cardinality(Active(a)') <= MaxDevices
    BY <1>4 DEF RegistryInv, ActiveLimit
  <2>. QED  BY <2>2, <2>3 DEF ActiveLimit
<1>6. NeverLockedOut'
  <2>1. Active(b)' # {}
    <3>1. Cardinality(Active(b)') > 0
      BY <1>3, <1>4, ActiveFinite
    <3>. QED  BY <3>1, FS_EmptySet
  <2>2. \A a \in Accounts \ {b} : Known(a)' => Active(a)' # {}
    BY <1>4 DEF RegistryInv, NeverLockedOut
  <2>. QED  BY <2>1, <2>2 DEF NeverLockedOut
<1>7. ASSUME NEW r \in Requests
      PROVE  /\ enrollments'[r] \in Enrollment \cup {None}
             /\ enrollments[r] # None => enrollments'[r] # None
             /\ EnrollmentKnown(r)'
             /\ events'[r] \in Seq({"activated", "cancelled"})
  <2>0. events[r] \in Seq({"activated", "cancelled"})
    BY DEF RegistryInv, TypeOK
  <2>1. CASE r \in cancelled
    <3>1. /\ enrollments'[r] = [enrollments[r] EXCEPT !.status = "cancelled"]
          /\ events'[r] = Append(events[r], "cancelled")
      BY <2>1 DEF RevokeDevice
    <3>2. enrollments[r] # None /\ enrollments[r] \in Enrollment
      BY <2>1 DEF IsPending, RegistryInv, TypeOK
    <3>3. /\ enrollments'[r] \in Enrollment /\ enrollments'[r] # None
          /\ enrollments'[r].account = enrollments[r].account
      BY <3>1, <3>2, StatusSet
    <3>4. events'[r] \in Seq({"activated", "cancelled"})
      BY <2>0, <3>1
    <3>5. EnrollmentKnown(r)'
      BY <1>4, <3>2, <3>3, EnrollmentsKept
    <3>. QED  BY <3>3, <3>4, <3>5
  <2>2. CASE r \notin cancelled
    <3>1. enrollments'[r] = enrollments[r] /\ events'[r] = events[r]
      BY <2>2 DEF RevokeDevice
    <3>. QED  BY <1>4, <2>0, <3>1, EnrollmentsKept DEF RegistryInv, TypeOK
  <2>. QED  BY <2>1, <2>2
<1>8. /\ enrollments' \in [Requests -> Enrollment \cup {None}]
      /\ events' \in [Requests -> Seq({"activated", "cancelled"})]
  <2>1. /\ enrollments' = [r \in Requests |-> enrollments'[r]]
        /\ events' = [r \in Requests |-> events'[r]]
    BY DEF RevokeDevice
  <2>. QED  BY <1>7, <2>1
<1>. QED  BY <1>2, <1>4, <1>5, <1>6, <1>7, <1>8, OthersAlone, EndStep

(* A transaction writes, or meets a duplicate and writes nothing.            *)
LEMMA WriteStep ==
  ASSUME RegistryInv, NEW h \in Handlers, Write(h)
  PROVE  RegistryInv'
<1>1. at[h] = "write" /\ End(h) /\ UNCHANGED clock
  BY DEF Write
<1>2. CASE Duplicate(call[h], now[h])
  BY <1>1, <1>2, AnswerStep DEF Write
<1>3. CASE ~Duplicate(call[h], now[h])
  <2>1. Effect(call[h], now[h])
    BY <1>3 DEF Write
  <2>2. call[h].op \in {"create_account", "create_device", "revoke", "prepare", "activate", "cancel"}
    BY <1>1, InFlightTyped, RunningFields DEF InFlight
  <2>3. CASE call[h].op \in {"create_account", "create_device"}
    BY <1>1, <1>3, <2>1, <2>3, CreateStep DEF Effect
  <2>4. CASE call[h].op = "prepare"
    BY <1>1, <2>1, <2>4, PrepareStep DEF Effect
  <2>5. CASE call[h].op = "activate"
    BY <1>1, <1>3, <2>1, <2>5, ActivateStep DEF Effect
  <2>6. CASE call[h].op = "cancel"
    BY <1>1, <2>1, <2>6, CancelStep DEF Effect
  <2>7. CASE call[h].op = "revoke"
    BY <1>1, <2>1, <2>7, RevokeStep DEF Effect
  <2>. QED  BY <2>2, <2>3, <2>4, <2>5, <2>6, <2>7
<1>. QED  BY <1>2, <1>3

(* A call arrives, in one of the three ways calls do.                        *)
LEMMA ReceiveStep ==
  ASSUME RegistryInv, NEW h \in Handlers, NEW c \in Calls,
         \/ \E a \in Accounts : ReceiveCreateAccount(h, c, a)
         \/ \E d \in DeviceIds : Receive(h, c, d)
         \/ ReceiveActivate(h, c)
  PROVE  RegistryInv'
<1>1. ASSUME NEW a \in Accounts, ReceiveCreateAccount(h, c, a) PROVE RegistryInv'
  <2>1. PICK d \in DeviceIds : d = c.device
    BY <1>1 DEF ReceiveCreateAccount, Call
  <2> DEFINE running == RunningFor(c, None, a, c.device)
  <2>2. running \in Running /\ running.op = "create_account" /\ running.account = a
    BY <1>1, <2>1, ReceivedTyped DEF ReceiveCreateAccount, RunningFor
  <2>. HIDE DEF running
  <2>. QED  BY <1>1, <2>2, ArriveStep DEF ReceiveCreateAccount, running
<1>2. ASSUME NEW d \in DeviceIds, Receive(h, c, d) PROVE RegistryInv'
  <2> DEFINE running == RunningFor(c, d, devices[d].account, c.device)
             done == /\ c.op = "prepare"
                     /\ enrollments[c.request] # None
                     /\ SameEnrollment(running)
                     /\ enrollments[c.request].status # "cancelled"
  <2>1. /\ c.op \in {"create_device", "prepare", "cancel", "revoke"}
        /\ IsActive(d) /\ Arrive(h, running, done)
    BY <1>2 DEF Receive
  <2>2. devices[d].account \in Accounts /\ Known(devices[d].account)
    BY <2>1 DEF IsActive, Known, RegistryInv, TypeOK, Device
  <2>3. running \in Running /\ running.op = c.op /\ running.account = devices[d].account
    BY <2>1, <2>2, ReceivedTyped DEF RunningFor
  <2>4. done \in BOOLEAN
    OBVIOUS
  <2>. HIDE DEF running, done
  <2>. QED  BY <2>1, <2>2, <2>3, <2>4, ArriveStep
<1>3. ASSUME ReceiveActivate(h, c) PROVE RegistryInv'
  <2> DEFINE e == enrollments[c.request]
             running == RunningFor(c, None, e.account, e.device)
             done == e.status = "activated" /\ e.secret = c.secret
  <2>1. c.op = "activate" /\ e # None /\ Arrive(h, running, done)
    BY <1>3 DEF ReceiveActivate
  <2>2. c.request \in Requests
    BY <2>1 DEF Call
  <2>3. e \in Enrollment
    BY <2>1, <2>2 DEF RegistryInv, TypeOK
  <2>4. e.account \in Accounts /\ e.device \in DeviceIds
    BY <2>3 DEF Enrollment
  <2>5. Known(e.account)
    BY <2>1, <2>2 DEF RegistryInv, AccountsKnown, EnrollmentKnown
  <2>6. /\ running \in Running /\ running.op = "activate" /\ running.account = e.account
        /\ running.request = c.request
    BY <2>1, <2>4, ReceivedTyped DEF RunningFor
  <2>7. done \in BOOLEAN
    OBVIOUS
  <2>8. running.op = "activate" => enrollments[running.request] # None
    BY <2>1, <2>6
  <2>. HIDE DEF e, running, done
  <2>. QED  BY <2>1, <2>5, <2>6, <2>7, <2>8, ArriveStep
<1>. QED  BY <1>1, <1>2, <1>3

(* Every step keeps the invariant.                                          *)
LEMMA RegistryStep == RegistryInv /\ [Next]_vars => RegistryInv'
<1>. SUFFICES ASSUME RegistryInv, [Next]_vars PROVE RegistryInv'
  OBVIOUS
<1>1. ASSUME NEW h \in Handlers, NEW c \in Calls,
             \/ \E a \in Accounts : ReceiveCreateAccount(h, c, a)
             \/ \E d \in DeviceIds : Receive(h, c, d)
             \/ ReceiveActivate(h, c)
      PROVE  RegistryInv'
  BY <1>1, ReceiveStep
<1>2. ASSUME NEW h \in Handlers, HandlerStep(h) PROVE RegistryInv'
  BY <1>2, BeginStep, AcquireStep, DecideStep, WriteStep DEF HandlerStep
<1>3. ASSUME NEW h \in Handlers, Abort(h) PROVE RegistryInv'
  BY <1>3, AnswerStep DEF Abort
<1>4. ASSUME UNCHANGED <<tables, at, call, now, held, due>>, clock' \in Nat PROVE RegistryInv'
  <2>1. TypeOK'
    BY <1>4 DEF RegistryInv, TypeOK, tables
  <2>2. AccountsKnown' /\ AccountSerialised'
    BY <1>4 DEF RegistryInv, AccountsKnown, EnrollmentKnown, CallKnown, Known,
                AccountSerialised, HasAccountLock, tables
  <2>3. DecisionsStand'
    BY <1>4 DEF RegistryInv, DecisionsStand, DecisionStands, Active, IsActive, tables
  <2>. QED  BY <1>4, <2>1, <2>2, <2>3, TablesStay DEF RegistryInv
<1>5. CASE Tick
  BY <1>4, <1>5 DEF Tick, RegistryInv, TypeOK
<1>6. CASE UNCHANGED vars
  BY <1>4, <1>6 DEF vars, RegistryInv, TypeOK
<1>. QED  BY <1>1, <1>2, <1>3, <1>5, <1>6 DEF Next

(* The invariant holds whatever calls arrive, in whatever order their         *)
(* transactions are scheduled, rolled back and answered.                    *)
THEOREM RegistryInvariant == Spec => []RegistryInv
BY InitInv, RegistryStep, PTL DEF Spec

(* store.rs 147-207 and 350-462: however devices are created and enrollments  *)
(* activated, no account exceeds MAX_DEVICES_PER_ACCOUNT.                   *)
THEOREM LimitHolds == Spec => []ActiveLimit
<1>1. RegistryInv => ActiveLimit
  BY DEF RegistryInv
<1>. QED  BY <1>1, RegistryInvariant, PTL

(* store.rs 521-588: however devices revoke each other, one stays active in   *)
(* every account that had one.                                              *)
THEOREM LastDeviceStays == Spec => []NeverLockedOut
<1>1. RegistryInv => NeverLockedOut
  BY DEF RegistryInv
<1>. QED  BY <1>1, RegistryInvariant, PTL

-----------------------------------------------------------------------------
(* The rows: what a transaction read under its locks still holds when it     *)
(* writes, so enrollments agree with devices and audit events, a repeated    *)
(* call is recognised, a revocation leaves nothing pending, and transactions *)
(* wait in a circle only over prepares whose ids cross.                     *)

(* A transaction that writes, and meets no duplicate and no locked row.      *)
Writes(h) ==
  /\ at[h] = "write" /\ End(h) /\ UNCHANGED clock
  /\ \A g \in Handlers : ~RowLocked(h, g)
  /\ ~Duplicate(call[h], now[h])
  /\ Effect(call[h], now[h])

-----------------------------------------------------------------------------
(* Locks.                                                                   *)

(* No lock has two holders, and a transaction that writes holds all of its.   *)
LockInv ==
  /\ \A g, h \in Handlers :
       /\ at[g] \in InFlight /\ at[h] \in InFlight
       /\ \E i \in 1..held[g], j \in 1..held[h] : Locks(call[g])[i] = Locks(call[h])[j]
       => g = h
  /\ \A h \in Handlers :
       /\ at[h] \in {"locking", "write"} => held[h] <= Len(Locks(call[h]))
       /\ at[h] = "write" => held[h] = Len(Locks(call[h]))

(* Which locks a call takes.                                                *)
LEMMA LocksTaken ==
  ASSUME NEW c \in Running
  PROVE  /\ c.op # "create_account" =>
              \E i \in 1..Len(Locks(c)) : Locks(c)[i] = <<"account", c.account>>
         /\ c.op \in {"create_account", "create_device", "activate", "prepare"} =>
              \E i \in 1..Len(Locks(c)) : Locks(c)[i] = <<"id", c.device>>
         /\ c.op = "prepare" =>
              \E i \in 1..Len(Locks(c)) : Locks(c)[i] = <<"id", c.request>>
<1>0. c.op \in {"create_account", "create_device", "revoke", "prepare", "activate", "cancel"}
  BY RunningFields
<1>1. CASE c.op = "create_account"
  <2>1. Len(Locks(c)) = 1 /\ Locks(c)[1] = <<"id", c.device>>
    BY <1>1 DEF Locks
  <2>. QED  BY <1>1, <2>1
<1>2. CASE c.op \in {"create_device", "activate"}
  <2>1. /\ Len(Locks(c)) = 2 /\ Locks(c)[1] = <<"account", c.account>>
        /\ Locks(c)[2] = <<"id", c.device>>
    BY <1>2 DEF Locks
  <2>. QED  BY <1>2, <2>1
<1>3. CASE c.op = "prepare"
  <2>1. /\ Len(Locks(c)) = 3 /\ Locks(c)[1] = <<"account", c.account>>
        /\ Locks(c)[2] = <<"id", c.request>> /\ Locks(c)[3] = <<"id", c.device>>
    BY <1>3 DEF Locks
  <2>. QED  BY <1>3, <2>1
<1>4. CASE c.op \in {"cancel", "revoke"}
  <2>1. Len(Locks(c)) = 1 /\ Locks(c)[1] = <<"account", c.account>>
    BY <1>4 DEF Locks
  <2>. QED  BY <1>4, <2>1
<1>. QED  BY <1>0, <1>1, <1>2, <1>3, <1>4

(* Two transactions that write share no account, device id or request id that *)
(* both lock.                                                               *)
LEMMA WritersDiffer ==
  ASSUME RegistryInv, LockInv, NEW g \in Handlers, NEW h \in Handlers \ {g},
         at[g] = "write", at[h] = "write"
  PROVE  LET inserts == {"create_account", "create_device", "activate", "prepare"} IN
         /\ call[g].op # "create_account" /\ call[h].op # "create_account" =>
              call[g].account # call[h].account
         /\ call[g].op \in inserts /\ call[h].op \in inserts => call[g].device # call[h].device
         /\ call[g].op = "prepare" /\ call[h].op = "prepare" => call[g].request # call[h].request
<1>1. call[g] \in Running /\ call[h] \in Running
  BY InFlightTyped DEF InFlight
<1>2. held[g] = Len(Locks(call[g])) /\ held[h] = Len(Locks(call[h]))
  BY DEF LockInv
<1>3. ~\E i \in 1..Len(Locks(call[g])), j \in 1..Len(Locks(call[h])) :
          Locks(call[g])[i] = Locks(call[h])[j]
  BY <1>2 DEF LockInv, InFlight
<1>4. ASSUME call[g].op # "create_account", call[h].op # "create_account"
      PROVE  call[g].account # call[h].account
  <2>1. PICK i \in 1..Len(Locks(call[g])) : Locks(call[g])[i] = <<"account", call[g].account>>
    BY <1>1, <1>4, LocksTaken
  <2>2. PICK j \in 1..Len(Locks(call[h])) : Locks(call[h])[j] = <<"account", call[h].account>>
    BY <1>1, <1>4, LocksTaken
  <2>. QED  BY <1>3, <2>1, <2>2
<1>5. ASSUME call[g].op \in {"create_account", "create_device", "activate", "prepare"},
             call[h].op \in {"create_account", "create_device", "activate", "prepare"}
      PROVE  call[g].device # call[h].device
  <2>1. PICK i \in 1..Len(Locks(call[g])) : Locks(call[g])[i] = <<"id", call[g].device>>
    BY <1>1, <1>5, LocksTaken
  <2>2. PICK j \in 1..Len(Locks(call[h])) : Locks(call[h])[j] = <<"id", call[h].device>>
    BY <1>1, <1>5, LocksTaken
  <2>. QED  BY <1>3, <2>1, <2>2
<1>6. ASSUME call[g].op = "prepare", call[h].op = "prepare"
      PROVE  call[g].request # call[h].request
  <2>1. PICK i \in 1..Len(Locks(call[g])) : Locks(call[g])[i] = <<"id", call[g].request>>
    BY <1>1, <1>6, LocksTaken
  <2>2. PICK j \in 1..Len(Locks(call[h])) : Locks(call[h])[j] = <<"id", call[h].request>>
    BY <1>1, <1>6, LocksTaken
  <2>. QED  BY <1>3, <2>1, <2>2
<1>. QED  BY <1>4, <1>5, <1>6

(* A handler that holds nothing, or goes on with the locks it holds, leaves   *)
(* the locks as they are.                                                   *)
LEMMA LocksStay ==
  ASSUME RegistryInv, LockInv, NEW h \in Handlers,
         \A g \in Handlers \ {h} : at'[g] = at[g] /\ call'[g] = call[g] /\ held'[g] = held[g],
         \/ held'[h] = 0 /\ at'[h] # "write" /\ (at'[h] = "locking" => call'[h] \in Running)
         \/ /\ at[h] = "locking" /\ call'[h] = call[h] /\ held'[h] = held[h]
            /\ held[h] = Len(Locks(call[h]))
  PROVE  LockInv'
<1>1. ASSUME held'[h] = 0, at'[h] # "write", at'[h] = "locking" => call'[h] \in Running
      PROVE  LockInv'
  <2>1. at'[h] = "locking" => Len(Locks(call'[h])) \in 1..3
    BY <1>1, LocksShape
  <2>. QED  BY <1>1, <2>1 DEF LockInv
<1>2. ASSUME at[h] = "locking", call'[h] = call[h], held'[h] = held[h],
             held[h] = Len(Locks(call[h]))
      PROVE  LockInv'
  <2>1. call[h] \in Running
    BY <1>2, InFlightTyped DEF InFlight
  <2>2. Len(Locks(call[h])) \in 1..3
    BY <2>1, LocksShape
  <2>. QED  BY <1>2, <2>2 DEF LockInv, InFlight
<1>. QED  BY <1>1, <1>2

(* A lock is granted only while nobody holds it.                            *)
LEMMA LockGranted ==
  ASSUME RegistryInv, LockInv, NEW h \in Handlers, Acquire(h)
  PROVE  LockInv'
<1>1. /\ at[h] = "locking" /\ held[h] < Len(Locks(call[h])) /\ UNCHANGED <<at, call>>
      /\ held' = [held EXCEPT ![h] = @ + 1]
      /\ \A g \in Handlers \ {h} : ~Holds(g, Wanted(h))
  BY DEF Acquire
<1>2. call[h] \in Running
  BY <1>1, InFlightTyped DEF InFlight
<1>3. Len(Locks(call[h])) \in 1..3 /\ held[h] \in 0..3
  BY <1>2, LocksShape DEF RegistryInv, TypeOK
<1>4. held'[h] = held[h] + 1 /\ \A g \in Handlers \ {h} : held'[g] = held[g]
  BY <1>1 DEF RegistryInv, TypeOK
<1>5. ASSUME NEW g \in Handlers \ {h}, at[g] \in InFlight,
             NEW i \in 1..held[g], NEW j \in 1..held'[h]
      PROVE  Locks(call[g])[i] # Locks(call[h])[j]
  <2>1. CASE j = held[h] + 1
    BY <1>1, <1>5, <2>1 DEF Holds, Wanted
  <2>2. CASE j # held[h] + 1
    <3>1. j \in 1..held[h]
      BY <1>3, <1>4, <1>5, <2>2
    <3>. QED  BY <1>1, <1>5, <3>1 DEF LockInv, InFlight
  <2>. QED  BY <2>1, <2>2
<1>6. ASSUME NEW f \in Handlers, NEW g \in Handlers, at[f] \in InFlight, at[g] \in InFlight,
             NEW i \in 1..held'[f], NEW j \in 1..held'[g], Locks(call[f])[i] = Locks(call[g])[j]
      PROVE  f = g
  <2>1. CASE f # h /\ g # h
    BY <1>4, <1>6, <2>1 DEF LockInv
  <2>2. CASE f = h /\ g # h
    BY <1>4, <1>5, <1>6, <2>2
  <2>3. CASE f # h /\ g = h
    BY <1>4, <1>5, <1>6, <2>3
  <2>. QED  BY <2>1, <2>2, <2>3
<1>7. ASSUME NEW g \in Handlers
      PROVE  /\ at[g] \in {"locking", "write"} => held'[g] <= Len(Locks(call[g]))
             /\ at[g] = "write" => held'[g] = Len(Locks(call[g]))
  BY <1>1, <1>3, <1>4 DEF LockInv
<1>. QED  BY <1>1, <1>6, <1>7 DEF LockInv

LEMMA LockStep == RegistryInv /\ LockInv /\ [Next]_vars => LockInv'
<1>. SUFFICES ASSUME RegistryInv, LockInv, [Next]_vars PROVE LockInv'
  OBVIOUS
<1>1. ASSUME NEW h \in Handlers, NEW running, NEW done, Arrive(h, running, done)
      PROVE  LockInv'
  <2>1. at'[h] = "begin" /\ held'[h] = 0
    BY <1>1 DEF Arrive, RegistryInv, TypeOK, AccountSerialised
  <2>2. \A g \in Handlers \ {h} : at'[g] = at[g] /\ call'[g] = call[g] /\ held'[g] = held[g]
    BY <1>1 DEF Arrive, RegistryInv, TypeOK
  <2>. QED  BY <2>1, <2>2, LocksStay
<1>2. ASSUME NEW h \in Handlers, NEW c \in Calls,
             \/ \E a \in Accounts : ReceiveCreateAccount(h, c, a)
             \/ \E d \in DeviceIds : Receive(h, c, d)
             \/ ReceiveActivate(h, c)
      PROVE  LockInv'
  BY <1>1, <1>2 DEF ReceiveCreateAccount, Receive, ReceiveActivate
<1>3. ASSUME NEW h \in Handlers, Begin(h) PROVE LockInv'
  <2>1. at[h] = "begin" /\ at'[h] = "locking" /\ held'[h] = 0 /\ call'[h] = call[h]
    BY <1>3 DEF Begin, RegistryInv, TypeOK, AccountSerialised
  <2>2. \A g \in Handlers \ {h} : at'[g] = at[g] /\ call'[g] = call[g] /\ held'[g] = held[g]
    BY <1>3 DEF Begin, RegistryInv, TypeOK
  <2>3. call[h] \in Running
    BY <2>1, InFlightTyped DEF InFlight
  <2>. QED  BY <2>1, <2>2, <2>3, LocksStay
<1>4. ASSUME NEW h \in Handlers, End(h) PROVE LockInv'
  <2>1. at'[h] = "idle" /\ held'[h] = 0
    BY <1>4 DEF End, RegistryInv, TypeOK
  <2>2. \A g \in Handlers \ {h} : at'[g] = at[g] /\ call'[g] = call[g] /\ held'[g] = held[g]
    BY <1>4 DEF End, RegistryInv, TypeOK
  <2>. QED  BY <2>1, <2>2, LocksStay
<1>5. ASSUME NEW h \in Handlers, Decide(h), ~End(h) PROVE LockInv'
  <2>1. /\ at[h] = "locking" /\ held[h] = Len(Locks(call[h]))
        /\ UNCHANGED <<call, held>> /\ at' = [at EXCEPT ![h] = "write"]
    BY <1>5 DEF Decide, Deciding
  <2>2. \A g \in Handlers \ {h} : at'[g] = at[g] /\ call'[g] = call[g] /\ held'[g] = held[g]
    BY <2>1 DEF RegistryInv, TypeOK
  <2>. QED  BY <2>1, <2>2, LocksStay
<1>6. CASE UNCHANGED <<at, call, held>>
  BY <1>6 DEF LockInv
<1>. QED
  BY <1>2, <1>3, <1>4, <1>5, <1>6, LockGranted DEF Next, HandlerStep, Write, Abort, Tick, vars

-----------------------------------------------------------------------------
(* Rows.                                                                    *)

(* An enrollment is only ever given another status.                         *)
SameEnrollmentRow(e, f) ==
  /\ f.account = e.account /\ f.approver = e.approver /\ f.device = e.device
  /\ f.secret = e.secret /\ f.late = e.late

LEMMA StatusRow ==
  ASSUME NEW e \in Enrollment, NEW status
  PROVE  /\ SameEnrollmentRow(e, [e EXCEPT !.status = status])
         /\ [e EXCEPT !.status = status].status = status
BY DEF Enrollment, SameEnrollmentRow

(* What a transaction decided about the rows still holds.                    *)
RowsStand(h) ==
  at[h] = "write" =>
    LET c == call[h]
        e == enrollments[c.request]
    IN
    /\ c.op = "prepare" => e = None /\ devices[c.device] = None
    /\ c.op \in {"create_account", "create_device"} => ~HasEnrollment(c.device)
    /\ c.op = "activate" => IsPending(c.request) /\ e.secret = c.secret
    /\ c.op = "cancel" => IsPending(c.request) /\ e.account = c.account

(* How a write changes an enrollment, and what it records of it.             *)
LEMMA EnrollmentWritten ==
  ASSUME RegistryInv, NEW h \in Handlers, Writes(h), RowsStand(h),
         NEW r \in Requests, enrollments[r] # None
  PROVE  LET c == call[h]
             status == enrollments'[r].status
         IN
         /\ enrollments'[r] # None /\ SameEnrollmentRow(enrollments[r], enrollments'[r])
         /\ \/ /\ status = enrollments[r].status /\ events'[r] = events[r]
               /\ ~(c.op \in {"activate", "cancel"} /\ r = c.request)
               /\ ~(c.op = "prepare" /\ MakesTerminal(c, now[h], r))
               /\ ~(c.op = "revoke" /\ IsPending(r) /\ enrollments[r].approver = c.device)
            \/ /\ c.op = "activate" /\ r = c.request /\ IsPending(r) /\ status = "activated"
               /\ events'[r] = Append(events[r], "activated")
            \/ /\ c.op = "cancel" /\ r = c.request /\ IsPending(r) /\ status = "cancelled"
               /\ events'[r] = Append(events[r], "cancelled")
            \/ /\ c.op = "prepare" /\ MakesTerminal(c, now[h], r) /\ status = "cancelled"
               /\ events'[r] = events[r]
            \/ /\ c.op = "revoke" /\ IsPending(r) /\ enrollments[r].approver = c.device
               /\ status = "cancelled" /\ events'[r] = Append(events[r], "cancelled")
<1> DEFINE c == call[h]
<1>1. c \in Running /\ at[h] = "write" /\ Effect(c, now[h])
  BY InFlightTyped DEF InFlight, Writes
<1>2. c.op \in {"create_account", "create_device", "revoke", "prepare", "activate", "cancel"}
      /\ (c.op \in {"prepare", "activate", "cancel"} => c.request \in Requests)
  BY <1>1, RunningFields
<1>3. enrollments[r] \in Enrollment
  BY DEF RegistryInv, TypeOK
<1>4. SameEnrollmentRow(enrollments[r], enrollments[r])
  BY DEF SameEnrollmentRow
<1>5. \A status : /\ SameEnrollmentRow(enrollments[r], [enrollments[r] EXCEPT !.status = status])
                  /\ [enrollments[r] EXCEPT !.status = status].status = status
                  /\ status \in {"activated", "cancelled"} =>
                       [enrollments[r] EXCEPT !.status = status] # None
  BY <1>3, StatusRow, StatusSet
<1> HIDE DEF c
<1>6. CASE c.op \in {"create_account", "create_device"}
  BY <1>1, <1>4, <1>6 DEF Effect, CreateDevice, c
<1>7. CASE c.op = "prepare"
  <2>1. r # c.request
    BY <1>1, <1>7 DEF RowsStand, c
  <2>2. events' = events /\ enrollments'[r] =
          IF MakesTerminal(c, now[h], r) THEN [enrollments[r] EXCEPT !.status = "cancelled"]
          ELSE enrollments[r]
    BY <1>1, <1>7, <2>1 DEF Effect, PrepareEnrollment
  <2>. QED  BY <1>4, <1>5, <1>7, <2>2 DEF c
<1>8. CASE c.op = "activate"
  <2>1. /\ enrollments' = [enrollments EXCEPT ![c.request].status = "activated"]
        /\ events' = [events EXCEPT ![c.request] = Append(@, "activated")]
        /\ IsPending(c.request)
    BY <1>1, <1>8 DEF Effect, ActivateEnrollment, RowsStand, c
  <2>2. CASE r = c.request
    <3>1. /\ enrollments'[r] = [enrollments[r] EXCEPT !.status = "activated"]
          /\ events'[r] = Append(events[r], "activated")
      BY <2>1, <2>2 DEF RegistryInv, TypeOK
    <3>. QED  BY <1>5, <1>8, <2>1, <2>2, <3>1 DEF c
  <2>3. CASE r # c.request
    <3>1. enrollments'[r] = enrollments[r] /\ events'[r] = events[r]
      BY <2>1, <2>3 DEF RegistryInv, TypeOK
    <3>. QED  BY <1>4, <1>8, <2>3, <3>1 DEF c
  <2>. QED  BY <2>2, <2>3
<1>9. CASE c.op = "cancel"
  <2>1. /\ enrollments' = [enrollments EXCEPT ![c.request].status = "cancelled"]
        /\ events' = [events EXCEPT ![c.request] = Append(@, "cancelled")]
        /\ IsPending(c.request)
    BY <1>1, <1>9 DEF Effect, CancelEnrollment, RowsStand, c
  <2>2. CASE r = c.request
    <3>1. /\ enrollments'[r] = [enrollments[r] EXCEPT !.status = "cancelled"]
          /\ events'[r] = Append(events[r], "cancelled")
      BY <2>1, <2>2 DEF RegistryInv, TypeOK
    <3>. QED  BY <1>5, <1>9, <2>1, <2>2, <3>1 DEF c
  <2>3. CASE r # c.request
    <3>1. enrollments'[r] = enrollments[r] /\ events'[r] = events[r]
      BY <2>1, <2>3 DEF RegistryInv, TypeOK
    <3>. QED  BY <1>4, <1>9, <2>3, <3>1 DEF c
  <2>. QED  BY <2>2, <2>3
<1>10. CASE c.op = "revoke"
  <2>1. CASE IsPending(r) /\ enrollments[r].approver = c.device
    <3>1. /\ enrollments'[r] = [enrollments[r] EXCEPT !.status = "cancelled"]
          /\ events'[r] = Append(events[r], "cancelled")
      BY <1>1, <1>10, <2>1 DEF Effect, RevokeDevice
    <3>. QED  BY <1>5, <1>10, <2>1, <3>1 DEF c
  <2>2. CASE ~(IsPending(r) /\ enrollments[r].approver = c.device)
    <3>1. enrollments'[r] = enrollments[r] /\ events'[r] = events[r]
      BY <1>1, <1>10, <2>2 DEF Effect, RevokeDevice
    <3>. QED  BY <1>4, <1>10, <2>2, <3>1 DEF c
  <2>. QED  BY <2>1, <2>2
<1>. QED  BY <1>2, <1>6, <1>7, <1>8, <1>9, <1>10 DEF c

(* Only prepare makes an enrollment.                                        *)
LEMMA EnrollmentMade ==
  ASSUME RegistryInv, NEW h \in Handlers, Writes(h), NEW r \in Requests, enrollments[r] = None
  PROVE  /\ events'[r] = events[r] \/ (call[h].op \in {"activate", "cancel"} /\ r = call[h].request)
         /\ enrollments'[r] # None =>
              \/ /\ call[h].op = "prepare" /\ r = call[h].request
                 /\ enrollments'[r].account = call[h].account
                 /\ enrollments'[r].approver = call[h].actor
                 /\ enrollments'[r].device = call[h].device
                 /\ enrollments'[r].secret = call[h].secret
                 /\ enrollments'[r].status = "pending"
                 /\ ~enrollments'[r].late => IsActive(call[h].actor)
              \/ call[h].op \in {"activate", "cancel"} /\ r = call[h].request
<1> DEFINE c == call[h]
<1>1. c \in Running /\ Effect(c, now[h])
  BY InFlightTyped DEF InFlight, Writes
<1>2. c.op \in {"create_account", "create_device", "revoke", "prepare", "activate", "cancel"}
      /\ (c.op \in {"prepare", "activate", "cancel"} => c.request \in Requests)
  BY <1>1, RunningFields
<1> HIDE DEF c
<1>3. CASE c.op \in {"create_account", "create_device"}
  BY <1>1, <1>3 DEF Effect, CreateDevice
<1>4. CASE c.op = "prepare"
  <2>1. events' = events /\ ~MakesTerminal(c, now[h], r)
    BY <1>1, <1>4 DEF Effect, PrepareEnrollment, MakesTerminal, IsPending
  <2>2. CASE r = c.request
    <3>1. enrollments'[r] =
            [account |-> c.account, approver |-> c.actor, device |-> c.device,
             secret |-> c.secret, expires |-> now[h] + TimeToLive, status |-> "pending",
             late |-> ~IsActive(c.actor)]
      BY <1>1, <1>4, <2>1, <2>2 DEF Effect, PrepareEnrollment
    <3>2. enrollments'[r].late = ~IsActive(c.actor)
      BY <3>1
    <3>3. /\ enrollments'[r].account = c.account /\ enrollments'[r].approver = c.actor
          /\ enrollments'[r].device = c.device /\ enrollments'[r].secret = c.secret
          /\ enrollments'[r].status = "pending"
      BY <3>1
    <3>4. ~enrollments'[r].late => IsActive(c.actor)
      BY <3>2
    <3>. QED  BY <1>4, <2>1, <2>2, <3>3, <3>4 DEF c
  <2>3. CASE r # c.request
    BY <1>1, <1>4, <2>1, <2>3 DEF Effect, PrepareEnrollment
  <2>. QED  BY <2>2, <2>3
<1>5. CASE c.op \in {"activate", "cancel"} /\ r # c.request
  <2>1. /\ \E status : enrollments' = [enrollments EXCEPT ![c.request].status = status]
        /\ \E type : events' = [events EXCEPT ![c.request] = Append(@, type)]
    BY <1>1, <1>5 DEF Effect, ActivateEnrollment, CancelEnrollment
  <2>. QED  BY <1>5, <2>1 DEF RegistryInv, TypeOK
<1>6. CASE c.op = "revoke"
  BY <1>1, <1>6 DEF Effect, RevokeDevice, IsPending
<1>. QED  BY <1>2, <1>3, <1>4, <1>5, <1>6 DEF c

(* A device keeps its account and secret; only a revocation changes it.       *)
LEMMA DeviceWritten ==
  ASSUME RegistryInv, NEW h \in Handlers, Writes(h), NEW d \in DeviceIds
  PROVE  LET c == call[h] IN
         /\ devices[d] # None =>
              /\ devices'[d] # None
              /\ devices'[d].account = devices[d].account /\ devices'[d].secret = devices[d].secret
              /\ (c.op = "revoke" /\ d = c.device) \/ devices'[d] = devices[d]
         /\ devices[d] = None /\ devices'[d] # None =>
              /\ c.op \in {"create_account", "create_device", "activate"} /\ d = c.device
              /\ devices'[d].account = c.account
              /\ c.op = "activate" => devices'[d].secret = c.secret
         /\ c.op = "activate" /\ d = c.device => devices'[d] # None
<1> DEFINE c == call[h]
<1>1. c \in Running /\ Effect(c, now[h]) /\ at[h] = "write"
  BY InFlightTyped DEF InFlight, Writes
<1>2. c.op \in {"create_account", "create_device", "revoke", "prepare", "activate", "cancel"}
      /\ (c.op # "cancel" => c.device \in DeviceIds)
  BY <1>1, RunningFields
<1>3. c.op = "revoke" => c.device \in Active(c.account)
  BY <1>1 DEF RegistryInv, DecisionsStand, DecisionStands
<1>4. c.op \in {"create_account", "create_device", "activate"} => devices[c.device] = None
  BY DEF Writes, Duplicate
<1> HIDE DEF c
<1>5. CASE c.op \in {"create_account", "create_device", "activate"}
  <2>1. PICK s : devices' =
          [devices EXCEPT ![c.device] = [account |-> c.account, secret |-> s, revoked |-> FALSE]]
          /\ (c.op = "activate" => s = c.secret)
    BY <1>1, <1>5 DEF Effect, CreateDevice, ActivateEnrollment, InsertDevice
  <2>2. CASE d = c.device
    <3>1. devices'[d] = [account |-> c.account, secret |-> s, revoked |-> FALSE]
      BY <2>1, <2>2 DEF RegistryInv, TypeOK
    <3>2. ASSUME c.op = "activate" PROVE devices'[d] # None
      <4>1. c.account \in Accounts /\ s \in Secrets
        BY <1>1, <2>1, <3>2, RunningFields
      <4>2. [account |-> c.account, secret |-> s, revoked |-> FALSE] \in Device
        BY Zenon, <4>1 DEF Device
      <4>. QED  BY <3>1, <4>2, NoneAssumption
    <3>. QED  BY <1>4, <1>5, <2>1, <2>2, <3>1, <3>2 DEF c
  <2>3. CASE d # c.device
    <3>1. devices'[d] = devices[d]
      BY <2>1, <2>3 DEF RegistryInv, TypeOK
    <3>. QED  BY <2>3, <3>1 DEF c
  <2>. QED  BY <2>2, <2>3
<1>6. CASE c.op = "revoke"
  <2>1. devices' = [devices EXCEPT ![c.device].revoked = TRUE] /\ devices[c.device] \in Device
    BY <1>1, <1>2, <1>3, <1>6 DEF Effect, RevokeDevice, Active, IsActive, RegistryInv, TypeOK
  <2>2. CASE d = c.device
    <3>1. devices'[d] = [devices[d] EXCEPT !.revoked = TRUE]
      BY <2>1, <2>2 DEF RegistryInv, TypeOK
    <3>2. devices'[d].account = devices[d].account /\ devices'[d].secret = devices[d].secret
      BY <2>1, <2>2, <3>1 DEF Device
    <3>3. devices'[d] # None /\ devices[d] # None
      BY <2>1, <2>2, <3>1, RevokedRow, NoneAssumption
    <3>. QED  BY <1>6, <2>2, <3>2, <3>3 DEF c
  <2>3. CASE d # c.device
    <3>1. devices'[d] = devices[d]
      BY <2>1, <2>3 DEF RegistryInv, TypeOK
    <3>. QED  BY <1>6, <3>1 DEF c
  <2>. QED  BY <2>2, <2>3
<1>7. CASE c.op \in {"prepare", "cancel"}
  BY <1>1, <1>7 DEF Effect, PrepareEnrollment, CancelEnrollment, c
<1>. QED  BY <1>2, <1>5, <1>6, <1>7

-----------------------------------------------------------------------------
(* The inductive invariant.                                                 *)

(* A call was received for the account of its device, or of its enrollment.   *)
CallMatches(h) ==
  at[h] \in InFlight =>
    LET c == call[h] IN
    /\ c.op = "prepare" => devices[c.actor] # None /\ devices[c.actor].account = c.account
    /\ c.op = "activate" =>
         /\ enrollments[c.request].account = c.account
         /\ enrollments[c.request].device = c.device

(* What had been done when the call arrived is still there.                  *)
DueStands(h) ==
  at[h] \in InFlight /\ due[h] =>
    LET c == call[h]
        e == enrollments[c.request]
    IN
    /\ c.op \in {"prepare", "activate"} /\ e # None
    /\ c.op = "prepare" => SameEnrollment(c)
    /\ c.op = "activate" => e.status = "activated" /\ e.secret = c.secret

HandlerSound(h) == CallMatches(h) /\ RowsStand(h) /\ DueStands(h)

(* A device that approved an enrollment belongs to its account.              *)
ApproversKnown ==
  \A r \in Requests : enrollments[r] # None =>
    LET approver == devices[enrollments[r].approver] IN
    approver # None /\ approver.account = enrollments[r].account

RowInv ==
  /\ LockInv
  /\ \A h \in Handlers : HandlerSound(h)
  /\ ApproversKnown /\ EnrollmentsSound /\ RevocationCancels

(* A transaction that may write has read what RowsStand says.                *)
LEMMA VerdictRows ==
  ASSUME RegistryInv, NEW h \in Handlers, at[h] = "locking", Verdict(h) = "ok"
  PROVE  LET c == call[h]
             e == enrollments[c.request]
         IN
         /\ c.op = "prepare" => e = None /\ devices[c.device] = None
         /\ c.op \in {"create_account", "create_device"} => ~HasEnrollment(c.device)
         /\ c.op = "activate" => IsPending(c.request) /\ e.secret = c.secret
         /\ c.op = "cancel" => IsPending(c.request) /\ e.account = c.account
<1>1. call[h] \in Running /\ CallKnown(h) /\ at[h] \in InFlight
  BY InFlightTyped DEF InFlight
<1>2. call[h].op = "prepare" =>
        enrollments[call[h].request] = None /\ devices[call[h].device] = None
  BY DEF Verdict, Judge, JudgePrepare
<1>3. call[h].op \in {"create_account", "create_device"} => ~HasEnrollment(call[h].device)
  BY DEF Verdict, Judge, JudgeCreateDevice
<1>4. call[h].op = "cancel" =>
        IsPending(call[h].request) /\ enrollments[call[h].request].account = call[h].account
  BY DEF Verdict, Judge, JudgeCancel
<1>5. ASSUME call[h].op = "activate"
      PROVE  IsPending(call[h].request) /\ enrollments[call[h].request].secret = call[h].secret
  <2>1. call[h].request \in Requests /\ enrollments[call[h].request] # None
    BY <1>1, <1>5, RunningFields DEF CallKnown
  <2>2. enrollments[call[h].request].status \in {"pending", "activated", "cancelled"}
    BY <2>1 DEF RegistryInv, TypeOK, Enrollment
  <2>. QED  BY <1>5, <2>1, <2>2 DEF Verdict, Judge, JudgeActivate, IsPending
<1>. QED  BY <1>2, <1>3, <1>4, <1>5

(* A write leaves standing what the other transactions have received and       *)
(* decided.                                                                 *)
LEMMA OthersStand ==
  ASSUME RegistryInv, RowInv, NEW h \in Handlers, Writes(h), NEW g \in Handlers \ {h}
  PROVE  HandlerSound(g)'
<1>1. at'[g] = at[g] /\ call'[g] = call[g] /\ due'[g] = due[g]
  BY DEF Writes, End, RegistryInv, TypeOK
<1>2. HandlerSound(g) /\ RowsStand(h)
  BY DEF RowInv, HandlerSound
<1>3. ASSUME at[g] \in InFlight
      PROVE  /\ call[g] \in Running
             /\ call[g].op = "prepare" => call[g].actor \in DeviceIds
             /\ call[g].op \in {"prepare", "activate", "cancel"} => call[g].request \in Requests
             /\ call[g].op # "cancel" => call[g].device \in DeviceIds
             /\ call[g].op = "activate" => enrollments[call[g].request] # None
  BY <1>3, InFlightTyped, RunningFields DEF CallKnown
<1>4. CallMatches(g)'
  <2>1. CASE at[g] \in InFlight
    <3>1. CASE call[g].op = "prepare"
      BY <1>1, <1>2, <1>3, <2>1, <3>1, DeviceWritten DEF HandlerSound, CallMatches
    <3>2. CASE call[g].op = "activate"
      BY <1>1, <1>2, <1>3, <2>1, <3>2, EnrollmentWritten
         DEF HandlerSound, CallMatches, SameEnrollmentRow
    <3>. QED  BY <1>1, <3>1, <3>2 DEF CallMatches
  <2>. QED  BY <1>1, <2>1 DEF CallMatches
<1>5. DueStands(g)'
  <2>1. CASE at[g] \in InFlight /\ due[g]
    <3> DEFINE q == call[g].request
    <3>1. q \in Requests /\ enrollments[q] # None /\ call[g].op \in {"prepare", "activate"}
      BY <1>2, <1>3, <2>1 DEF HandlerSound, DueStands
    <3>2. /\ enrollments'[q] # None /\ SameEnrollmentRow(enrollments[q], enrollments'[q])
          /\ enrollments'[q].status = enrollments[q].status \/ IsPending(q)
      BY <1>2, <3>1, EnrollmentWritten DEF MakesTerminal
    <3>3. CASE call[g].op = "prepare"
      BY <1>1, <1>2, <2>1, <3>2, <3>3
         DEF HandlerSound, DueStands, SameEnrollment, SameEnrollmentRow
    <3>4. CASE call[g].op = "activate"
      BY <1>1, <1>2, <2>1, <3>2, <3>4 DEF HandlerSound, DueStands, SameEnrollmentRow, IsPending
    <3>. QED  BY <3>1, <3>3, <3>4
  <2>2. CASE ~(at[g] \in InFlight /\ due[g])
    BY <1>1, <2>2 DEF DueStands
  <2>. QED  BY <2>1, <2>2
<1>6. RowsStand(g)'
  <2>1. CASE at[g] # "write"
    BY <1>1, <2>1 DEF RowsStand
  <2>2. CASE at[g] = "write"
    <3> DEFINE inserts == {"create_account", "create_device", "activate", "prepare"}
    <3>1. /\ call[g].op # "create_account" /\ call[h].op # "create_account" =>
               call[g].account # call[h].account
          /\ call[g].op \in inserts /\ call[h].op \in inserts => call[g].device # call[h].device
          /\ call[g].op = "prepare" /\ call[h].op = "prepare" => call[g].request # call[h].request
      BY <2>2, WritersDiffer DEF RowInv, Writes
    <3>2. /\ call[h].op \in {"activate", "cancel"} =>
               call[h].request \in Requests /\ enrollments[call[h].request] # None
          /\ call[h].op = "revoke" =>
               call[h].device \in DeviceIds /\ devices[call[h].device].account = call[h].account
      BY <1>2, InFlightTyped, RunningFields
         DEF Writes, RowsStand, IsPending, InFlight, CallKnown, RegistryInv, DecisionsStand,
             DecisionStands, Active
    <3>3. call[g].op = "prepare" =>
            enrollments'[call[g].request] = None /\ devices'[call[g].device] = None
      BY <1>2, <1>3, <2>2, <3>1, <3>2, EnrollmentMade, DeviceWritten
         DEF HandlerSound, RowsStand, InFlight
    <3>4. ASSUME call[g].op \in {"create_account", "create_device"}
          PROVE  ~HasEnrollment(call[g].device)'
      <4>1. ASSUME NEW r \in Requests, enrollments'[r] # None
            PROVE  enrollments'[r].device # call[g].device
        <5>1. CASE enrollments[r] # None
          BY <1>2, <2>2, <3>4, <5>1, EnrollmentWritten
             DEF HandlerSound, RowsStand, HasEnrollment, SameEnrollmentRow
        <5>2. CASE enrollments[r] = None
          <6>1. call[h].op = "prepare" /\ enrollments'[r].device = call[h].device
            BY <3>2, <4>1, <5>2, EnrollmentMade
          <6>. QED  BY <3>1, <3>4, <6>1
        <5>. QED  BY <5>1, <5>2
      <4>. QED  BY <1>1, <4>1 DEF HasEnrollment
    <3>5. ASSUME call[g].op \in {"activate", "cancel"}
          PROVE  /\ IsPending(call[g].request)'
                 /\ SameEnrollmentRow(enrollments[call[g].request], enrollments'[call[g].request])
      <4> DEFINE q == call[g].request
      <4>1. q \in Requests /\ IsPending(q) /\ enrollments[q] # None
        BY <1>2, <1>3, <2>2, <3>5 DEF HandlerSound, RowsStand, IsPending, InFlight
      <4>2. enrollments[q].account = call[g].account
        BY <1>2, <2>2, <3>5 DEF HandlerSound, RowsStand, CallMatches, InFlight
      <4>3. ~(call[h].op \in {"activate", "cancel"} /\ q = call[h].request)
        BY <1>2, <3>1, <3>5, <4>2 DEF Writes, RowInv, HandlerSound, RowsStand, CallMatches, InFlight
      <4>4. ~(call[h].op = "prepare" /\ MakesTerminal(call[h], now[h], q))
        BY <2>2, <3>5 DEF Writes, RowLocked
      <4>5. ~(call[h].op = "revoke" /\ enrollments[q].approver = call[h].device)
        BY <3>1, <3>2, <3>5, <4>1, <4>2 DEF RowInv, ApproversKnown
      <4>6. /\ enrollments'[q] # None /\ SameEnrollmentRow(enrollments[q], enrollments'[q])
            /\ enrollments'[q].status = enrollments[q].status
        BY <1>2, <4>1, <4>3, <4>4, <4>5, EnrollmentWritten
      <4>. QED  BY <1>1, <4>1, <4>6 DEF IsPending
    <3>. QED
      BY <1>1, <1>2, <2>2, <3>3, <3>4, <3>5
         DEF HandlerSound, RowsStand, SameEnrollmentRow, HasEnrollment, IsPending
  <2>. QED  BY <2>1, <2>2
<1>. QED  BY <1>4, <1>5, <1>6 DEF HandlerSound

(* A write keeps the approvers known: prepare has an approver of its account. *)
LEMMA ApproversStay ==
  ASSUME RegistryInv, RowInv, NEW h \in Handlers, Writes(h)
  PROVE  ApproversKnown'
<1>1. HandlerSound(h) /\ at[h] \in InFlight /\ at[h] = "write"
  BY DEF RowInv, Writes, InFlight
<1>2. ASSUME NEW r \in Requests, enrollments'[r] # None
      PROVE  /\ devices'[enrollments'[r].approver] # None
             /\ devices'[enrollments'[r].approver].account = enrollments'[r].account
  <2>1. CASE enrollments[r] # None
    <3>1. enrollments[r].approver \in DeviceIds
      BY <2>1 DEF RegistryInv, TypeOK, Enrollment
    <3>. QED
      BY <1>1, <2>1, <3>1, EnrollmentWritten, DeviceWritten
         DEF RowInv, ApproversKnown, SameEnrollmentRow, HandlerSound
  <2>2. CASE enrollments[r] = None
    <3>1. /\ call[h].op = "prepare" /\ enrollments'[r].approver = call[h].actor
          /\ enrollments'[r].account = call[h].account
      BY <1>1, <1>2, <2>2, EnrollmentMade DEF HandlerSound, RowsStand, IsPending
    <3>2. call[h].actor \in DeviceIds
      BY <1>1, <3>1, InFlightTyped, RunningFields
    <3>. QED  BY <1>1, <3>1, <3>2, DeviceWritten DEF HandlerSound, CallMatches
  <2>. QED  BY <2>1, <2>2
<1>. QED  BY <1>2 DEF ApproversKnown

(* A revocation takes the pending enrollments of its device with it.          *)
LEMMA RevocationsCancel ==
  ASSUME RegistryInv, RowInv, NEW h \in Handlers, Writes(h)
  PROVE  RevocationCancels'
<1>1. RowsStand(h) /\ at[h] \in InFlight /\ at[h] = "write"
  BY DEF RowInv, HandlerSound, Writes, InFlight
<1>2. ASSUME NEW r \in Requests, IsPending(r)', ~enrollments'[r].late
      PROVE  IsActive(enrollments[r].approver)'
  <2>1. CASE enrollments[r] # None
    <3>1. /\ SameEnrollmentRow(enrollments[r], enrollments'[r]) /\ IsPending(r)
          /\ ~(call[h].op = "revoke" /\ enrollments[r].approver = call[h].device)
      BY <1>1, <1>2, <2>1, EnrollmentWritten DEF IsPending
    <3>2. IsActive(enrollments[r].approver) /\ enrollments[r].approver \in DeviceIds
      BY <1>2, <2>1, <3>1
         DEF RowInv, RevocationCancels, SameEnrollmentRow, RegistryInv, TypeOK, Enrollment
    <3>3. devices'[enrollments[r].approver] = devices[enrollments[r].approver]
      BY <3>1, <3>2, DeviceWritten DEF IsActive
    <3>. QED  BY <3>1, <3>2, <3>3 DEF IsActive, SameEnrollmentRow
  <2>2. CASE enrollments[r] = None
    <3>1. /\ call[h].op = "prepare" /\ enrollments'[r].approver = call[h].actor
          /\ ~enrollments'[r].late => IsActive(call[h].actor)
      BY <1>1, <1>2, <2>2, EnrollmentMade DEF RowsStand, IsPending
    <3>2. IsActive(call[h].actor)
      BY <1>2, <3>1
    <3>3. devices' = devices
      BY <3>1 DEF Writes, Effect, PrepareEnrollment
    <3>. QED  BY <3>1, <3>2, <3>3 DEF IsActive
  <2>. QED  BY <2>1, <2>2
<1>. QED  BY <1>2 DEF RevocationCancels

(* What becomes a device had no pending enrollment but its own, and what      *)
(* becomes pending has neither.                                             *)
LEMMA IdentityStays ==
  ASSUME RegistryInv, RowInv, NEW h \in Handlers, Writes(h)
  PROVE  PendingIdentityReserved'
<1> DEFINE c == call[h]
<1>1. HandlerSound(h) /\ c \in Running /\ at[h] = "write" /\ at[h] \in InFlight
  BY InFlightTyped DEF RowInv, Writes, InFlight
<1>2. c.op \in {"activate", "cancel"} => c.request \in Requests /\ IsPending(c.request)
  BY <1>1, RunningFields DEF HandlerSound, RowsStand
<1>3. ASSUME NEW r \in Requests, IsPending(r)', enrollments[r] # None
      PROVE  /\ IsPending(r) /\ SameEnrollmentRow(enrollments[r], enrollments'[r])
             /\ ~(c.op = "activate" /\ r = c.request)
             /\ ~(c.op = "prepare" /\ MakesTerminal(c, now[h], r))
             /\ enrollments[r].device \in DeviceIds
  BY <1>1, <1>3, EnrollmentWritten DEF HandlerSound, IsPending, RegistryInv, TypeOK, Enrollment
<1>4. ASSUME NEW r \in Requests, IsPending(r)', enrollments[r] = None
      PROVE  /\ c.op = "prepare" /\ r = c.request
             /\ enrollments'[r].device = c.device /\ enrollments'[r].secret = c.secret
  BY <1>2, <1>4, EnrollmentMade DEF IsPending
<1> HIDE DEF c
<1>5. ASSUME NEW r \in Requests, IsPending(r)' PROVE devices'[enrollments'[r].device] = None
  <2>1. CASE enrollments[r] # None
    <3>1. devices[enrollments[r].device] = None
      BY <1>3, <1>5, <2>1 DEF RowInv, EnrollmentsSound, PendingIdentityReserved
    <3>2. ~(/\ c.op \in {"create_account", "create_device", "activate"}
            /\ enrollments[r].device = c.device)
      <4>1. CASE c.op \in {"create_account", "create_device"}
        BY <1>1, <2>1, <4>1 DEF HandlerSound, RowsStand, HasEnrollment, c
      <4>2. CASE c.op = "activate"
        <5>1. enrollments[c.request].device = c.device
          BY <1>1, <4>2 DEF HandlerSound, CallMatches, c
        <5>. QED
          BY <1>2, <1>3, <1>5, <2>1, <4>2, <5>1 DEF RowInv, EnrollmentsSound, PendingIdentityReserved
      <4>. QED  BY <4>1, <4>2
    <3>3. devices'[enrollments[r].device] = None
      BY <1>3, <1>5, <2>1, <3>1, <3>2, DeviceWritten DEF c
    <3>. QED  BY <1>3, <1>5, <2>1, <3>3 DEF SameEnrollmentRow
  <2>2. CASE enrollments[r] = None
    <3>1. c.device \in DeviceIds /\ devices[c.device] = None
      BY <1>1, <1>4, <1>5, <2>2, RunningFields DEF HandlerSound, RowsStand, c
    <3>2. devices'[c.device] = None
      BY <1>4, <1>5, <2>2, <3>1, DeviceWritten DEF c
    <3>. QED  BY <1>4, <1>5, <2>2, <3>2
  <2>. QED  BY <2>1, <2>2
<1>6. ASSUME NEW r \in Requests, NEW q \in Requests \ {r}, IsPending(r)', IsPending(q)',
             enrollments[q] # None
      PROVE  /\ enrollments'[q].device # enrollments'[r].device
             /\ enrollments'[q].secret # enrollments'[r].secret
  <2>1. CASE enrollments[r] # None
    BY <1>3, <1>6, <2>1 DEF RowInv, EnrollmentsSound, PendingIdentityReserved, SameEnrollmentRow
  <2>2. CASE enrollments[r] = None
    <3>1. ~(enrollments[q].device = c.device \/ enrollments[q].secret = c.secret)
      BY <1>3, <1>4, <1>6, <2>2 DEF Writes, Duplicate, c
    <3>. QED  BY <1>3, <1>4, <1>6, <2>2, <3>1 DEF SameEnrollmentRow
  <2>. QED  BY <2>1, <2>2
<1>7. ASSUME NEW r \in Requests, NEW q \in Requests \ {r}, IsPending(r)', IsPending(q)'
      PROVE  /\ enrollments'[q].device # enrollments'[r].device
             /\ enrollments'[q].secret # enrollments'[r].secret
  BY <1>4, <1>6, <1>7
<1>. QED  BY <1>5, <1>7 DEF PendingIdentityReserved

(* What a write does to an enrollment it records once.                       *)
LEMMA AuditStays ==
  ASSUME RegistryInv, RowInv, NEW h \in Handlers, Writes(h)
  PROVE  AuditMatches'
<1> DEFINE c == call[h]
<1>1. HandlerSound(h) /\ c \in Running /\ at[h] = "write" /\ at[h] \in InFlight
  BY InFlightTyped DEF RowInv, Writes, InFlight
<1>2. c.op \in {"activate", "cancel"} => c.request \in Requests /\ IsPending(c.request)
  BY <1>1, RunningFields DEF HandlerSound, RowsStand
<1>3. ASSUME NEW r \in Requests, enrollments[r] = None
      PROVE  events'[r] = <<>> /\ (enrollments'[r] = None \/ IsPending(r)')
  BY <1>2, <1>3, EnrollmentMade DEF IsPending, RowInv, EnrollmentsSound, AuditMatches
<1>4. ASSUME NEW r \in Requests, enrollments[r] # None
      PROVE  LET e == enrollments'[r] IN
             IF e = None \/ IsPending(r)' THEN events'[r] = <<>>
             ELSE IF e.status = "activated"
             THEN /\ events'[r] = <<"activated">>
                  /\ devices'[e.device] # None
                  /\ devices'[e.device].account = e.account /\ devices'[e.device].secret = e.secret
             ELSE events'[r] \in {<<>>, <<"cancelled">>}
  <2> DEFINE e == enrollments[r]
             f == enrollments'[r]
  <2>1. f # None /\ SameEnrollmentRow(e, f) /\ e.device \in DeviceIds
    BY <1>1, <1>4, EnrollmentWritten DEF HandlerSound, RegistryInv, TypeOK, Enrollment
  <2>2. IsPending(r) => events[r] = <<>>
    BY DEF RowInv, EnrollmentsSound, AuditMatches
  <2>3. CASE f.status = e.status /\ events'[r] = events[r]
    <3>1. IsPending(r)' <=> IsPending(r)
      BY <1>4, <2>1, <2>3 DEF IsPending
    <3>2. CASE IsPending(r)
      BY <2>2, <2>3, <3>1, <3>2
    <3>3. CASE ~IsPending(r) /\ e.status = "activated"
      <4>1. /\ events[r] = <<"activated">> /\ devices[e.device] # None
            /\ devices[e.device].account = e.account /\ devices[e.device].secret = e.secret
        BY <1>4, <3>3 DEF RowInv, EnrollmentsSound, AuditMatches
      <4>2. /\ devices'[e.device] # None
            /\ devices'[e.device].account = e.account /\ devices'[e.device].secret = e.secret
        BY <2>1, <4>1, DeviceWritten
      <4>. QED  BY <2>1, <2>3, <3>1, <3>3, <4>1, <4>2 DEF SameEnrollmentRow
    <3>4. CASE ~IsPending(r) /\ e.status # "activated"
      <4>1. events[r] \in {<<>>, <<"cancelled">>}
        BY <1>4, <3>4 DEF RowInv, EnrollmentsSound, AuditMatches
      <4>. QED  BY <2>1, <2>3, <3>1, <3>4, <4>1
    <3>. QED  BY <3>2, <3>3, <3>4
  <2>4. CASE /\ c.op = "activate" /\ r = c.request /\ IsPending(r) /\ f.status = "activated"
             /\ events'[r] = Append(events[r], "activated")
    <3>1. events'[r] = <<"activated">> /\ ~IsPending(r)'
      <4>1. events[r] = <<>>
        BY <2>2, <2>4
      <4>2. events'[r] = <<"activated">>
        BY <2>4, <4>1
      <4>. QED  BY <2>4, <4>2 DEF IsPending
    <3>2. c.device = e.device /\ c.account = e.account /\ c.secret = e.secret
      BY <1>1, <2>4 DEF HandlerSound, CallMatches, RowsStand
    <3>3. devices[e.device] = None
      BY <2>4, <3>2 DEF Writes, Duplicate
    <3>4. /\ devices'[e.device] # None
          /\ devices'[e.device].account = e.account /\ devices'[e.device].secret = e.secret
      BY <2>1, <2>4, <3>2, <3>3, DeviceWritten
    <3>. QED  BY <2>1, <2>4, <3>1, <3>4 DEF SameEnrollmentRow
  <2>5. CASE IsPending(r) /\ f.status = "cancelled"
             /\ (events'[r] = Append(events[r], "cancelled") \/ events'[r] = events[r])
    <3>1. events'[r] \in {<<>>, <<"cancelled">>} /\ ~IsPending(r)'
      <4>1. events[r] = <<>>
        BY <2>2, <2>5
      <4>2. events'[r] = <<>> \/ events'[r] = <<"cancelled">>
        BY <2>5, <4>1
      <4>3. ~IsPending(r)'
        BY <2>5 DEF IsPending
      <4>. QED  BY <4>2, <4>3
    <3>. QED  BY <2>1, <2>5, <3>1
  <2>. QED
    BY <1>1, <1>4, <2>3, <2>4, <2>5, EnrollmentWritten DEF HandlerSound, MakesTerminal
<1>5. ASSUME NEW r \in Requests
      PROVE  (LET e == enrollments[r] IN
              IF e = None \/ IsPending(r) THEN events[r] = <<>>
              ELSE IF e.status = "activated"
              THEN /\ events[r] = <<"activated">>
                   /\ devices[e.device] # None
                   /\ devices[e.device].account = e.account /\ devices[e.device].secret = e.secret
              ELSE events[r] \in {<<>>, <<"cancelled">>})'
  BY <1>3, <1>4
<1>. QED  BY <1>5 DEF AuditMatches

(* While the tables stay, a handler that stays keeps what it has received and *)
(* decided, and the rows keep agreeing.                                      *)
LEMMA RowsStay ==
  ASSUME RegistryInv, RowInv, UNCHANGED tables
  PROVE  /\ ApproversKnown' /\ EnrollmentsSound' /\ RevocationCancels'
         /\ \A h \in Handlers :
              at'[h] = at[h] /\ call'[h] = call[h] /\ due'[h] = due[h] => HandlerSound(h)'
<1>1. devices' = devices /\ enrollments' = enrollments /\ events' = events
  BY DEF tables
<1>2. ApproversKnown' /\ RevocationCancels'
  BY <1>1 DEF RowInv, ApproversKnown, RevocationCancels, IsPending, IsActive
<1>3. PendingIdentityReserved'
  BY <1>1 DEF RowInv, EnrollmentsSound, PendingIdentityReserved, IsPending
<1>4. AuditMatches'
  BY <1>1 DEF RowInv, EnrollmentsSound, AuditMatches, IsPending
<1>5. ASSUME NEW h \in Handlers, at'[h] = at[h], call'[h] = call[h], due'[h] = due[h]
      PROVE  HandlerSound(h)'
  <2>1. HandlerSound(h)
    BY DEF RowInv
  <2>2. CallMatches(h)'
    BY <1>1, <1>5, <2>1 DEF HandlerSound, CallMatches
  <2>3. RowsStand(h)'
    BY <1>1, <1>5, <2>1 DEF HandlerSound, RowsStand, HasEnrollment, IsPending
  <2>4. DueStands(h)'
    BY <1>1, <1>5, <2>1 DEF HandlerSound, DueStands, SameEnrollment
  <2>. QED  BY <2>2, <2>3, <2>4 DEF HandlerSound
<1>. QED  BY <1>2, <1>3, <1>4, <1>5 DEF EnrollmentsSound

(* An arriving call matches the rows it was received with.                   *)
LEMMA ArrivalSound ==
  ASSUME RegistryInv, RowInv, NEW h \in Handlers, NEW c \in Calls,
         \/ \E a \in Accounts : ReceiveCreateAccount(h, c, a)
         \/ \E d \in DeviceIds : Receive(h, c, d)
         \/ ReceiveActivate(h, c)
  PROVE  HandlerSound(h)' /\ UNCHANGED tables
<1>1. PICK starts, done : Arrive(h, starts, done)
  BY DEF ReceiveCreateAccount, Receive, ReceiveActivate
<1>2. UNCHANGED tables /\ at'[h] = "begin"
  BY <1>1 DEF Arrive, RegistryInv, TypeOK
<1>3. devices' = devices /\ enrollments' = enrollments
  BY <1>2 DEF tables
<1>4. ASSUME NEW a \in Accounts, ReceiveCreateAccount(h, c, a) PROVE HandlerSound(h)'
  <2>1. call'[h].op = "create_account" /\ ~due'[h]
    BY <1>4 DEF ReceiveCreateAccount, Arrive, RunningFor, RegistryInv, TypeOK
  <2>. QED  BY <1>2, <2>1 DEF HandlerSound, CallMatches, RowsStand, DueStands
<1>5. ASSUME NEW d \in DeviceIds, Receive(h, c, d) PROVE HandlerSound(h)'
  <2> DEFINE running == RunningFor(c, d, devices[d].account, c.device)
  <2>1. /\ c.op \in {"create_device", "prepare", "cancel", "revoke"} /\ devices[d] # None
        /\ call'[h] = running
        /\ due'[h] => c.op = "prepare" /\ enrollments[c.request] # None /\ SameEnrollment(running)
    BY <1>5 DEF Receive, Arrive, IsActive, RegistryInv, TypeOK
  <2>2. /\ running.op = c.op /\ running.actor = d /\ running.account = devices[d].account
        /\ running.request = c.request
    BY DEF RunningFor
  <2> HIDE DEF running
  <2>3. CallMatches(h)'
    BY <1>3, <2>1, <2>2 DEF CallMatches
  <2>4. DueStands(h)'
    BY <1>3, <2>1, <2>2 DEF DueStands, SameEnrollment
  <2>. QED  BY <1>2, <2>3, <2>4 DEF HandlerSound, RowsStand
<1>6. ASSUME ReceiveActivate(h, c) PROVE HandlerSound(h)'
  <2> DEFINE e == enrollments[c.request]
             running == RunningFor(c, None, e.account, e.device)
  <2>1. /\ c.op = "activate" /\ e # None /\ call'[h] = running
        /\ due'[h] => e.status = "activated" /\ e.secret = c.secret
    BY <1>6 DEF ReceiveActivate, Arrive, RegistryInv, TypeOK
  <2>2. /\ running.op = c.op /\ running.account = e.account /\ running.device = e.device
        /\ running.request = c.request /\ running.secret = c.secret
    BY DEF RunningFor
  <2> HIDE DEF running
  <2>. QED  BY <1>2, <1>3, <2>1, <2>2 DEF HandlerSound, CallMatches, RowsStand, DueStands
<1>. QED  BY <1>2, <1>4, <1>5, <1>6

(* One handler moves and the tables stay.                                    *)
LEMMA HandlerMoves ==
  ASSUME RegistryInv, RowInv, LockInv', NEW h \in Handlers, UNCHANGED tables, HandlerSound(h)',
         \A g \in Handlers \ {h} : at'[g] = at[g] /\ call'[g] = call[g] /\ due'[g] = due[g]
  PROVE  RowInv'
<1>1. \A g \in Handlers : HandlerSound(g)'
  BY RowsStay
<1>. QED  BY <1>1, RowsStay DEF RowInv

(* A transaction begins, is granted a lock or decides.                       *)
LEMMA MovesSound ==
  ASSUME RegistryInv, RowInv, NEW h \in Handlers, Begin(h) \/ Acquire(h) \/ (Decide(h) /\ ~End(h))
  PROVE  HandlerSound(h)' /\ UNCHANGED tables
<1>1. /\ UNCHANGED <<tables, call, due>> /\ at[h] \in InFlight
      /\ at'[h] = "write" => at[h] = "locking" /\ Verdict(h) = "ok"
  BY DEF Begin, Acquire, Decide, Deciding, InFlight, RegistryInv, TypeOK
<1>2. devices' = devices /\ enrollments' = enrollments
  BY <1>1 DEF tables
<1>3. HandlerSound(h)
  BY DEF RowInv
<1>4. CallMatches(h)' /\ DueStands(h)'
  BY <1>1, <1>2, <1>3 DEF HandlerSound, CallMatches, DueStands, SameEnrollment
<1>5. RowsStand(h)'
  BY <1>1, <1>2, VerdictRows DEF RowsStand, HasEnrollment, IsPending
<1>. QED  BY <1>1, <1>4, <1>5 DEF HandlerSound

LEMMA RowStep == RegistryInv /\ RowInv /\ [Next]_vars => RowInv'
<1>. SUFFICES ASSUME RegistryInv, RowInv, [Next]_vars PROVE RowInv'
  OBVIOUS
<1>1. LockInv'
  BY LockStep DEF RowInv
<1>2. ASSUME NEW h \in Handlers, NEW c \in Calls,
             \/ \E a \in Accounts : ReceiveCreateAccount(h, c, a)
             \/ \E d \in DeviceIds : Receive(h, c, d)
             \/ ReceiveActivate(h, c)
      PROVE  RowInv'
  <2>1. \A g \in Handlers \ {h} : at'[g] = at[g] /\ call'[g] = call[g] /\ due'[g] = due[g]
    BY <1>2 DEF ReceiveCreateAccount, Receive, ReceiveActivate, Arrive, RegistryInv, TypeOK
  <2>. QED  BY <1>1, <1>2, <2>1, ArrivalSound, HandlerMoves
<1>3. ASSUME NEW h \in Handlers, Begin(h) \/ Acquire(h) \/ (Decide(h) /\ ~End(h)) PROVE RowInv'
  <2>1. \A g \in Handlers \ {h} : at'[g] = at[g] /\ call'[g] = call[g] /\ due'[g] = due[g]
    BY <1>3 DEF Begin, Acquire, Decide, RegistryInv, TypeOK
  <2>. QED  BY <1>1, <1>3, <2>1, MovesSound, HandlerMoves
<1>4. ASSUME NEW h \in Handlers, End(h), UNCHANGED tables PROVE RowInv'
  <2>1. /\ at'[h] = "idle"
        /\ \A g \in Handlers \ {h} : at'[g] = at[g] /\ call'[g] = call[g] /\ due'[g] = due[g]
    BY <1>4 DEF End, RegistryInv, TypeOK
  <2>2. HandlerSound(h)'
    BY <2>1 DEF HandlerSound, CallMatches, RowsStand, DueStands, InFlight
  <2>. QED  BY <1>1, <1>4, <2>1, <2>2, HandlerMoves
<1>5. ASSUME NEW h \in Handlers, Writes(h) PROVE RowInv'
  <2>1. HandlerSound(h)'
    <3>1. at'[h] = "idle"
      BY <1>5 DEF Writes, End, RegistryInv, TypeOK
    <3>. QED  BY <3>1 DEF HandlerSound, CallMatches, RowsStand, DueStands, InFlight
  <2>2. \A g \in Handlers : HandlerSound(g)'
    BY <1>5, <2>1, OthersStand
  <2>. QED
    BY <1>1, <1>5, <2>2, ApproversStay, IdentityStays, AuditStays, RevocationsCancel
       DEF RowInv, EnrollmentsSound
<1>6. CASE UNCHANGED <<tables, at, call, due>>
  BY <1>1, <1>6, RowsStay DEF RowInv
<1>7. ASSUME NEW h \in Handlers, Write(h) PROVE (End(h) /\ UNCHANGED tables) \/ Writes(h)
  BY <1>7 DEF Write, Writes
<1>. QED
  BY <1>2, <1>3, <1>4, <1>5, <1>6, <1>7 DEF Next, HandlerStep, Decide, Abort, Tick, vars

(* The rows a transaction decided on stay as it read them, and enrollments,   *)
(* devices and audit events agree, however calls are scheduled.              *)
THEOREM RowInvariant == Spec => []RowInv
<1>1. Init => RowInv
  <2>. SUFFICES ASSUME Init PROVE RowInv
    OBVIOUS
  <2>1. LockInv
    BY DEF Init, LockInv, InFlight
  <2>2. \A h \in Handlers : HandlerSound(h)
    BY DEF Init, HandlerSound, CallMatches, RowsStand, DueStands, InFlight
  <2>3. ApproversKnown /\ EnrollmentsSound /\ RevocationCancels
    BY DEF Init, ApproversKnown, EnrollmentsSound, PendingIdentityReserved, AuditMatches,
           RevocationCancels, IsPending
  <2>. QED  BY <2>1, <2>2, <2>3 DEF RowInv
<1>. QED  BY <1>1, RowStep, RegistryInvariant, PTL DEF Spec

(* store.rs 246-348 and 350-462: no device has the id of a pending enrollment, *)
(* no two pending enrollments share an id or a secret, and the audit events    *)
(* and devices tell what became of every enrollment.                         *)
THEOREM EnrollmentsAreSound == Spec => []EnrollmentsSound
<1>1. RowInv => EnrollmentsSound
  BY DEF RowInv
<1>. QED  BY <1>1, RowInvariant, PTL

(* store.rs 521-588: a revocation leaves no enrollment pending that its device *)
(* approved while it was active.                                            *)
THEOREM RevocationsAreFinal == Spec => []RevocationCancels
<1>1. RowInv => RevocationCancels
  BY DEF RowInv
<1>. QED  BY <1>1, RowInvariant, PTL

(* A prepare or an activation that is repeated is recognised, also after       *)
(* other calls have met it.                                                 *)
THEOREM RetriesAreReplayed == Spec => []RetriesReplayed
<1>1. RegistryInv /\ RowInv => RetriesReplayed
  <2> SUFFICES ASSUME RegistryInv, RowInv, NEW h \in Handlers, Deciding(h), due[h]
               PROVE  \/ Verdict(h) = "done"
                      \/ call[h].op = "prepare" /\ Verdict(h) \in {"cancelled", "expired"}
    BY DEF RetriesReplayed
  <2>1. DueStands(h) /\ at[h] \in InFlight
    BY DEF RowInv, HandlerSound, Deciding, InFlight
  <2>2. CASE call[h].op = "prepare"
    BY <2>1, <2>2 DEF DueStands, Verdict, Judge, JudgePrepare
  <2>3. CASE call[h].op = "activate"
    BY <2>1, <2>3 DEF DueStands, Verdict, Judge, JudgeActivate
  <2>. QED  BY <2>1, <2>2, <2>3 DEF DueStands
<1>. QED  BY <1>1, RegistryInvariant, RowInvariant, PTL

-----------------------------------------------------------------------------
(* Deadlock.                                                                *)

(* Every call takes its locks in this order; a prepare may wait once more,     *)
(* for the rows of a transaction that then waits for nobody.                  *)
Rank(h) ==
  IF at[h] = "locking" /\ held[h] < Len(Locks(call[h]))
  THEN IF held[h] = 0 /\ call[h].op # "create_account" THEN 1
       ELSE IF held[h] = 1 /\ call[h].op = "prepare" THEN 2
       ELSE 3
  ELSE IF at[h] = "write" /\ call[h].op = "prepare" THEN 4 ELSE 5

(* It is left to a prepare to lock its device id.                            *)
Prepared(h) == at[h] = "locking" /\ call[h].op = "prepare" /\ held[h] = 2

(* Which locks a transaction has, and which one it is waiting for.            *)
LEMMA RankedLocks ==
  ASSUME RegistryInv, NEW h \in Handlers, at[h] = "locking", held[h] < Len(Locks(call[h]))
  PROVE  /\ Rank(h) = 1 => Wanted(h) = <<"account", call[h].account>> /\ held[h] = 0
         /\ Rank(h) = 2 => /\ call[h].op = "prepare" /\ held[h] = 1
                           /\ Locks(call[h])[1] = <<"account", call[h].account>>
                           /\ Wanted(h) = <<"id", call[h].request>>
         /\ Rank(h) = 3 => /\ Wanted(h) = <<"id", call[h].device>>
                           /\ \A i \in 1..held[h] :
                                \/ Locks(call[h])[i] = <<"account", call[h].account>>
                                \/ Prepared(h) /\ Locks(call[h])[i] = <<"id", call[h].request>>
         /\ Rank(h) \in 1..3
<1>1. call[h] \in Running /\ held[h] \in 0..3
  BY InFlightTyped DEF InFlight, RegistryInv, TypeOK
<1>2. call[h].op \in {"create_account", "create_device", "revoke", "prepare", "activate", "cancel"}
  BY <1>1, RunningFields
<1>3. CASE call[h].op = "create_account"
  <2>1. Len(Locks(call[h])) = 1 /\ Locks(call[h])[1] = <<"id", call[h].device>>
    BY <1>3 DEF Locks
  <2>2. held[h] = 0 /\ Rank(h) = 3
    BY <1>1, <1>3, <2>1 DEF Rank
  <2>. QED  BY <2>1, <2>2 DEF Wanted
<1>4. CASE call[h].op \in {"create_device", "activate"}
  <2>1. /\ Len(Locks(call[h])) = 2 /\ Locks(call[h])[1] = <<"account", call[h].account>>
        /\ Locks(call[h])[2] = <<"id", call[h].device>>
    BY <1>4 DEF Locks
  <2>2. (held[h] = 0 /\ Rank(h) = 1) \/ (held[h] = 1 /\ Rank(h) = 3)
    BY <1>1, <1>4, <2>1 DEF Rank
  <2>. QED  BY <2>1, <2>2 DEF Wanted
<1>5. CASE call[h].op = "prepare"
  <2>1. /\ Len(Locks(call[h])) = 3 /\ Locks(call[h])[1] = <<"account", call[h].account>>
        /\ Locks(call[h])[2] = <<"id", call[h].request>>
        /\ Locks(call[h])[3] = <<"id", call[h].device>>
    BY <1>5 DEF Locks
  <2>2. \/ held[h] = 0 /\ Rank(h) = 1
        \/ held[h] = 1 /\ Rank(h) = 2
        \/ held[h] = 2 /\ Rank(h) = 3
    BY <1>1, <1>5, <2>1 DEF Rank
  <2>. QED  BY <1>5, <2>1, <2>2 DEF Wanted, Prepared
<1>6. CASE call[h].op \in {"cancel", "revoke"}
  <2>1. Len(Locks(call[h])) = 1 /\ Locks(call[h])[1] = <<"account", call[h].account>>
    BY <1>6 DEF Locks
  <2>2. held[h] = 0 /\ Rank(h) = 1
    BY <1>1, <1>6, <2>1 DEF Rank
  <2>. QED  BY <2>1, <2>2 DEF Wanted
<1>. QED  BY <1>2, <1>3, <1>4, <1>5, <1>6

(* A wait leads upwards, but for one that ends at a prepare which is itself    *)
(* waiting for its device id.                                               *)
LEMMA WaitsUpwards ==
  ASSUME RegistryInv, LockInv, NEW h \in Handlers, NEW g \in Handlers, WaitsFor(h, g)
  PROVE  \/ Rank(h) < Rank(g)
         \/ /\ Rank(h) = 3 /\ Rank(g) = 3 /\ Prepared(g)
            /\ g # h /\ at[h] = "locking" /\ call[h].device = call[g].request
<1>1. CASE at[h] = "write" /\ RowLocked(h, g)
  BY <1>1 DEF RowLocked, Rank
<1>2. CASE /\ at[h] = "locking" /\ held[h] < Len(Locks(call[h]))
           /\ g # h /\ Holds(g, Wanted(h))
  <2>1. PICK i \in 1..held[g] : Locks(call[g])[i] = Wanted(h)
    BY <1>2 DEF Holds
  <2>2. CASE ~(at[g] = "locking" /\ held[g] < Len(Locks(call[g])))
    <3>1. Rank(g) \in {4, 5}
      BY <2>2 DEF Rank
    <3>. QED  BY <1>2, <3>1, RankedLocks
  <2>3. CASE at[g] = "locking" /\ held[g] < Len(Locks(call[g]))
    <3>1. held[g] \in 0..3
      BY DEF RegistryInv, TypeOK
    <3>2. CASE Rank(g) = 1
      BY <2>1, <2>3, <3>1, <3>2, RankedLocks
    <3>3. CASE Rank(g) = 2
      <4>1. i = 1 /\ Locks(call[g])[1] = <<"account", call[g].account>>
        BY <2>1, <2>3, <3>3, RankedLocks
      <4>2. Rank(h) = 1
        BY <1>2, <2>1, <4>1, RankedLocks
      <4>. QED  BY <3>3, <4>2
    <3>4. CASE Rank(g) = 3
      <4>1. CASE Rank(h) = 3
        <5>1. Wanted(h) = <<"id", call[h].device>>
          BY <1>2, <4>1, RankedLocks
        <5>2. Prepared(g) /\ Wanted(h) = <<"id", call[g].request>>
          BY <2>1, <2>3, <3>4, <5>1, RankedLocks
        <5>. QED  BY <1>2, <3>4, <4>1, <5>1, <5>2
      <4>2. CASE Rank(h) # 3
        BY <1>2, <3>4, <4>2, RankedLocks
      <4>. QED  BY <4>1, <4>2
    <3>. QED  BY <2>3, <3>2, <3>3, <3>4, RankedLocks
  <2>. QED  BY <2>2, <2>3
<1>. QED  BY <1>1, <1>2 DEF WaitsFor

(* store.rs 147-588: transactions come to a standstill only over two prepares *)
(* of different accounts whose request and device ids are crossed.           *)
THEOREM NoDeadlock == Spec => []NoLockCycle
<1>1. RegistryInv /\ RowInv => NoLockCycle
  <2> SUFFICES ASSUME RegistryInv, LockInv, NEW waiting \in (SUBSET Handlers) \ {{}},
                      \A h \in waiting : \E g \in waiting : WaitsFor(h, g)
               PROVE  \E g, h \in waiting : Crossed(h, g)
    BY DEF NoLockCycle, RowInv
  <2>1. \A h \in Handlers : Rank(h) \in 1..5
    BY DEF Rank
  <2>2. \A h \in waiting : Rank(h) \in 1..3 => \E g \in waiting : WaitsFor(h, g) /\ Rank(h) <= Rank(g)
    BY <2>1, WaitsUpwards
  <2>3. \A h \in waiting : Rank(h) # 3 => \E g \in waiting : Rank(h) < Rank(g)
    BY WaitsUpwards
  <2>4. \A h \in waiting : Rank(h) \in 1..3
    <3>1. \A h \in waiting : Rank(h) # 5
      BY <2>1, <2>3
    <3>. QED  BY <2>1, <2>3, <3>1
  <2>5. PICK h1 \in waiting : Rank(h1) = 3
    BY <2>1, <2>3, <2>4
  <2>6. \A h \in waiting : Rank(h) = 3 =>
           \E g \in waiting : /\ Rank(g) = 3 /\ Prepared(g) /\ g # h
                              /\ call[h].device = call[g].request
    BY <2>1, <2>4, WaitsUpwards
  <2>7. PICK h \in waiting : Rank(h) = 3 /\ Prepared(h)
    BY <2>5, <2>6
  <2>8. PICK g \in waiting : Prepared(g) /\ g # h /\ call[h].device = call[g].request
    BY <2>6, <2>7
  <2>9. call[h].account # call[g].account
    BY <2>7, <2>8 DEF Prepared, RegistryInv, AccountSerialised, HasAccountLock
  <2>. QED  BY <2>7, <2>8, <2>9 DEF Crossed, Prepared
<1>. QED  BY <1>1, RegistryInvariant, RowInvariant, PTL

=============================================================================
