------------------------- MODULE ReleaseRequestProofs -------------------------
(* Proofs about ReleaseRequest for any people, grants, requests and bounds:  *)
(* the inductive invariant, that access is earned and fenced by edits, and   *)
(* that no change of a request keeps its revision.                           *)
EXTENDS ReleaseRequest, FiniteSetTheorems, TLAPS

(* In the beginning nobody has asked for anything.                           *)
LEMMA InitInv == Init => ReleaseInv
BY ReleaseAssumption, NoneAssumption DEF Init, ReleaseInv, TypeOK, Policy

(* The request o after a call at time now, which may set its approvals, its   *)
(* state and the times of its release.                                        *)
Changed(o, approvals, state, released, expires, now) ==
  [trustee |-> o.trustee, condition |-> o.condition, revision |-> o.revision,
   requested |-> o.requested, last |-> now, stamp |-> o.stamp + 1, grant |-> o.grant,
   approvals |-> approvals, state |-> state, released |-> released, expires |-> expires]

LEMMA ChangedType ==
  ASSUME NEW o \in Request, NEW approvals \in SUBSET People, NEW now \in Time,
         NEW state \in {"pending", "released", "denied", "revoked"},
         NEW released \in Time \cup {None}, NEW expires \in Time \cup {None}
  PROVE  Changed(o, approvals, state, released, expires, now) \in Request
<1>1. o.stamp + 1 \in Nat
  BY DEF Request
<1> QED
  BY <1>1 DEF Changed, Request

(* Each call replaces some of the fields Changed names.                       *)
LEMMA Replaced ==
  ASSUME NEW o \in Request, NEW approver, NEW now
  PROVE  /\ Approved(o, approver, now)
              = Changed(o, o.approvals \cup {approver}, o.state, o.released, o.expires, now)
         /\ Denied(o, now) = Changed(o, o.approvals, "denied", o.released, o.expires, now)
         /\ Revoked(o, now) = Changed(o, o.approvals, "revoked", None, None, now)
         /\ Released(o, now)
              = Changed(o, o.approvals, "released", now, EndOfRelease(o, now), now)
<1>1. ASSUME NEW q, q = Approved(o, approver, now)
      PROVE  q = Changed(o, o.approvals \cup {approver}, o.state, o.released, o.expires, now)
  BY <1>1 DEF Changed, Request, Approved
<1>2. ASSUME NEW q, q = Denied(o, now)
      PROVE  q = Changed(o, o.approvals, "denied", o.released, o.expires, now)
  BY <1>2 DEF Changed, Request, Denied
<1>3. ASSUME NEW q, q = Revoked(o, now)
      PROVE  q = Changed(o, o.approvals, "revoked", None, None, now)
  BY <1>3 DEF Changed, Request, Revoked
<1>4. ASSUME NEW q, q = Released(o, now)
      PROVE  q = Changed(o, o.approvals, "released", now, EndOfRelease(o, now), now)
  BY <1>4 DEF Changed, Request, Released
<1> QED
  BY <1>1, <1>2, <1>3, <1>4

(* What is put in the place of one request, if it keeps what ReleaseInv says  *)
(* of a request, keeps ReleaseInv.                                           *)
LEMMA PutInv ==
  ASSUME ReleaseInv, NEW r \in Requests, NEW q \in Request,
         request' = [request EXCEPT ![r] = q],
         UNCHANGED <<policy, revision, edited>>,
         GrantHeld(q), ReleaseEarned(q), q.revision <= revision,
         edited[r] => q.revision < revision
  PROVE  ReleaseInv'
<1>1. TypeOK'
  BY DEF ReleaseInv, TypeOK
<1>2. ASSUME NEW s \in Requests
      PROVE  /\ (edited[s] => request[s] # None)'
             /\ request'[s] # None =>
                  GrantHeld(request'[s]) /\ ReleaseEarned(request'[s]) /\ RevisionFences(s)'
  <2>1. CASE s = r
    <3>1. request'[s] = q
      BY <2>1 DEF ReleaseInv, TypeOK
    <3> QED
      BY <2>1, <3>1, NoneAssumption DEF RevisionFences
  <2>2. CASE s # r
    <3>1. request'[s] = request[s]
      BY <2>2 DEF ReleaseInv, TypeOK
    <3> QED
      BY <3>1 DEF ReleaseInv, RevisionFences
  <2> QED BY <2>1, <2>2
<1> QED
  BY <1>1, <1>2 DEF ReleaseInv, GrantHeld, ReleaseEarned, NotBefore, Awaiting, Received, ValidGrant, Time

(* Saving the item makes it newer than every request.                        *)
LEMMA SaveItemInv ==
  ASSUME ReleaseInv, NEW p \in Policy, SaveItem(p)
  PROVE  ReleaseInv'
<1>1. TypeOK'
  BY DEF ReleaseInv, TypeOK, SaveItem
<1>2. ASSUME NEW r \in Requests
      PROVE  /\ edited'[r] => request'[r] # None
             /\ request'[r] # None => RevisionFences(r)'
  <2>1. edited'[r] = (edited[r] \/ request[r] # None) /\ request' = request
    BY DEF SaveItem
  <2>2. edited'[r] => request'[r] # None
    BY <2>1 DEF ReleaseInv
  <2>3. ASSUME request[r] # None PROVE request[r].revision \in Nat /\ request[r].revision < revision'
    BY <2>3 DEF ReleaseInv, TypeOK, SaveItem, RevisionFences, Request
  <2> QED
    BY <2>1, <2>2, <2>3, <1>1 DEF RevisionFences, TypeOK
<1> QED
  BY <1>1, <1>2 DEF ReleaseInv, SaveItem, GrantHeld, ReleaseEarned, NotBefore, Awaiting, Received, ValidGrant, Time

(* A request begins with a grant of a valid policy.                          *)
LEMMA BeginInv ==
  ASSUME ReleaseInv, NEW r \in Requests, NEW trustee \in People, NEW condition \in Condition,
         NEW now \in Time, Begin(r, trustee, condition, now)
  PROVE  ReleaseInv'
<1>1. PICK g \in GrantsFor(policy, trustee, condition) :
        request' = [request EXCEPT ![r] =
            [trustee |-> trustee, condition |-> condition, revision |-> revision,
             requested |-> now, last |-> now, stamp |-> 1, grant |-> g, approvals |-> {},
             state |-> "pending", released |-> None, expires |-> None]]
  BY DEF Begin
<1> DEFINE q == [trustee |-> trustee, condition |-> condition, revision |-> revision,
             requested |-> now, last |-> now, stamp |-> 1, grant |-> g, approvals |-> {},
             state |-> "pending", released |-> None, expires |-> None]
<1>2. g \in Grants /\ g.trustee = trustee /\ g \in policy.grants
  BY <1>1 DEF GrantsFor, ReleaseInv, TypeOK, Policy
<1>3. q \in Request
  BY <1>2 DEF Request, ReleaseInv, TypeOK
<1>4. GrantHeld(q)
  BY <1>2 DEF GrantHeld, Begin, ValidPolicy
<1>5. ReleaseEarned(q)
  BY DEF ReleaseEarned
<1>6. ~edited[r]
  BY DEF Begin, ReleaseInv
<1>7. q.revision <= revision
  BY DEF ReleaseInv, TypeOK
<1>8. UNCHANGED <<policy, revision, edited>>
  BY DEF Begin
<1> QED
  <2>1. request' = [request EXCEPT ![r] = q]
    BY <1>1
  <2> HIDE DEF q
  <2> QED
    BY <2>1, <1>3, <1>4, <1>5, <1>6, <1>7, <1>8, PutInv

(* An approval is one the grant asks for.                                    *)
LEMMA ApproveInv ==
  ASSUME ReleaseInv, NEW r \in Requests, NEW approver \in People, NEW now \in Time,
         Approve(r, approver, now)
  PROVE  ReleaseInv'
<1> DEFINE o == request[r]
           q == Changed(o, o.approvals \cup {approver}, o.state, o.released, o.expires, now)
<1>1. o \in Request /\ GrantHeld(o) /\ RevisionFences(r)
  BY DEF ReleaseInv, TypeOK, Approve
<1>2. /\ o.state = "pending" /\ approver \in o.grant.approvers
      /\ request' = [request EXCEPT ![r] = q] /\ UNCHANGED <<policy, revision, edited>>
  BY <1>1, Replaced DEF Approve, Update
<1>3. q \in Request
  <2>1. /\ o.approvals \cup {approver} \in SUBSET People /\ o.released \in Time \cup {None}
        /\ o.state \in {"pending", "released", "denied", "revoked"} /\ o.expires \in Time \cup {None}
    BY <1>1 DEF Request
  <2> QED
    BY <1>1, <2>1, ChangedType
<1>4. GrantHeld(q) /\ ReleaseEarned(q) /\ q.revision = o.revision
  BY <1>1, <1>2 DEF GrantHeld, ReleaseEarned, Changed
<1> QED
  BY <1>1, <1>2, <1>3, <1>4, PutInv DEF RevisionFences

(* A denied request is not released.                                         *)
LEMMA DenyInv ==
  ASSUME ReleaseInv, NEW r \in Requests, NEW now \in Time, Deny(r, now)
  PROVE  ReleaseInv'
<1> DEFINE o == request[r]
           q == Changed(o, o.approvals, "denied", o.released, o.expires, now)
<1>1. o \in Request /\ GrantHeld(o) /\ RevisionFences(r)
  BY DEF ReleaseInv, TypeOK, Deny
<1>2. request' = [request EXCEPT ![r] = q] /\ UNCHANGED <<policy, revision, edited>>
  BY <1>1, Replaced DEF Deny, Update
<1>3. q \in Request
  BY <1>1, ChangedType DEF Request
<1>4. GrantHeld(q) /\ ReleaseEarned(q) /\ q.revision = o.revision
  BY <1>1 DEF GrantHeld, ReleaseEarned, Changed
<1> QED
  BY <1>1, <1>2, <1>3, <1>4, PutInv DEF RevisionFences

(* A revoked request is not released any more.                               *)
LEMMA RevokeInv ==
  ASSUME ReleaseInv, NEW r \in Requests, NEW now \in Time, Revoke(r, now)
  PROVE  ReleaseInv'
<1> DEFINE o == request[r]
           q == Changed(o, o.approvals, "revoked", None, None, now)
<1>1. o \in Request /\ GrantHeld(o) /\ RevisionFences(r)
  BY DEF ReleaseInv, TypeOK, Revoke
<1>2. request' = [request EXCEPT ![r] = q] /\ UNCHANGED <<policy, revision, edited>>
  BY <1>1, Replaced DEF Revoke, Update
<1>3. q \in Request
  BY <1>1, ChangedType DEF Request
<1>4. GrantHeld(q) /\ ReleaseEarned(q) /\ q.revision = o.revision
  BY <1>1 DEF GrantHeld, ReleaseEarned, Changed
<1> QED
  BY <1>1, <1>2, <1>3, <1>4, PutInv DEF RevisionFences

(* An eligible request is pending, has its approvals, and has waited.         *)
LEMMA Eligible ==
  ASSUME NEW o \in Request, NEW now \in Time, Status(o, now) = "eligible"
  PROVE  now >= o.last /\ o.state = "pending" /\ ~Awaiting(o.grant, o.approvals) /\ now >= NotBefore(o)
<1>1. o.grant.wait \in Nat /\ o.requested \in Nat /\ o.last \in Nat /\ now \in Nat
  BY ReleaseAssumption DEF Request, Grant, Time
<1>2. ~(now < o.last) /\ o.state \notin {"denied", "revoked", "released"}
      /\ PendingStatus(o, now) = "eligible"
  BY DEF Status, ReleasedStatus
<1>3. o.state = "pending"
  BY <1>2 DEF Request
<1>4. ~Awaiting(o.grant, o.approvals) /\ ~(now < NotBefore(o))
  BY <1>2 DEF PendingStatus
<1> QED
  BY <1>1, <1>2, <1>3, <1>4 DEF NotBefore

(* A release is made when the request is eligible, at a time not later than    *)
(* its last event.                                                           *)
LEMMA ReleaseStepInv ==
  ASSUME ReleaseInv, NEW r \in Requests, NEW now \in Time, Release(r, now)
  PROVE  ReleaseInv'
<1> DEFINE o == request[r]
           q == Changed(o, o.approvals, "released", now, EndOfRelease(o, now), now)
<1>1. o \in Request /\ GrantHeld(o) /\ RevisionFences(r)
  BY DEF ReleaseInv, TypeOK, Release
<1>2. /\ Status(o, now) = "eligible" /\ EndOfRelease(o, now) \in Time \cup {None}
      /\ request' = [request EXCEPT ![r] = q] /\ UNCHANGED <<policy, revision, edited>>
  BY <1>1, Replaced DEF Release, Update
<1>3. q \in Request
  BY <1>1, <1>2, ChangedType DEF Request
<1>4. now >= NotBefore(o) /\ ~Awaiting(o.grant, o.approvals)
  BY <1>1, <1>2, Eligible
<1>5. /\ q.grant = o.grant /\ q.trustee = o.trustee /\ q.approvals = o.approvals
      /\ q.requested = o.requested /\ q.released = now /\ q.last = now /\ q.revision = o.revision
  BY DEF Changed
<1>6. GrantHeld(q)
  BY <1>1, <1>5 DEF GrantHeld
<1>7. o.grant.wait \in Nat /\ o.requested \in Nat /\ now \in Nat
  BY <1>1, ReleaseAssumption DEF Request, Grant, Time
<1>8. ReleaseEarned(q)
  BY <1>4, <1>5, <1>7 DEF ReleaseEarned, NotBefore
<1> QED
  BY <1>1, <1>2, <1>3, <1>5, <1>6, <1>8, PutInv DEF RevisionFences

(* Every step keeps the invariant.                                           *)
LEMMA StepInv == ReleaseInv /\ [Next]_vars => ReleaseInv'
<1> SUFFICES ASSUME ReleaseInv, [Next]_vars PROVE ReleaseInv'
  OBVIOUS
<1>1. CASE UNCHANGED vars
  BY <1>1 DEF vars, ReleaseInv, TypeOK, GrantHeld, ReleaseEarned, RevisionFences, NotBefore,
              Awaiting, Received, ValidGrant, Time
<1>2. CASE \E p \in Policy : SaveItem(p)
  BY <1>2, SaveItemInv
<1>3. ASSUME NEW r \in Requests, NEW now \in Time, NEW person \in People, NEW condition \in Condition,
             Begin(r, person, condition, now)
      PROVE  ReleaseInv'
  BY <1>3, BeginInv
<1>4. ASSUME NEW r \in Requests, NEW now \in Time, NEW person \in People, Approve(r, person, now)
      PROVE  ReleaseInv'
  BY <1>4, ApproveInv
<1>5. ASSUME NEW r \in Requests, NEW now \in Time, Deny(r, now) \/ Revoke(r, now) \/ Release(r, now)
      PROVE  ReleaseInv'
  BY <1>5, DenyInv, RevokeInv, ReleaseStepInv
<1> QED
  BY <1>1, <1>2, <1>3, <1>4, <1>5 DEF Next

(* ReleaseInv holds in every reachable state: what begin_release_request and  *)
(* release check stays true of the requests they leave.                       *)
THEOREM ReleaseInvariant == Spec => []ReleaseInv
BY InitInv, StepInv, PTL DEF Spec

(* A grant's quorum counts approvers other than the trustee.                  *)
LEMMA Quorum ==
  ASSUME NEW o \in Request, GrantHeld(o), ~Awaiting(o.grant, o.approvals)
  PROVE  o.grant.required <= Cardinality(o.approvals \ {o.trustee})
<1>1. o.grant.required \in Nat /\ o.approvals \subseteq People
  BY ReleaseAssumption DEF Request, Grant
<1>2. Cardinality(o.approvals \ {o.trustee}) \in Nat /\ Cardinality(o.approvals) \in Nat
  <2>1. IsFiniteSet(o.approvals) /\ IsFiniteSet(o.approvals \ {o.trustee})
    BY <1>1, ReleaseAssumption, FS_Subset
  <2> QED
    BY <2>1, FS_CardinalityType
<1>3. CASE o.grant.required = 0
  BY <1>1, <1>2, <1>3
<1>4. CASE o.grant.required > 0
  <2>1. o.grant.approvers \cap o.approvals = o.approvals /\ o.approvals \ {o.trustee} = o.approvals
    BY <1>4 DEF GrantHeld, ValidGrant
  <2> QED
    BY <1>1, <1>2, <1>4, <2>1 DEF Awaiting, Received
<1> QED
  BY <1>1, <1>3, <1>4

(* Access needs the waiting period, a quorum without the trustee, and an item *)
(* that has not been saved since the request began.                           *)
THEOREM AccessIsEarned == Spec => []AccessEarned
<1>1. ReleaseInv => AccessEarned
  <2> SUFFICES ASSUME ReleaseInv, NEW r \in Requests, NEW now \in Time, request[r] # None,
                      Status(request[r], now) = "released"
               PROVE  /\ ~edited[r]
                      /\ now >= request[r].requested + request[r].grant.wait
                      /\ request[r].grant.required
                           <= Cardinality(request[r].approvals \ {request[r].trustee})
    BY DEF AccessEarned
  <2> DEFINE o == request[r]
  <2>1. o \in Request /\ GrantHeld(o) /\ ReleaseEarned(o) /\ RevisionFences(r)
    BY DEF ReleaseInv, TypeOK
  <2>2. o.state = "released" /\ ~(now < o.last) /\ PolicyMatches(o)
    BY <2>1 DEF Status, PendingStatus
  <2>3. o.revision = revision /\ revision \in Nat
    BY <2>2 DEF PolicyMatches, ReleaseInv, TypeOK
  <2>4. ~edited[r]
    BY <2>1, <2>3 DEF RevisionFences
  <2>5. o.grant.wait \in Nat /\ o.requested \in Nat /\ o.last \in Nat /\ now \in Nat
    BY <2>1, ReleaseAssumption DEF Request, Grant, Time
  <2>6. now >= o.requested + o.grant.wait
    BY <2>1, <2>2, <2>5 DEF ReleaseEarned, NotBefore, Time
  <2>7. ~Awaiting(o.grant, o.approvals)
    BY <2>1, <2>2 DEF ReleaseEarned
  <2> QED
    BY <2>1, <2>4, <2>6, <2>7, Quorum
<1> QED
  BY <1>1, ReleaseInvariant, PTL

(* No saved item is opened by a request made before it was saved.             *)
THEOREM EditsFence == Spec => []EditFences
<1>1. ReleaseInv => EditFences
  <2> SUFFICES ASSUME ReleaseInv, NEW r \in Requests, NEW now \in Time, request[r] # None, edited[r]
               PROVE  Status(request[r], now) \in
                        {"time_rewind", "denied", "revoked", "policy_changed"}
    BY DEF EditFences
  <2> DEFINE o == request[r]
  <2>1. o.revision # revision
    BY DEF ReleaseInv, TypeOK, RevisionFences, Request
  <2>2. ~PolicyMatches(o)
    BY <2>1 DEF PolicyMatches
  <2> QED
    BY <2>2 DEF Status
<1> QED
  BY <1>1, ReleaseInvariant, PTL

(* Whatever changes a request advances its revision and not its clock back.   *)
THEOREM StampsFence == Spec => StampFences
<1>1. ASSUME ReleaseInv, [Next]_vars, NEW r \in Requests, request[r] # None, request'[r] # request[r]
      PROVE  request'[r].stamp = request[r].stamp + 1 /\ request'[r].last >= request[r].last
  <2>1. request[r] \in Request /\ request \in [Requests -> Request \cup {None}]
    BY <1>1 DEF ReleaseInv, TypeOK
  <2>2. ~UNCHANGED request
    BY <1>1
  <2>3. PICK s \in Requests, now \in Time :
          \/ \E person \in People, condition \in Condition : Begin(s, person, condition, now)
          \/ \E person \in People : Approve(s, person, now)
          \/ Deny(s, now) \/ Revoke(s, now) \/ Release(s, now)
    BY <1>1, <2>2 DEF Next, vars, SaveItem
  <2>4. s = r
    BY <1>1, <2>1, <2>3 DEF Begin, Approve, Deny, Revoke, Release, Update
  <2>5. \E approvals, state, released, expires :
          request'[r] = Changed(request[r], approvals, state, released, expires, now)
    <3> DEFINE o == request[r]
    <3>1. ASSUME NEW person \in People, Approve(r, person, now)
          PROVE  request'[r] = Changed(o, o.approvals \cup {person}, o.state, o.released, o.expires, now)
      BY <2>1, <3>1, Replaced DEF Approve, Update
    <3>2. ASSUME Deny(r, now)
          PROVE  request'[r] = Changed(o, o.approvals, "denied", o.released, o.expires, now)
      BY <2>1, <3>2, Replaced DEF Deny, Update
    <3>3. ASSUME Revoke(r, now)
          PROVE  request'[r] = Changed(o, o.approvals, "revoked", None, None, now)
      BY <2>1, <3>3, Replaced DEF Revoke, Update
    <3>4. ASSUME Release(r, now)
          PROVE  request'[r] = Changed(o, o.approvals, "released", now, EndOfRelease(o, now), now)
      BY <2>1, <3>4, Replaced DEF Release, Update
    <3> HIDE DEF o
    <3> QED
      BY <1>1, <2>3, <2>4, <3>1, <3>2, <3>3, <3>4 DEF Begin, o
  <2>6. now >= request[r].last
    BY <1>1, <2>1, <2>3, <2>4, Eligible DEF Begin, Approve, Deny, Revoke, Release
  <2> QED
    BY <2>5, <2>6 DEF Changed
<1>2. ReleaseInv /\ [Next]_vars =>
        [\A r \in Requests :
           request[r] # None /\ request'[r] # request[r] =>
             request'[r].stamp = request[r].stamp + 1 /\ request'[r].last >= request[r].last]_vars
  BY <1>1
<1> QED
  BY <1>2, ReleaseInvariant, PTL DEF Spec, StampFences

(* Until the item is saved, the policy is the one a request began under, and  *)
(* holds the grant the request keeps; no event is earlier than the request.   *)
BegunUnder(q) ==
  /\ q.revision = revision
  /\ ValidPolicy(policy) /\ ~ClosedByDeath(policy, q.condition)
  /\ q.grant \in GrantsFor(policy, q.trustee, q.condition)
  /\ q.requested <= q.last

Unedited == \A r \in Requests : request[r] # None /\ ~edited[r] => BegunUnder(request[r])

(* Saving marks every request; a call keeps grant, condition and trustee.     *)
LEMMA UneditedStep == ReleaseInv /\ Unedited /\ [Next]_vars => Unedited'
<1> SUFFICES ASSUME ReleaseInv, Unedited, [Next]_vars PROVE Unedited'
  OBVIOUS
<1>1. CASE UNCHANGED vars
  BY <1>1 DEF vars, Unedited, BegunUnder, ValidPolicy, ClosedByDeath, GrantsFor
<1>2. ASSUME NEW p \in Policy, SaveItem(p) PROVE Unedited'
  BY <1>2 DEF SaveItem, Unedited, ReleaseInv, TypeOK
<1>3. ASSUME UNCHANGED <<policy, revision, edited>>, NEW s \in Requests, NEW q,
             request' = [request EXCEPT ![s] = q], BegunUnder(q) \/ edited[s]
      PROVE  Unedited'
  <2>1. ASSUME NEW r \in Requests, request'[r] # None, ~edited'[r] PROVE BegunUnder(request'[r])
    <3>1. CASE r = s
      BY <1>3, <2>1, <3>1 DEF ReleaseInv, TypeOK
    <3>2. CASE r # s
      <4>1. request'[r] = request[r]
        BY <1>3, <3>2 DEF ReleaseInv, TypeOK
      <4> QED
        BY <1>3, <2>1, <4>1 DEF Unedited
    <3> QED BY <3>1, <3>2
  <2> QED
    BY <1>3, <2>1 DEF Unedited, BegunUnder, ValidPolicy, ClosedByDeath, GrantsFor
<1>4. ASSUME NEW s \in Requests, NEW now \in Time, NEW trustee \in People,
             NEW condition \in Condition, Begin(s, trustee, condition, now)
      PROVE  Unedited'
  <2>1. PICK g \in GrantsFor(policy, trustee, condition) :
          request' = [request EXCEPT ![s] =
            [trustee |-> trustee, condition |-> condition, revision |-> revision,
             requested |-> now, last |-> now, stamp |-> 1, grant |-> g, approvals |-> {},
             state |-> "pending", released |-> None, expires |-> None]]
    BY <1>4 DEF Begin
  <2> DEFINE q == [trustee |-> trustee, condition |-> condition, revision |-> revision,
             requested |-> now, last |-> now, stamp |-> 1, grant |-> g, approvals |-> {},
             state |-> "pending", released |-> None, expires |-> None]
  <2>2. BegunUnder(q)
    BY <1>4 DEF Begin, BegunUnder, Time
  <2>3. UNCHANGED <<policy, revision, edited>>
    BY <1>4 DEF Begin
  <2> HIDE DEF q
  <2>4. request' = [request EXCEPT ![s] = q]
    BY <2>1 DEF q
  <2> QED
    BY <1>3, <2>2, <2>3, <2>4
<1>5. ASSUME NEW s \in Requests, request[s] # None, UNCHANGED <<policy, revision, edited>>,
             NEW approvals, NEW state, NEW released, NEW expires,
             NEW now \in Time, now >= request[s].last,
             request' = [request EXCEPT ![s] =
               Changed(request[s], approvals, state, released, expires, now)]
      PROVE  Unedited'
  <2> DEFINE q == Changed(request[s], approvals, state, released, expires, now)
  <2>1. request[s] \in Request
    BY <1>5 DEF ReleaseInv, TypeOK
  <2>2. /\ q.revision = request[s].revision /\ q.condition = request[s].condition
        /\ q.grant = request[s].grant /\ q.trustee = request[s].trustee
        /\ q.requested = request[s].requested /\ q.last = now
    BY <2>1 DEF Changed, Request
  <2> HIDE DEF q
  <2>3. request[s].requested \in Nat /\ request[s].last \in Nat /\ now \in Nat
    BY <2>1, <1>5, ReleaseAssumption DEF Request, Time
  <2>5. BegunUnder(request[s]) => BegunUnder(q)
    BY <1>5, <2>2, <2>3 DEF BegunUnder
  <2>4. request' = [request EXCEPT ![s] = q]
    BY <1>5 DEF q
  <2> QED
    BY <1>3, <1>5, <2>4, <2>5 DEF Unedited
<1>6. ASSUME NEW s \in Requests, NEW now \in Time,
             \/ \E person \in People : Approve(s, person, now)
             \/ Deny(s, now) \/ Revoke(s, now) \/ Release(s, now)
      PROVE  Unedited'
  <2> DEFINE o == request[s]
             Follows(q) == request' = [request EXCEPT ![s] = q]
  <2>1. o # None /\ o \in Request /\ UNCHANGED <<policy, revision, edited>>
    BY <1>6 DEF Approve, Deny, Revoke, Release, Update, ReleaseInv, TypeOK
  <2>2. now >= o.last
    BY <1>6, <2>1, Eligible DEF Approve, Deny, Revoke, Release
  <2>3. ASSUME NEW person \in People, Approve(s, person, now)
        PROVE  Follows(Changed(o, o.approvals \cup {person}, o.state, o.released, o.expires, now))
    BY <2>1, <2>3, Replaced DEF Approve, Update
  <2>4. ASSUME Deny(s, now)
        PROVE  Follows(Changed(o, o.approvals, "denied", o.released, o.expires, now))
    BY <2>1, <2>4, Replaced DEF Deny, Update
  <2>5. ASSUME Revoke(s, now)
        PROVE  Follows(Changed(o, o.approvals, "revoked", None, None, now))
    BY <2>1, <2>5, Replaced DEF Revoke, Update
  <2>6. ASSUME Release(s, now)
        PROVE  Follows(Changed(o, o.approvals, "released", now, EndOfRelease(o, now), now))
    BY <2>1, <2>6, Replaced DEF Release, Update
  <2>7. ASSUME NEW person \in People, Approve(s, person, now) PROVE Unedited'
    BY <1>5, <2>1, <2>2, <2>3, <2>7
  <2>8. CASE Deny(s, now)
    BY <1>5, <2>1, <2>2, <2>4, <2>8
  <2>9. CASE Revoke(s, now)
    BY <1>5, <2>1, <2>2, <2>5, <2>9
  <2>10. CASE Release(s, now)
    BY <1>5, <2>1, <2>2, <2>6, <2>10
  <2> QED
    BY <1>6, <2>7, <2>8, <2>9, <2>10
<1> QED
  BY <1>1, <1>2, <1>4, <1>6 DEF Next

(* While the item is as it was, the second copy of the policy rules judges a  *)
(* pending request as the first one judges its trustee and approvals.         *)
THEOREM StatusAgrees == Spec => []AgreesWithEvaluate
<1>1. Init => Unedited
  BY DEF Init, Unedited
<1>2. ReleaseInv /\ Unedited => AgreesWithEvaluate
  <2> SUFFICES ASSUME ReleaseInv, Unedited, NEW r \in Requests, NEW now \in Time, request[r] # None,
                      request[r].state = "pending", now >= request[r].last, ~edited[r]
               PROVE  LET q == request[r]
                          verdict == Evaluate(policy, q.condition, q.trustee, q.approvals)
                      IN CASE Status(q, now) = "awaiting" -> verdict = "awaiting"
                           [] Status(q, now) = "waiting"  ->
                                verdict = "waiting" /\ now < NotBefore(q)
                           [] OTHER -> Status(q, now) = "eligible"
                                         /\ verdict \in {"waiting", "granted"}
    BY DEF AgreesWithEvaluate
  <2> DEFINE q == request[r]
             found == GrantsFor(policy, q.trustee, q.condition)
             verdict == Evaluate(policy, q.condition, q.trustee, q.approvals)
  <2>1. q \in Request /\ BegunUnder(q)
    BY DEF ReleaseInv, TypeOK, Unedited
  <2>2. /\ ~(now < q.last) /\ q.requested \in Nat /\ q.grant.wait \in Nat /\ now \in Nat
        /\ NotBefore(q) \in Nat
    BY <2>1, ReleaseAssumption DEF Request, Grant, Time, NotBefore
  <2>3. PolicyMatches(q)
    BY <2>1 DEF BegunUnder, PolicyMatches, GrantsFor
  <2>4. Status(q, now) = PendingStatus(q, now)
    BY <2>2, <2>3 DEF Status
  <2>5. \A g \in found : g = q.grant
    BY <2>1 DEF BegunUnder, ValidPolicy, GrantsFor
  <2>6. (CHOOSE g \in found : TRUE) = q.grant /\ found # {}
    BY <2>1, <2>5 DEF BegunUnder
  <2>7. verdict = IF Awaiting(q.grant, q.approvals) THEN "awaiting"
                  ELSE IF q.grant.wait > 0 THEN "waiting" ELSE "granted"
    <3>1. ~(policy.destroy /\ q.condition = "death")
      BY <2>1 DEF BegunUnder, ClosedByDeath
    <3> QED
      BY <2>1, <2>6, <3>1 DEF Evaluate, BegunUnder
  <2>8. q.requested <= q.last /\ q.last \in Nat
    BY <2>1, ReleaseAssumption DEF BegunUnder, Request, Time
  <2>9. now < NotBefore(q) => q.grant.wait > 0
    BY <2>2, <2>8 DEF NotBefore
  <2> QED
    BY <2>4, <2>7, <2>9 DEF PendingStatus
<1> QED
  BY <1>1, <1>2, UneditedStep, ReleaseInvariant, PTL DEF Spec
=============================================================================
