---------------------------- MODULE ReleaseRequest ----------------------------
(***************************************************************************)
(* Conditional access to one vault item (vault-emergency): the owner's      *)
(* access policy, its evaluation, and the requests by which trustees ask    *)
(* for a timed release.                                                     *)
(*                                                                         *)
(* The policy is part of the item: to change it is to save a new revision   *)
(* of the item.  Every call brings the caller's time, which may be any      *)
(* 64-bit number; MaxTime is the largest.                                   *)
(***************************************************************************)
EXTENDS Integers, FiniteSets

CONSTANTS
  People,       \* trustees and approvers
  Grants,       \* the grants the owner may write
  Requests,     \* release requests
  MaxTime,      \* u64::MAX
  MaxRevision,  \* bound: the item's revisions in a run
  None

Condition == {"normal", "emergency", "incapacity", "death"}

Grant == [trustee : People, condition : Condition, wait : Nat, duration : Nat \cup {None},
          required : Nat, approvers : SUBSET People]

ASSUME ReleaseAssumption ==
  /\ IsFiniteSet(People)
  /\ Grants \subseteq Grant
  /\ MaxTime \in Nat /\ MaxRevision \in Nat
  /\ None \notin Nat \cup Grants

VARIABLES
  policy,    \* the item's access policy
  revision,  \* the item's revision
  request,   \* Requests -> ReleaseRequest or None
  edited     \* history: Requests -> the item was saved since the request began

vars == <<policy, revision, request, edited>>

Time == 0..MaxTime

Policy == [grants : SUBSET Grants, private : BOOLEAN, destroy : BOOLEAN]

Request ==
  [trustee : People, condition : Condition, revision : Nat, requested : Time, last : Time,
   stamp : Nat, grant : Grants, approvals : SUBSET People,
   state : {"pending", "released", "denied", "revoked"},
   released : Time \cup {None}, expires : Time \cup {None}]

ASSUME NoneAssumption == None \notin Request

TypeOK ==
  /\ policy \in Policy
  /\ revision \in Nat
  /\ request \in [Requests -> Request \cup {None}]
  /\ edited \in [Requests -> BOOLEAN]

Init ==
  /\ policy = [grants |-> {}, private |-> FALSE, destroy |-> FALSE]
  /\ revision = 1
  /\ request = [r \in Requests |-> None]
  /\ edited = [r \in Requests |-> FALSE]

-----------------------------------------------------------------------------
(* Policies.                                                                *)

(* Mutant: a trustee may be an approver of the own request.                  *)
ValidGrantSelf(g) == g.required <= Cardinality(g.approvers)

ValidGrant(g) ==
  g.required > 0 => g.required <= Cardinality(g.approvers) /\ g.trustee \notin g.approvers

ValidPolicy(p) ==
  \A g \in p.grants :
    /\ ValidGrant(g)
    /\ \A h \in p.grants : g.trustee = h.trustee /\ g.condition = h.condition => g = h

(* After death nothing is released that is destroyed or private forever.     *)
ClosedByDeath(p, condition) == condition = "death" /\ (p.destroy \/ p.private)

GrantsFor(p, trustee, condition) ==
  {g \in p.grants : g.trustee = trustee /\ g.condition = condition}

Received(g, approvals) == Cardinality(g.approvers \cap approvals)

Awaiting(g, approvals) == g.required > 0 /\ Received(g, approvals) < g.required

(* What the policy says to a trustee who presents approvals.                 *)
Evaluate(p, condition, trustee, approvals) ==
  LET found == GrantsFor(p, trustee, condition)
      g == CHOOSE n \in found : TRUE
  IN
  IF ValidPolicy(p) /\ p.destroy /\ condition = "death" THEN "destroyed"
  ELSE IF ~ValidPolicy(p) \/ ClosedByDeath(p, condition) \/ found = {} THEN "denied"
  ELSE IF Awaiting(g, approvals) THEN "awaiting"
  ELSE IF g.wait > 0 THEN "waiting"
  ELSE "granted"

-----------------------------------------------------------------------------
(* Requests.                                                                *)

NotBefore(q) == q.requested + q.grant.wait

(* Mutant: the grant is compared, the item's revision is not.                *)
PolicyMatchesAgain(q) ==
  ValidPolicy(policy) /\ ~ClosedByDeath(policy, q.condition) /\ q.grant \in policy.grants

PolicyMatches(q) ==
  /\ q.revision = revision
  /\ ValidPolicy(policy)
  /\ ~ClosedByDeath(policy, q.condition)
  /\ q.grant \in policy.grants

(* Mutant: once the waiting period is over no approval is asked for.         *)
PendingStatusWaits(q, now) ==
  IF now >= NotBefore(q) THEN "eligible"
  ELSE IF Awaiting(q.grant, q.approvals) THEN "awaiting"
  ELSE "waiting"

PendingStatus(q, now) ==
  IF Awaiting(q.grant, q.approvals) THEN "awaiting"
  ELSE IF now < NotBefore(q) THEN "waiting"
  ELSE "eligible"

ReleasedStatus(q, now) ==
  IF q.expires # None /\ now >= q.expires THEN "expired" ELSE "released"

Status(q, now) ==
  IF now < q.last THEN "time_rewind"
  ELSE IF q.state \in {"denied", "revoked"} THEN q.state
  ELSE IF ~PolicyMatches(q) THEN "policy_changed"
  ELSE IF q.state = "released" THEN ReleasedStatus(q, now)
  ELSE PendingStatus(q, now)

(* The owner saves the item, with another policy or with the same.           *)
SaveItem(p) ==
  /\ revision < MaxRevision
  /\ ValidPolicy(p)
  /\ policy' = p
  /\ revision' = revision + 1
  /\ edited' = [r \in Requests |-> edited[r] \/ request[r] # None]
  /\ UNCHANGED request

(* Neither the waiting period nor the duration after it may overflow.        *)
Fits(g, now) ==
  /\ now + g.wait <= MaxTime
  /\ g.duration # None => now + g.wait + g.duration <= MaxTime

Begin(r, trustee, condition, now) ==
  /\ request[r] = None
  /\ ValidPolicy(policy) /\ ~ClosedByDeath(policy, condition)
  /\ \E g \in GrantsFor(policy, trustee, condition) :
       /\ Fits(g, now)
       /\ request' = [request EXCEPT ![r] =
            [trustee |-> trustee, condition |-> condition, revision |-> revision,
             requested |-> now, last |-> now, stamp |-> 1, grant |-> g, approvals |-> {},
             state |-> "pending", released |-> None, expires |-> None]]
  /\ UNCHANGED <<policy, revision, edited>>

Update(r, q) ==
  /\ request' = [request EXCEPT ![r] = q]
  /\ UNCHANGED <<policy, revision, edited>>

Approved(q, approver, now) ==
  [q EXCEPT !.approvals = @ \cup {approver}, !.last = now, !.stamp = @ + 1]

(* A repeated approval changes nothing.                                     *)
Approve(r, approver, now) ==
  LET q == request[r] IN
  /\ q # None /\ now >= q.last /\ q.state = "pending"
  /\ approver \in q.grant.approvers \ q.approvals
  /\ Update(r, Approved(q, approver, now))

Denied(q, now) == [q EXCEPT !.state = "denied", !.last = now, !.stamp = @ + 1]

Deny(r, now) ==
  LET q == request[r] IN
  /\ q # None /\ now >= q.last /\ q.state = "pending"
  /\ Update(r, Denied(q, now))

Revoked(q, now) ==
  [q EXCEPT !.state = "revoked", !.released = None, !.expires = None,
            !.last = now, !.stamp = @ + 1]

Revoke(r, now) ==
  LET q == request[r] IN
  /\ q # None /\ now >= q.last /\ q.state \in {"pending", "released"}
  /\ Update(r, Revoked(q, now))

EndOfRelease(q, now) == IF q.grant.duration = None THEN None ELSE now + q.grant.duration

Released(q, now) ==
  [q EXCEPT !.state = "released", !.released = now, !.expires = EndOfRelease(q, now),
            !.last = now, !.stamp = @ + 1]

(* A release whose expiry would overflow fails and leaves the request alone. *)
Release(r, now) ==
  LET q == request[r] IN
  /\ q # None /\ Status(q, now) = "eligible"
  /\ EndOfRelease(q, now) \in Time \cup {None}
  /\ Update(r, Released(q, now))

Next ==
  \/ \E p \in Policy : SaveItem(p)
  \/ \E r \in Requests, now \in Time :
       \/ \E person \in People :
            (\E condition \in Condition : Begin(r, person, condition, now))
            \/ Approve(r, person, now)
       \/ Deny(r, now) \/ Revoke(r, now) \/ Release(r, now)

Spec == Init /\ [][Next]_vars
-----------------------------------------------------------------------------
(* Properties.                                                              *)

(* ReleaseRequest::release opens an item only to a trustee whose waiting period *)
(* is over and whose quorum of approvers, none of them the trustee, has agreed, *)
(* and while the item is what it was when the request began.                  *)
AccessEarned ==
  \A r \in Requests, now \in Time :
    LET q == request[r] IN
    q # None /\ Status(q, now) = "released" =>
      /\ ~edited[r]
      /\ now >= q.requested + q.grant.wait
      /\ q.grant.required <= Cardinality(q.approvals \ {q.trustee})

(* Once the item has been saved no call can open it by an older request       *)
(* again, even when the owner writes the same policy (policy_matches).        *)
EditFences ==
  \A r \in Requests, now \in Time :
    request[r] # None /\ edited[r] =>
      Status(request[r], now) \in {"time_rewind", "denied", "revoked", "policy_changed"}

(* The copy of the policy rules in status judges a pending request as         *)
(* evaluate, which knows no time, judges its trustee and approvals.           *)
AgreesWithEvaluate ==
  \A r \in Requests, now \in Time :
    LET q == request[r]
        verdict == Evaluate(policy, q.condition, q.trustee, q.approvals)
    IN
    q # None /\ q.state = "pending" /\ now >= q.last /\ ~edited[r] =>
      CASE Status(q, now) = "awaiting" -> verdict = "awaiting"
        [] Status(q, now) = "waiting"  -> verdict = "waiting" /\ now < NotBefore(q)
        [] OTHER -> Status(q, now) = "eligible" /\ verdict \in {"waiting", "granted"}

(* A change of a request by approve, deny, revoke or release advances the      *)
(* state_revision by one and never the clock backwards, so a coordinator that  *)
(* compares the revision it read sees every change of the request.             *)
StampFences ==
  [][\A r \in Requests :
       request[r] # None /\ request'[r] # request[r] =>
         request'[r].stamp = request[r].stamp + 1 /\ request'[r].last >= request[r].last]_vars

-----------------------------------------------------------------------------
(* The inductive invariant.                                                 *)

(* A request keeps a valid grant of its trustee and only approvals it asks for. *)
GrantHeld(q) ==
  /\ ValidGrant(q.grant)
  /\ q.trustee = q.grant.trustee
  /\ q.approvals \subseteq q.grant.approvers

(* A release was earned when it was made and is not ahead of the last event.  *)
ReleaseEarned(q) ==
  q.state = "released" =>
    /\ q.released \in Time
    /\ NotBefore(q) <= q.released /\ q.released <= q.last
    /\ ~Awaiting(q.grant, q.approvals)

(* The revision of a request is the item's until the item is saved.           *)
RevisionFences(r) ==
  /\ request[r].revision <= revision
  /\ edited[r] => request[r].revision < revision

(* What AccessEarned and EditFences rest on: ReleaseRequest keeps the grant,   *)
(* the item's revision and the times that begin_release_request and release    *)
(* have checked.                                                              *)
ReleaseInv ==
  /\ TypeOK
  /\ \A r \in Requests :
       /\ edited[r] => request[r] # None
       /\ request[r] # None =>
            GrantHeld(request[r]) /\ ReleaseEarned(request[r]) /\ RevisionFences(r)
=============================================================================
